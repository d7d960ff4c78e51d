--------------------------- MODULE OffsdLifecycle ---------------------------
(***************************************************************************)
(* The life of one offsd process and of its successors: _run_offsd's loop  *)
(* (load the pending config, write the PID file, start, listen, poll, tear *)
(* down, restart or exit), against everything that runs beside it: POSIX   *)
(* signals, the Windows service control thread, the pool worker that       *)
(* serves a config reload, programs that write the pending config file,    *)
(* and the shutdown watchdog.  src/offsd/main.c unless said otherwise.     *)
(*                                                                         *)
(* A pending config is known by its version: the number of saves the file  *)
(* has seen.  0 stands for "no staged config", that is config_default().   *)
(***************************************************************************)
EXTENDS Naturals

CONSTANTS
  MaxSaves,     \* bound: how many times the pending file is saved
  Malformed     \* the versions config_pending_load cannot parse

ASSUME SavesAssumption == MaxSaves \in Nat /\ Malformed \subseteq 1..MaxSaves

VARIABLES
  windows,            \* the _WIN32 build, as opposed to the POSIX one
  main,               \* where the main thread is
  running,            \* server.node.running
  handlers,           \* g_node set and the signal handlers installed
  actor,              \* what g_update_actor points to
  stop_requested,     \* g_stop_requested of the Windows service bridge
  restart_requested,  \* g_restart_requested
  shutdown_active,    \* g_shutdown_active
  watchdog,           \* the watchdog thread
  worker,             \* a reload request and the pool worker that serves it
  saved,              \* version of the pending config file
  fresh,              \* config_pending_exists() = 1: saved and not yet applied
  pidfile,            \* the PID file: this process's, a dead predecessor's, none
  cfg,                \* the override the next _startup gets
  config,             \* server.config, the settings in force
  exit,               \* how the process ended
  acked,              \* history: version on disk when a reload was last accepted
  sigstop             \* history: a SIGINT/SIGTERM reached the installed handler

process == <<running, handlers, actor, stop_requested>>
threads == <<shutdown_active, watchdog, worker>>
files == <<saved, fresh, pidfile>>
configs == <<cfg, config>>
history == <<acked, sigstop>>
vars == <<windows, main, process, restart_requested, threads, files, configs, exit, history>>

Starting == {"load", "mark", "pid", "begin", "populate", "attach", "abort", "hooks"}
\* Some listener takes requests: from the first listen to http_server_stop.
Accepting == {"listen", "poll", "arm", "create", "transports", "network", "http"}
\* The pool's workers run: until scheduler_pool_stop.
Serving == Accepting \cup {"pool"}
\* _shutdown, from the store that arms the watchdog to the one that disarms it.
Teardown == {"create", "transports", "network", "http", "pool", "destroy",
             "actor", "forget", "config", "unlink", "disarm"}
Places == Starting \cup Serving \cup Teardown \cup {"decide", "clear", "exited"}
Versions == 0..MaxSaves

TypeOK ==
  /\ windows \in BOOLEAN /\ main \in Places
  /\ running \in BOOLEAN /\ handlers \in BOOLEAN
  /\ actor \in {"null", "live", "destroyed"}
  /\ stop_requested \in BOOLEAN /\ restart_requested \in BOOLEAN
  /\ shutdown_active \in BOOLEAN
  /\ watchdog \in {"none", "asleep", "grace"}
  /\ worker \in {"idle", "queued", "exists"}
  /\ saved \in Versions /\ fresh \in BOOLEAN /\ pidfile \in {"none", "own", "stale"}
  /\ cfg \in Versions /\ config \in Versions
  /\ exit \in {"no", "ok", "failed", "forced", "killed"}
  /\ acked \in Versions /\ sigstop \in BOOLEAN

Init ==
  /\ windows \in BOOLEAN /\ main = "load"
  /\ running = FALSE /\ handlers = FALSE /\ actor = "null"
  /\ stop_requested = FALSE /\ restart_requested = FALSE
  /\ shutdown_active = FALSE /\ watchdog = "none" /\ worker = "idle"
  /\ saved = 0 /\ fresh = FALSE /\ pidfile = "none"
  /\ cfg = 0 /\ config = 0
  /\ exit = "no" /\ acked = 0 /\ sigstop = FALSE

Go(from, to) == main = from /\ main' = to
End(how) == main' = "exited" /\ exit' = how
Alive == main # "exited"

-----------------------------------------------------------------------------
(* Plausible slips in the code, for the mutation checks. *)

ReloadUnchecked ==
  /\ main \in Serving /\ worker = "queued" /\ worker' = "exists"
  /\ UNCHANGED <<windows, main, process, restart_requested, shutdown_active, watchdog,
                 files, configs, exit, history>>

ListenClears ==   \* g_restart_requested = 0 in front of the poll loop as well
  /\ Go("listen", "poll")
  /\ restart_requested' = FALSE
  /\ UNCHANGED <<windows, process, threads, files, configs, exit, history>>

StartupRereads ==   \* _startup reads the pending file instead of its override
  /\ Go("populate", "attach")
  /\ running' = TRUE
  /\ config' = saved /\ cfg' = 0
  /\ UNCHANGED <<windows, handlers, actor, stop_requested, restart_requested, threads, files,
                 exit, history>>

LeavePollNoRestart ==
  /\ (~running \/ stop_requested) /\ Go("poll", "arm")
  /\ UNCHANGED <<windows, process, restart_requested, threads, files, configs, exit, history>>

LeavePollNoScm ==
  /\ (~running \/ restart_requested) /\ Go("poll", "arm")
  /\ UNCHANGED <<windows, process, restart_requested, threads, files, configs, exit, history>>

LeavePollOnRestartOnly ==
  /\ (stop_requested \/ restart_requested) /\ Go("poll", "arm")
  /\ UNCHANGED <<windows, process, restart_requested, threads, files, configs, exit, history>>

AbortKeepsPid ==
  /\ main = "abort" /\ End("failed")
  /\ UNCHANGED <<windows, process, restart_requested, threads, files, configs, history>>

-----------------------------------------------------------------------------
(* The main thread: _run_offsd. *)

\* _load_pending_override up to config_pending_load.  A file that does not
\* parse voids the promise of the reload that announced it.
LoadPending ==
  /\ main = "load"
  /\ \/ /\ ~fresh \/ saved \in Malformed
        /\ main' = "pid" /\ cfg' = 0
        /\ acked' = IF fresh THEN 0 ELSE acked
     \/ /\ fresh /\ saved \notin Malformed
        /\ main' = "mark" /\ cfg' = saved
        /\ UNCHANGED acked
  /\ UNCHANGED <<windows, process, restart_requested, threads, files, config, exit, sigstop>>

\* config_pending_mark_applied; its result is ignored, and it may fail.
MarkApplied ==
  /\ Go("mark", "pid")
  /\ fresh' \in {FALSE, fresh}
  /\ UNCHANGED <<windows, process, restart_requested, threads, saved, pidfile, configs,
                 exit, history>>

\* _write_pid_file with --pid-file given; without one there is no file at all.
WritePid ==
  /\ main = "pid"
  /\ \/ main' = "begin" /\ pidfile' = "own" /\ UNCHANGED exit
     \/ End("failed") /\ UNCHANGED pidfile     \* a predecessor's file stays
  /\ UNCHANGED <<windows, process, restart_requested, threads, saved, fresh, configs, history>>

\* _startup clears the whole server, node.running included ...
StartupBegin ==
  /\ Go("begin", "populate")
  /\ running' = FALSE
  /\ UNCHANGED <<windows, handlers, actor, stop_requested, restart_requested, threads, files,
                 configs, exit, history>>

\* ... takes over the override, creates the components and fills in the node ...
StartupPopulate ==
  /\ Go("populate", "attach")
  /\ running' = TRUE
  /\ config' = cfg /\ cfg' = 0
  /\ UNCHANGED <<windows, handlers, actor, stop_requested, restart_requested, threads, files,
                 exit, history>>

\* ... then the transports and, on POSIX only, the update actor.
StartupAttach ==
  /\ Go("attach", "hooks")
  /\ actor' \in IF windows THEN {"null"} ELSE {"live", "null"}
  /\ UNCHANGED <<windows, running, handlers, stop_requested, restart_requested, threads, files,
                 configs, exit, history>>

StartupFails ==
  /\ main \in {"begin", "populate", "attach"}
  /\ main' = "abort"
  /\ cfg' = 0
  /\ UNCHANGED <<windows, process, restart_requested, threads, files, config, exit, history>>

AbortStart ==
  /\ main = "abort" /\ End("failed")
  /\ pidfile' = "none"
  /\ UNCHANGED <<windows, process, restart_requested, threads, saved, fresh, configs, history>>

InstallHandlers ==
  /\ Go("hooks", "listen")
  /\ handlers' = TRUE
  /\ UNCHANGED <<windows, running, actor, stop_requested, restart_requested, threads, files,
                 configs, exit, history>>

StartListening ==
  /\ Go("listen", "poll")
  /\ UNCHANGED <<windows, process, restart_requested, threads, files, configs, exit, history>>

LeavePoll ==
  /\ ~running \/ stop_requested \/ restart_requested
  /\ Go("poll", "arm")
  /\ UNCHANGED <<windows, process, restart_requested, threads, files, configs, exit, history>>

Arm ==
  /\ Go("arm", "create")
  /\ shutdown_active' = TRUE
  /\ UNCHANGED <<windows, process, restart_requested, watchdog, worker, files, configs, exit,
                 history>>

\* The thread is created once; a failed creation leaves the pointer NULL.
CreateWatchdog ==
  /\ Go("create", "transports")
  /\ watchdog' \in IF watchdog = "none" THEN {"none", "asleep"} ELSE {watchdog}
  /\ UNCHANGED <<windows, process, restart_requested, shutdown_active, worker, files, configs,
                 exit, history>>

StopTransports ==
  /\ Go("transports", "network")
  /\ UNCHANGED <<windows, process, restart_requested, threads, files, configs, exit, history>>

StopNetwork ==
  /\ Go("network", "http")
  /\ UNCHANGED <<windows, process, restart_requested, threads, files, configs, exit, history>>

StopHttp ==
  /\ Go("http", "pool")
  /\ UNCHANGED <<windows, process, restart_requested, threads, files, configs, exit, history>>

\* scheduler_pool_stop joins the workers: a handler in progress finishes first,
\* a request still queued is dropped.
StopPool ==
  /\ worker # "exists"
  /\ Go("pool", "destroy")
  /\ worker' = "idle"
  /\ UNCHANGED <<windows, process, restart_requested, shutdown_active, watchdog, files, configs,
                 exit, history>>

DestroyComponents ==
  /\ Go("destroy", "actor")
  /\ UNCHANGED <<windows, process, restart_requested, threads, files, configs, exit, history>>

\* update_actor_destroy, and only then g_update_actor = NULL.
DestroyUpdateActor ==
  /\ Go("actor", "forget")
  /\ actor' = IF actor = "live" THEN "destroyed" ELSE actor
  /\ UNCHANGED <<windows, running, handlers, stop_requested, restart_requested, threads, files,
                 configs, exit, history>>

ForgetUpdateActor ==
  /\ Go("forget", "config")
  /\ actor' = "null"
  /\ UNCHANGED <<windows, running, handlers, stop_requested, restart_requested, threads, files,
                 configs, exit, history>>

FreeConfig ==
  /\ Go("config", "unlink")
  /\ UNCHANGED <<windows, process, restart_requested, threads, files, configs, exit, history>>

RemovePid ==
  /\ Go("unlink", "disarm")
  /\ pidfile' = "none"
  /\ UNCHANGED <<windows, process, restart_requested, threads, saved, fresh, configs, exit,
                 history>>

Disarm ==
  /\ Go("disarm", "decide")
  /\ shutdown_active' = FALSE
  /\ UNCHANGED <<windows, process, restart_requested, watchdog, worker, files, configs, exit,
                 history>>

\* Restart in place when a reload was requested, return 0 otherwise.
Decide ==
  /\ main = "decide"
  /\ IF restart_requested
       THEN main' = "clear" /\ UNCHANGED exit
       ELSE End("ok")
  /\ UNCHANGED <<windows, process, restart_requested, threads, files, configs, history>>

ClearRestart ==
  /\ Go("clear", "load")
  /\ restart_requested' = FALSE
  /\ UNCHANGED <<windows, process, threads, files, configs, exit, history>>

MainStep ==
  \/ LoadPending \/ MarkApplied \/ WritePid
  \/ StartupBegin \/ StartupPopulate \/ StartupAttach \/ StartupFails \/ AbortStart
  \/ InstallHandlers \/ StartListening \/ LeavePoll
  \/ Arm \/ CreateWatchdog \/ StopTransports \/ StopNetwork \/ StopHttp \/ StopPool
  \/ DestroyComponents \/ DestroyUpdateActor \/ ForgetUpdateActor \/ FreeConfig
  \/ RemovePid \/ Disarm \/ Decide \/ ClearRestart

-----------------------------------------------------------------------------
(* The reload request, on a pool worker: the library's handler answers      *)
(* "no pending config" unless config_pending_exists, else calls back.       *)

ReloadArrives ==
  /\ main \in Accepting /\ worker = "idle"
  /\ worker' = "queued"
  /\ UNCHANGED <<windows, main, process, restart_requested, shutdown_active, watchdog,
                 files, configs, exit, history>>

ReloadCheck ==
  /\ main \in Serving /\ worker = "queued"
  /\ worker' = IF fresh THEN "exists" ELSE "idle"
  /\ UNCHANGED <<windows, main, process, restart_requested, shutdown_active, watchdog,
                 files, configs, exit, history>>

\* _request_restart, and status 0 to the client.
RequestRestart ==
  /\ Alive /\ worker = "exists"
  /\ worker' = "idle"
  /\ restart_requested' = TRUE
  /\ acked' = saved
  /\ UNCHANGED <<windows, main, process, shutdown_active, watchdog, files, configs, exit, sigstop>>

-----------------------------------------------------------------------------
(* Signals and the service control manager. *)

\* SIGINT, and SIGTERM on POSIX: the default action until the handlers are there.
SignalStop ==
  /\ Alive
  /\ IF handlers
       THEN /\ running' = FALSE /\ sigstop' = TRUE
            /\ UNCHANGED <<main, exit>>
       ELSE End("killed") /\ UNCHANGED <<running, sigstop>>
  /\ UNCHANGED <<windows, handlers, actor, stop_requested, restart_requested, threads, files,
                 configs, acked>>

\* SIGHUP asks the update actor to check now; with no actor it stops the daemon.
SignalHangup ==
  /\ ~windows /\ Alive
  /\ IF ~handlers THEN End("killed") ELSE UNCHANGED <<main, exit>>
  /\ running' = IF handlers /\ actor = "null" THEN FALSE ELSE running
  /\ UNCHANGED <<windows, handlers, actor, stop_requested, restart_requested, threads, files,
                 configs, history>>

ServiceStopHandler == running' = FALSE

\* _service_ctrl_handler records the stop and calls the handler once registered.
ScmStop ==
  /\ windows /\ Alive
  /\ stop_requested' = TRUE
  /\ IF handlers THEN ServiceStopHandler ELSE UNCHANGED running
  /\ UNCHANGED <<windows, main, handlers, actor, restart_requested, threads, files, configs,
                 exit, history>>

-----------------------------------------------------------------------------
(* The watchdog thread: when its sleep ends during a teardown it ends the    *)
(* process, on POSIX after 100 ms more and without looking at the flag again.*)

WatchdogWakes ==
  /\ Alive /\ watchdog = "asleep" /\ shutdown_active
  /\ IF windows
       THEN End("forced") /\ UNCHANGED watchdog
       ELSE watchdog' = "grace" /\ UNCHANGED <<main, exit>>
  /\ UNCHANGED <<windows, process, restart_requested, shutdown_active, worker, files, configs,
                 history>>

WatchdogExits ==
  /\ Alive /\ watchdog = "grace"
  /\ End("forced")
  /\ UNCHANGED <<windows, process, restart_requested, threads, files, configs, history>>

-----------------------------------------------------------------------------
(* Outside the process. *)

\* config_pending_save, by a config set request or by an offs command that
\* writes the file itself whether or not a daemon runs.
SavePending ==
  /\ saved < MaxSaves
  /\ saved' = saved + 1 /\ fresh' = TRUE
  /\ UNCHANGED <<windows, main, process, restart_requested, threads, pidfile, configs, exit,
                 history>>

\* The service manager or the operator starts the daemon again.
Respawn ==
  /\ main = "exited" /\ main' = "load"
  /\ running' = FALSE /\ handlers' = FALSE /\ actor' = "null"
  /\ stop_requested' = FALSE /\ restart_requested' = FALSE
  /\ shutdown_active' = FALSE /\ watchdog' = "none" /\ worker' = "idle"
  /\ cfg' = 0 /\ config' = 0 /\ exit' = "no"
  /\ acked' = 0 /\ sigstop' = FALSE
  /\ pidfile' = IF pidfile = "none" THEN "none" ELSE "stale"
  /\ UNCHANGED <<windows, saved, fresh>>

Environment == SignalStop \/ SignalHangup \/ ScmStop \/ SavePending \/ Respawn

Next ==
  \/ MainStep
  \/ ReloadArrives \/ ReloadCheck \/ RequestRestart
  \/ WatchdogWakes \/ WatchdogExits
  \/ Environment

\* The main thread and the pool are scheduled, and library calls return: what
\* happens when one does not is the subject of module ShutdownWatchdog.
Fairness == WF_vars(MainStep) /\ WF_vars(RequestRestart)

Spec == Init /\ [][Next]_vars /\ Fairness

-----------------------------------------------------------------------------
(* Properties *)

\* The settings in force, or those a starting server is about to take over.
Effective == IF main \in {"mark", "pid", "begin", "populate"} THEN cfg ELSE config

\* A requested restart always has an unapplied pending config to load, from the
\* moment the reload handler looks at the file until _load_pending_override
\* opens it: an in-place reload never falls back to config_default() because
\* the file it was promised has been consumed.
ReloadFindsPending ==
  /\ worker = "exists" => fresh
  /\ restart_requested => fresh
  /\ (main = "load" /\ handlers) => fresh

\* Settings on disk when a reload was accepted are in force (or newer ones are)
\* in every later incarnation of the server: the flag is cleared before the file
\* is read, so no accepted reload is lost.
AckedReloadApplies ==
  (main \notin {"load", "abort", "exited"} /\ ~restart_requested) => acked <= Effective

\* A serving daemon has its PID file, a clean exit leaves none, and a failed
\* startup none of its own: a PID that _write_pid_file wrote outlives its process
\* only after a kill or the watchdog.
PidFileTracksDaemon ==
  /\ main \in (Serving \cup Teardown) \ {"disarm"} => pidfile = "own"
  /\ exit = "ok" => pidfile = "none"
  /\ exit = "failed" => pidfile # "own"

\* While a reload handler runs, the pool it runs on has not been stopped.
WorkerOnLivePool == (Alive /\ worker = "exists") => main \in Serving

\* An accepted reload ends in a restart (the config is loaded again) or in the
\* end of the process; the worker only sets a flag, so nothing deadlocks.
ReloadCompletes == restart_requested ~> (main = "load" \/ main = "exited")

\* Once the service manager asked for a stop, the process ends, provided clients
\* do not keep requesting reloads for ever: the flag survives restarts.
ScmStopEnds == (<>[]~restart_requested) => (stop_requested ~> main = "exited")

\* In a process that is never reloaded, SIGINT or SIGTERM ends it.
SignalEndsUnreloaded == ([]~restart_requested) => (sigstop ~> main = "exited")

-----------------------------------------------------------------------------
(* What the repository says of the code and the code does not always do; the *)
(* README names the circumstances.                                           *)

\* SIGINT and SIGTERM shut the daemon down (main.c header: "Signal handlers for
\* graceful shutdown (SIGINT/SIGTERM)"), whatever reload is in progress.
SignalEnds == (<>[]~restart_requested) => (sigstop ~> main = "exited")

\* Marking the pending file applied never consumes a config that was not loaded:
\* a change "staged" while the daemon starts "applies at the next daemon start".
OnlyLoadedIsConsumed == [][(fresh /\ ~fresh') => cfg = saved]_vars

\* ExecReload=/bin/kill -HUP: a hangup the handler takes never stops the daemon.
HangupKeepsRunning ==
  [][(SignalHangup /\ handlers /\ ~sigstop') => running' = running]_vars

-----------------------------------------------------------------------------
(* The daemon implements ReloadService: it is stopping until the config for   *)
(* the next cycle is read, and down as soon as it is certain to exit.         *)

Down == main \in {"exited", "abort"}
Restarting == main = "load" /\ handlers

ServicePhase ==
  IF Down THEN "down"
  ELSE IF main \in {"listen", "poll"} THEN "up"
  ELSE IF main \in Starting /\ ~Restarting THEN "starting"
  ELSE "stopping"
InForce == IF Down THEN 0 ELSE Effective
Promised == IF Down THEN 0 ELSE acked
Outstanding == ~Down /\ (restart_requested \/ Restarting)

Promises == INSTANCE ReloadService WITH
  phase <- ServicePhase, inforce <- InForce,
  promised <- Promised, outstanding <- Outstanding

\* Every step of the process, its threads and its environment is a step of the
\* abstract service or changes nothing that the service shows.
ImplementsReloadService == Promises!Spec
=============================================================================

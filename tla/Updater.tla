------------------------------- MODULE Updater -------------------------------
(***************************************************************************)
(* offs-updater (src/Updater/updater_main.c) and the service ops it drives *)
(* (src/Service/service_linux.c, service_macos.c, service_windows.c): stop *)
(* the daemon, copy the new binaries, exec a temporary copy of the new     *)
(* updater that copies them again and itself, start the daemon, and roll   *)
(* back if it does not run.  A daemon binary is "old", "new" or, after a   *)
(* cut-off copy, "broken".                                                 *)
(***************************************************************************)
EXTENDS Naturals

CONSTANTS
  Polls,        \* polls in each wait loop (timeout_ms / interval_ms)
  MaxCrashes    \* bound: crashes of a running daemon

ASSUME UpdaterAssumption == Polls \in Nat \ {0} /\ MaxCrashes \in Nat

Files == {"offs-daemon", "offs-cli", "offs-updater"}
Images == {"old", "new", "broken"}

VARIABLES
  platform,       \* whose service ops the updater is built with
  pc,             \* where the updater is
  finish,         \* running as the temporary copy, with --finish
  copied,         \* the files this incarnation has tried to copy
  polls,          \* polls done in the current wait loop
  installed,      \* the binaries in the install directory
  service_state,  \* the manager's view: "active", "inactive", "restarting" (to be
                  \* restarted), or the pending states of Windows
  crashes,        \* how often the daemon has crashed
  pidfile,        \* PID_FILE exists
  exit,           \* the updater's exit status, or "none"
  intact          \* history: no restore from the backup was cut short

progress == <<pc, finish, copied, polls>>
system == <<installed, service_state, crashes>>
updater_vars == <<platform, progress, system, pidfile, exit, intact>>

Platforms == {"linux", "macos", "windows"}

UpdaterTypeOK ==
  /\ platform \in Platforms
  /\ pc \in {"begin", "stop", "waitstop", "copy", "exec", "start", "waitstart", "check",
             "undo", "waitundo", "restore", "redo", "waitredo", "done"}
  /\ finish \in BOOLEAN /\ copied \in SUBSET Files
  /\ polls \in 0..Polls
  /\ installed \in [Files -> Images]
  /\ service_state \in {"active", "inactive"} \cup
       IF platform = "windows" THEN {"starting", "stopping"} ELSE {"restarting"}
  /\ crashes \in 0..MaxCrashes
  /\ pidfile \in BOOLEAN /\ exit \in {"none", "0", "1"} /\ intact \in BOOLEAN

UpdaterInit ==
  /\ platform \in Platforms
  /\ pc = "begin" /\ finish = FALSE /\ copied = {} /\ polls = 0
  /\ installed = [f \in Files |-> "old"]
  /\ service_state \in {"active", "inactive"} /\ crashes = 0
  /\ pidfile = FALSE /\ exit = "none" /\ intact = TRUE

-----------------------------------------------------------------------------
(* The service ops: what is_running, wait_for_stop and wait_for_start take for *)
(* running and stopped, and what stop and start may do to a service.           *)

\* `systemctl is-active`: a unit that waits to be restarted counts as stopped.
LinuxRunning(s) == s = "active"

\* `launchctl list`: a job is running as long as it is loaded.
MacosRunning(s) == s # "inactive"

\* QueryServiceStatus: SERVICE_RUNNING.
WindowsRunning(s) == s = "active"

\* SERVICE_STOPPED, which STOP_PENDING and START_PENDING are not.
WindowsStopped(s) == s = "inactive"

SeenRunning ==
  CASE platform = "linux" -> LinuxRunning(service_state)
    [] platform = "macos" -> MacosRunning(service_state)
    [] platform = "windows" -> WindowsRunning(service_state)
SeenStopped ==
  IF platform = "windows" THEN WindowsStopped(service_state) ELSE ~SeenRunning

\* Whether a wait may end without an answer: it has polled to its timeout, or the
\* service control manager does not answer.
Unanswered == polls = Polls \/ platform = "windows"

\* systemctl stop and launchctl bootout: the service is stopped, or nothing happens.
LinuxStop(s) == {"inactive", s}
MacosStop(s) == {"inactive", s}

\* ControlService: only a running service accepts it, and may still be stopping
\* when the op gives up.
WindowsStop(s) == IF s = "active" THEN {"inactive", "stopping", s} ELSE {s}

StopOutcomes ==
  CASE platform = "linux" -> LinuxStop(service_state)
    [] platform = "macos" -> MacosStop(service_state)
    [] platform = "windows" -> WindowsStop(service_state)

Runnable == installed["offs-daemon"] # "broken"

\* systemctl start: a daemon that does not come up is left to be restarted.
LinuxStart(s) ==
  IF s = "active" THEN {s} ELSE {s, "restarting"} \cup {t \in {"active"} : Runnable}

\* launchctl bootstrap fails for a job that is loaded.
MacosStart(s) ==
  IF s # "inactive" THEN {s} ELSE {s, "restarting"} \cup {t \in {"active"} : Runnable}

\* StartService: only a stopped service can be started, and it is first pending.
WindowsStart(s) ==
  IF s # "inactive" THEN {s} ELSE {s} \cup {t \in {"starting", "active"} : Runnable}

StartOutcomes ==
  CASE platform = "linux" -> LinuxStart(service_state)
    [] platform = "macos" -> MacosStart(service_state)
    [] platform = "windows" -> WindowsStart(service_state)

\* The binaries that can be written: Windows locks one that is being executed.
Writable ==
  IF platform = "windows" /\ service_state # "inactive" THEN Files \ {"offs-daemon"} ELSE Files

-----------------------------------------------------------------------------
(* Plausible slips in the code, for the mutation checks. *)

TimeoutIgnored ==
  /\ pc = "waitstop" /\ polls = Polls
  /\ pc' = "copy" /\ polls' = 0
  /\ UNCHANGED <<platform, finish, copied, system, pidfile, exit, intact>>

StartTrusted ==
  /\ pc = "check" /\ pc' = "done" /\ exit' = "0"
  /\ pidfile' = FALSE
  /\ UNCHANGED <<platform, finish, copied, polls, system, intact>>

RestoreSkipped ==
  /\ pc = "restore" /\ pc' = "redo"
  /\ UNCHANGED <<platform, finish, copied, polls, system, pidfile, exit, intact>>

PollForever(from, to) ==   \* waits until the service is running
  /\ pc = from /\ SeenRunning
  /\ pc' = to /\ polls' = 0
  /\ UNCHANGED <<platform, finish, copied, system, pidfile, exit, intact>>

-----------------------------------------------------------------------------
(* The updater. *)

\* Write the PID file; a --finish incarnation goes straight to copying.
Begin ==
  /\ pc = "begin"
  /\ pc' = IF finish THEN "copy" ELSE "stop"
  /\ pidfile' \in {TRUE, pidfile}
  /\ UNCHANGED <<platform, finish, copied, polls, system, exit, intact>>

\* svc->stop, its result ignored.
StopService(from, to) ==
  /\ pc = from /\ pc' = to
  /\ service_state' \in StopOutcomes
  /\ polls' = 0
  /\ UNCHANGED <<platform, finish, copied, installed, crashes, pidfile, exit, intact>>

\* One poll of wait_for_stop.
PollStopped(from, to) ==
  /\ pc = from /\ polls < Polls
  /\ IF SeenStopped
       THEN pc' = to /\ polls' = 0
       ELSE pc' = from /\ polls' = polls + 1
  /\ UNCHANGED <<platform, finish, copied, system, pidfile, exit, intact>>

\* "Timeout waiting for daemon to stop", or an error: return 1 at once.
StopTimesOut ==
  /\ pc = "waitstop" /\ Unanswered
  /\ pc' = "done" /\ exit' = "1"
  /\ UNCHANGED <<platform, finish, copied, polls, system, pidfile, intact>>

\* What each incarnation copies; the temporary copy also replaces the updater.
ToCopy == IF finish THEN Files ELSE Files \ {"offs-updater"}

\* _copy_file, its result ignored: the file is copied, cannot be opened, or is
\* cut short by a write that nobody checks.  (The code's order is fixed; nothing
\* depends on it.)
CopyFile(f) ==
  /\ pc = "copy" /\ f \in ToCopy \ copied
  /\ copied' = copied \cup {f}
  /\ \E image \in IF f \in Writable THEN {installed[f], "new", "broken"} ELSE {installed[f]} :
       installed' = [installed EXCEPT ![f] = image]
  /\ UNCHANGED <<platform, pc, finish, polls, service_state, crashes, pidfile, exit, intact>>

CopyDone ==
  /\ pc = "copy" /\ copied = ToCopy
  /\ pc' = IF finish THEN "start" ELSE "exec"
  /\ UNCHANGED <<platform, finish, copied, polls, system, pidfile, exit, intact>>

\* Copy the new updater to a temporary file and exec it, or carry on without.
Exec ==
  /\ pc = "exec"
  /\ \/ pc' = "begin" /\ finish' = TRUE /\ copied' = {}
     \/ pc' = "start" /\ UNCHANGED <<finish, copied>>
  /\ UNCHANGED <<platform, polls, system, pidfile, exit, intact>>

\* svc->start, its result ignored.
StartService(from, to) ==
  /\ pc = from /\ pc' = to
  /\ service_state' \in StartOutcomes
  /\ polls' = 0
  /\ UNCHANGED <<platform, finish, copied, installed, crashes, pidfile, exit, intact>>

PollStarted(from, to) ==
  /\ pc = from /\ polls < Polls
  /\ IF SeenRunning
       THEN pc' = to /\ polls' = 0
       ELSE pc' = from /\ polls' = polls + 1
  /\ UNCHANGED <<platform, finish, copied, system, pidfile, exit, intact>>

\* A wait whose failure is only logged.
TimesOut(from, to) ==
  /\ pc = from /\ Unanswered
  /\ pc' = to /\ polls' = 0
  /\ UNCHANGED <<platform, finish, copied, system, pidfile, exit, intact>>

\* is_running decides between success and rollback; without an answer it is 0.
Check ==
  /\ pc = "check"
  /\ \/ SeenRunning /\ pc' = "done" /\ exit' = "0" /\ pidfile' = FALSE
     \/ (~SeenRunning \/ platform = "windows") /\ pc' = "undo" /\ UNCHANGED <<exit, pidfile>>
  /\ UNCHANGED <<platform, finish, copied, polls, system, intact>>

\* _restore_backup: cp -r or xcopy, which may restore only some files.
Restore ==
  /\ pc = "restore" /\ pc' = "redo"
  /\ \E some \in SUBSET Writable :
       /\ installed' = [f \in Files |-> IF f \in some THEN "old" ELSE installed[f]]
       /\ intact' = (intact /\ some = Files)
  /\ UNCHANGED <<platform, finish, copied, polls, service_state, crashes, pidfile, exit>>

\* After the rollback's start: remove the PID file and return 1.
RollbackComplete ==
  /\ pc = "waitredo" /\ (SeenRunning \/ Unanswered)
  /\ pc' = "done" /\ exit' = "1" /\ pidfile' = FALSE
  /\ UNCHANGED <<platform, finish, copied, polls, system, intact>>

PollRedo ==
  /\ pc = "waitredo" /\ polls < Polls /\ ~SeenRunning
  /\ polls' = polls + 1
  /\ UNCHANGED <<platform, pc, finish, copied, system, pidfile, exit, intact>>

UpdaterStep ==
  \/ Begin
  \/ StopService("stop", "waitstop") \/ PollStopped("waitstop", "copy") \/ StopTimesOut
  \/ \E f \in Files : CopyFile(f)
  \/ CopyDone \/ Exec
  \/ StartService("start", "waitstart")
  \/ PollStarted("waitstart", "check") \/ TimesOut("waitstart", "check")
  \/ Check
  \/ StopService("undo", "waitundo")
  \/ PollStopped("waitundo", "restore") \/ TimesOut("waitundo", "restore")
  \/ Restore
  \/ StartService("redo", "waitredo") \/ PollRedo \/ RollbackComplete

-----------------------------------------------------------------------------
(* The service managers: Restart=on-failure in the systemd unit, KeepAlive in  *)
(* the launchd job, no recovery actions for the Windows service.               *)

DaemonCrashes ==
  /\ service_state = "active" /\ crashes < MaxCrashes
  /\ service_state' = IF platform = "windows" THEN "inactive" ELSE "restarting"
  /\ crashes' = crashes + 1
  /\ UNCHANGED <<platform, progress, installed, pidfile, exit, intact>>

AutoRestart ==
  /\ service_state = "restarting" /\ Runnable
  /\ service_state' = "active"
  /\ UNCHANGED <<platform, progress, installed, crashes, pidfile, exit, intact>>

\* A pending start or stop comes to its end.
PendingEnds ==
  /\ \/ service_state = "starting" /\ service_state' \in {"active", "inactive"}
     \/ service_state = "stopping" /\ service_state' = "inactive"
  /\ UNCHANGED <<platform, progress, installed, crashes, pidfile, exit, intact>>

UpdaterNext == UpdaterStep \/ DaemonCrashes \/ AutoRestart \/ PendingEnds

\* The updater runs; its wait loops are bounded, so nothing is assumed of the
\* service manager.
UpdaterSpec == UpdaterInit /\ [][UpdaterNext]_updater_vars /\ WF_updater_vars(UpdaterStep)

-----------------------------------------------------------------------------
(* Properties *)

\* No binary is overwritten under a running daemon.  On Linux a crash may upset
\* this: a unit that waits to be restarted counts as stopped.
NoOverwriteWhileRunning ==
  (pc = "copy" /\ (crashes = 0 \/ platform # "linux")) => service_state # "active"

\* An update reported as a success has left a daemon that runs, whose binary was not
\* cut short while it was copied, if it has not crashed since: is_running would
\* have noticed.  On macOS it would not: a job that crashes again and again is loaded.
SuccessMeansRunning ==
  (exit = "0" /\ crashes = 0 /\ platform # "macos") => service_state = "active" /\ Runnable

\* A failed update ends with the old binaries, unless restoring them was cut
\* short: on a stop timeout nothing was copied, later everything is rolled back.
FailureLeavesOld == (exit = "1" /\ intact) => \A f \in Files : installed[f] = "old"

\* The updater always returns, whatever the service does.
UpdaterReturns == <>(pc = "done")

-----------------------------------------------------------------------------
(* What the repository says of the code and the code does not always do; the *)
(* README names the circumstances.                                           *)

\* "Update complete": what is installed is one version.
UpdateIsComplete == exit = "0" => \A f \in Files : installed[f] = "new"
=============================================================================

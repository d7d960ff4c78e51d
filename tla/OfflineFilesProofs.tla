-------------------------- MODULE OfflineFilesProofs --------------------------
(***************************************************************************)
(* The two tools that stop the daemon, replace its files and start it      *)
(* again.  No sequence of cache moves, failures, interruptions, reloads    *)
(* and daemon restarts loses a block, and a completed move starts the      *)
(* daemon on the new directory, for any directories and blocks, but for    *)
(* what a daemon does that the move knows nothing of.  And what the exit   *)
(* status of offs-updater says about the installation, and that it         *)
(* replaces binaries under a stopped daemon only, on the three platforms,  *)
(* for any number of polls and of crashes.                                 *)
(***************************************************************************)
EXTENDS CacheMove, Updater, TLAPS

-----------------------------------------------------------------------------
(* offs cache move. *)

\* From the stop to the restart no daemon runs that the move knows of.
Alone == cli \in {"stage", "move", "shell", "restart"} /\ ~unnoticed => daemon = "off"

\* While files move, the directory holds nothing but what the listing names and what
\* such a daemon adds, so that an exhausted listing leaves only that to rm_rf.
Exhaustive ==
  /\ cli \in {"move", "shell"} => content[src] \subseteq listing \cup astray
  /\ cli = "shell" => content[src] \subseteq astray

\* The command's two directories differ.
Disjoint == cli # "idle" => src # dest

\* What the restarted daemon relies on.
Staging ==
  cli \in {"move", "shell", "restart"} /\ ~unnoticed =>
    /\ staged = dest /\ fresh
    /\ listing \subseteq content[src] \cup content[dest]
    /\ cli = "shell" => listing \subseteq content[dest]
    /\ cli = "restart" => content[src] = {}

IInv == TypeOK /\ Alone /\ Exhaustive /\ Disjoint /\ Staging /\ NoBlockLost

\* The invariant holds before the first command.
LEMMA InitIInv == Init => IInv
  BY DirsAssumption
  DEF DirsAssumption, Init, IInv, TypeOK, Alone, Exhaustive, Disjoint, Staging, NoBlockLost

\* Every step of the daemon and of the command keeps it.
LEMMA NextIInv ==
  ASSUME IInv, [Next]_vars
  PROVE  IInv'
<1> USE DirsAssumption DEF DirsAssumption, IInv, TypeOK, Alone, Exhaustive, Disjoint,
        Staging, NoBlockLost, IsDaemonRunning, Hidden, vars, service, pending, command,
        history
<1>1. CASE DaemonStarts
  BY <1>1 DEF DaemonStarts, StartDaemon, CacheDirAtStart
<1>2. CASE DaemonExits
  BY <1>2 DEF DaemonExits
<1>3. CASE StageOther
  BY <1>3 DEF StageOther
<1>4. CASE Reload
  <2>1. daemon = "on" /\ fresh' = FALSE
    BY <1>4 DEF Reload
  <2>2. Staging'
    <3>1. ~(cli \in {"move", "shell", "restart"} /\ ~unnoticed)
      BY <2>1
    <3> QED
      BY <1>4, <3>1 DEF Reload
  <2>3. TypeOK'
    BY <1>4 DEF Reload
  <2>4. Alone' /\ Exhaustive' /\ Disjoint' /\ NoBlockLost'
    BY <1>4 DEF Reload
  <2> QED
    BY <2>2, <2>3, <2>4
<1>5. ASSUME NEW b \in Blocks, StoreBlock(b) PROVE IInv'
  BY <1>5 DEF StoreBlock
<1>6. ASSUME NEW d \in Dirs, Resolve(d) PROVE IInv'
  <2>1. TypeOK' /\ Disjoint'
    BY <1>6 DEF Resolve, ResolveCurrent, PathsConflict
  <2>2. Alone' /\ Exhaustive' /\ Staging'
    BY <1>6 DEF Resolve
  <2>3. NoBlockLost'
    BY <1>6 DEF Resolve
  <2> QED
    BY <2>1, <2>2, <2>3
<1>7. ASSUME NEW keep \in BOOLEAN, StageOnly(keep) PROVE IInv'
  BY <1>7 DEF StageOnly, Stage
<1>8. CASE StopDaemon
  <2>1. unnoticed' \in BOOLEAN /\ was_running' \in BOOLEAN
    BY <1>8 DEF StopDaemon
  <2>2. TypeOK'
    BY <1>8, <2>1 DEF StopDaemon
  <2>3. cli' = "stage" => unnoticed' \/ daemon' = "off"
    BY <1>8 DEF StopDaemon
  <2>4. Alone'
    BY <1>8, <2>3 DEF StopDaemon
  <2>5. Exhaustive' /\ Disjoint' /\ Staging' /\ NoBlockLost'
    BY <1>8 DEF StopDaemon
  <2> QED
    BY <2>2, <2>4, <2>5
<1>9. CASE WaitStopped
  <2>1. unnoticed' \in BOOLEAN
    BY <1>9 DEF WaitStopped
  <2>2. TypeOK'
    BY <1>9, <2>1 DEF WaitStopped
  <2>3. cli' = "stage" => unnoticed' \/ daemon' = "off"
    BY <1>9 DEF WaitStopped
  <2>4. Alone'
    BY <1>9, <2>3 DEF WaitStopped
  <2>5. Exhaustive' /\ Disjoint' /\ Staging' /\ NoBlockLost'
    BY <1>9 DEF WaitStopped
  <2> QED
    BY <2>2, <2>4, <2>5
<1>10. CASE StageMove
  BY <1>10 DEF StageMove, Stage
<1>11. ASSUME NEW b \in Blocks, MoveFile(b) PROVE IInv'
  BY <1>11 DEF MoveFile
<1>12. CASE MoveFails
  BY <1>12 DEF MoveFails, Stage
<1>13. CASE MoveDone
  BY <1>13 DEF MoveDone
<1>14. CASE RemoveShell
  BY <1>14 DEF RemoveShell
<1>15. CASE StartAgain
  BY <1>15 DEF StartAgain, StartDaemon, CacheDirAtStart
<1>16. CASE Interrupt
  BY <1>16 DEF Interrupt
<1>17. CASE UNCHANGED vars
  BY <1>17
<1> QED
  BY <1>1, <1>2, <1>3, <1>4, <1>5, <1>6, <1>7, <1>8, <1>9, <1>10, <1>11, <1>12,
     <1>13, <1>14, <1>15, <1>16, <1>17 DEF Next, Command

\* Hence it always holds.
LEMMA AlwaysIInv == Spec => []IInv
BY InitIInv, NextIInv, PTL DEF Spec

\* cache move loses no block, but for those that a daemon stores in the midst of a move
\* that does not know of it: each other one stays in some directory, through failed and
\* interrupted moves.
THEOREM MoveIsSafe == Spec => []NoBlockLost
<1>1. IInv => NoBlockLost
  BY DEF IInv
<1> QED
  BY <1>1, AlwaysIInv, PTL

\* cache move touches no file while a daemon runs that it knows of, since it waits for the
\* one it stopped.
THEOREM MoveIsAlone == Spec => []MoveExcludesDaemon
<1>1. IInv => MoveExcludesDaemon
  BY DEF IInv, Alone, MoveExcludesDaemon
<1> QED
  BY <1>1, AlwaysIInv, PTL

\* When no [cache].dir is configured, a completed move restarts the daemon on the
\* destination, which then holds all that the source held.
THEOREM MoveIsEffective ==
  ASSUME FileDir = None
  PROVE  Spec => MovedDaemonRunsFromDest
<1> DEFINE Effect ==
      (cli = "restart" /\ ~unnoticed' /\ daemon = "off" /\ daemon' = "on")
        => dir' = dest /\ content[src] = {} /\ listing \subseteq content[dest]
<1>1. ASSUME IInv, [Next]_vars PROVE [Effect]_vars
  <2> SUFFICES ASSUME cli = "restart", ~unnoticed', daemon = "off", daemon' = "on"
               PROVE  Effect
    OBVIOUS
  <2>1. StartAgain
    BY <1>1 DEF Next, Command, DaemonStarts, DaemonExits, StageOther, Reload, StoreBlock,
       Resolve, StageOnly, StopDaemon, WaitStopped, StageMove, MoveFile, MoveFails,
       MoveDone, RemoveShell, Interrupt, vars, service, command
  <2>2. StartDaemon("offsd") /\ ~unnoticed
    BY <2>1 DEF StartAgain, service
  <2>3. dir' = dest
    BY <1>1, <2>2, DirsAssumption
    DEF StartDaemon, CacheDirAtStart, IInv, Staging, TypeOK, DirsAssumption
  <2> QED
    BY <1>1, <2>2, <2>3 DEF IInv, Staging
<1> QED
  BY <1>1, AlwaysIInv, PTL DEF Spec, MovedDaemonRunsFromDest

\* Why the command returns: the stages of cmd_cache_move, counted from its end.
MoveAhead ==
  CASE cli = "resolved" -> 6
    [] cli = "wait" -> 5
    [] cli = "stage" -> 4
    [] cli = "move" -> 3
    [] cli = "shell" -> 2
    [] cli \in {"restore", "restart"} -> 1
    [] cli = "idle" -> 0

\* A step leads to a later stage, or takes a file from the source.
MoveAdvances ==
  \/ MoveAhead' < MoveAhead
  \/ /\ cli = "move" /\ UNCHANGED command
     /\ content'[src] \subseteq content[src] /\ content'[src] # content[src]

\* cache move takes at most six steps and one for each file of the source: each of them
\* brings it nearer to its end, and nothing else takes it back, or adds a file to the
\* source while files are moved, but a daemon that the move does not know of.
THEOREM MoveIsBounded ==
  Spec => /\ [](MoveAhead \in 0..6)
          /\ [][\/ Command /\ MoveAdvances
                \/ /\ ~Command
                   /\ cli # "idle" => cli' \in {cli, "idle"} /\ src' = src
                   /\ cli = "move" /\ ~unnoticed => content' = content]_vars
<1> DEFINE Waits == /\ cli # "idle" => cli' \in {cli, "idle"} /\ src' = src
                    /\ cli = "move" /\ ~unnoticed => content' = content
<1>1. IInv => MoveAhead \in 0..6
  BY DEF IInv, TypeOK, MoveAhead
<1>2. ASSUME IInv, Command PROVE MoveAdvances
  <2>1. ASSUME NEW b \in Blocks, MoveFile(b) PROVE MoveAdvances
    BY <1>2, <2>1 DEF MoveFile, MoveAdvances, IInv, TypeOK, Disjoint, command
  <2>2. CASE \E keep \in BOOLEAN : StageOnly(keep)
    BY <2>2 DEF StageOnly, MoveAdvances, MoveAhead
  <2>3. CASE StopDaemon \/ WaitStopped \/ StageMove
    BY <2>3 DEF StopDaemon, WaitStopped, StageMove, MoveAdvances, MoveAhead
  <2>4. CASE MoveFails \/ MoveDone \/ RemoveShell \/ StartAgain
    BY <2>4 DEF MoveFails, MoveDone, RemoveShell, StartAgain, MoveAdvances, MoveAhead
  <2> QED
    BY <1>2, <2>1, <2>2, <2>3, <2>4 DEF Command
<1>3. ASSUME IInv, [Next]_vars, ~Command PROVE [Waits]_vars
  <2>1. CASE DaemonStarts \/ DaemonExits \/ StageOther \/ Reload \/ Interrupt
    BY <2>1 DEF DaemonStarts, StartDaemon, DaemonExits, StageOther, Reload, Interrupt, command
  <2>2. ASSUME NEW b \in Blocks, StoreBlock(b) PROVE Waits
    BY <1>3, <2>2 DEF StoreBlock, IInv, Alone, command
  <2>3. ASSUME NEW d \in Dirs, Resolve(d) PROVE Waits
    BY <2>3 DEF Resolve
  <2> QED
    BY <1>3, <2>1, <2>2, <2>3 DEF Next
<1>4. ASSUME IInv, [Next]_vars PROVE [(Command /\ MoveAdvances) \/ (~Command /\ Waits)]_vars
  BY <1>2, <1>3, <1>4
<1> QED
  BY <1>1, <1>4, AlwaysIInv, PTL DEF Spec

-----------------------------------------------------------------------------
(* offs-updater. *)

\* The exit status is set with the return, and the daemon is stopped by the first
\* incarnation only.
Control ==
  /\ exit # "none" <=> pc = "done"
  /\ pc \in {"stop", "waitstop"} => ~finish

\* The part of the update in which the daemon has to be down, in both incarnations.
Replacing == pc \in {"copy", "exec", "start"} \/ (pc = "begin" /\ finish)
BeforeCopy == pc \in {"stop", "waitstop"} \/ (pc = "begin" /\ ~finish)

\* A service that was seen stopped stays so.  systemd would restart one that has
\* crashed, and cannot know one to restart that has not.
Quiet ==
  (crashes = 0 \/ platform # "linux") =>
    /\ Replacing => service_state = "inactive"
    /\ BeforeCopy /\ platform = "linux" => service_state # "restarting"

\* Whatever was started after the copies is a binary that was not cut short.
Sound ==
  pc \in {"waitstart", "check"} /\ crashes = 0 /\ platform # "macos"
    /\ service_state \in {"active", "starting"} => Runnable

Old == \A f \in Files : installed[f] = "old"

\* The old binaries are there until the first copy, and again after a complete
\* restore.
Rollback ==
  /\ BeforeCopy => Old
  /\ pc \in {"redo", "waitredo"} /\ intact => Old

UpdateIInv ==
  /\ UpdaterTypeOK /\ Control /\ Quiet /\ Sound /\ Rollback
  /\ SuccessMeansRunning /\ FailureLeavesOld

\* The invariant holds when the updater is started.
LEMMA InitUpdateIInv ==
  ASSUME UpdaterInit
  PROVE  UpdateIInv
<1>1. UpdaterTypeOK
  <2>1. /\ installed \in [Files -> Images]
        /\ polls \in 0..Polls /\ crashes \in 0..MaxCrashes
    BY UpdaterAssumption DEF UpdaterAssumption, UpdaterInit, Images
  <2> QED
    BY <2>1 DEF UpdaterInit, UpdaterTypeOK, Platforms
<1>2. Control /\ Quiet /\ Sound /\ SuccessMeansRunning
  BY DEF UpdaterInit, Control, Quiet, Sound, Replacing, BeforeCopy, SuccessMeansRunning
<1>3. Rollback /\ FailureLeavesOld
  BY DEF UpdaterInit, Rollback, Old, FailureLeavesOld
<1> QED
  BY <1>1, <1>2, <1>3 DEF UpdateIInv

\* Every step of the updater and of the service manager keeps it.
LEMMA NextUpdateIInv ==
  ASSUME UpdateIInv, [UpdaterNext]_updater_vars
  PROVE  UpdateIInv'
<1> USE UpdaterAssumption
    DEF UpdaterAssumption, UpdateIInv, UpdaterTypeOK, Control, Quiet, Sound, Rollback, Old,
        Replacing, BeforeCopy, SuccessMeansRunning, FailureLeavesOld, Platforms, Images,
        Runnable, progress, system, updater_vars
<1>1. CASE Begin
  BY <1>1 DEF Begin
<1>2. CASE StopService("stop", "waitstop") \/ StopService("undo", "waitundo")
  BY <1>2 DEF StopService, StopOutcomes, LinuxStop, MacosStop, WindowsStop
<1>3. CASE PollStopped("waitstop", "copy") \/ PollStopped("waitundo", "restore")
  <2>1. SeenStopped => \/ service_state = "inactive"
                       \/ platform = "linux" /\ service_state # "active"
    BY DEF SeenStopped, SeenRunning, LinuxRunning, MacosRunning, WindowsStopped
  <2>2. polls' \in 0..Polls
    BY <1>3 DEF PollStopped
  <2> QED
    BY <1>3, <2>1, <2>2 DEF PollStopped
<1>4. CASE StopTimesOut
  BY <1>4 DEF StopTimesOut
<1>5. ASSUME NEW f \in Files, CopyFile(f) PROVE UpdateIInv'
  BY <1>5 DEF CopyFile, Files
<1>6. CASE CopyDone
  BY <1>6 DEF CopyDone
<1>7. CASE Exec
  BY <1>7 DEF Exec
<1>8. CASE StartService("start", "waitstart") \/ StartService("redo", "waitredo")
  BY <1>8 DEF StartService, StartOutcomes, LinuxStart, MacosStart, WindowsStart
<1>9. CASE PollStarted("waitstart", "check")
  BY <1>9 DEF PollStarted
<1>10. CASE TimesOut("waitstart", "check") \/ TimesOut("waitundo", "restore")
  BY <1>10 DEF TimesOut
<1>11. CASE Check
  BY <1>11 DEF Check, SeenRunning, LinuxRunning, WindowsRunning
<1>12. CASE Restore
  <2>1. PICK some \in SUBSET Writable :
          /\ installed' = [f \in Files |-> IF f \in some THEN "old" ELSE installed[f]]
          /\ intact' = (intact /\ some = Files)
    BY <1>12 DEF Restore
  <2>2. installed' \in [Files -> Images] /\ (intact' => Old')
    BY <2>1
  <2>3. UpdaterTypeOK'
    BY <1>12, <2>1, <2>2 DEF Restore
  <2> QED
    BY <1>12, <2>2, <2>3 DEF Restore
<1>13. CASE PollRedo
  BY <1>13 DEF PollRedo
<1>14. CASE RollbackComplete
  BY <1>14 DEF RollbackComplete
<1>15. CASE DaemonCrashes
  BY <1>15 DEF DaemonCrashes
<1>16. CASE AutoRestart
  BY <1>16 DEF AutoRestart
<1>17. CASE PendingEnds
  BY <1>17 DEF PendingEnds
<1>18. CASE UNCHANGED updater_vars
  BY <1>18
<1> QED
  BY <1>1, <1>2, <1>3, <1>4, <1>5, <1>6, <1>7, <1>8, <1>9, <1>10, <1>11, <1>12, <1>13,
     <1>14, <1>15, <1>16, <1>17, <1>18 DEF UpdaterNext, UpdaterStep

\* Hence it always holds.
LEMMA AlwaysUpdateIInv == UpdaterSpec => []UpdateIInv
  BY InitUpdateIInv, NextUpdateIInv, PTL DEF UpdaterSpec

\* No binary is copied over while the daemon that is installed there runs: the copies
\* follow a wait_for_stop that has seen it stopped, and nothing but systemd, after a
\* crash, starts it behind the updater's back.
THEOREM DaemonIsDownDuringCopy == UpdaterSpec => []NoOverwriteWhileRunning
<1>1. UpdateIInv => NoOverwriteWhileRunning
  BY DEF UpdateIInv, Quiet, Replacing, NoOverwriteWhileRunning
<1> QED
  BY <1>1, AlwaysUpdateIInv, PTL

\* Exit status 0 means that a daemon runs whose binary is whole.
THEOREM SuccessIsARunningDaemon == UpdaterSpec => []SuccessMeansRunning
  BY AlwaysUpdateIInv, PTL DEF UpdateIInv

\* Exit status 1 means the old binaries, unless restoring them was cut short.
THEOREM FailureIsARollback == UpdaterSpec => []FailureLeavesOld
  BY AlwaysUpdateIInv, PTL DEF UpdateIInv

-----------------------------------------------------------------------------
(* Why offs-updater returns: what is still before it shrinks with every step.  *)

\* The stages of its program, counted from the end, those of each incarnation ...
Ahead ==
  CASE pc = "begin" -> IF finish THEN 11 ELSE 16
    [] pc = "stop" -> 15
    [] pc = "waitstop" -> 14
    [] pc = "copy" -> IF finish THEN 10 ELSE 13
    [] pc = "exec" -> 12
    [] pc = "start" -> 9
    [] pc = "waitstart" -> 8
    [] pc = "check" -> 7
    [] pc = "undo" -> 6
    [] pc = "waitundo" -> 5
    [] pc = "restore" -> 4
    [] pc = "redo" -> 3
    [] pc = "waitredo" -> 2
    [] pc = "done" -> 1

\* ... and, within a stage, the polls and the copies that are left.
Uncopied(f) == IF f \in copied THEN 0 ELSE 1
Left ==
  (Polls - polls) + Uncopied("offs-daemon") + Uncopied("offs-cli") + Uncopied("offs-updater")

Advances == Ahead' < Ahead \/ (Ahead' = Ahead /\ Left' < Left)

\* Both are bounded.
LEMMA AheadBounded ==
  ASSUME UpdaterTypeOK
  PROVE  Ahead \in 1..16 /\ Left \in 0..(Polls + 3)
<1>1. Ahead \in 1..16
  BY DEF UpdaterTypeOK, Ahead
<1>2. Left \in 0..(Polls + 3)
  BY UpdaterAssumption DEF UpdaterAssumption, UpdaterTypeOK, Left, Uncopied
<1> QED
  BY <1>1, <1>2

\* Every step of the updater is a step ahead.
LEMMA StepAdvances ==
  ASSUME UpdateIInv, UpdaterStep
  PROVE  Advances
<1> USE DEF Advances, Ahead
<1>1. CASE Begin
  BY <1>1 DEF Begin
<1>2. CASE StopService("stop", "waitstop") \/ StopService("undo", "waitundo")
  BY <1>2 DEF StopService
<1>3. ASSUME polls < Polls, polls' = polls + 1, copied' = copied, Ahead' = Ahead PROVE Advances
  <2>1. polls \in Nat /\ Polls \in Nat
    BY UpdaterAssumption DEF UpdateIInv, UpdaterTypeOK, UpdaterAssumption
  <2>2. \A f : Uncopied(f)' = Uncopied(f) /\ Uncopied(f) \in {0, 1}
    BY <1>3 DEF Uncopied
  <2>3. Left' < Left
    BY <1>3, <2>1, <2>2 DEF Left
  <2> QED
    BY <1>3, <2>3
<1>4. CASE PollStopped("waitstop", "copy") \/ PollStopped("waitundo", "restore")
  BY <1>3, <1>4 DEF PollStopped, UpdateIInv, Control
<1>5. CASE StopTimesOut
  BY <1>5 DEF StopTimesOut
<1>6. ASSUME NEW f \in Files, CopyFile(f) PROVE Advances
  <2>1. polls' = polls /\ polls \in Nat /\ Polls \in Nat
    BY <1>6, UpdaterAssumption DEF CopyFile, UpdateIInv, UpdaterTypeOK, UpdaterAssumption
  <2>2. f \notin copied /\ copied' = copied \cup {f}
    BY <1>6 DEF CopyFile
  <2>3. /\ \A g : g # f => Uncopied(g)' = Uncopied(g) /\ Uncopied(g) \in {0, 1}
        /\ Uncopied(f) = 1 /\ Uncopied(f)' = 0
    BY <2>2 DEF Uncopied
  <2>4. Left' < Left
    BY <2>1, <2>3 DEF Left, Files
  <2>5. Ahead' = Ahead
    BY <1>6 DEF CopyFile
  <2> QED
    BY <2>4, <2>5
<1>7. CASE CopyDone
  BY <1>7 DEF CopyDone
<1>8. CASE Exec
  BY <1>8 DEF Exec
<1>9. CASE StartService("start", "waitstart") \/ StartService("redo", "waitredo")
  BY <1>9 DEF StartService
<1>10. CASE PollStarted("waitstart", "check")
  BY <1>3, <1>10 DEF PollStarted
<1>11. CASE TimesOut("waitstart", "check") \/ TimesOut("waitundo", "restore")
  BY <1>11 DEF TimesOut
<1>12. CASE Check
  BY <1>12 DEF Check
<1>13. CASE Restore
  BY <1>13 DEF Restore
<1>14. CASE PollRedo
  BY <1>3, <1>14 DEF PollRedo
<1>15. CASE RollbackComplete
  BY <1>15 DEF RollbackComplete
<1> QED
  BY <1>1, <1>2, <1>4, <1>5, <1>6, <1>7, <1>8, <1>9, <1>10, <1>11, <1>12, <1>13, <1>14, <1>15
  DEF UpdaterStep

\* offs-updater takes at most 16 * (Polls + 4) steps, whatever the service does: each one
\* brings it nearer to its end, and no crash, restart or pending state takes it back.
THEOREM UpdaterIsBounded ==
  UpdaterSpec =>
    /\ [](Ahead \in 1..16 /\ Left \in 0..(Polls + 3))
    /\ [][Advances \/ (~UpdaterStep /\ UNCHANGED <<Ahead, Left>>)]_updater_vars
<1>1. UpdateIInv => Ahead \in 1..16 /\ Left \in 0..(Polls + 3)
  BY AheadBounded DEF UpdateIInv
<1>2. ASSUME UpdateIInv, [UpdaterNext]_updater_vars
      PROVE  [Advances \/ (~UpdaterStep /\ UNCHANGED <<Ahead, Left>>)]_updater_vars
  <2>1. CASE UpdaterStep
    BY <1>2, <2>1, StepAdvances
  <2>2. CASE ~UpdaterStep /\ UpdaterNext
    <3>1. UNCHANGED <<pc, finish, copied, polls>>
      BY <2>2 DEF UpdaterNext, DaemonCrashes, AutoRestart, PendingEnds, progress
    <3>2. UNCHANGED Ahead
      BY <3>1 DEF Ahead
    <3>3. UNCHANGED Left
      BY <3>1 DEF Left, Uncopied
    <3> QED
      BY <2>2, <3>2, <3>3
  <2> QED
    BY <1>2, <2>1, <2>2
<1> QED
  BY <1>1, <1>2, AlwaysUpdateIInv, PTL DEF UpdaterSpec
=============================================================================

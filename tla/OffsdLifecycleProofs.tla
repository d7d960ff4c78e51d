------------------------ MODULE OffsdLifecycleProofs ------------------------
(* For every number of saves and every set of unreadable versions, on both   *)
(* platforms: types, the fate of a pending config and of an accepted reload, *)
(* and the PID file.  Then the watchdog of the same process against the      *)
(* clock, for every timeout and grace period.                                *)
EXTENDS OffsdLifecycle, ShutdownWatchdog, TLAPS

USE SavesAssumption

\* Where the main thread can be when a reload is in flight or was accepted, and
\* what the PID file and the exit status say about it.
Control ==
  /\ exit = "no" <=> Alive
  /\ (Alive /\ worker # "idle") => main \in Serving
  /\ (Alive /\ ~handlers) => (main \in Starting /\ acked = 0)
  /\ main \in Starting => ~restart_requested
  /\ main = "clear" => restart_requested
  /\ acked <= saved
  /\ main \in {"begin", "populate", "attach", "hooks"} => pidfile = "own"
  /\ main \in {"load", "mark", "pid"} => pidfile # "own"
  /\ main \in {"disarm", "decide", "clear"} => pidfile = "none"

IInv ==
  TypeOK /\ Control /\ ReloadFindsPending /\ AckedReloadApplies /\ PidFileTracksDaemon

\* The invariant holds when a process starts.
LEMMA InitIInv == Init => IInv
<1> SUFFICES ASSUME Init PROVE IInv
  OBVIOUS
<1> USE DEF Init
<1>1. TypeOK
  <2>1. 0 \in Versions
    BY DEF Versions, SavesAssumption
  <2> QED
    BY <2>1 DEF TypeOK, Places, Starting
<1>2. Control
  BY DEF Control, Alive, Starting, Serving, Accepting
<1>3. ReloadFindsPending
  BY DEF ReloadFindsPending
<1>4. AckedReloadApplies
  BY DEF AckedReloadApplies
<1>5. PidFileTracksDaemon
  BY DEF PidFileTracksDaemon, Serving, Accepting, Teardown
<1> QED
  BY <1>1, <1>2, <1>3, <1>4, <1>5 DEF IInv

\* Every step of the main thread, the worker, the watchdog, a signal, the service
\* manager and the programs that write the pending file keeps the invariant.
LEMMA NextIInv == IInv /\ [Next]_vars => IInv'
<1> SUFFICES ASSUME IInv, [Next]_vars PROVE IInv'
  OBVIOUS
<1> USE DEF IInv, TypeOK, Control, ReloadFindsPending, AckedReloadApplies,
            PidFileTracksDaemon, Alive, Effective, Go, End, Places, Starting, Serving,
            Accepting, Teardown, Versions, SavesAssumption,
            vars, process, threads, files, configs, history
<1>1. CASE LoadPending
  BY <1>1 DEF LoadPending
<1>2. CASE MarkApplied
  <2>1. TypeOK'
    <3>1. fresh' \in BOOLEAN
      BY <1>2 DEF MarkApplied
    <3> QED
      BY <1>2, <3>1 DEF MarkApplied
  <2>2. Control'
    BY <1>2 DEF MarkApplied
  <2>3. ReloadFindsPending'
    BY <1>2 DEF MarkApplied
  <2>4. AckedReloadApplies'
    BY <1>2 DEF MarkApplied
  <2>5. PidFileTracksDaemon'
    BY <1>2 DEF MarkApplied
  <2> QED
    BY <2>1, <2>2, <2>3, <2>4, <2>5
<1>3. CASE WritePid
  <2>1. TypeOK'
    <3>1. pidfile' \in {"none", "own", "stale"}
      BY <1>3 DEF WritePid
    <3> QED
      BY <1>3, <3>1 DEF WritePid
  <2>2. Control'
    BY <1>3 DEF WritePid
  <2>3. ReloadFindsPending'
    BY <1>3 DEF WritePid
  <2>4. AckedReloadApplies'
    BY <1>3 DEF WritePid
  <2>5. PidFileTracksDaemon'
    BY <1>3 DEF WritePid
  <2> QED
    BY <2>1, <2>2, <2>3, <2>4, <2>5
<1>4. CASE StartupBegin
  <2>1. TypeOK'
    <3>1. running' \in BOOLEAN
      BY <1>4 DEF StartupBegin
    <3> QED
      BY <1>4, <3>1 DEF StartupBegin
  <2>2. Control'
    BY <1>4 DEF StartupBegin
  <2>3. ReloadFindsPending'
    BY <1>4 DEF StartupBegin
  <2>4. AckedReloadApplies'
    BY <1>4 DEF StartupBegin
  <2>5. PidFileTracksDaemon'
    BY <1>4 DEF StartupBegin
  <2> QED
    BY <2>1, <2>2, <2>3, <2>4, <2>5
<1>5. CASE StartupPopulate
  BY <1>5 DEF StartupPopulate
<1>6. CASE StartupAttach
  BY <1>6 DEF StartupAttach
<1>7. CASE StartupFails
  BY <1>7 DEF StartupFails
<1>8. CASE AbortStart
  <2>1. TypeOK'
    <3>1. pidfile' \in {"none", "own", "stale"}
      BY <1>8 DEF AbortStart
    <3> QED
      BY <1>8, <3>1 DEF AbortStart
  <2>2. Control'
    BY <1>8 DEF AbortStart
  <2>3. ReloadFindsPending'
    BY <1>8 DEF AbortStart
  <2>4. AckedReloadApplies'
    BY <1>8 DEF AbortStart
  <2>5. PidFileTracksDaemon'
    BY <1>8 DEF AbortStart
  <2> QED
    BY <2>1, <2>2, <2>3, <2>4, <2>5
<1>9. CASE InstallHandlers
  <2>1. TypeOK'
    <3>1. handlers' \in BOOLEAN
      BY <1>9 DEF InstallHandlers
    <3> QED
      BY <1>9, <3>1 DEF InstallHandlers
  <2>2. Control'
    BY <1>9 DEF InstallHandlers
  <2>3. ReloadFindsPending'
    BY <1>9 DEF InstallHandlers
  <2>4. AckedReloadApplies'
    BY <1>9 DEF InstallHandlers
  <2>5. PidFileTracksDaemon'
    BY <1>9 DEF InstallHandlers
  <2> QED
    BY <2>1, <2>2, <2>3, <2>4, <2>5
<1>10. CASE StartListening
  BY <1>10 DEF StartListening
<1>11. CASE LeavePoll
  BY <1>11 DEF LeavePoll
<1>12. CASE Arm
  BY <1>12 DEF Arm
<1>13. CASE CreateWatchdog
  BY <1>13 DEF CreateWatchdog
<1>14. CASE StopTransports
  BY <1>14 DEF StopTransports
<1>15. CASE StopNetwork
  BY <1>15 DEF StopNetwork
<1>16. CASE StopHttp
  BY <1>16 DEF StopHttp
<1>17. CASE StopPool
  BY <1>17 DEF StopPool
<1>18. CASE DestroyComponents
  BY <1>18 DEF DestroyComponents
<1>19. CASE DestroyUpdateActor
  BY <1>19 DEF DestroyUpdateActor
<1>20. CASE ForgetUpdateActor
  BY <1>20 DEF ForgetUpdateActor
<1>21. CASE FreeConfig
  BY <1>21 DEF FreeConfig
<1>22. CASE RemovePid
  <2>1. TypeOK'
    <3>1. pidfile' \in {"none", "own", "stale"}
      BY <1>22 DEF RemovePid
    <3> QED
      BY <1>22, <3>1 DEF RemovePid
  <2>2. Control'
    BY <1>22 DEF RemovePid
  <2>3. ReloadFindsPending'
    BY <1>22 DEF RemovePid
  <2>4. AckedReloadApplies'
    BY <1>22 DEF RemovePid
  <2>5. PidFileTracksDaemon'
    BY <1>22 DEF RemovePid
  <2> QED
    BY <2>1, <2>2, <2>3, <2>4, <2>5
<1>23. CASE Disarm
  <2>1. TypeOK'
    <3>1. shutdown_active' \in BOOLEAN
      BY <1>23 DEF Disarm
    <3> QED
      BY <1>23, <3>1 DEF Disarm
  <2>2. Control'
    BY <1>23 DEF Disarm
  <2>3. ReloadFindsPending'
    BY <1>23 DEF Disarm
  <2>4. AckedReloadApplies'
    BY <1>23 DEF Disarm
  <2>5. PidFileTracksDaemon'
    BY <1>23 DEF Disarm
  <2> QED
    BY <2>1, <2>2, <2>3, <2>4, <2>5
<1>24. CASE Decide
  BY <1>24, SMTT(30) DEF Decide
<1>25. CASE ClearRestart
  BY <1>25, ZenonT(60) DEF ClearRestart
<1>26. CASE ReloadArrives
  BY <1>26 DEF ReloadArrives
<1>27. CASE ReloadCheck
  BY <1>27 DEF ReloadCheck
<1>28. CASE RequestRestart
  BY <1>28 DEF RequestRestart
<1>29. CASE SignalStop
  <2>1. TypeOK'
    <3>1. running' \in BOOLEAN /\ sigstop' \in BOOLEAN
      BY <1>29 DEF SignalStop
    <3> QED
      BY <1>29, <3>1 DEF SignalStop
  <2>2. Control'
    BY <1>29 DEF SignalStop
  <2>3. ReloadFindsPending'
    BY <1>29 DEF SignalStop
  <2>4. AckedReloadApplies'
    BY <1>29 DEF SignalStop
  <2>5. PidFileTracksDaemon'
    BY <1>29 DEF SignalStop
  <2> QED
    BY <2>1, <2>2, <2>3, <2>4, <2>5
<1>30. CASE SignalHangup
  <2>1. TypeOK'
    <3>1. running' \in BOOLEAN
      BY <1>30 DEF SignalHangup
    <3>2. UNCHANGED <<windows, handlers, actor, stop_requested, restart_requested, threads,
                      files, configs, history>>
      BY <1>30 DEF SignalHangup
    <3>3. main' \in {main, "exited"} /\ exit' \in {exit, "killed"}
      BY <1>30 DEF SignalHangup
    <3> QED
      BY <3>1, <3>2, <3>3
  <2>2. Control'
    BY <1>30 DEF SignalHangup
  <2>3. ReloadFindsPending'
    BY <1>30 DEF SignalHangup
  <2>4. AckedReloadApplies'
    BY <1>30 DEF SignalHangup
  <2>5. PidFileTracksDaemon'
    BY <1>30 DEF SignalHangup
  <2> QED
    BY <2>1, <2>2, <2>3, <2>4, <2>5
<1>31. CASE ScmStop
  <2>1. TypeOK'
    <3>1. stop_requested' \in BOOLEAN /\ running' \in BOOLEAN
      BY <1>31 DEF ScmStop, ServiceStopHandler
    <3>2. UNCHANGED <<windows, main, handlers, actor, restart_requested, threads, files,
                      configs, exit, history>>
      BY <1>31 DEF ScmStop, ServiceStopHandler
    <3> QED
      BY <3>1, <3>2
  <2>2. Control'
    BY <1>31 DEF ScmStop, ServiceStopHandler
  <2>3. ReloadFindsPending'
    BY <1>31 DEF ScmStop, ServiceStopHandler
  <2>4. AckedReloadApplies'
    BY <1>31 DEF ScmStop, ServiceStopHandler
  <2>5. PidFileTracksDaemon'
    BY <1>31 DEF ScmStop, ServiceStopHandler
  <2> QED
    BY <2>1, <2>2, <2>3, <2>4, <2>5
<1>32. CASE WatchdogWakes
  BY <1>32 DEF WatchdogWakes
<1>33. CASE WatchdogExits
  BY <1>33 DEF WatchdogExits
<1>34. CASE SavePending
  BY <1>34 DEF SavePending
<1>35. CASE Respawn
  <2>1. TypeOK'
    <3>1. /\ handlers' \in BOOLEAN /\ running' \in BOOLEAN /\ stop_requested' \in BOOLEAN
          /\ restart_requested' \in BOOLEAN /\ shutdown_active' \in BOOLEAN /\ sigstop' \in BOOLEAN
          /\ pidfile' \in {"none", "own", "stale"}
      BY <1>35 DEF Respawn
    <3> QED
      BY <1>35, <3>1 DEF Respawn
  <2>2. Control'
    BY <1>35 DEF Respawn
  <2>3. ReloadFindsPending'
    BY <1>35 DEF Respawn
  <2>4. AckedReloadApplies'
    BY <1>35 DEF Respawn
  <2>5. PidFileTracksDaemon'
    BY <1>35 DEF Respawn
  <2> QED
    BY <2>1, <2>2, <2>3, <2>4, <2>5
<1>36. CASE UNCHANGED vars
  BY <1>36
<1> QED
  BY <1>1, <1>2, <1>3, <1>4, <1>5, <1>6, <1>7, <1>8, <1>9, <1>10, <1>11, <1>12,
     <1>13, <1>14, <1>15, <1>16, <1>17, <1>18, <1>19, <1>20, <1>21, <1>22, <1>23,
     <1>24, <1>25, <1>26, <1>27, <1>28, <1>29, <1>30, <1>31, <1>32, <1>33, <1>34,
     <1>35, <1>36 DEF Next, MainStep, Environment

\* The invariant holds throughout.
LEMMA AlwaysIInv == Spec => []IInv
BY InitIInv, NextIInv, PTL DEF Spec

\* Every variable keeps its type.
THEOREM LifecycleTypes == Spec => []TypeOK
<1>1. IInv => TypeOK
  BY DEF IInv
<1> QED
  BY <1>1, AlwaysIInv, PTL

\* An in-place reload always finds the pending config it was promised.
THEOREM ReloadNeverFindsNothing == Spec => []ReloadFindsPending
<1>1. IInv => ReloadFindsPending
  BY DEF IInv
<1> QED
  BY <1>1, AlwaysIInv, PTL

\* No accepted reload is lost: what was staged then, or something newer, is in
\* force in every later incarnation of the server.
THEOREM AcceptedReloadsApply == Spec => []AckedReloadApplies
<1>1. IInv => AckedReloadApplies
  BY DEF IInv
<1> QED
  BY <1>1, AlwaysIInv, PTL

\* The PID file is there while the daemon serves, gone after a clean exit, and a
\* failed startup does not leave the one it wrote.
THEOREM PidFileIsRight == Spec => []PidFileTracksDaemon
<1>1. IInv => PidFileTracksDaemon
  BY DEF IInv
<1> QED
  BY <1>1, AlwaysIInv, PTL

\* The reload handler never runs on a stopped pool.
THEOREM HandlerOnLivePool == Spec => []WorkerOnLivePool
<1>1. IInv => WorkerOnLivePool
  BY DEF IInv, Control, TypeOK, WorkerOnLivePool
<1> QED
  BY <1>1, AlwaysIInv, PTL

-----------------------------------------------------------------------------
(* Refinement of ReloadService. *)

shown == <<ServicePhase, InForce, Promised, Outstanding>>

\* A starting process is a starting service with the defaults and no promise.
LEMMA InitRefines == Init => Promises!Init
BY DEF Init, Promises!Init, ServicePhase, InForce, Promised, Outstanding, Down,
       Restarting, Effective, Starting

\* Reading the config for the next cycle is the service's Restart or Configure,
\* _request_restart its Promise, installing the handlers its ComeUp, arming the
\* watchdog its BeginStop, and every way to the end GoDown; all else is invisible.
LEMMA StepRefines == IInv /\ IInv' /\ [Next]_vars => [Promises!Next]_shown
<1> SUFFICES ASSUME IInv, IInv', [Next]_vars PROVE [Promises!Next]_shown
  OBVIOUS
<1> USE DEF IInv, TypeOK, Control, AckedReloadApplies, ReloadFindsPending, Alive,
            Effective, Go, End, Places, Starting, Serving, Accepting, Teardown,
            Versions, SavesAssumption,
            vars, process, threads, files, configs, history,
            shown, ServicePhase, InForce, Promised, Outstanding, Down, Restarting,
            Promises!Next, Promises!ComeUp, Promises!BeginStop, Promises!GoDown,
            Promises!StartAfresh, Promises!Configure, Promises!Promise, Promises!Restart
<1>1. CASE LoadPending
  BY <1>1 DEF LoadPending
<1>2. CASE MarkApplied
  BY <1>2 DEF MarkApplied
<1>3. CASE WritePid
  BY <1>3 DEF WritePid
<1>4. CASE StartupBegin
  BY <1>4 DEF StartupBegin
<1>5. CASE StartupPopulate
  BY <1>5 DEF StartupPopulate
<1>6. CASE StartupAttach
  BY <1>6 DEF StartupAttach
<1>7. CASE StartupFails
  BY <1>7 DEF StartupFails
<1>8. CASE AbortStart
  BY <1>8 DEF AbortStart
<1>9. CASE InstallHandlers
  BY <1>9 DEF InstallHandlers
<1>10. CASE StartListening
  BY <1>10 DEF StartListening
<1>11. CASE LeavePoll
  BY <1>11 DEF LeavePoll
<1>12. CASE Arm
  BY <1>12 DEF Arm
<1>13. CASE CreateWatchdog
  BY <1>13 DEF CreateWatchdog
<1>14. CASE StopTransports
  BY <1>14 DEF StopTransports
<1>15. CASE StopNetwork
  BY <1>15 DEF StopNetwork
<1>16. CASE StopHttp
  BY <1>16 DEF StopHttp
<1>17. CASE StopPool
  BY <1>17 DEF StopPool
<1>18. CASE DestroyComponents
  BY <1>18 DEF DestroyComponents
<1>19. CASE DestroyUpdateActor
  BY <1>19 DEF DestroyUpdateActor
<1>20. CASE ForgetUpdateActor
  BY <1>20 DEF ForgetUpdateActor
<1>21. CASE FreeConfig
  BY <1>21 DEF FreeConfig
<1>22. CASE RemovePid
  BY <1>22 DEF RemovePid
<1>23. CASE Disarm
  BY <1>23 DEF Disarm
<1>24. CASE Decide
  BY <1>24 DEF Decide
<1>25. CASE ClearRestart
  BY <1>25 DEF ClearRestart
<1>26. CASE ReloadArrives
  BY <1>26 DEF ReloadArrives
<1>27. CASE ReloadCheck
  BY <1>27 DEF ReloadCheck
<1>28. CASE RequestRestart
  BY <1>28, ZenonT(60) DEF RequestRestart
<1>29. CASE SignalStop
  BY <1>29, ZenonT(60) DEF SignalStop
<1>30. CASE SignalHangup
  BY <1>30, ZenonT(60) DEF SignalHangup
<1>31. CASE ScmStop
  BY <1>31, ZenonT(60) DEF ScmStop, ServiceStopHandler
<1>32. CASE WatchdogWakes
  BY <1>32, ZenonT(60) DEF WatchdogWakes
<1>33. CASE WatchdogExits
  BY <1>33, ZenonT(60) DEF WatchdogExits
<1>34. CASE SavePending
  BY <1>34, ZenonT(60) DEF SavePending
<1>35. CASE Respawn
  BY <1>35, ZenonT(60) DEF Respawn
<1>36. CASE UNCHANGED vars
  BY <1>36, ZenonT(60)
<1> QED
  BY <1>1, <1>2, <1>3, <1>4, <1>5, <1>6, <1>7, <1>8, <1>9, <1>10, <1>11, <1>12,
     <1>13, <1>14, <1>15, <1>16, <1>17, <1>18, <1>19, <1>20, <1>21, <1>22, <1>23,
     <1>24, <1>25, <1>26, <1>27, <1>28, <1>29, <1>30, <1>31, <1>32, <1>33, <1>34,
     <1>35, <1>36 DEF Next, MainStep, Environment

\* The daemon implements the abstract reload service.
THEOREM LifecycleImplementsReloadService == Spec => ImplementsReloadService
BY InitRefines, StepRefines, AlwaysIInv, PTL
DEF Spec, ImplementsReloadService, Promises!Spec, shown

-----------------------------------------------------------------------------
(* The watchdog against the clock: how long a watched teardown can last, and *)
(* that the shutdown that creates the thread has its full time.              *)

\* Neither property is inductive: both follow from how the age of the teardown
\* and the rest of the current sleep add up.
WatchdogCountdown ==
  /\ (phase # "dead" /\ active /\ thread = "asleep") => age + left <= Timeout
  /\ (phase # "dead" /\ active /\ thread = "grace") => age + left <= Timeout + Grace
  /\ (aligned /\ active /\ thread = "asleep") => age + left = Timeout
  /\ (aligned /\ thread = "grace") => age >= Timeout

WatchdogShape ==
  /\ active => phase \in {"teardown", "dead"}
  /\ thread = "asleep" => left <= Timeout
  /\ thread = "grace" => left <= Grace
  /\ aligned => thread # "none"
  /\ forced => thread = "grace"

WatchdogIInv == WatchdogTypeOK /\ WatchdogShape /\ WatchdogCountdown

\* The watchdog starts without a thread, disarmed.
LEMMA InitWatchdogIInv ==
  ASSUME WatchdogInit
  PROVE  WatchdogIInv
<1> USE TimeoutAssumption, GraceAssumption, AgeAssumption
    DEF TimeoutAssumption, GraceAssumption, AgeAssumption
<1>1. WatchdogTypeOK
  <2>1. left \in Nat /\ left <= Timeout + Grace /\ age \in Nat /\ age <= MaxAge
    BY DEF WatchdogInit
  <2> QED
    BY <2>1 DEF WatchdogInit, WatchdogTypeOK
<1>2. WatchdogShape
  BY DEF WatchdogInit, WatchdogShape
<1>3. WatchdogCountdown
  BY DEF WatchdogInit, WatchdogCountdown
<1> QED
  BY <1>1, <1>2, <1>3 DEF WatchdogIInv

\* Every step of the main thread, of the watchdog and of the clock keeps the sum
\* of age and remaining sleep within the timeout.
LEMMA NextWatchdogIInv ==
  ASSUME WatchdogIInv, [WatchdogNext]_watchdog_vars
  PROVE  WatchdogIInv'
<1> USE TimeoutAssumption, GraceAssumption, AgeAssumption
    DEF TimeoutAssumption, GraceAssumption, AgeAssumption, WatchdogIInv, WatchdogTypeOK,
        WatchdogShape, WatchdogCountdown
<1>1. CASE ArmShutdown
  <2>1. CASE thread = "none" /\ thread' = "asleep" /\ left' = Timeout /\ aligned' = TRUE
    BY <1>1, <2>1 DEF ArmShutdown
  <2>2. CASE aligned' = FALSE /\ UNCHANGED <<thread, left>>
    <3>1. WatchdogTypeOK'
      <4>1. age' \in Nat /\ age' <= MaxAge
        BY <1>1 DEF ArmShutdown
      <4> QED
        BY <1>1, <2>2, <4>1 DEF ArmShutdown
    <3>2. WatchdogShape'
      BY <1>1, <2>2 DEF ArmShutdown
    <3>3. WatchdogCountdown'
      BY <1>1, <2>2 DEF ArmShutdown
    <3> QED
      BY <3>1, <3>2, <3>3
  <2> QED
    BY <1>1, <2>1, <2>2 DEF ArmShutdown
<1>2. CASE DisarmShutdown
  BY <1>2 DEF DisarmShutdown
<1>3. CASE RestartInPlace
  BY <1>3 DEF RestartInPlace
<1>4. CASE ReturnFromMain
  BY <1>4 DEF ReturnFromMain
<1>5. CASE Wake
  BY <1>5 DEF Wake
<1>6. CASE ForceExit
  BY <1>6 DEF ForceExit
<1>7. CASE Tick
  BY <1>7 DEF Tick
<1>8. CASE UNCHANGED watchdog_vars
  BY <1>8 DEF watchdog_vars
<1> QED
  BY <1>1, <1>2, <1>3, <1>4, <1>5, <1>6, <1>7, <1>8 DEF WatchdogNext, Gone

\* The invariant holds throughout.
LEMMA AlwaysWatchdogIInv == WatchdogSpec => []WatchdogIInv
BY InitWatchdogIInv, NextWatchdogIInv, PTL DEF WatchdogSpec

\* The variables keep their types: a sleep never outlasts timeout plus grace.
THEOREM WatchdogTypes == WatchdogSpec => []WatchdogTypeOK
<1>1. WatchdogIInv => WatchdogTypeOK
  BY DEF WatchdogIInv
<1> QED
  BY <1>1, AlwaysWatchdogIInv, PTL

\* A watched teardown lasts at most Timeout + Grace ticks before _shutdown has
\* disarmed the watchdog or the process is gone.
THEOREM WatchdogBoundsTeardown == WatchdogSpec => []TeardownBounded
<1>1. WatchdogIInv => TeardownBounded
  BY TimeoutAssumption, GraceAssumption
  DEF TimeoutAssumption, GraceAssumption, WatchdogIInv, WatchdogTypeOK, WatchdogShape,
      WatchdogCountdown, TeardownBounded
<1> QED
  BY <1>1, AlwaysWatchdogIInv, PTL

\* A force-exit in the shutdown that created the thread comes no sooner than
\* SHUTDOWN_WATCHDOG_MS after that shutdown began.
THEOREM FirstTeardownIsTimed == WatchdogSpec => []FirstTeardownGetsTimeout
<1>1. WatchdogIInv => FirstTeardownGetsTimeout
  BY TimeoutAssumption, GraceAssumption
  DEF TimeoutAssumption, GraceAssumption, WatchdogIInv, WatchdogTypeOK, WatchdogShape,
      WatchdogCountdown, FirstTeardownGetsTimeout
<1> QED
  BY <1>1, AlwaysWatchdogIInv, PTL
=============================================================================


-------------------------- MODULE ShutdownWatchdog --------------------------
(***************************************************************************)
(* The shutdown watchdog of src/offsd/main.c against the clock.  The main  *)
(* thread arms it at the head of _shutdown and disarms it at the end; the  *)
(* thread is created by the first shutdown and then sleeps in rounds of    *)
(* SHUTDOWN_WATCHDOG_MS for the rest of the process's life, whether or not *)
(* a shutdown is in progress.  A teardown may take any time, or hang.      *)
(***************************************************************************)
EXTENDS Naturals

CONSTANTS
  Timeout,      \* SHUTDOWN_WATCHDOG_MS, in ticks
  Grace,        \* the POSIX build's last 100 ms, in ticks (0 on Windows)
  MaxAge        \* bound: where the clock stops counting a teardown's age

ASSUME TimeoutAssumption == Timeout \in Nat \ {0}
ASSUME GraceAssumption == Grace \in Nat
ASSUME AgeAssumption == MaxAge \in Nat /\ MaxAge > Timeout + Grace

VARIABLES
  phase,     \* the main thread: "up", "teardown", "stopped", "dead"
  active,    \* g_shutdown_active
  thread,    \* the watchdog: "none", "asleep", "grace"
  left,      \* ticks until its current sleep ends
  age,       \* history: ticks since the last _shutdown armed it, while active
  aligned,   \* history: the last _shutdown is the one that created the thread
  forced     \* history: the process ended by the watchdog

watchdog_vars == <<phase, active, thread, left, age, aligned, forced>>

WatchdogTypeOK ==
  /\ phase \in {"up", "teardown", "stopped", "dead"}
  /\ active \in BOOLEAN
  /\ thread \in {"none", "asleep", "grace"}
  /\ left \in Nat /\ left <= Timeout + Grace
  /\ age \in Nat /\ age <= MaxAge
  /\ aligned \in BOOLEAN /\ forced \in BOOLEAN

WatchdogInit ==
  /\ phase = "up" /\ active = FALSE /\ thread = "none" /\ left = 0
  /\ age = 0 /\ aligned = FALSE /\ forced = FALSE

-----------------------------------------------------------------------------
(* Plausible slips in the code, for the mutation checks. *)

WakeUnconditional ==
  /\ phase # "dead" /\ thread = "asleep" /\ left = 0
  /\ thread' = "grace" /\ left' = Grace
  /\ UNCHANGED <<phase, active, age, aligned, forced>>

WakeSecondRound ==   \* fires only when the previous round saw the flag too
  /\ phase # "dead" /\ thread = "asleep" /\ left = 0
  /\ IF active /\ age > Timeout
       THEN thread' = "grace" /\ left' = Grace
       ELSE UNCHANGED thread /\ left' = Timeout
  /\ UNCHANGED <<phase, active, age, aligned, forced>>

ForceReturns ==   \* the thread returns instead of ending the process
  /\ phase # "dead" /\ thread = "grace" /\ left = 0
  /\ thread' = "none"
  /\ UNCHANGED <<phase, active, left, age, aligned, forced>>

-----------------------------------------------------------------------------
\* Head of _shutdown: set the flag, create the thread if there is none.
ArmShutdown ==
  /\ phase = "up" /\ phase' = "teardown"
  /\ active' = TRUE /\ age' = 0
  /\ \/ /\ thread = "none"
        /\ thread' = "asleep" /\ left' = Timeout /\ aligned' = TRUE
     \/ /\ thread = "none"                 \* platform_thread_create failed
        /\ aligned' = FALSE /\ UNCHANGED <<thread, left>>
     \/ /\ thread # "none"
        /\ aligned' = FALSE /\ UNCHANGED <<thread, left>>
  /\ UNCHANGED forced

\* Last store of _shutdown.
DisarmShutdown ==
  /\ phase = "teardown" /\ phase' = "stopped"
  /\ active' = FALSE
  /\ UNCHANGED <<thread, left, age, aligned, forced>>

\* A reload was requested: the loop starts the server again.
RestartInPlace ==
  /\ phase = "stopped" /\ phase' = "up"
  /\ UNCHANGED <<active, thread, left, age, aligned, forced>>

ReturnFromMain ==
  /\ phase = "stopped" /\ phase' = "dead"
  /\ UNCHANGED <<active, thread, left, age, aligned, forced>>

\* The sleep in the thread's loop ends.
Wake ==
  /\ phase # "dead" /\ thread = "asleep" /\ left = 0
  /\ IF active
       THEN thread' = "grace" /\ left' = Grace
       ELSE UNCHANGED thread /\ left' = Timeout
  /\ UNCHANGED <<phase, active, age, aligned, forced>>

\* _exit(1) or TerminateProcess: the flag is not read again.
ForceExit ==
  /\ phase # "dead" /\ thread = "grace" /\ left = 0
  /\ phase' = "dead" /\ forced' = TRUE
  /\ UNCHANGED <<active, thread, left, age, aligned>>

\* The clock.  The watchdog acts on the tick its sleep ends.
Tick ==
  /\ phase # "dead"
  /\ thread # "none" => left > 0
  /\ left' = IF thread # "none" THEN left - 1 ELSE left
  /\ age' = IF active /\ age < MaxAge THEN age + 1 ELSE age
  /\ UNCHANGED <<phase, active, thread, aligned, forced>>

\* The process is gone.
Gone == phase = "dead" /\ UNCHANGED watchdog_vars

WatchdogNext ==
  \/ ArmShutdown \/ DisarmShutdown \/ RestartInPlace \/ ReturnFromMain
  \/ Wake \/ ForceExit \/ Tick \/ Gone

\* Time passes and the watchdog thread is scheduled.  Nothing is assumed of the
\* main thread, whose teardown may hang.
WatchdogSpec ==
  /\ WatchdogInit /\ [][WatchdogNext]_watchdog_vars
  /\ WF_watchdog_vars(Tick) /\ WF_watchdog_vars(Wake) /\ WF_watchdog_vars(ForceExit)

-----------------------------------------------------------------------------
(* Properties *)

\* With a watchdog thread, no teardown keeps the process longer than the timeout
\* and the grace sleep, in whichever phase of its sleep the thread was armed:
\* "the service manager is never held hostage".
TeardownBounded ==
  (phase # "dead" /\ active /\ thread # "none") => age <= Timeout + Grace

\* The shutdown that creates the thread gets its full timeout before a force-exit.
FirstTeardownGetsTimeout == (forced /\ aligned) => age >= Timeout

\* A hung teardown ends: the flag is cleared or the process is gone.
HungTeardownEnds == (active /\ thread # "none") ~> (~active \/ phase = "dead")

-----------------------------------------------------------------------------
(* What the repository says of the code and the code does not always do; the *)
(* README names the circumstances.                                           *)

\* "if teardown has not completed after SHUTDOWN_WATCHDOG_MS the process
\* force-exits": never earlier, in any armed shutdown.
ForcedOnlyAfterTimeout == forced => age >= Timeout
=============================================================================

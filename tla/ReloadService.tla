---------------------------- MODULE ReloadService ----------------------------
(***************************************************************************)
(* What offsd promises its operator about configuration, without threads,  *)
(* files or flags: the daemon is up with some settings in force; it may be *)
(* told, and promises, to move to the settings now on record; it then goes *)
(* through a stop and a start and comes back with settings at least that   *)
(* new (or with the defaults, when the record turns out unreadable).  It   *)
(* can go down at any moment, and be started afresh with no promise open.  *)
(***************************************************************************)
EXTENDS Naturals

CONSTANT Versions      \* versions of the settings; 0 is the defaults

VARIABLES
  phase,         \* "starting", "up", "stopping" or "down"
  inforce,       \* version the daemon runs with, or is starting with
  promised,      \* version on record when a reload was last promised
  outstanding    \* a promised reload has not happened yet

Init ==
  phase = "starting" /\ inforce = 0 /\ promised = 0 /\ outstanding = FALSE

Configure(v) ==
  /\ phase = "starting" /\ promised = 0
  /\ inforce' = v
  /\ UNCHANGED <<phase, promised, outstanding>>

ComeUp ==
  /\ phase = "starting" /\ phase' = "up"
  /\ UNCHANGED <<inforce, promised, outstanding>>

Promise(v) ==
  /\ phase \in {"up", "stopping"} /\ v >= promised
  /\ promised' = v /\ outstanding' = TRUE
  /\ UNCHANGED <<phase, inforce>>

BeginStop ==
  /\ phase = "up" /\ phase' = "stopping"
  /\ UNCHANGED <<inforce, promised, outstanding>>

Restart(v) ==
  /\ phase = "stopping" /\ outstanding
  /\ phase' = "starting" /\ outstanding' = FALSE
  /\ inforce' = v
  /\ \/ v >= promised /\ promised' = promised
     \/ v = 0 /\ promised' = 0

GoDown ==
  /\ phase # "down" /\ phase' = "down"
  /\ inforce' = 0 /\ promised' = 0 /\ outstanding' = FALSE

StartAfresh ==
  /\ phase = "down" /\ phase' = "starting"
  /\ UNCHANGED <<inforce, promised, outstanding>>

Next ==
  \/ ComeUp \/ BeginStop \/ GoDown \/ StartAfresh
  \/ \E v \in Versions : Configure(v) \/ Promise(v) \/ Restart(v)

Spec == Init /\ [][Next]_<<phase, inforce, promised, outstanding>>
=============================================================================

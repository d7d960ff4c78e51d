--------------------------- MODULE DaemonControl ---------------------------
(***************************************************************************)
(* `offs start`, `offs stop` and `offs restart`                            *)
(* (src/offs/commands/start_stop.c): commands that find the daemon by its  *)
(* process name, signal it, wait for it with a bound, fork another one and *)
(* probe its socket, while the daemon comes up, drains and dies in its own *)
(* time.  A daemon's flags are the words of its command line, an option    *)
(* with its value being one word; --foreground is kept apart, because      *)
(* restart drops it wherever it stands.                                    *)
(***************************************************************************)
EXTENDS Naturals, FiniteSets, Sequences

CONSTANTS
  Clis,          \* terminals; each runs one command at a time
  Pids,          \* process slots
  Words,         \* the words of a command line but --foreground; "empty" for the empty
                 \* word, "cut" for a part of one
  Sockets,       \* those of the form --unix <path>
  DefaultSocket, \* START_DEFAULT_SOCKET
  Typeable,      \* the flags users give
  MaxArgs,       \* words that fit in the buffer of _read_running_offsd_args
  None,
  Platforms,     \* of "linux", "macos" and "windows"
  Units,         \* the services the daemon may be installed as, None for none
  WaitPolls,     \* polls of cli_daemon_wait_stopped
  ProbePolls,    \* polls of _probe_daemon_up
  MaxCommands    \* bound on the commands run

Flags == [foreground : BOOLEAN, words : Seq(Words)]
DefaultFlags == [foreground |-> FALSE, words |-> <<>>]

ASSUME ControlAssumption ==
  /\ {"empty", "--help", "cut"} \cup Sockets \subseteq Words
  /\ Typeable \subseteq [foreground : BOOLEAN, words : Seq(Words)]
  /\ None \notin Pids /\ MaxArgs \in Nat
  /\ Platforms \subseteq {"linux", "macos", "windows"} /\ Platforms # {}
  /\ Units \subseteq {None, "offsd", "offs-daemon"} /\ Units # {}
  /\ {WaitPolls, ProbePolls, MaxCommands} \subseteq Nat

VARIABLES
  proc,      \* the processes
  cli,       \* the command each terminal is running
  commands,  \* commands run so far
  host       \* its platform, and the service the daemon is installed as, or None

vars == <<proc, cli, commands, host>>

States == {"free", "forked", "starting", "up", "draining", "backoff"}
Free == [state |-> "free", flags |-> DefaultFlags, unit |-> None]
Idle == [command |-> None, pc |-> "idle", flags |-> DefaultFlags, child |-> None, polls |-> 0,
         exit |-> "none", given |-> FALSE, before |-> Free]

\* The Windows package installs one service, called offs-daemon.
Hosts == {h \in [platform : Platforms, service : Units] :
            h.platform = "windows" => h.service # "offsd"}

TypeOK ==
  /\ proc \in [Pids -> [state : States, flags : Flags, unit : {None, host.service}]]
  /\ cli \in [Clis -> [command : {None, "start", "stop", "restart"},
                       pc : {"idle", "managed", "read", "check", "signal", "wait", "guard",
                             "fork", "waitpid", "probe"},
                       flags : Flags, child : Pids \cup {None},
                       polls : 0..(WaitPolls + ProbePolls),
                       exit : {"none", "0", "1", "refused", "unreachable", "warned"},
                       given : BOOLEAN,
                       before : [state : States, flags : Flags, unit : {None, host.service}]]]
  /\ commands \in 0..MaxCommands
  /\ host \in Hosts

\* _probe_socket_path takes the first --unix, the daemon the last one.
SocketsIn(f) == SelectSeq(f.words, LAMBDA w : w \in Sockets)
ProbeSocket(f) == IF SocketsIn(f) = <<>> THEN DefaultSocket ELSE Head(SocketsIn(f))
ListenSocket(f) ==
  IF SocketsIn(f) = <<>> THEN DefaultSocket ELSE SocketsIn(f)[Len(SocketsIn(f))]

AsksHelp(f) == \E i \in 1..Len(f.words) : f.words[i] = "--help"

\* The command line fits in the buffer of _read_running_offsd_args.
Fits(f) == Len(f.words) + (IF f.foreground THEN 1 ELSE 0) <= MaxArgs

\* What the buffer holds of a longer one: its first words, --foreground perhaps
\* among them, and perhaps the beginning of one more.
Buffered(f) ==
  IF Fits(f) THEN {f.words}
  ELSE LET kept == {n \in 0..Len(f.words) :
                      n = MaxArgs \/ (f.foreground /\ n + 1 = MaxArgs)}
       IN {SubSeq(f.words, 1, n) : n \in kept}
            \cup {Append(SubSeq(f.words, 1, n), "cut") : n \in kept}

\* Splitting the buffer stops at the first empty word.
Split(words) ==
  {SubSeq(words, 1, n) : n \in {m \in 0..Len(words) :
     (\A i \in 1..m : words[i] # "empty") /\ (m < Len(words) => words[m + 1] = "empty")}}

\* The flags restart may obtain from a daemon's; it strips --foreground.
Background(f) == [foreground |-> FALSE, words |-> f.words]
Preserved(f) ==
  {[foreground |-> FALSE, words |-> w] : w \in UNION {Split(b) : b \in Buffered(f)}}

Alive(p) == proc[p].state \in {"starting", "up", "draining"}
Daemons == {p \in Pids : Alive(p)}

\* A service process runs the binary its unit names; a forked one is offsd.
ProcessName(p) == IF proc[p].unit = None THEN "offsd" ELSE proc[p].unit

\* What pkill and the service manager act on.
Reachable(p) ==
  IF host.platform = "windows" THEN proc[p].unit # None ELSE ProcessName(p) = "offsd"

\* _is_daemon_running: `pgrep -x offsd`; on Windows `sc query`, which succeeds for
\* every installed service.
IsDaemonRunning ==
  IF host.platform = "windows" THEN host.service # None
  ELSE \E p \in Daemons : Reachable(p)

Active(p) == proc[p].state \in {"starting", "up"} /\ proc[p].unit = "offs-daemon"

\* _is_service_managed asks for the unit called offs-daemon; no package installs
\* a launchd job with that label.
IsServiceManaged ==
  CASE host.platform = "windows" -> host.service # None
    [] host.platform = "macos" -> FALSE
    [] host.platform = "linux" -> \E p \in Pids : Active(p)

Goto(c, pc) == cli' = [cli EXCEPT ![c].pc = pc, ![c].polls = 0]
Exit(c, status) ==
  cli' = [cli EXCEPT ![c].pc = "idle", ![c].polls = 0,
                     ![c].exit = IF @ = "warned" /\ status = "refused" THEN @ ELSE status]
Poll(c) == cli' = [cli EXCEPT ![c].polls = @ + 1]

Init ==
  /\ host \in Hosts
  /\ \E f \in {g \in Typeable \cup {DefaultFlags} : ~AsksHelp(g)}, first \in Pids :
       proc \in {[p \in Pids |-> Free],
                 [[p \in Pids |-> Free] EXCEPT
                    ![first] = [state |-> "up", flags |-> f, unit |-> host.service]]}
  /\ cli = [c \in Clis |-> Idle]
  /\ commands = 0

-----------------------------------------------------------------------------
(* The commands *)

\* The command line main.c dispatches; start and restart may come with flags.
Typed(command, f) ==
  [command |-> command, child |-> None, polls |-> 0, exit |-> "none",
   pc |-> CASE command = "start" -> "guard"
            [] command = "stop" -> "check"
            [] command = "restart" -> "managed",
   flags |-> f, given |-> f # DefaultFlags,
   before |-> IF Daemons = {} THEN Free ELSE proc[CHOOSE p \in Daemons : TRUE]]

Invoke(c) ==
  /\ cli[c].pc = "idle" /\ commands < MaxCommands /\ commands' = commands + 1
  /\ \E command \in {"start", "stop", "restart"}, f \in Typeable \cup {DefaultFlags} :
       /\ command = "stop" => f = DefaultFlags
       /\ cli' = [cli EXCEPT ![c] = Typed(command, f)]
  /\ UNCHANGED <<proc, host>>

\* cmd_start: --help, or the double-start guard.
Guard(c) ==
  /\ cli[c].pc = "guard"
  /\ \/ AsksHelp(cli[c].flags) /\ Exit(c, "0")
     \/ ~AsksHelp(cli[c].flags) /\ IsDaemonRunning /\ Exit(c, "refused")
     \/ ~AsksHelp(cli[c].flags) /\ ~IsDaemonRunning /\ Goto(c, "fork")
  /\ UNCHANGED <<proc, commands, host>>

\* fork; the child is not called offsd until it has exec'd.  It may fail.
Fork(c) ==
  /\ cli[c].pc = "fork" /\ host.platform # "windows"
  /\ \/ \E p \in Pids :
          /\ proc[p].state = "free"
          /\ proc' = [proc EXCEPT ![p] = [state |-> "forked", flags |-> cli[c].flags,
                                          unit |-> None]]
          /\ cli' = [cli EXCEPT ![c].pc = "waitpid", ![c].child = p]
     \/ Exit(c, "1") /\ UNCHANGED proc
  /\ UNCHANGED <<commands, host>>

\* Windows: `sc start`, which is reached only when there is no such service.
ScStart(c) ==
  /\ cli[c].pc = "fork" /\ host.platform = "windows"
  /\ Exit(c, "1")
  /\ UNCHANGED <<proc, commands, host>>

\* waitpid(WNOHANG) notices a child that has already failed.
WaitPid(c) ==
  /\ cli[c].pc = "waitpid"
  /\ \/ proc[cli[c].child].state = "free" /\ Exit(c, "1")
     \/ Goto(c, "probe")
  /\ UNCHANGED <<proc, commands, host>>

\* The process listens where the command probes.
Listens(p, c) == ListenSocket(proc[p].flags) = ProbeSocket(cli[c].flags)

\* A plausible bug: a probe that gives up is not a failure.
ProbeTrusted(c) ==
  /\ cli[c].pc = "probe"
  /\ \/ (\E p \in Pids : proc[p].state = "up" /\ Listens(p, c))
          /\ Exit(c, "0")
     \/ cli[c].polls >= ProbePolls /\ Exit(c, "0")
     \/ cli[c].polls < ProbePolls /\ Poll(c)
  /\ UNCHANGED <<proc, commands, host>>

\* _probe_daemon_up: connect to the socket of the flags, up to ProbePolls times.
\* A daemon that drains answers until it has stopped its transports.  A child has
\* exec'd or failed well before the three seconds are over.
Probe(c) ==
  /\ cli[c].pc = "probe"
  /\ LET Answers(states) ==
           \E p \in Pids : proc[p].state \in states /\ Listens(p, c)
     IN \/ Answers({"up", "draining"}) /\ Exit(c, "0")
        \/ ~Answers({"up"}) /\ cli[c].polls < ProbePolls /\ Poll(c)
        \/ /\ ~Answers({"up"}) /\ cli[c].polls >= ProbePolls
           /\ proc[cli[c].child].state # "forked"
           /\ Exit(c, "1")
  /\ UNCHANGED <<proc, commands, host>>

\* cmd_stop: no daemon, nothing to stop.
Check(c) ==
  /\ cli[c].pc = "check"
  /\ IF IsDaemonRunning THEN Goto(c, "signal") ELSE Exit(c, "unreachable")
  /\ UNCHANGED <<proc, commands, host>>

\* What SIGTERM does: a daemon that has its handlers drains, one that has not dies.
Terminated(p) ==
  IF proc[p].state = "starting" THEN {Free, [proc[p] EXCEPT !.state = "draining"]}
  ELSE {[proc[p] EXCEPT !.state = "draining"]}

\* `pkill -TERM -x offsd` signals every such process, `sc stop` the service.
Signal(c) ==
  /\ cli[c].pc = "signal"
  /\ LET hit == {p \in Daemons : Reachable(p)}
     IN IF hit = {} THEN Exit(c, "1") /\ UNCHANGED proc
        ELSE /\ proc' \in [Pids -> UNION {Terminated(p) : p \in hit}
                                     \cup {proc[p] : p \in Pids}]
             /\ \A p \in hit : proc'[p] \in Terminated(p)
             /\ \A p \in Pids \ hit : proc'[p] = proc[p]
             /\ IF cli[c].command = "stop" THEN Exit(c, "0") ELSE Goto(c, "wait")
  /\ UNCHANGED <<commands, host>>

\* A plausible bug: the old fixed pause instead of a poll.
WaitFixed(c) ==
  /\ cli[c].pc = "wait" /\ Goto(c, "fork")
  /\ UNCHANGED <<proc, commands, host>>

\* A plausible bug: restart waits until the daemon is gone, however long it takes.
WaitUnbounded(c) ==
  /\ cli[c].pc = "wait" /\ ~IsDaemonRunning /\ Goto(c, "guard")
  /\ UNCHANGED <<proc, commands, host>>

\* cli_daemon_wait_stopped, then cmd_start whether or not the daemon went down.
Wait(c) ==
  /\ cli[c].pc = "wait"
  /\ \/ ~IsDaemonRunning /\ Goto(c, "guard")
     \/ IsDaemonRunning /\ cli[c].polls < WaitPolls /\ Poll(c)
     \/ /\ IsDaemonRunning /\ cli[c].polls >= WaitPolls
        /\ cli' = [cli EXCEPT ![c].pc = "guard", ![c].polls = 0, ![c].exit = "warned"]
  /\ UNCHANGED <<proc, commands, host>>

\* A plausible bug: restart never asks the service manager.
NeverManaged(c) ==
  /\ cli[c].pc = "managed" /\ Goto(c, "read")
  /\ UNCHANGED <<proc, commands, host>>

\* cmd_restart hands a managed daemon to its service manager, whose restart stops
\* the old process and starts another, or is not permitted.
Managed(c) ==
  /\ cli[c].pc = "managed" /\ (host.platform = "windows" => ~IsServiceManaged)
  /\ \/ ~IsServiceManaged /\ Goto(c, "read") /\ UNCHANGED proc
     \/ /\ \E p \in Pids : Active(p) /\ proc' = [proc EXCEPT ![p].state = "starting"]
        /\ Exit(c, "0")
     \/ IsServiceManaged /\ Exit(c, "1") /\ UNCHANGED proc
  /\ UNCHANGED <<commands, host>>

\* Windows: `sc stop && sc start`.  sc stop does not wait for the process to go,
\* and sc start fails while it is there.
ScRestart(c) ==
  /\ cli[c].pc = "managed" /\ host.platform = "windows" /\ IsServiceManaged
  /\ \/ \E p \in Daemons :
          \/ proc' = [proc EXCEPT ![p].state = "draining"] /\ Exit(c, "1")
          \/ proc' = [proc EXCEPT ![p].state = "starting"] /\ Exit(c, "0")
     \/ Exit(c, "1") /\ UNCHANGED proc
  /\ UNCHANGED <<commands, host>>

\* A plausible bug: restart forgets to ask for the running daemon's flags.
ReadNoArgs(c) ==
  /\ cli[c].pc = "read" /\ Goto(c, "check")
  /\ UNCHANGED <<proc, commands, host>>

\* _read_running_offsd_args: without flags of its own, restart takes those of a
\* running daemon from /proc, which only Linux has, without --foreground.
ReadArgs(c) ==
  /\ cli[c].pc = "read"
  /\ LET found == {p \in Daemons : ProcessName(p) = "offsd"}
     IN IF host.platform = "linux" /\ ~cli[c].given /\ found # {}
          THEN \E p \in found : \E f \in Preserved(proc[p].flags) :
                 cli' = [cli EXCEPT ![c].pc = "check", ![c].flags = f]
          ELSE Goto(c, "check")
  /\ UNCHANGED <<proc, commands, host>>

CliStep(c) ==
  \/ Guard(c) \/ Fork(c) \/ ScStart(c) \/ WaitPid(c) \/ Probe(c) \/ Check(c) \/ Signal(c)
  \/ Wait(c) \/ Managed(c) \/ ScRestart(c) \/ ReadArgs(c)

-----------------------------------------------------------------------------
(* The processes, seen from outside; OffsdLifecycle models their inside.   *)

Become(p, state) == proc' = [proc EXCEPT ![p].state = state] /\ UNCHANGED <<cli, commands, host>>
Vanish(p) == proc' = [proc EXCEPT ![p] = Free] /\ UNCHANGED <<cli, commands, host>>

\* Restart=on-failure and KeepAlive: systemd or launchd waits a while and then
\* starts a service process again that failed to start or was forced to exit.
Backoff(p) ==
  /\ proc[p].state \in {"starting", "draining"} /\ proc[p].unit # None
  /\ host.platform # "windows"
  /\ Become(p, "backoff")

ManagerRestarts(p) == proc[p].state = "backoff" /\ Become(p, "starting")

Exec(p) == proc[p].state = "forked" /\ (Become(p, "starting") \/ Vanish(p))
ComeUp(p) == proc[p].state = "starting" /\ (Become(p, "up") \/ Vanish(p))
Drained(p) == proc[p].state = "draining" /\ Vanish(p)

ProcessStep(p) == Exec(p) \/ ComeUp(p) \/ Drained(p) \/ Backoff(p) \/ ManagerRestarts(p)

Next ==
  \/ \E c \in Clis : Invoke(c) \/ CliStep(c)
  \/ \E p \in Pids : ProcessStep(p)

Spec ==
  /\ Init /\ [][Next]_vars
  /\ \A c \in Clis : WF_vars(CliStep(c))
  /\ \A p \in Pids : WF_vars(Exec(p))

-----------------------------------------------------------------------------
(* Properties *)

\* No manager starts daemons besides the commands, or it is the Windows service
\* manager, through which they work.  Elsewhere `pgrep -x offsd` misses the process
\* of a unit called offs-daemon, and a unit called offsd may be started again by a
\* manager the commands do not ask.
CommandsAlone == host.platform = "windows" \/ host.service = None

\* There is never more than one daemon, where the commands alone start it: the
\* double-start guard refuses "to spawn a second daemon if one is already running",
\* and restart waits for the old one.
AtMostOneDaemon == CommandsAlone => Cardinality(Daemons) <= 1

\* "Daemon started" is about the daemon this command started: when start or
\* restart exits 0, the process it forked is the one that is up, not an older
\* daemon that still answers on the socket (again where the commands alone start
\* daemons).
SuccessIsOwnChild ==
  [][\A c \in Clis : cli[c].pc = "probe" /\ cli'[c].exit = "0" /\ CommandsAlone
       => proc[cli[c].child].state = "up"]_vars

\* The command line is read as a whole: it fits in the buffer and no word is empty.
Whole(f) == Fits(f) /\ \A i \in 1..Len(f.words) : f.words[i] # "empty"

\* On Linux, a restart without flags of its own starts the daemon with the flags
\* the old one had except --foreground, where the commands alone start it and the
\* old command line can be read as a whole: cmd_restart "preserves the original
\* ... socket path, cache/config dirs, port, and config path" and strips
\* "--foreground from the preserved flags so the restarted daemon daemonizes".
RestartKeepsFlags ==
  \A c \in Clis :
    host.platform = "linux" /\ CommandsAlone
      /\ cli[c].command = "restart" /\ ~cli[c].given /\ cli[c].child # None
      /\ proc[cli[c].child].state # "free" /\ Whole(cli[c].before.flags)
      => proc[cli[c].child].flags = Background(cli[c].before.flags)

\* Restarting the daemon of the service called offs-daemon starts no daemon
\* outside the service manager, on Linux and on Windows: cmd_restart restarts it
\* "through the native service manager so it retains control of the new process".
RestartKeepsManager ==
  \A c \in Clis :
    host.platform # "macos" /\ cli[c].command = "restart"
      /\ cli[c].before.unit = "offs-daemon" /\ cli[c].before.state = "up"
      => cli[c].child = None

\* cmd_restart puts back the daemon it found: as the service, or with its flags
\* but for --foreground.
RestartKeepsDaemon == RestartKeepsFlags /\ RestartKeepsManager

\* Every command returns, however long a daemon takes to come up or to drain.
CommandsReturn == \A c \in Clis : []<>(cli[c].pc = "idle")

-----------------------------------------------------------------------------
(* What the repository says of the code and the code does not always do; the *)
(* README names the circumstances.                                           *)

\* When the old daemon does not go down in time, restart will "warn but proceed
\* rather than blocking forever": it ends with a daemon of its own.
RestartProceeds ==
  \A c \in Clis : cli[c].pc = "idle" /\ cli[c].exit = "warned" => cli[c].child # None

\* "Daemon is already running" is said only while a daemon is running, and
\* otherwise start starts one.
RefusalIsRight ==
  [][\A c \in Clis : cli[c].pc = "guard" /\ cli'[c].exit = "refused" => Daemons # {}]_vars

\* The comment on cmd_restart says that restart "preserves the original foreground
\* mode", and that on _read_running_offsd_args that it "preserves the original start
\* flags (foreground, ...)", of any length.
RestartKeepsEveryFlag ==
  \A c \in Clis :
    host.platform = "linux" /\ CommandsAlone
      /\ cli[c].command = "restart" /\ ~cli[c].given /\ cli[c].child # None
      /\ proc[cli[c].child].state # "free"
      => proc[cli[c].child].flags = cli[c].before.flags

\* "restart no longer exits 0 with no daemon".
RestartLeavesDaemon ==
  [][\A c \in Clis : cli[c].command = "restart" /\ cli[c].pc # "idle" /\ cli'[c].exit = "0"
       => Daemons' # {}]_vars

\* stop gives up only when there is no daemon: _is_daemon_running is the liveness
\* test of cmd_stop and cmd_restart.
StopFindsDaemon ==
  [][\A c \in Clis : cli[c].pc = "check" /\ cli'[c].exit = "unreachable"
       => Daemons = {}]_vars
=============================================================================

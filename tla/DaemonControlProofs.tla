------------------------ MODULE DaemonControlProofs ------------------------
(***************************************************************************)
(* start, stop and restart from one terminal, for any number of process    *)
(* slots, flags, polls and commands: never two daemons, a reported success *)
(* is about the command's own child, and restart puts back what it found.  *)
(* From any number of terminals, every command takes boundedly many steps. *)
(***************************************************************************)
EXTENDS DaemonControl, TLAPS, FiniteSetTheorems

\* The commands take no lock: two terminals that both pass the guard both fork.
OneTerminal == \A c, d \in Clis : c = d

Processes == [state : States, flags : Flags, unit : Units \cup {None}]
Commands ==
  [command : {None, "start", "stop", "restart"},
   pc : {"idle", "managed", "read", "check", "signal", "wait", "guard", "fork", "waitpid",
         "probe"},
   flags : Flags, child : Pids \cup {None}, polls : Nat,
   exit : {"none", "0", "1", "refused", "unreachable", "warned"},
   given : BOOLEAN, before : Processes]

Types == proc \in [Pids -> Processes] /\ cli \in [Clis -> Commands] /\ host \in Hosts

Present(p) == proc[p].state # "free"
AfterFork == {"waitpid", "probe"}

\* A command has no child before it forks, and none at all on Windows; it has no exit
\* status before it returns.
Stages ==
  \A c \in Clis :
    /\ cli[c].child # None => /\ host.platform # "windows"
                              /\ cli[c].pc \in AfterFork \cup {"idle"}
    /\ cli[c].pc # "idle" => cli[c].exit \in {"none", "warned"}

\* A restart that found the service up asks the service manager, and returns.
ToManager ==
  \A c \in Clis :
    /\ host.platform # "macos" /\ cli[c].command = "restart"
    /\ cli[c].before.unit = "offs-daemon" /\ cli[c].before.state = "up"
    => /\ cli[c].child = None
       /\ host.platform = "linux" =>
            \/ cli[c].pc = "idle"
            \/ /\ cli[c].pc = "managed"
               /\ \E p \in Pids : proc[p].state = "up" /\ proc[p].unit = "offs-daemon"

\* There is one process at most, and no service manager behind it.
Sole == \A p, q \in Pids : Present(p) /\ Present(q) => p = q
Unmanaged ==
  \A p \in Pids : /\ proc[p].state # "backoff"
                  /\ host.platform # "windows" => proc[p].unit = None

\* A command that is about to fork has seen that there is none; from the fork on the
\* only one is its child, which has exec'd when the command returns.
OwnChild ==
  \A c \in Clis, p \in Pids : Present(p) =>
    /\ cli[c].pc = "fork" => host.platform = "windows"
    /\ cli[c].pc \in AfterFork =>
         p = cli[c].child /\ proc[p].state \in {"forked", "starting", "up"}
    /\ proc[p].state = "forked" => cli[c].pc \in AfterFork
    /\ p = cli[c].child => proc[p].flags = cli[c].flags

\* A restart without flags takes what it can read of those of the daemon it found,
\* before it forks.
OldFlags ==
  \A c \in Clis :
    host.platform = "linux" /\ cli[c].command = "restart" /\ ~cli[c].given =>
      /\ cli[c].pc \in {"managed", "read"} =>
           \A p \in Daemons : proc[p].flags = cli[c].before.flags
      /\ cli[c].pc = "check" /\ Daemons # {} => cli[c].flags \in Preserved(cli[c].before.flags)
      /\ cli[c].pc \in {"signal", "wait", "guard", "fork"} \/ cli[c].child # None =>
           cli[c].flags \in Preserved(cli[c].before.flags)

IInv ==
  /\ Types /\ Stages /\ ToManager
  /\ CommandsAlone => Sole /\ Unmanaged /\ OwnChild /\ OldFlags

-----------------------------------------------------------------------------
(* What the constants are. *)

\* None is no process.
LEMMA NoneIsNoPid == None \notin Pids
  BY ControlAssumption

\* The polls are numbers.
LEMMA PollBounds == WaitPolls \in Nat /\ ProbePolls \in Nat
  BY ControlAssumption

-----------------------------------------------------------------------------
(* What the steps of a command do to its record. *)

Same(c) ==
  /\ cli'[c].command = cli[c].command /\ cli'[c].child = cli[c].child
  /\ cli'[c].given = cli[c].given /\ cli'[c].before = cli[c].before

\* A command returns.
LEMMA Exits ==
  ASSUME Types, NEW c \in Clis, NEW status \in {"0", "1", "refused", "unreachable"},
         Exit(c, status)
  PROVE  /\ cli' \in [Clis -> Commands] /\ cli'[c].pc = "idle" /\ Same(c)
         /\ cli'[c].flags = cli[c].flags /\ cli'[c].exit \in {status, "warned"}
<1> DEFINE e == IF cli[c].exit = "warned" /\ status = "refused" THEN cli[c].exit ELSE status
           rec == [cli[c] EXCEPT !.pc = "idle", !.polls = 0, !.exit = e]
<1>1. cli \in [Clis -> Commands] /\ cli[c] \in Commands
  BY DEF Types
<1>2. e \in {status, "warned"}
  OBVIOUS
<1>3. cli' = [cli EXCEPT ![c] = rec]
  BY <1>1 DEF Exit
<1> HIDE DEF e
<1>4. /\ rec \in Commands /\ rec.pc = "idle" /\ rec.exit = e /\ rec.flags = cli[c].flags
      /\ rec.command = cli[c].command /\ rec.child = cli[c].child
      /\ rec.given = cli[c].given /\ rec.before = cli[c].before
  BY <1>1, <1>2 DEF Commands
<1> HIDE DEF rec
<1>5. cli' \in [Clis -> Commands] /\ cli'[c] = rec
  BY <1>1, <1>3, <1>4
<1> QED
  BY <1>2, <1>4, <1>5 DEF Same

\* A command goes on to its next stage.
LEMMA Goes ==
  ASSUME Types, NEW c \in Clis,
         NEW to \in {"read", "check", "signal", "wait", "guard", "fork", "probe"}, Goto(c, to)
  PROVE  /\ cli' \in [Clis -> Commands] /\ cli'[c].pc = to /\ Same(c)
         /\ cli'[c].flags = cli[c].flags /\ cli'[c].exit = cli[c].exit
<1> DEFINE rec == [cli[c] EXCEPT !.pc = to, !.polls = 0]
<1>1. cli \in [Clis -> Commands] /\ cli[c] \in Commands
  BY DEF Types
<1>2. cli' = [cli EXCEPT ![c] = rec]
  BY <1>1 DEF Goto
<1>3. /\ rec \in Commands /\ rec.pc = to /\ rec.exit = cli[c].exit /\ rec.flags = cli[c].flags
      /\ rec.command = cli[c].command /\ rec.child = cli[c].child
      /\ rec.given = cli[c].given /\ rec.before = cli[c].before
  BY <1>1 DEF Commands
<1> HIDE DEF rec
<1>4. cli' \in [Clis -> Commands] /\ cli'[c] = rec
  BY <1>1, <1>2, <1>3
<1> QED
  BY <1>3, <1>4 DEF Same

\* A command polls once more.
LEMMA Polls ==
  ASSUME Types, NEW c \in Clis, Poll(c)
  PROVE  /\ cli' \in [Clis -> Commands] /\ cli'[c].pc = cli[c].pc /\ Same(c)
         /\ cli'[c].flags = cli[c].flags /\ cli'[c].exit = cli[c].exit
<1> DEFINE more == cli[c].polls + 1
           rec == [cli[c] EXCEPT !.polls = more]
<1>1. cli \in [Clis -> Commands] /\ cli[c] \in Commands
  BY DEF Types
<1>2. more \in Nat
  BY <1>1 DEF Commands
<1>3. cli' = [cli EXCEPT ![c] = rec]
  BY <1>1 DEF Poll
<1> HIDE DEF more
<1>4. /\ rec \in Commands /\ rec.pc = cli[c].pc /\ rec.exit = cli[c].exit
      /\ rec.flags = cli[c].flags
      /\ rec.command = cli[c].command /\ rec.child = cli[c].child
      /\ rec.given = cli[c].given /\ rec.before = cli[c].before
  BY <1>1, <1>2 DEF Commands
<1> HIDE DEF rec
<1>5. cli' \in [Clis -> Commands] /\ cli'[c] = rec
  BY <1>1, <1>3, <1>4
<1> QED
  BY <1>4, <1>5 DEF Same

\* Where the commands alone start daemons, they see every one of them; on Windows
\* none of this is asked before a fork.
LEMMA SeesDaemons ==
  ASSUME IInv, CommandsAlone, host.platform # "windows"
  PROVE  /\ \A p \in Pids : Reachable(p)
         /\ IsDaemonRunning <=> Daemons # {}
<1>1. \A p \in Pids : proc[p].unit = None
  BY DEF IInv, Unmanaged
<1>2. \A p \in Pids : Reachable(p)
  BY <1>1 DEF Reachable, ProcessName
<1> QED
  BY <1>2 DEF IsDaemonRunning, Daemons

\* A step of a command that leaves the processes alone.
LEMMA Moves ==
  ASSUME OneTerminal, IInv, NEW c \in Clis, cli[c].pc # "idle", UNCHANGED <<proc, host>>,
         cli' \in [Clis -> Commands], Same(c),
         cli'[c].pc # "idle" => cli'[c].exit \in {"none", "warned"},
         cli[c].pc \in AfterFork => cli'[c].pc \in AfterFork \cup {"idle"},
         cli[c].pc \notin AfterFork => cli'[c].pc \notin AfterFork,
         CommandsAlone /\ cli[c].pc \in AfterFork /\ cli'[c].pc = "idle"
           => \A p \in Pids : proc[p].state # "forked",
         CommandsAlone /\ cli'[c].pc = "fork" /\ host.platform # "windows"
           => \A p \in Pids : ~Present(p),
         cli'[c].pc # "managed",
         cli[c].pc = "managed" /\ host.platform = "linux"
           /\ (\E p \in Pids : proc[p].state = "up" /\ proc[p].unit = "offs-daemon")
           => cli'[c].pc = "idle",
         cli[c].child # None => cli'[c].flags = cli[c].flags,
         cli'[c].flags = cli[c].flags \/ cli'[c].flags \in Flags,
         CommandsAlone => OldFlags'
  PROVE  IInv'
<1>1. Types /\ Stages /\ ToManager
  BY DEF IInv
<1>2. \A d \in Clis : d = c
  BY DEF OneTerminal
<1>3. Types'
  BY <1>1 DEF Types
<1>4. Stages'
  BY <1>1, <1>2 DEF Stages, Same, AfterFork
<1>5. ToManager'
  BY <1>1, <1>2 DEF ToManager, Same
<1>6. ASSUME CommandsAlone PROVE Sole' /\ Unmanaged' /\ OwnChild'
  <2>1. Sole /\ Unmanaged /\ OwnChild
    BY <1>6 DEF IInv
  <2>2. Sole' /\ Unmanaged'
    BY <2>1 DEF Sole, Unmanaged, Present
  <2>3. ASSUME NEW p \in Pids, Present(p)
        PROVE  /\ cli'[c].pc = "fork" => host.platform = "windows"
               /\ cli'[c].pc \in AfterFork =>
                    p = cli'[c].child /\ proc[p].state \in {"forked", "starting", "up"}
               /\ proc[p].state = "forked" => cli'[c].pc \in AfterFork
               /\ p = cli'[c].child => proc[p].flags = cli'[c].flags
    <3>1. cli'[c].pc = "fork" => host.platform = "windows"
      BY <1>6, <2>3
    <3>2. cli'[c].pc \in AfterFork =>
            p = cli'[c].child /\ proc[p].state \in {"forked", "starting", "up"}
      BY <2>1, <2>3 DEF OwnChild, Same
    <3>3. proc[p].state = "forked" => cli'[c].pc \in AfterFork
      BY <1>6, <2>1, <2>3 DEF OwnChild
    <3>4. p = cli'[c].child => proc[p].flags = cli'[c].flags
      BY <2>1, <2>3, NoneIsNoPid DEF OwnChild, Same
    <3> QED
      BY <3>1, <3>2, <3>3, <3>4
  <2>4. OwnChild'
    BY <1>2, <2>3 DEF OwnChild, Present
  <2> QED
    BY <2>2, <2>4
<1>7. CommandsAlone' <=> CommandsAlone
  BY DEF CommandsAlone
<1> QED
  BY <1>3, <1>4, <1>5, <1>6, <1>7 DEF IInv

\* A step of a process beside the commands.
LEMMA ProcessMoves ==
  ASSUME OneTerminal, IInv, NEW p \in Pids, NEW r \in Processes, UNCHANGED <<cli, host>>,
         proc' = [proc EXCEPT ![p] = r], Present(p), proc[p].state # "up",
         r.state # "free" => r.flags = proc[p].flags /\ r.unit = proc[p].unit,
         r.state # "forked",
         CommandsAlone => /\ r.state \in {"free", "starting", "up"}
                          /\ r.unit # None => proc[p].unit # None
                          /\ proc[p].state \in {"forked", "starting", "draining"}
                          /\ proc[p].state = "draining" => r.state = "free"
  PROVE  IInv'
<1>1. Types /\ Stages /\ ToManager
  BY DEF IInv
<1>2. /\ proc \in [Pids -> Processes] /\ proc' \in [Pids -> Processes] /\ proc'[p] = r
      /\ \A q \in Pids \ {p} : proc'[q] = proc[q]
  BY <1>1 DEF Types
<1>3. Types'
  BY <1>1, <1>2 DEF Types
<1>4. Stages'
  BY <1>1 DEF Stages
<1>5. ToManager'
  <2>1. ASSUME NEW q \in Pids, proc[q].state = "up", proc[q].unit = "offs-daemon"
        PROVE  proc'[q] = proc[q]
    BY <1>2, <2>1
  <2>2. (\E q \in Pids : proc[q].state = "up" /\ proc[q].unit = "offs-daemon") =>
          \E q \in Pids : proc'[q].state = "up" /\ proc'[q].unit = "offs-daemon"
    BY <2>1
  <2> QED
    BY <1>1, <2>2 DEF ToManager
<1>6. ASSUME CommandsAlone PROVE Sole' /\ Unmanaged' /\ OwnChild' /\ OldFlags'
  <2>1. Sole /\ Unmanaged /\ OwnChild /\ OldFlags
    BY <1>6 DEF IInv
  <2>2. \A q \in Pids : proc'[q].state # "free" => Present(q)
    BY <1>2 DEF Present
  <2>3. Sole'
    BY <2>1, <2>2 DEF Sole, Present
  <2>4. Unmanaged'
    BY <1>2, <1>6, <2>1 DEF Unmanaged
  <2>5. OwnChild'
    <3> SUFFICES ASSUME NEW c \in Clis, NEW q \in Pids, proc'[q].state # "free"
                 PROVE  /\ cli[c].pc = "fork" => host.platform = "windows"
                        /\ cli[c].pc \in AfterFork =>
                             q = cli[c].child /\ proc'[q].state \in {"forked", "starting", "up"}
                        /\ proc'[q].state = "forked" => cli[c].pc \in AfterFork
                        /\ q = cli[c].child => proc'[q].flags = cli[c].flags
      BY DEF OwnChild, Present
    <3>1. Present(q)
      BY <2>2
    <3> QED
      BY <1>2, <1>6, <2>1, <3>1 DEF OwnChild
  <2>6. OldFlags'
    <3>1. ASSUME NEW c \in Clis, cli[c].pc \notin AfterFork, NEW q \in Daemons'
          PROVE  q \in Daemons /\ proc'[q].flags = proc[q].flags
      <4>1. q \in Pids /\ proc'[q].state \in {"starting", "up", "draining"}
        BY <3>1 DEF Daemons, Alive
      <4>2. Present(q)
        BY <2>2, <4>1
      <4>3. proc[q].state # "forked"
        BY <2>1, <3>1, <4>1, <4>2 DEF OwnChild
      <4>4. proc'[q].flags = proc[q].flags /\ proc[q].state \in {"starting", "up", "draining"}
        BY <1>2, <1>6, <4>1, <4>3
      <4> QED
        BY <4>1, <4>4 DEF Daemons, Alive
    <3>2. ASSUME NEW c \in Clis, host.platform = "linux", cli[c].command = "restart",
                 ~cli[c].given
          PROVE  /\ cli[c].pc \in {"managed", "read"} =>
                      \A q \in Daemons' : proc'[q].flags = cli[c].before.flags
                 /\ cli[c].pc = "check" /\ Daemons' # {} => cli[c].flags \in Preserved(cli[c].before.flags)
                 /\ cli[c].pc \in {"signal", "wait", "guard", "fork"} \/ cli[c].child # None =>
                      cli[c].flags \in Preserved(cli[c].before.flags)
      BY <2>1, <3>1, <3>2 DEF OldFlags, AfterFork
    <3> QED
      BY <3>2 DEF OldFlags
  <2> QED
    BY <2>3, <2>4, <2>5, <2>6
<1>7. CommandsAlone' <=> CommandsAlone
  BY DEF CommandsAlone
<1> QED
  BY <1>3, <1>4, <1>5, <1>6, <1>7 DEF IInv

\* The flags of a restart stay the old ones as it goes on.
LEMMA FlagsMove ==
  ASSUME OneTerminal, IInv, CommandsAlone, NEW c \in Clis, UNCHANGED <<proc, host>>, Same(c),
         cli'[c].flags = cli[c].flags,
         cli'[c].pc \in {"managed", "read"} => cli[c].pc \in {"managed", "read"},
         cli'[c].pc # "check",
         cli'[c].pc \in {"signal", "wait", "guard", "fork"} /\ host.platform = "linux" =>
           \/ cli[c].pc \in {"signal", "wait", "guard", "fork"}
           \/ cli[c].pc = "check" /\ Daemons # {}
  PROVE  OldFlags'
<1>1. OldFlags /\ (\A d \in Clis : d = c)
  BY DEF IInv, OneTerminal
<1>2. Daemons' = Daemons
  BY DEF Daemons, Alive
<1>3. ASSUME host.platform = "linux", cli'[c].command = "restart", ~cli'[c].given
      PROVE  /\ cli'[c].pc \in {"managed", "read"} =>
                  \A p \in Daemons : proc[p].flags = cli'[c].before.flags
             /\ cli'[c].pc \in {"signal", "wait", "guard", "fork"} \/ cli'[c].child # None =>
                  cli'[c].flags \in Preserved(cli'[c].before.flags)
  BY <1>1, <1>3 DEF OldFlags, Same
<1> QED
  BY <1>1, <1>2, <1>3 DEF OldFlags

-----------------------------------------------------------------------------
(* One lemma per operation. *)

\* No flags.
LEMMA DefaultIsFlags == DefaultFlags \in Flags
  BY DEF DefaultFlags, Flags

\* A slot no process is in.
LEMMA FreeProcess ==
  Free \in Processes /\ Free.state = "free" /\ Free.flags = DefaultFlags /\ Free.unit = None
  BY DefaultIsFlags DEF Free, Processes, States

\* What the users type are flags.
LEMMA TypedFlags == Typeable \cup {DefaultFlags} \subseteq Flags
  BY DefaultIsFlags, ControlAssumption DEF Flags

\* What restart reads of flags are flags.
LEMMA PreservedFlags ==
  ASSUME NEW f \in Flags, NEW g \in Preserved(f)
  PROVE  g \in Flags
<1>1. ASSUME NEW b \in Buffered(f) PROVE b \in Seq(Words)
  <2>1. f.words \in Seq(Words) /\ "cut" \in Words
    BY ControlAssumption DEF Flags
  <2>2. ASSUME NEW n \in 0..Len(f.words)
        PROVE  /\ SubSeq(f.words, 1, n) \in Seq(Words)
               /\ Append(SubSeq(f.words, 1, n), "cut") \in Seq(Words)
    <3>1. SubSeq(f.words, 1, n) \in Seq(Words)
      BY <2>1
    <3> QED
      BY <2>1, <3>1
  <2> QED
    BY <1>1, <2>1, <2>2 DEF Buffered
<1>2. ASSUME NEW b \in Seq(Words), NEW w \in Split(b) PROVE w \in Seq(Words)
  <2>1. PICK n \in 0..Len(b) : w = SubSeq(b, 1, n)
    BY <1>2 DEF Split
  <2> QED
    BY <2>1
<1>3. PICK b \in Buffered(f), w \in Seq(Words) :
        w \in Split(b) /\ g = [foreground |-> FALSE, words |-> w]
  BY <1>1, <1>2 DEF Preserved
<1> QED
  BY <1>3 DEF Flags

\* Words none of which is empty are split as they are.
LEMMA SplitWhole ==
  ASSUME NEW S, NEW words \in Seq(S), \A i \in 1..Len(words) : words[i] # "empty",
         NEW w \in Split(words)
  PROVE  w = words
<1>1. PICK n \in 0..Len(words) :
        w = SubSeq(words, 1, n) /\ (n < Len(words) => words[n + 1] = "empty")
  BY Zenon DEF Split
<1>2. Len(words) \in Nat
  OBVIOUS
<1>3. n = Len(words)
  <2>1. n < Len(words) => n + 1 \in 1..Len(words)
    BY <1>1, <1>2
  <2>2. ~(n < Len(words))
    BY <1>1, <2>1, Zenon
  <2> QED
    BY <1>1, <1>2, <2>2
<1> QED
  BY <1>1, <1>3

\* Flags that fit in the buffer and have no empty word are read as they are.
LEMMA WholeIsPreserved ==
  ASSUME NEW f \in Flags, Whole(f), NEW g \in Preserved(f)
  PROVE  g = Background(f)
<1>1. Buffered(f) = {f.words} /\ f.words \in Seq(Words)
  BY DEF Buffered, Whole, Flags
<1>2. PICK w \in Split(f.words) : g = [foreground |-> FALSE, words |-> w]
  BY <1>1 DEF Preserved
<1>3. \A i \in 1..Len(f.words) : f.words[i] # "empty"
  BY Zenon DEF Whole
<1>4. w = f.words
  BY <1>1, <1>2, <1>3, SplitWhole
<1> QED
  BY <1>2, <1>4 DEF Background

\* At first there is a daemon, or none, and no command.
LEMMA InitIInv == Init => IInv
<1> SUFFICES ASSUME Init PROVE IInv
  OBVIOUS
<1>1. host \in Hosts /\ host.service \in Units
  BY DEF Init, Hosts
<1>2. PICK f \in Typeable \cup {DefaultFlags}, first \in Pids :
        proc \in {[p \in Pids |-> Free],
                  [[p \in Pids |-> Free] EXCEPT
                     ![first] = [state |-> "up", flags |-> f, unit |-> host.service]]}
  BY DEF Init
<1> DEFINE r == [state |-> "up", flags |-> f, unit |-> host.service]
<1>3. r \in Processes /\ r.state = "up" /\ r.unit = host.service
  BY <1>1, TypedFlags DEF Processes, States
<1> HIDE DEF r
<1>4. \A p \in Pids : proc[p] = Free \/ (p = first /\ proc[p] = r)
  BY <1>2 DEF r
<1>5. proc \in [Pids -> Processes]
  BY <1>2, <1>3, FreeProcess DEF r
<1>6. Idle \in Commands /\ Idle.pc = "idle" /\ Idle.child = None /\ Idle.command = None
  BY FreeProcess, DefaultIsFlags DEF Idle, Commands
<1>7. cli \in [Clis -> Commands] /\ \A c \in Clis : cli[c] = Idle
  BY <1>6 DEF Init
<1>8. Types
  BY <1>1, <1>5, <1>7 DEF Types
<1>9. Stages
  BY <1>6, <1>7 DEF Stages
<1>10. ToManager
  BY <1>6, <1>7 DEF ToManager
<1>11. Sole
  BY <1>4, FreeProcess DEF Sole, Present
<1>12. CommandsAlone => Unmanaged
  <2>1. Free.unit = None
    BY DEF Free
  <2> QED
    BY <1>3, <1>4, <2>1, FreeProcess DEF Unmanaged, CommandsAlone
<1>13. OwnChild
  <2>1. None \notin Pids
    BY ControlAssumption
  <2> QED
    BY <1>3, <1>4, <1>6, <1>7, <2>1, FreeProcess DEF OwnChild, Present, AfterFork
<1>14. OldFlags
  BY <1>6, <1>7 DEF OldFlags
<1> QED
  BY <1>8, <1>9, <1>10, <1>11, <1>12, <1>13, <1>14 DEF IInv

\* The user types a command.
LEMMA InvokeIInv ==
  ASSUME OneTerminal, IInv, NEW c \in Clis, Invoke(c)
  PROVE  IInv'
<1>1. PICK command \in {"start", "stop", "restart"}, f \in Typeable \cup {DefaultFlags} :
        cli' = [cli EXCEPT ![c] = Typed(command, f)]
  BY DEF Invoke
<1> DEFINE to == CASE command = "start" -> "guard"
                   [] command = "stop" -> "check"
                   [] command = "restart" -> "managed"
           flags == f
           given == f # DefaultFlags
           found == IF Daemons = {} THEN Free ELSE proc[CHOOSE p \in Daemons : TRUE]
           rec == [command |-> command, child |-> None, polls |-> 0, exit |-> "none",
                   pc |-> to, flags |-> flags, given |-> given, before |-> found]
<1>2. /\ UNCHANGED <<proc, host>> /\ cli[c].pc = "idle"
      /\ Types /\ Stages /\ ToManager /\ \A d \in Clis : d = c
  BY DEF Invoke, IInv, OneTerminal
<1>3. to \in {"guard", "check", "managed"} /\ (command = "restart" => to = "managed")
  OBVIOUS
<1>4. flags \in Flags /\ given \in BOOLEAN
  BY TypedFlags
<1>5. /\ found \in Processes
      /\ found.state = "up" => \E p \in Pids : found = proc[p]
      /\ Daemons # {} => \E p \in Daemons : found = proc[p]
  <2>1. CASE Daemons = {}
    BY <2>1, FreeProcess
  <2>2. CASE Daemons # {}
    <3>1. (CHOOSE p \in Daemons : TRUE) \in Daemons /\ Daemons \subseteq Pids
      BY <2>2 DEF Daemons
    <3> QED
      BY <1>2, <2>2, <3>1 DEF Types
  <2> QED
    BY <2>1, <2>2
<1>6. cli' = [cli EXCEPT ![c] = rec]
  BY <1>1 DEF Typed
<1> HIDE DEF to, flags, given, found
<1>7. rec \in Commands
  BY <1>3, <1>4, <1>5 DEF Commands
<1>8. /\ rec.command = command /\ rec.pc = to /\ rec.child = None
      /\ rec.exit = "none" /\ rec.given = given /\ rec.before = found /\ rec.flags = flags
  OBVIOUS
<1> HIDE DEF rec
<1>9. cli' \in [Clis -> Commands] /\ cli'[c] = rec
  BY <1>2, <1>6, <1>7 DEF Types
<1>10. Types'
  BY <1>2, <1>9 DEF Types
<1>11. Stages'
  BY <1>2, <1>4, <1>8, <1>9 DEF Stages
<1>12. ToManager'
  BY <1>2, <1>3, <1>5, <1>8, <1>9 DEF ToManager
<1>13. ASSUME CommandsAlone PROVE Sole' /\ Unmanaged' /\ OwnChild' /\ OldFlags'
  <2>1. Sole /\ Unmanaged /\ OwnChild
    BY <1>13 DEF IInv
  <2>2. Sole' /\ Unmanaged'
    BY <1>2, <2>1 DEF Sole, Unmanaged, Present
  <2>3. None \notin Pids
    BY ControlAssumption
  <2>4. OwnChild'
    BY <1>2, <1>3, <1>8, <1>9, <2>1, <2>3 DEF OwnChild, Present, AfterFork
  <2>5. Daemons' = Daemons
    BY <1>2 DEF Daemons, Alive
  <2>6. ASSUME NEW p \in Daemons PROVE proc[p].flags = found.flags
    <3>1. PICK q \in Daemons : found = proc[q]
      BY <1>5, <2>6
    <3>2. p = q
      BY <2>1 DEF Sole, Present, Daemons, Alive
    <3> QED
      BY <3>1, <3>2
  <2>7. OldFlags'
    BY <1>2, <1>3, <1>8, <1>9, <2>5, <2>6 DEF OldFlags
  <2> QED
    BY <2>2, <2>4, <2>7
<1>14. CommandsAlone' <=> CommandsAlone
  BY <1>2 DEF CommandsAlone
<1> QED
  BY <1>10, <1>11, <1>12, <1>13, <1>14 DEF IInv

\* A command returns without touching a process; from its fork on, its child has exec'd.
LEMMA ReturnsIInv ==
  ASSUME OneTerminal, IInv, NEW c \in Clis, cli[c].pc # "idle", UNCHANGED <<proc, host>>,
         NEW status \in {"0", "1", "refused", "unreachable"}, Exit(c, status),
         CommandsAlone /\ cli[c].pc \in AfterFork => \A p \in Pids : proc[p].state # "forked"
  PROVE  IInv'
<1>1. /\ cli' \in [Clis -> Commands] /\ cli'[c].pc = "idle" /\ Same(c)
      /\ cli'[c].flags = cli[c].flags
  BY Exits DEF IInv
<1>2. CommandsAlone => OldFlags'
  BY <1>1, FlagsMove
<1> QED
  BY <1>1, <1>2, Moves DEF AfterFork

\* cmd_start's guard.
LEMMA GuardIInv ==
  ASSUME OneTerminal, IInv, NEW c \in Clis, Guard(c)
  PROVE  IInv'
<1>1. cli[c].pc = "guard" /\ UNCHANGED <<proc, host>>
  BY DEF Guard
<1>2. ASSUME NEW status \in {"0", "refused"}, Exit(c, status) PROVE IInv'
  BY <1>1, <1>2, ReturnsIInv DEF AfterFork
<1>3. CASE ~IsDaemonRunning /\ Goto(c, "fork")
  <2>1. /\ cli' \in [Clis -> Commands] /\ cli'[c].pc = "fork" /\ Same(c)
        /\ cli'[c].flags = cli[c].flags /\ cli'[c].exit = cli[c].exit
    BY <1>3, Goes DEF IInv
  <2>2. cli[c].exit \in {"none", "warned"}
    BY <1>1 DEF IInv, Stages
  <2>3. ASSUME CommandsAlone, host.platform # "windows", NEW p \in Pids PROVE ~Present(p)
    <3>1. p \notin Daemons
      BY <1>3, <2>3, SeesDaemons
    <3>2. proc[p].state \in States
      BY DEF IInv, Types, Processes
    <3>3. proc[p].state # "backoff" /\ proc[p].state # "forked"
      BY <1>1, <2>3 DEF IInv, Unmanaged, OwnChild, Present, AfterFork
    <3> QED
      BY <3>1, <3>2, <3>3 DEF Daemons, Alive, Present, States
  <2>4. CommandsAlone => OldFlags'
    BY <1>1, <2>1, FlagsMove
  <2> QED
    BY <1>1, <2>1, <2>2, <2>3, <2>4, Moves DEF AfterFork
<1> QED
  BY <1>2, <1>3 DEF Guard

\* fork.
LEMMA ForkIInv ==
  ASSUME OneTerminal, IInv, NEW c \in Clis, Fork(c)
  PROVE  IInv'
<1>1. cli[c].pc = "fork" /\ host.platform # "windows" /\ host' = host
  BY DEF Fork
<1>2. CASE Exit(c, "1") /\ UNCHANGED proc
  BY <1>1, <1>2, ReturnsIInv DEF AfterFork
<1>3. CASE \E p \in Pids :
             /\ proc[p].state = "free"
             /\ proc' = [proc EXCEPT ![p] = [state |-> "forked", flags |-> cli[c].flags,
                                             unit |-> None]]
             /\ cli' = [cli EXCEPT ![c].pc = "waitpid", ![c].child = p]
  <2>1. PICK p \in Pids :
             /\ proc[p].state = "free"
             /\ proc' = [proc EXCEPT ![p] = [state |-> "forked", flags |-> cli[c].flags,
                                             unit |-> None]]
             /\ cli' = [cli EXCEPT ![c].pc = "waitpid", ![c].child = p]
    BY <1>3
  <2>2. Types /\ Stages /\ ToManager /\ \A d \in Clis : d = c
    BY DEF IInv, OneTerminal
  <2> DEFINE r == [state |-> "forked", flags |-> cli[c].flags, unit |-> None]
             rec == [cli[c] EXCEPT !.pc = "waitpid", !.child = p]
  <2>3. cli \in [Clis -> Commands] /\ cli[c] \in Commands /\ proc \in [Pids -> Processes]
    BY <2>2 DEF Types
  <2>4. /\ r \in Processes /\ r.state = "forked" /\ r.flags = cli[c].flags /\ r.unit = None
    BY <2>3 DEF Commands, Processes, States
  <2>5. /\ rec \in Commands /\ rec.pc = "waitpid" /\ rec.child = p /\ rec.exit = cli[c].exit
        /\ rec.flags = cli[c].flags /\ rec.command = cli[c].command
        /\ rec.given = cli[c].given /\ rec.before = cli[c].before
    BY <2>3 DEF Commands
  <2>6. cli' = [cli EXCEPT ![c] = rec] /\ proc' = [proc EXCEPT ![p] = r]
    BY <2>1, <2>3
  <2> HIDE DEF r, rec
  <2>7. /\ cli' \in [Clis -> Commands] /\ cli'[c] = rec /\ proc' \in [Pids -> Processes]
        /\ proc'[p] = r /\ \A q \in Pids \ {p} : proc'[q] = proc[q]
    BY <2>3, <2>4, <2>5, <2>6
  <2>8. Types'
    BY <1>1, <2>2, <2>7 DEF Types
  <2>9. Stages'
    BY <1>1, <2>2, <2>5, <2>7 DEF Stages, AfterFork
  <2>10. ToManager'
    <3>1. host.platform # "macos" => host.platform = "linux"
      BY <1>1, <2>2, ControlAssumption DEF Types, Hosts
    <3> QED
      BY <1>1, <2>2, <2>5, <2>7, <3>1 DEF ToManager
  <2>11. ASSUME CommandsAlone PROVE Sole' /\ Unmanaged' /\ OwnChild' /\ OldFlags'
    <3>1. Sole /\ Unmanaged /\ OwnChild /\ OldFlags
      BY <2>11 DEF IInv
    <3>2. \A q \in Pids : proc'[q].state # "free" => q = p
      BY <1>1, <2>7, <3>1 DEF OwnChild, Present
    <3>3. Sole'
      BY <3>2 DEF Sole, Present
    <3>4. Unmanaged'
      BY <1>1, <2>4, <2>7, <3>1 DEF Unmanaged
    <3>5. OwnChild'
      BY <2>2, <2>4, <2>5, <2>7, <3>2 DEF OwnChild, Present, AfterFork
    <3>6. OldFlags'
      BY <1>1, <2>2, <2>5, <2>7, <3>1 DEF OldFlags
    <3> QED
      BY <3>3, <3>4, <3>5, <3>6
  <2>12. CommandsAlone' <=> CommandsAlone
    BY <1>1 DEF CommandsAlone
  <2> QED
    BY <2>8, <2>9, <2>10, <2>11, <2>12 DEF IInv
<1> QED
  BY <1>2, <1>3 DEF Fork

\* Windows: `sc start` fails.
LEMMA ScStartIInv ==
  ASSUME OneTerminal, IInv, NEW c \in Clis, ScStart(c)
  PROVE  IInv'
  BY ReturnsIInv DEF ScStart, AfterFork

\* waitpid: a child that is gone is not still to exec.
LEMMA WaitPidIInv ==
  ASSUME OneTerminal, IInv, NEW c \in Clis, WaitPid(c)
  PROVE  IInv'
<1>1. cli[c].pc = "waitpid" /\ UNCHANGED <<proc, host>>
  BY DEF WaitPid
<1>2. CASE proc[cli[c].child].state = "free" /\ Exit(c, "1")
  <2>1. ASSUME CommandsAlone, NEW p \in Pids PROVE proc[p].state # "forked"
    BY <1>1, <1>2, <2>1 DEF IInv, OwnChild, Present, AfterFork
  <2> QED
    BY <1>1, <1>2, <2>1, ReturnsIInv
<1>3. CASE Goto(c, "probe")
  <2>1. /\ cli' \in [Clis -> Commands] /\ cli'[c].pc = "probe" /\ Same(c)
        /\ cli'[c].flags = cli[c].flags /\ cli'[c].exit = cli[c].exit
    BY <1>3, Goes DEF IInv
  <2>2. cli[c].exit \in {"none", "warned"}
    BY <1>1 DEF IInv, Stages
  <2>3. CommandsAlone => OldFlags'
    BY <1>1, <2>1, FlagsMove
  <2> QED
    BY <1>1, <2>1, <2>2, <2>3, Moves DEF AfterFork
<1> QED
  BY <1>2, <1>3 DEF WaitPid

\* A command that polls again.
LEMMA PollIInv ==
  ASSUME OneTerminal, IInv, NEW c \in Clis, cli[c].pc \in {"probe", "wait"}, Poll(c),
         UNCHANGED <<proc, host>>
  PROVE  IInv'
<1>1. /\ cli' \in [Clis -> Commands] /\ cli'[c].pc = cli[c].pc /\ Same(c)
      /\ cli'[c].flags = cli[c].flags /\ cli'[c].exit = cli[c].exit
  BY Polls DEF IInv
<1>2. cli[c].exit \in {"none", "warned"}
  BY DEF IInv, Stages
<1>3. CommandsAlone => OldFlags'
  BY <1>1, FlagsMove
<1> QED
  BY <1>1, <1>2, <1>3, Moves DEF AfterFork

\* What answers a probe is the command's own child.
LEMMA AnswerIsChild ==
  ASSUME IInv, CommandsAlone, NEW c \in Clis, cli[c].pc = "probe",
         NEW p \in Pids, proc[p].state \in {"up", "draining"}
  PROVE  p = cli[c].child /\ proc[p].state = "up"
  BY DEF IInv, OwnChild, Present, AfterFork

\* _probe_daemon_up.
LEMMA ProbeIInv ==
  ASSUME OneTerminal, IInv, NEW c \in Clis, Probe(c)
  PROVE  IInv'
<1>1. cli[c].pc = "probe" /\ UNCHANGED <<proc, host>>
  BY DEF Probe
<1>2. CASE /\ \E p \in Pids : proc[p].state \in {"up", "draining"} /\ Listens(p, c)
           /\ Exit(c, "0")
  <2>1. ASSUME CommandsAlone, NEW q \in Pids PROVE proc[q].state # "forked"
    <3>1. PICK p \in Pids : proc[p].state \in {"up", "draining"}
      BY <1>2
    <3>2. p = cli[c].child /\ proc[p].state = "up"
      BY <1>1, <2>1, <3>1, AnswerIsChild
    <3> QED
      BY <1>1, <2>1, <3>2 DEF IInv, OwnChild, Present, AfterFork
  <2> QED
    BY <1>1, <1>2, <2>1, ReturnsIInv
<1>3. CASE Poll(c)
  BY <1>1, <1>3, PollIInv
<1>4. CASE proc[cli[c].child].state # "forked" /\ Exit(c, "1")
  <2>1. ASSUME CommandsAlone, NEW q \in Pids PROVE proc[q].state # "forked"
    BY <1>1, <1>4, <2>1 DEF IInv, OwnChild, Present, AfterFork
  <2> QED
    BY <1>1, <1>4, <2>1, ReturnsIInv
<1> QED
  BY <1>2, <1>3, <1>4 DEF Probe

\* cmd_stop looks for a daemon.
LEMMA CheckIInv ==
  ASSUME OneTerminal, IInv, NEW c \in Clis, Check(c)
  PROVE  IInv'
<1>1. cli[c].pc = "check" /\ UNCHANGED <<proc, host>>
  BY DEF Check
<1>2. CASE Exit(c, "unreachable")
  BY <1>1, <1>2, ReturnsIInv DEF AfterFork
<1>3. CASE IsDaemonRunning /\ Goto(c, "signal")
  <2>1. /\ cli' \in [Clis -> Commands] /\ cli'[c].pc = "signal" /\ Same(c)
        /\ cli'[c].flags = cli[c].flags /\ cli'[c].exit = cli[c].exit
    BY <1>3, Goes DEF IInv
  <2>2. cli[c].exit \in {"none", "warned"}
    BY <1>1 DEF IInv, Stages
  <2>3. CommandsAlone /\ host.platform = "linux" => Daemons # {}
    BY <1>3, SeesDaemons
  <2>4. CommandsAlone => OldFlags'
    BY <1>1, <2>1, <2>3, FlagsMove
  <2> QED
    BY <1>1, <2>1, <2>2, <2>4, Moves DEF AfterFork
<1> QED
  BY <1>2, <1>3 DEF Check

\* cli_daemon_wait_stopped.
LEMMA WaitIInv ==
  ASSUME OneTerminal, IInv, NEW c \in Clis, Wait(c)
  PROVE  IInv'
<1>1. cli[c].pc = "wait" /\ UNCHANGED <<proc, host>>
  BY DEF Wait
<1>2. ASSUME cli' \in [Clis -> Commands], cli'[c].pc = "guard", Same(c),
             cli'[c].flags = cli[c].flags, cli'[c].exit \in {"none", "warned"}
      PROVE  IInv'
  <2>1. CommandsAlone => OldFlags'
    BY <1>1, <1>2, FlagsMove
  <2> QED
    BY <1>1, <1>2, <2>1, Moves DEF AfterFork
<1>3. CASE Goto(c, "guard")
  <2>1. cli[c].exit \in {"none", "warned"}
    BY <1>1 DEF IInv, Stages
  <2> QED
    BY <1>2, <1>3, <2>1, Goes DEF IInv
<1>4. CASE Poll(c)
  BY <1>1, <1>4, PollIInv
<1>5. CASE cli' = [cli EXCEPT ![c].pc = "guard", ![c].polls = 0, ![c].exit = "warned"]
  <2> DEFINE rec == [cli[c] EXCEPT !.pc = "guard", !.polls = 0, !.exit = "warned"]
  <2>1. cli \in [Clis -> Commands] /\ cli[c] \in Commands
    BY DEF IInv, Types
  <2>2. cli' = [cli EXCEPT ![c] = rec]
    BY <1>5, <2>1
  <2>3. /\ rec \in Commands /\ rec.pc = "guard" /\ rec.exit = "warned"
        /\ rec.flags = cli[c].flags
        /\ rec.command = cli[c].command /\ rec.child = cli[c].child
        /\ rec.given = cli[c].given /\ rec.before = cli[c].before
    BY <2>1 DEF Commands
  <2> HIDE DEF rec
  <2>4. cli' \in [Clis -> Commands] /\ cli'[c] = rec
    BY <2>1, <2>2, <2>3
  <2> QED
    BY <1>2, <2>3, <2>4 DEF Same
<1> QED
  BY <1>3, <1>4, <1>5 DEF Wait

\* A command stops or restarts processes: each is as it was, gone, or a daemon that
\* drains or starts.  The command returns, or waits for the one it signalled.
LEMMA ActsIInv ==
  ASSUME OneTerminal, IInv, NEW c \in Clis, host' = host,
         cli[c].pc \in {"signal", "managed"}, cli'[c].pc \in {"idle", "wait"},
         cli' \in [Clis -> Commands], Same(c), cli'[c].flags = cli[c].flags,
         cli'[c].pc = "wait" => cli[c].pc = "signal" /\ cli'[c].exit = cli[c].exit,
         proc' \in [Pids -> Processes],
         \A p \in Pids :
           \/ proc'[p] = Free
           \/ proc'[p] = proc[p]
           \/ /\ p \in Daemons /\ proc'[p].state \in {"starting", "draining"}
              /\ proc'[p].flags = proc[p].flags /\ proc'[p].unit = proc[p].unit
  PROVE  IInv'
<1>1. Types /\ Stages /\ ToManager /\ \A d \in Clis : d = c
  BY DEF IInv, OneTerminal
<1>2. ASSUME NEW p \in Pids, proc'[p].state # "free" PROVE Present(p)
  BY <1>2, FreeProcess DEF Present, Daemons, Alive
<1>3. Types'
  BY <1>1 DEF Types
<1>4. cli[c].child = None /\ cli'[c].child = None
  BY <1>1 DEF Stages, Same, AfterFork
<1>5. Stages'
  BY <1>1, <1>4 DEF Stages
<1>6. ToManager'
  BY <1>1, <1>4 DEF ToManager, Same
<1>7. ASSUME CommandsAlone PROVE Sole' /\ Unmanaged' /\ OwnChild' /\ OldFlags'
  <2>1. Sole /\ Unmanaged /\ OwnChild /\ OldFlags
    BY <1>7 DEF IInv
  <2>2. Sole'
    BY <1>2, <2>1 DEF Sole, Present
  <2>3. Unmanaged'
    BY <2>1, FreeProcess DEF Unmanaged
  <2>4. \A p \in Pids : proc[p].state # "forked"
    BY <1>1, <2>1 DEF OwnChild, Present, AfterFork
  <2>5. \A p \in Pids : proc'[p].state # "forked"
    BY <2>4, FreeProcess
  <2>6. OwnChild'
    BY <1>1, <1>4, <2>5, NoneIsNoPid DEF OwnChild, AfterFork
  <2>7. OldFlags'
    <3>1. ASSUME host.platform = "linux", cli[c].command = "restart", ~cli[c].given,
                 cli'[c].pc = "wait"
          PROVE  cli'[c].flags \in Preserved(cli'[c].before.flags)
      BY <2>1, <3>1 DEF OldFlags, Same
    <3>2. /\ cli'[c].command = cli[c].command /\ cli'[c].given = cli[c].given
          /\ cli'[c].pc \notin {"managed", "read", "check"}
          /\ cli'[c].pc \in {"signal", "wait", "guard", "fork"} => cli'[c].pc = "wait"
      BY DEF Same
    <3> QED
      BY <1>1, <1>4, <3>1, <3>2 DEF OldFlags
  <2> QED
    BY <2>2, <2>3, <2>6, <2>7
<1>8. CommandsAlone' <=> CommandsAlone
  BY DEF CommandsAlone
<1> QED
  BY <1>3, <1>5, <1>6, <1>7, <1>8 DEF IInv

\* pkill and `sc stop`.
LEMMA SignalIInv ==
  ASSUME OneTerminal, IInv, NEW c \in Clis, Signal(c)
  PROVE  IInv'
<1> DEFINE hit == {p \in Daemons : Reachable(p)}
<1>1. cli[c].pc = "signal" /\ host' = host /\ Types
  BY DEF Signal, IInv
<1>2. CASE Exit(c, "1") /\ UNCHANGED proc
  BY <1>1, <1>2, ReturnsIInv DEF AfterFork
<1>3. CASE /\ hit # {}
           /\ proc' \in [Pids -> UNION {Terminated(p) : p \in hit} \cup {proc[p] : p \in Pids}]
           /\ \A p \in hit : proc'[p] \in Terminated(p)
           /\ \A p \in Pids \ hit : proc'[p] = proc[p]
           /\ IF cli[c].command = "stop" THEN Exit(c, "0") ELSE Goto(c, "wait")
  <2>1. ASSUME NEW p \in Pids
        PROVE  /\ proc'[p] \in Processes
               /\ \/ proc'[p] = Free
                  \/ proc'[p] = proc[p]
                  \/ /\ p \in Daemons /\ proc'[p].state \in {"starting", "draining"}
                     /\ proc'[p].flags = proc[p].flags /\ proc'[p].unit = proc[p].unit
    <3>1. proc[p] \in Processes
      BY <1>1 DEF Types
    <3>2. CASE p \in hit
      <4> DEFINE r == [proc[p] EXCEPT !.state = "draining"]
      <4>1. /\ r \in Processes /\ r.state = "draining" /\ r.flags = proc[p].flags
            /\ r.unit = proc[p].unit
        BY <3>1 DEF Processes, States
      <4>2. proc'[p] \in {Free, r}
        BY <1>3, <3>2 DEF Terminated
      <4> HIDE DEF r
      <4> QED
        BY <3>2, <4>1, <4>2, FreeProcess
    <3>3. CASE p \notin hit
      BY <1>3, <3>1, <3>3
    <3> QED
      BY <3>2, <3>3
  <2>2. proc' \in [Pids -> Processes]
    BY <1>3, <2>1
  <2>3. /\ cli' \in [Clis -> Commands] /\ cli'[c].pc \in {"idle", "wait"} /\ Same(c)
        /\ cli'[c].flags = cli[c].flags
        /\ cli'[c].pc = "wait" => cli'[c].exit = cli[c].exit
    BY <1>1, <1>3, Exits, Goes
  <2> QED
    BY <1>1, <2>1, <2>2, <2>3, ActsIInv
<1> QED
  BY <1>2, <1>3 DEF Signal

\* A service manager's restart, or half of one.
LEMMA ManagerActs ==
  ASSUME OneTerminal, IInv, NEW c \in Clis, cli[c].pc = "managed", host' = host,
         NEW p \in Daemons, NEW state \in {"starting", "draining"},
         proc' = [proc EXCEPT ![p].state = state],
         NEW status \in {"0", "1"}, Exit(c, status)
  PROVE  IInv'
<1> DEFINE r == [proc[p] EXCEPT !.state = state]
<1>1. Types /\ p \in Pids /\ proc \in [Pids -> Processes] /\ proc[p] \in Processes
  BY DEF IInv, Types, Daemons
<1>2. /\ r \in Processes /\ r.state = state /\ r.flags = proc[p].flags /\ r.unit = proc[p].unit
  BY <1>1 DEF Processes, States
<1>3. proc' = [proc EXCEPT ![p] = r]
  BY <1>1
<1> HIDE DEF r
<1>4. /\ proc' \in [Pids -> Processes] /\ proc'[p] = r
      /\ \A q \in Pids \ {p} : proc'[q] = proc[q]
  BY <1>1, <1>2, <1>3
<1>5. /\ cli' \in [Clis -> Commands] /\ cli'[c].pc = "idle" /\ Same(c)
      /\ cli'[c].flags = cli[c].flags
  BY <1>1, Exits
<1> QED
  BY <1>2, <1>4, <1>5, ActsIInv

\* cmd_restart: a daemon of the service is its manager's.
LEMMA ManagedIInv ==
  ASSUME OneTerminal, IInv, NEW c \in Clis, Managed(c)
  PROVE  IInv'
<1>1. cli[c].pc = "managed" /\ host' = host
  BY DEF Managed
<1>2. CASE ~IsServiceManaged /\ Goto(c, "read") /\ UNCHANGED proc
  <2>1. /\ cli' \in [Clis -> Commands] /\ cli'[c].pc = "read" /\ Same(c)
        /\ cli'[c].flags = cli[c].flags /\ cli'[c].exit = cli[c].exit
    BY <1>2, Goes DEF IInv
  <2>2. cli[c].exit \in {"none", "warned"}
    BY <1>1 DEF IInv, Stages
  <2>3. CommandsAlone => OldFlags'
    BY <1>1, <1>2, <2>1, FlagsMove
  <2>4. host.platform = "linux" =>
          ~\E p \in Pids : proc[p].state = "up" /\ proc[p].unit = "offs-daemon"
    BY <1>2 DEF IsServiceManaged, Active
  <2> QED
    BY <1>1, <1>2, <2>1, <2>2, <2>3, <2>4, Moves DEF AfterFork
<1>3. CASE /\ \E p \in Pids : Active(p) /\ proc' = [proc EXCEPT ![p].state = "starting"]
           /\ Exit(c, "0")
  <2>1. PICK p \in Pids : Active(p) /\ proc' = [proc EXCEPT ![p].state = "starting"]
    BY <1>3
  <2>2. p \in Daemons
    BY <2>1 DEF Active, Daemons, Alive
  <2> QED
    BY <1>1, <1>3, <2>1, <2>2, ManagerActs
<1>4. CASE Exit(c, "1") /\ UNCHANGED proc
  BY <1>1, <1>4, ReturnsIInv DEF AfterFork
<1> QED
  BY <1>2, <1>3, <1>4 DEF Managed

\* Windows: `sc stop && sc start`.
LEMMA ScRestartIInv ==
  ASSUME OneTerminal, IInv, NEW c \in Clis, ScRestart(c)
  PROVE  IInv'
<1>1. cli[c].pc = "managed" /\ host' = host
  BY DEF ScRestart
<1>2. CASE Exit(c, "1") /\ UNCHANGED proc
  BY <1>1, <1>2, ReturnsIInv DEF AfterFork
<1>3. ASSUME NEW p \in Daemons, proc' = [proc EXCEPT ![p].state = "draining"], Exit(c, "1")
      PROVE  IInv'
  BY <1>1, <1>3, ManagerActs
<1>4. ASSUME NEW p \in Daemons, proc' = [proc EXCEPT ![p].state = "starting"], Exit(c, "0")
      PROVE  IInv'
  BY <1>1, <1>4, ManagerActs
<1> QED
  BY <1>2, <1>3, <1>4 DEF ScRestart

\* _read_running_offsd_args.
LEMMA ReadArgsIInv ==
  ASSUME OneTerminal, IInv, NEW c \in Clis, ReadArgs(c)
  PROVE  IInv'
<1> DEFINE found == {p \in Daemons : ProcessName(p) = "offsd"}
<1>1. /\ cli[c].pc = "read" /\ UNCHANGED <<proc, host>> /\ Types /\ \A d \in Clis : d = c
      /\ cli[c].exit \in {"none", "warned"} /\ cli[c].child = None
  BY DEF ReadArgs, IInv, OneTerminal, Stages, AfterFork
<1>2. Daemons' = Daemons
  BY <1>1 DEF Daemons, Alive
<1>3. ASSUME cli' \in [Clis -> Commands], cli'[c].pc = "check", Same(c),
             cli'[c].exit = cli[c].exit,
             cli'[c].flags = cli[c].flags \/ cli'[c].flags \in Flags,
             CommandsAlone /\ host.platform = "linux" /\ cli[c].command = "restart"
               /\ ~cli[c].given /\ Daemons # {} => cli'[c].flags \in Preserved(cli[c].before.flags)
      PROVE  IInv'
  <2>1. CommandsAlone => OldFlags'
    BY <1>1, <1>2, <1>3 DEF OldFlags, Same
  <2> QED
    BY <1>1, <1>3, <2>1, Moves DEF AfterFork
<1>4. CASE host.platform = "linux" /\ ~cli[c].given /\ found # {}
  <2> PICK p \in found :
        \E f \in Preserved(proc[p].flags) :
          cli' = [cli EXCEPT ![c].pc = "check", ![c].flags = f]
    BY <1>4 DEF ReadArgs
  <2>1. PICK f \in Preserved(proc[p].flags) :
          cli' = [cli EXCEPT ![c].pc = "check", ![c].flags = f]
    OBVIOUS
  <2> DEFINE rec == [cli[c] EXCEPT !.pc = "check", !.flags = f]
  <2>2. /\ cli \in [Clis -> Commands] /\ cli[c] \in Commands /\ p \in Daemons
        /\ proc[p].flags \in Flags
    BY <1>1, <2>1 DEF Types, Daemons, Processes
  <2>3. cli' = [cli EXCEPT ![c] = rec] /\ f \in Flags
    BY <2>1, <2>2, PreservedFlags
  <2>4. CommandsAlone /\ cli[c].command = "restart" => f \in Preserved(cli[c].before.flags)
    BY <1>1, <1>4, <2>1, <2>2 DEF IInv, OldFlags
  <2>5. /\ rec \in Commands /\ rec.pc = "check" /\ rec.exit = cli[c].exit /\ rec.flags = f
        /\ rec.command = cli[c].command /\ rec.child = cli[c].child
        /\ rec.given = cli[c].given /\ rec.before = cli[c].before
    BY <2>2, <2>3 DEF Commands
  <2> HIDE DEF rec
  <2>6. cli' \in [Clis -> Commands] /\ cli'[c] = rec
    BY <2>2, <2>3, <2>5
  <2> QED
    BY <1>3, <2>3, <2>4, <2>5, <2>6 DEF Same
<1>5. CASE ~(host.platform = "linux" /\ ~cli[c].given /\ found # {})
  <2>1. Goto(c, "check")
    BY <1>5 DEF ReadArgs
  <2>2. ASSUME CommandsAlone, host.platform = "linux", ~cli[c].given PROVE Daemons = {}
    <3>1. \A p \in Daemons : p \in Pids /\ proc[p].unit = None
      BY <2>2 DEF IInv, Unmanaged, Daemons
    <3>2. found = Daemons
      BY <3>1 DEF ProcessName
    <3> QED
      BY <1>5, <2>2, <3>2
  <2>3. /\ cli' \in [Clis -> Commands] /\ cli'[c].pc = "check" /\ Same(c)
        /\ cli'[c].flags = cli[c].flags /\ cli'[c].exit = cli[c].exit
    BY <1>1, <2>1, Goes
  <2> QED
    BY <1>3, <2>2, <2>3
<1> QED
  BY <1>4, <1>5

\* A process goes on to its next state.
LEMMA Becomes ==
  ASSUME Types, NEW p \in Pids, NEW state \in States, Become(p, state)
  PROVE  /\ UNCHANGED <<cli, host>>
         /\ \E r \in Processes : /\ proc' = [proc EXCEPT ![p] = r] /\ r.state = state
                                 /\ r.flags = proc[p].flags /\ r.unit = proc[p].unit
<1> DEFINE r == [proc[p] EXCEPT !.state = state]
<1>1. proc \in [Pids -> Processes] /\ proc[p] \in Processes
  BY DEF Types
<1>2. /\ r \in Processes /\ r.state = state /\ r.flags = proc[p].flags /\ r.unit = proc[p].unit
  BY <1>1 DEF Processes
<1>3. proc' = [proc EXCEPT ![p] = r] /\ UNCHANGED <<cli, host>>
  BY <1>1 DEF Become
<1> HIDE DEF r
<1> QED
  BY <1>2, <1>3

\* A process comes up, drains, dies or is started again.
LEMMA ProcessIInv ==
  ASSUME OneTerminal, IInv, NEW p \in Pids, ProcessStep(p)
  PROVE  IInv'
<1>1. Types /\ {"starting", "up", "backoff"} \subseteq States
  BY DEF IInv, States
<1>2. CommandsAlone => /\ proc[p].state # "backoff"
                       /\ host.platform # "windows" => proc[p].unit = None
  BY DEF IInv, Unmanaged
<1>3. ASSUME Vanish(p), proc[p].state \in {"forked", "starting", "draining"} PROVE IInv'
  BY <1>3, FreeProcess, ProcessMoves DEF Vanish, Present
<1>4. ASSUME NEW state \in {"starting", "up", "backoff"}, Become(p, state), Present(p),
             proc[p].state # "up",
             CommandsAlone => state # "backoff" /\ proc[p].state \in {"forked", "starting"}
      PROVE  IInv'
  <2>1. UNCHANGED <<cli, host>>
    BY <1>1, <1>4, Becomes
  <2>2. PICK r \in Processes : /\ proc' = [proc EXCEPT ![p] = r] /\ r.state = state
                               /\ r.flags = proc[p].flags /\ r.unit = proc[p].unit
    BY <1>1, <1>4, Becomes
  <2> QED
    BY <1>4, <2>1, <2>2, ProcessMoves
<1>5. CASE Exec(p)
  BY <1>3, <1>4, <1>5 DEF Exec, Present
<1>6. CASE ComeUp(p)
  BY <1>3, <1>4, <1>6 DEF ComeUp, Present
<1>7. CASE Drained(p)
  BY <1>3, <1>7 DEF Drained
<1>8. CASE Backoff(p)
  BY <1>2, <1>4, <1>8 DEF Backoff, Present
<1>9. CASE ManagerRestarts(p)
  BY <1>2, <1>4, <1>9 DEF ManagerRestarts, Present
<1> QED
  BY <1>5, <1>6, <1>7, <1>8, <1>9 DEF ProcessStep

-----------------------------------------------------------------------------
(* The theorems. *)

\* Every step of a command or of a process keeps the invariant.
LEMMA NextIInv ==
  ASSUME OneTerminal, IInv, [Next]_vars
  PROVE  IInv'
<1>1. ASSUME NEW c \in Clis, CliStep(c) PROVE IInv'
  BY <1>1, GuardIInv, ForkIInv, ScStartIInv, WaitPidIInv, ProbeIInv, CheckIInv, SignalIInv,
     WaitIInv, ManagedIInv, ScRestartIInv, ReadArgsIInv DEF CliStep
<1>2. CASE UNCHANGED vars
  <2>1. UNCHANGED <<proc, cli, host>> /\ Daemons' = Daemons
    BY <1>2 DEF vars, Daemons, Alive
  <2>2. (Types /\ Stages /\ ToManager => Types' /\ Stages' /\ ToManager')
          /\ (CommandsAlone' <=> CommandsAlone)
    BY <2>1 DEF Types, Stages, ToManager, CommandsAlone
  <2>3. Sole /\ Unmanaged => Sole' /\ Unmanaged'
    BY <2>1 DEF Sole, Unmanaged, Present
  <2>4. OwnChild => OwnChild'
    BY <2>1 DEF OwnChild, Present
  <2>5. OldFlags => OldFlags'
    BY <2>1 DEF OldFlags
  <2> QED
    BY <2>2, <2>3, <2>4, <2>5 DEF IInv
<1> QED
  BY <1>1, <1>2, InvokeIInv, ProcessIInv DEF Next

\* The invariant holds throughout.
LEMMA AlwaysIInv ==
  ASSUME OneTerminal
  PROVE  Spec => []IInv
<1>1. Init => IInv
  BY InitIInv
<1>2. IInv /\ [Next]_vars => IInv'
  BY NextIInv
<1> QED
  BY <1>1, <1>2, PTL DEF Spec

\* From one terminal, start, stop and restart never make two daemons, where they alone
\* start it: the double-start guard of cmd_start sees every daemon there is, and a
\* child that has not exec'd yet is waited for before the command returns.
THEOREM OneDaemon ==
  ASSUME OneTerminal
  PROVE  Spec => []AtMostOneDaemon
<1>1. ASSUME IInv PROVE AtMostOneDaemon
  <2> SUFFICES ASSUME CommandsAlone PROVE Cardinality(Daemons) <= 1
    BY DEF AtMostOneDaemon
  <2>1. \A p, q \in Daemons : p = q
    BY <1>1 DEF IInv, Sole, Present, Daemons, Alive
  <2>2. CASE Daemons = {}
    <3>1. Cardinality(Daemons) = 0
      BY <2>2, FS_EmptySet
    <3> QED
      BY <3>1
  <2>3. CASE Daemons # {}
    <3>1. PICK p \in Daemons : TRUE
      BY <2>3
    <3>2. Daemons = {p}
      BY <2>1, <3>1
    <3>3. Cardinality(Daemons) = 1
      BY <3>2, FS_Singleton
    <3> QED
      BY <3>3
  <2> QED
    BY <2>2, <2>3
<1> QED
  BY <1>1, AlwaysIInv, PTL

\* A restart puts back the daemon it found, as the service or, when its command line
\* can be read as a whole, with its flags but for --foreground: what
\* _read_running_offsd_args reads is still what the fork uses, and a service found up
\* is still there when _is_service_managed asks.
THEOREM RestartPutsBack ==
  ASSUME OneTerminal
  PROVE  Spec => []RestartKeepsDaemon
<1>1. ASSUME IInv PROVE RestartKeepsDaemon
  <2>1. RestartKeepsManager
    BY <1>1 DEF IInv, ToManager, RestartKeepsManager
  <2>2. ASSUME NEW c \in Clis, host.platform = "linux", CommandsAlone,
               cli[c].command = "restart", ~cli[c].given, cli[c].child # None,
               proc[cli[c].child].state # "free", Whole(cli[c].before.flags)
        PROVE  proc[cli[c].child].flags = Background(cli[c].before.flags)
    <3>1. cli[c].child \in Pids /\ cli[c].before.flags \in Flags
      BY <1>1, <2>2 DEF IInv, Types, Commands, Processes
    <3>2. proc[cli[c].child].flags = cli[c].flags
      BY <1>1, <2>2, <3>1 DEF IInv, OwnChild, Present
    <3>3. cli[c].flags \in Preserved(cli[c].before.flags)
      BY <1>1, <2>2 DEF IInv, OldFlags
    <3> QED
      BY <2>2, <3>1, <3>2, <3>3, WholeIsPreserved
  <2>3. RestartKeepsFlags
    BY <2>2 DEF RestartKeepsFlags
  <2> QED
    BY <2>1, <2>3 DEF RestartKeepsDaemon
<1> QED
  BY <1>1, AlwaysIInv, PTL

\* When start or restart reports success, the process that is up is the one it forked,
\* where the commands alone start it: nothing else can answer _probe_daemon_up.
THEOREM SuccessIsTrue ==
  ASSUME OneTerminal
  PROVE  Spec => SuccessIsOwnChild
<1> DEFINE P == \A c \in Clis : cli[c].pc = "probe" /\ cli'[c].exit = "0" /\ CommandsAlone
                  => proc[cli[c].child].state = "up"
<1>1. ASSUME IInv, [Next]_vars PROVE P
  <2> SUFFICES ASSUME NEW c \in Clis, cli[c].pc = "probe", cli'[c].exit = "0", CommandsAlone
               PROVE  proc[cli[c].child].state = "up"
    OBVIOUS
  <2>1. cli[c].exit \in {"none", "warned"} /\ Types /\ \A d \in Clis : d = c
    BY <1>1 DEF IInv, Stages, OneTerminal
  <2>2. ~UNCHANGED cli
    BY <2>1
  <2>3. ~\E p \in Pids : ProcessStep(p)
    BY <2>2 DEF ProcessStep, Exec, ComeUp, Drained, Backoff, ManagerRestarts, Become, Vanish
  <2>4. ASSUME NEW d \in Clis, Invoke(d) \/ CliStep(d) PROVE Probe(c)
    BY <2>1, <2>4 DEF CliStep, Invoke, Guard, Fork, ScStart, WaitPid, Check, Signal, Wait,
       Managed, ScRestart, ReadArgs
  <2>5. Probe(c)
    BY <1>1, <2>2, <2>3, <2>4 DEF Next, vars
  <2>6. ~Poll(c)
    BY <2>1, Polls
  <2>7. ~Exit(c, "1")
    BY <2>1, Exits
  <2>8. PICK p \in Pids : proc[p].state \in {"up", "draining"}
    BY <2>5, <2>6, <2>7 DEF Probe
  <2> QED
    BY <1>1, <2>8, AnswerIsChild
<1>2. Spec => []IInv
  BY AlwaysIInv
<1>3. IInv /\ [Next]_vars => [P]_vars
  BY <1>1
<1> QED
  BY <1>2, <1>3, PTL DEF Spec, SuccessIsOwnChild

-----------------------------------------------------------------------------
(* Why every command returns, from any number of terminals: what is still   *)
(* before it shrinks with every step it takes.                              *)

\* The stages of a command, counted from its end ...
Ahead(c) ==
  CASE cli[c].pc = "managed" -> 9
    [] cli[c].pc = "read" -> 8
    [] cli[c].pc = "check" -> 7
    [] cli[c].pc = "signal" -> 6
    [] cli[c].pc = "wait" -> 5
    [] cli[c].pc = "guard" -> 4
    [] cli[c].pc = "fork" -> 3
    [] cli[c].pc = "waitpid" -> 2
    [] cli[c].pc = "probe" -> 1
    [] cli[c].pc = "idle" -> 0

\* ... and, within a stage, the polls that are left.
Left(c) == WaitPolls + ProbePolls - cli[c].polls

Advances(c) == Ahead(c)' < Ahead(c) \/ (Ahead(c)' = Ahead(c) /\ Left(c)' < Left(c))

PCs ==
  {"idle", "managed", "read", "check", "signal", "wait", "guard", "fork", "waitpid", "probe"}

\* The part of a command's record that the count is about.
Counted ==
  /\ DOMAIN cli = Clis
  /\ \A c \in Clis : /\ DOMAIN cli[c] = DOMAIN Idle
                     /\ cli[c].pc \in PCs /\ cli[c].polls \in 0..(WaitPolls + ProbePolls)

\* A step that changes one command's record only.
Alone(c) ==
  /\ DOMAIN cli' = Clis /\ DOMAIN cli'[c] = DOMAIN Idle
  /\ \A d \in Clis \ {c} : cli'[d] = cli[d]

\* The fields of a command's record.
LEMMA Fields ==
  DOMAIN Idle = {"command", "pc", "flags", "child", "polls", "exit", "given", "before"}
  BY DEF Idle

\* What is counted of a command that returns, goes on or polls.
LEMMA ExitCounts ==
  ASSUME Counted, NEW c \in Clis, NEW status, Exit(c, status)
  PROVE  Alone(c) /\ cli'[c].pc = "idle" /\ cli'[c].polls = 0
  BY Fields DEF Counted, Exit, Alone

\* A command that goes on starts to count its polls again.
LEMMA GotoCounts ==
  ASSUME Counted, NEW c \in Clis, NEW to, Goto(c, to)
  PROVE  Alone(c) /\ cli'[c].pc = to /\ cli'[c].polls = 0
  BY Fields DEF Counted, Goto, Alone

\* A command that polls stays where it is.
LEMMA PollCounts ==
  ASSUME Counted, NEW c \in Clis, Poll(c)
  PROVE  Alone(c) /\ cli'[c].pc = cli[c].pc /\ cli'[c].polls = cli[c].polls + 1
  BY Fields DEF Counted, Poll, Alone

\* Every step of a command brings it nearer to its end.
LEMMA StepAdvances ==
  ASSUME Counted, NEW c \in Clis, CliStep(c)
  PROVE  /\ Alone(c) /\ Advances(c)
         /\ cli'[c].pc \in PCs /\ cli'[c].polls \in 0..(WaitPolls + ProbePolls)
<1> DEFINE Goal == /\ Alone(c) /\ Advances(c)
                   /\ cli'[c].pc \in PCs /\ cli'[c].polls \in 0..(WaitPolls + ProbePolls)
<1>1. /\ WaitPolls \in Nat /\ ProbePolls \in Nat
      /\ cli[c].pc \in PCs /\ cli[c].polls \in 0..(WaitPolls + ProbePolls)
  BY ControlAssumption DEF Counted
<1>2. ASSUME cli'[c].pc \in PCs, cli'[c].polls \in {0, cli[c].polls}, Alone(c),
             Ahead(c)' < Ahead(c)
      PROVE  Goal
  <2>1. cli'[c].polls \in 0..(WaitPolls + ProbePolls)
    BY <1>1, <1>2
  <2>2. Advances(c)
    BY <1>2 DEF Advances
  <2> QED
    BY <1>2, <2>1, <2>2
<1>3. ASSUME cli[c].pc # "idle", NEW status, Exit(c, status) PROVE Goal
  <2>1. Alone(c) /\ cli'[c].pc = "idle" /\ cli'[c].polls = 0
    BY <1>3, ExitCounts
  <2>2. Ahead(c)' < Ahead(c)
    BY <1>1, <1>3, <2>1 DEF Ahead, PCs
  <2> QED
    BY <1>1, <1>2, <2>1, <2>2 DEF PCs
<1>4. ASSUME NEW to, Goto(c, to),
             <<cli[c].pc, to>> \in {<<"guard", "fork">>, <<"waitpid", "probe">>,
               <<"check", "signal">>, <<"signal", "wait">>, <<"wait", "guard">>,
               <<"managed", "read">>, <<"read", "check">>}
      PROVE  Goal
  <2>1. Alone(c) /\ cli'[c].pc = to /\ cli'[c].polls = 0
    BY <1>4, GotoCounts
  <2>2. Ahead(c)' < Ahead(c) /\ to \in PCs
    BY <1>4, <2>1 DEF Ahead, PCs
  <2> QED
    BY <1>1, <1>2, <2>1, <2>2
<1>5. ASSUME cli[c].polls < WaitPolls \/ cli[c].polls < ProbePolls, Poll(c) PROVE Goal
  <2>1. Alone(c) /\ cli'[c].pc = cli[c].pc /\ cli'[c].polls = cli[c].polls + 1
    BY <1>5, PollCounts
  <2>2. Ahead(c)' = Ahead(c)
    BY <2>1 DEF Ahead
  <2>3. Left(c)' < Left(c) /\ cli'[c].polls \in 0..(WaitPolls + ProbePolls)
    BY <1>1, <1>5, <2>1 DEF Left
  <2> QED
    BY <1>1, <2>1, <2>2, <2>3 DEF Advances
<1>6. CASE Guard(c)
  BY <1>3, <1>4, <1>6 DEF Guard
<1>7. CASE Fork(c)
  <2>1. CASE \E p \in Pids : cli' = [cli EXCEPT ![c].pc = "waitpid", ![c].child = p]
    <3>1. Alone(c) /\ cli'[c].pc = "waitpid" /\ cli'[c].polls = cli[c].polls
      BY <2>1, Fields DEF Counted, Alone
    <3>2. Ahead(c)' < Ahead(c)
      BY <1>7, <3>1 DEF Fork, Ahead
    <3> QED
      BY <1>1, <1>2, <3>1, <3>2 DEF PCs
  <2> QED
    BY <1>3, <1>7, <2>1 DEF Fork
<1>8. CASE ScStart(c)
  BY <1>3, <1>8 DEF ScStart
<1>9. CASE WaitPid(c)
  BY <1>3, <1>4, <1>9 DEF WaitPid
<1>10. CASE Probe(c)
  BY <1>3, <1>5, <1>10 DEF Probe
<1>11. CASE Check(c)
  BY <1>3, <1>4, <1>11 DEF Check
<1>12. CASE Signal(c)
  BY <1>3, <1>4, <1>12 DEF Signal
<1>13. CASE Wait(c)
  <2>1. CASE cli' = [cli EXCEPT ![c].pc = "guard", ![c].polls = 0, ![c].exit = "warned"]
    <3>1. Alone(c) /\ cli'[c].pc = "guard" /\ cli'[c].polls = 0
      BY <2>1, Fields DEF Counted, Alone
    <3>2. Ahead(c)' < Ahead(c)
      BY <1>13, <3>1 DEF Wait, Ahead
    <3> QED
      BY <1>1, <1>2, <3>1, <3>2 DEF PCs
  <2> QED
    BY <1>4, <1>5, <1>13, <2>1 DEF Wait
<1>14. CASE Managed(c)
  BY <1>3, <1>4, <1>14 DEF Managed
<1>15. CASE ScRestart(c)
  BY <1>3, <1>15 DEF ScRestart
<1>16. CASE ReadArgs(c)
  <2>1. CASE \E f : cli' = [cli EXCEPT ![c].pc = "check", ![c].flags = f]
    <3>1. Alone(c) /\ cli'[c].pc = "check" /\ cli'[c].polls = cli[c].polls
      BY <2>1, Fields DEF Counted, Alone
    <3>2. Ahead(c)' < Ahead(c)
      BY <1>16, <3>1 DEF ReadArgs, Ahead
    <3> QED
      BY <1>1, <1>2, <3>1, <3>2 DEF PCs
  <2> QED
    BY <1>4, <1>16, <2>1 DEF ReadArgs, Daemons
<1> QED
  BY <1>6, <1>7, <1>8, <1>9, <1>10, <1>11, <1>12, <1>13, <1>14, <1>15, <1>16 DEF CliStep

\* The other steps: a command is typed where none runs, and a process takes none of them
\* back.
LEMMA OthersWait ==
  ASSUME Counted, [Next]_vars, NEW c \in Clis, ~CliStep(c)
  PROVE  /\ cli[c].pc # "idle" => cli'[c] = cli[c]
         /\ DOMAIN cli' = Clis /\ DOMAIN cli'[c] = DOMAIN Idle
         /\ cli'[c].pc \in PCs /\ cli'[c].polls \in 0..(WaitPolls + ProbePolls)
<1>1. CASE UNCHANGED cli
  BY <1>1 DEF Counted
<1>2. ASSUME NEW d \in Clis, CliStep(d) PROVE cli'[c] = cli[c] /\ DOMAIN cli' = Clis
  BY <1>2, StepAdvances DEF Alone
<1>3. ASSUME NEW d \in Clis, Invoke(d)
      PROVE  /\ cli[c].pc # "idle" => cli'[c] = cli[c]
             /\ DOMAIN cli' = Clis /\ DOMAIN cli'[c] = DOMAIN Idle
             /\ cli'[c].pc \in PCs /\ cli'[c].polls \in 0..(WaitPolls + ProbePolls)
  <2>1. PICK command \in {"start", "stop", "restart"}, f \in Typeable \cup {DefaultFlags} :
          cli' = [cli EXCEPT ![d] = Typed(command, f)]
    BY <1>3 DEF Invoke
  <2>2. /\ DOMAIN Typed(command, f) = DOMAIN Idle
        /\ Typed(command, f).pc \in PCs /\ Typed(command, f).polls = 0
    BY Fields DEF Typed, PCs
  <2>3. /\ DOMAIN cli' = Clis /\ cli'[d] = Typed(command, f)
        /\ \A e \in Clis \ {d} : cli'[e] = cli[e]
    BY <2>1 DEF Counted
  <2>4. cli[d].pc = "idle" /\ WaitPolls \in Nat /\ ProbePolls \in Nat
    BY <1>3, ControlAssumption DEF Invoke
  <2> QED
    BY <2>2, <2>3, <2>4 DEF Counted
<1>4. ASSUME NEW p \in Pids, ProcessStep(p) PROVE UNCHANGED cli
  BY <1>4 DEF ProcessStep, Exec, ComeUp, Drained, Backoff, ManagerRestarts, Become, Vanish
<1>5. CASE UNCHANGED vars
  BY <1>1, <1>5 DEF vars
<1> QED
  BY <1>1, <1>2, <1>3, <1>4, <1>5 DEF Next, Counted

\* The record keeps its shape.
LEMMA AlwaysCounted == Spec => []Counted
<1>1. Init => Counted
  <2>1. Idle.pc = "idle" /\ Idle.polls = 0 /\ WaitPolls \in Nat /\ ProbePolls \in Nat
    BY ControlAssumption DEF Idle
  <2> QED
    BY <2>1 DEF Init, Counted, PCs
<1>2. ASSUME Counted, [Next]_vars PROVE Counted'
  <2>1. ASSUME NEW c \in Clis
        PROVE  /\ DOMAIN cli' = Clis /\ DOMAIN cli'[c] = DOMAIN Idle
               /\ cli'[c].pc \in PCs /\ cli'[c].polls \in 0..(WaitPolls + ProbePolls)
    <3>1. CASE CliStep(c)
      BY <1>2, <3>1, StepAdvances DEF Alone
    <3>2. CASE ~CliStep(c)
      BY <1>2, <3>2, OthersWait
    <3> QED
      BY <3>1, <3>2
  <2>2. DOMAIN cli' = Clis
    <3>1. CASE Clis = {}
      BY <1>2, <3>1 DEF Counted, Next, ProcessStep, Exec, ComeUp, Drained, Backoff,
         ManagerRestarts, Become, Vanish, vars
    <3> QED
      BY <2>1, <3>1
  <2> QED
    BY <2>1, <2>2 DEF Counted, Idle
<1> QED
  BY <1>1, <1>2, PTL DEF Spec

\* start, stop and restart take at most 10 * (WaitPolls + ProbePolls + 1) steps each, from
\* any number of terminals and whatever the daemons and the service managers do: every
\* step of a command brings it nearer to its return, and no other step takes it back.
THEOREM CommandsAreBounded ==
  Spec => /\ [](\A c \in Clis : Ahead(c) \in 0..9 /\ Left(c) \in 0..(WaitPolls + ProbePolls))
          /\ [][\A c \in Clis : \/ CliStep(c) /\ Advances(c)
                                \/ ~CliStep(c) /\ (cli[c].pc # "idle" => cli'[c] = cli[c])]_vars
<1> DEFINE Bounded ==
      \A c \in Clis : Ahead(c) \in 0..9 /\ Left(c) \in 0..(WaitPolls + ProbePolls)
    Shrinks ==
      \A c \in Clis : \/ CliStep(c) /\ Advances(c)
                      \/ ~CliStep(c) /\ (cli[c].pc # "idle" => cli'[c] = cli[c])
<1>1. Counted => Bounded
  <2> SUFFICES ASSUME Counted, NEW c \in Clis
               PROVE  Ahead(c) \in 0..9 /\ Left(c) \in 0..(WaitPolls + ProbePolls)
    OBVIOUS
  <2>1. Ahead(c) \in 0..9
    BY DEF Counted, PCs, Ahead
  <2> QED
    BY <2>1, PollBounds DEF Counted, Left
<1>2. Counted /\ [Next]_vars => Shrinks
  BY StepAdvances, OthersWait
<1>3. Spec => []Counted
  BY AlwaysCounted
<1> QED
  BY <1>1, <1>2, <1>3, PTL DEF Spec
=============================================================================

# OFFS in TLA+

A TLA+ model of the OFFS programs in this repository: the daemon `offsd`, the
command line client `offs`, the updater, the metrics server, and the service
managers around them.
It covers the parts where several actors meet (threads, signals, processes,
files, a socket), which is where tests reach least. Paths below are relative to
the repository root; `main.c` is `src/offsd/main.c`.

## The system and its parts

| part | source | modules |
|---|---|---|
| daemon run loop: start, poll, teardown, in-place reload, signals | `main.c` (`_run_offsd`, `_startup`, `_start_listening`, `_shutdown`, handlers), `Service/daemon_service_windows.c` | `OffsdLifecycle`, `ReloadService`, `OffsdLifecycleProofs` |
| shutdown watchdog | `main.c` (`_shutdown_watchdog_thread`) | `ShutdownWatchdog`, `OffsdLifecycleProofs` |
| what the daemon creates, unwinds and destroys; the peer store | `main.c` (`_startup`, `_start_listening`, `_shutdown`) | `ServerResources`, `ServerResourcesProofs` |
| `offs cache move` and the choice of the cache directory | `offs/commands/cache.c`, `offs/cli_util.c`, `main.c` | `CacheMove`, `OfflineFilesProofs` |
| `offs put`, `offs get` and the framing | `offs/client.c`, `offs/commands/put.c`, `get.c` | `ClientStream`, `ClientStreamProofs` |
| `offs start`, `stop`, `restart` | `offs/commands/start_stop.c` | `DaemonControl`, `DaemonControlProofs` |
| updater and its service calls on Linux, macOS and Windows | `Updater/updater_main.c`, `Service/service_linux.c`, `service_macos.c`, `service_windows.c` | `Updater`, `OfflineFilesProofs` |
| settings of the daemon: presets, flags, config file, pending config, defaults | `main.c` (`_parse_args`, `_parse_config_file`, `_run_offsd`, `_startup`) | `Settings`, `SettingsProofs` |
| `offs cache size`, `cache gc` | `offs/commands/cache.c` | `SizeText` (the parser), `Settings`, `SettingsProofs`, `ClientRequests` |
| `offs load`, `block`, `pin`, `unpin`, `ephemeral`, `config`, `peer`, `friend`, `bootstrap`, `health`, `status`; connecting and dispatching | `offs/main.c`, `offs/commands/*.c` | `ClientRequests`, `ClientRequestsProofs` |
| metrics server | `offs-metrics/metrics_server.c` | `MetricsServer`, `MetricsServerProofs` |
| daemonize, uninstall, HTTP soft authentication | `main.c` | not modelled |
| packaging, containers | `packaging/`, `docker/` | unit and binary names, `ExecReload`, `Restart=` where the code depends on them |
| liboffs, poll-dancer | `deps/` (not in this tree) | external, as the code here uses them |

How they interact: the client reaches the daemon through a socket
(`ClientStream`), through its process name or service (`DaemonControl`) and
through two kinds of files, the pending config and the cache (`CacheMove`). The
daemon consumes the pending config at every start and in-place reload
(`OffsdLifecycle`); its inside during these phases is `ServerResources`, and
`ShutdownWatchdog` bounds the teardown. The updater replaces binaries around
stops and starts of the service (`Updater`). Commands other than put and get
are one exchange each (`ClientRequests`); what some of them stage becomes, with
flags and files, the settings of the next cycle (`Settings`). The metrics server
is a process of its own (`MetricsServer`).

## How the modules correspond to the code

Every module has one action per step of the code that another actor can observe
or interleave with, in the order of the code, with its early returns and error
paths. `PROJECT.json` maps each definition to its lines. `MC*` modules only give
values to constants. Definitions marked as slips or plausible bugs are not part
of any specification: each one, put in place of the definition it imitates,
makes TLC find a violation of the property it is listed for.

**OffsdLifecycle.** `main` is the place of the main thread; the other variables
are the globals that signal handlers, the service manager, pool workers and the
watchdog share with it (`running`, `g_update_actor`, `g_restart_requested`,
`g_shutdown_active`, the service's stop flag), the pending config, the PID file
and the configuration in force. A config is known by its version, the number of
saves so far; 0 is `config_default()`, and versions in `Malformed` do not parse.
The process may exit, be killed or be forced out by the watchdog, and be
started again. `windows` says which of the two builds runs: the service
manager's stop exists on Windows only, SIGHUP, the update actor and the grace
sleep of the watchdog elsewhere. `ReloadService` is what this promises an
operator: a promised reload brings up settings at least as new as those on
record at that moment.
`ImplementsReloadService` instantiates it with a mapping from the places of the
main thread to phases, where a reload is outstanding until its config is read.

**ShutdownWatchdog.** The thread and the main thread against a clock of ticks.
The thread sleeps in rounds from the first teardown on. A teardown may take any
time or hang.

**ServerResources.** The orders of `_startup`, of the unwinding of each of its
failures, of `_start_listening` and of `_shutdown` are sequences that the main
thread works off one element at a time, while pool workers serve requests that
change the peer lists. Pointers are `null`, `live` or `freed`. Kills are
possible anywhere. Loading the peers may fail to read some of them; `unread` is
the history of those.

**CacheMove.** The command, with a failure possible at every file and staging, and
an interruption at every step, against a daemon that starts, stores blocks,
reloads in place and exits when it likes. `name` is the name of the daemon's
process, `offsd` or, from the Linux packages, `offs-daemon`, and `host` the
platform: `_is_daemon_running` finds only `offsd` on POSIX, and on Windows, where
it asks for the installed service, one that is stopped as well. `unnoticed` says
that a daemon has been started since the command last looked, or that it looked
and could not see it. Directories are absolute and not nested, so the conflict
test is equality. `home`, `promised` and `astray` are history; `astray` holds the
blocks that an unnoticed daemon stored while files moved.

**ClientStream.** A frame is a length unit and payload units; a partial transfer
of k units is k transfers of one. The socket holds `Capacity` units in each
direction. `pipe` says whether it is a named pipe, where a transfer that would
block is retried up to the budget, or a socket, which blocks. The run starts with
the file open and the socket connected. The daemon's end is external: it sends
frames of well-formed length, answers, rejects, stalls or dies; a payload may not
decode. `skipped` counts the content of the data frames of `get` that did not, and
`flushed` is what became of the unchecked `fclose`.

**DaemonControl.** A table of processes and the commands of several terminals.
Flags are the words of a command line, an option with its value being one word,
with `--foreground` kept apart because restart drops it wherever it stands.
`Preserved` is what `restart` can make of the command line it reads from `/proc`:
the buffer holds `MaxArgs` words and perhaps a part of one more, and splitting
stops at an empty word. `_probe_socket_path` takes the first `--unix`, the daemon
the last. `host` is the platform and the service the daemon is installed as: the
Debian and RPM units, the launchd job of the macOS package and the Windows service
run a binary called `offs-daemon`, `packaging/offsd.service` and `offsd.plist` one
called `offsd`, and nothing is installed under the launchd label the CLI asks for.
systemd and launchd may start a service process again that failed (`Backoff`,
`ManagerRestarts`).

**Updater.** Both incarnations of the updater, copies that fail or are cut
short, waits that time out, and the service ops of the three platforms, which
differ in what they take for running and stopped: systemd's `is-active` counts a
unit that waits for `Restart=on-failure` as stopped, `launchctl list` counts a
job that `KeepAlive` restarts again and again as running, and the service
control manager has pending states, may not answer, and restarts nothing. Windows
moreover does not let the binary of a running daemon be written.

**Settings.** One behaviour follows one setting through `_run_offsd`: presets,
flags in order, the config file (of `--config` or the fallback), defaults, the
pending config, and the cycles of the process with what is staged and removed in
between.
The settings differ in what they are preset to, how "not set" is recognised,
where their default comes from and whether the pending config has them, and
there is one of each kind; ports are stored in a small word. A size is staged
as the double nearest to it (`Double`, exact up to `EXACT`, which is 2^53 in the
code), after `SizeText`, whose `ParseSize` follows `_parse_size_bytes` with its
overflow tests in words that end at `UINT64_MAX`, and whose `SizeIn` is the
reference: the number the digits denote, times the unit, if it is in range.

**ClientRequests.** One command at a time: check, connect, send, receive,
decide. Each command is the operator that says which exit statuses a reply of a
given kind may lead to; `partial` is the reply to a load or a collection that was
done in part. A command asked for its usage returns before it sends anything
(`Help`). A frame is two units, so that a receive can give up
between them and leave the rest to the next receive on that connection. The
daemon's end is external: it answers with any kind of reply, having carried the
request out or not, late or never, and may die.

**MetricsServer.** The handlers on the workers of the pool interleave at every
access to the table. An allocation is known by the number of its report.
`fault` records a use of freed memory or of memory past the table, `raced` that
two handlers have met in an entry or in registering one. `g_node_count++` may
lose an increment when two do it at once.

## What is checked

Runs that hold:

| run | shows |
|---|---|
| `lifecycle` | an accepted reload is applied (`AckedReloadApplies`), finds its file (`ReloadFindsPending`) and completes (`ReloadCompletes`); a serving daemon has its PID file, a clean exit leaves none and a failed start none of its own; the process implements `ReloadService`; SIGTERM ends a process that is never reloaded; a service stop ends any |
| `watchdog` | a watched teardown is bounded by timeout plus grace and ends; the first one gets its whole timeout |
| `resources` | no dangling pointer in any order of creation, failure and teardown, and everything created is destroyed once (`DestroyedOnce`); workers and front ends are quiet before anything is destroyed; the peer lists are read and written exclusively; a stop stores what the start could read with every accepted change applied |
| `cache_move` | on POSIX and Windows, as far as the daemons are concerned that the command knows of: no block is lost; files move only while the daemon is off; a completed move restarts the daemon on the destination; in any case the command returns |
| `client_stream` | frames stay aligned under partial transfers; exit status 0 means the whole content was stored, or given to `fwrite` but for frames that do not decode; both commands return, on a named pipe whatever the daemon does and on a socket if it goes on or dies |
| `control` | on Linux, macOS and Windows, from one terminal: one daemon at most; restart keeps the manager, and the flags but for `--foreground` (`RestartKeepsDaemon`); "started" is about the command's own child; commands return |
| `updater` | on Linux, macOS and Windows: binaries are replaced only while the service is down; the exit status agrees with what is installed and running; the updater returns |
| `settings` | in every cycle the value in force is the last flag, else the config file's, else the pending one, else the default, and a staged size up to 2^53 is in force as written (`Precedence`); a size is parsed exactly or rejected (`SizeExact`) |
| `requests` | exit status 0 means the daemon carried the request out and said so, or that it did in part, or the size is staged, or only the usage was asked for (`SuccessMeansDone`); a refusal leaves nothing behind; `status` does not show the answer to another request |
| `metrics` | as long as two handlers do not meet in an entry: no freed memory is used (`MemorySafe`), the last accepted report of a node is kept (`LastReportKept`), everything but refused reports is freed; a shutdown ends in any case |

Some of these have limits that are part of their statement. `NothingDangles`
excepts the authority and the network while a failed `_startup` unwinds: there
the code frees them ahead of objects that point to them, before anything
listens. `DestroyedOnce` allows the authority to be left by a failed start, after
which the process exits. `NoOverwriteWhileRunning` supposes, on Linux only, that
the daemon did not crash during the update: a crash lets systemd restart it under
the copy. `SuccessMeansRunning` supposes that it has not crashed, and
excepts macOS. `AtMostOneDaemon`, `SuccessIsOwnChild` and `RestartKeepsFlags` suppose
that no systemd or launchd service starts daemons beside the commands
(`CommandsAlone`), `RestartKeepsFlags` moreover that there is a `/proc` and that
the old command line can be read as a whole (`Whole`), and
`RestartKeepsManager` that the service is one the command asks for.
`NoBlockLost`, `MoveExcludesDaemon` and `MovedDaemonRunsFromDest` except a daemon
the move does not know of (`unnoticed`, `astray`). `PeersSurviveStop` excepts the
peers that the load could not read. `GetSuccessMeansComplete` counts the content of
frames that did not decode as delivered. `ClientReturns` supposes of a socket that
the daemon goes on (`ServerGoesOn`) or dies.
`Precedence` leaves out the values that the code takes for "not set", a host in
the config file, a pending API key, pending ports and a pending worker count, and
sizes above 2^53; `SuccessMeansDone` leaves out the commands
that do not look at their answer (`Unchecked`); the first three properties of
`metrics` hold until two handlers meet. The known limits below say what happens then.

`TypeOK` of every module (`WatchdogTypeOK` and `UpdaterTypeOK` where a proof
module extends two components) describes its variables. It holds, and is proved
for `OffsdLifecycle`, `ShutdownWatchdog` and `ServerResources`, and within the
inductive invariants of `CacheMove`, `Updater` and `ClientRequests`; the other
proofs carry what they need of the types, without the bounds on counters. The runs
do not list it.

Runs that show a disagreement between the code and what the repository says of
it, each with one property and a short counterexample:

| run | what happens |
|---|---|
| `signal_lost` | SIGTERM during an in-place reload is forgotten |
| `peers_lost` | a transport that fails in `_startup` empties the peer store |

### Known limits of the code

The models also contain the following behaviours. Where a property is named, it
is stated in the module and fails; the others are why a property above has the
proviso it has.

- The second start after a move is back on the default directory, because the
  first one consumed the staged one (`MovedCacheStays`; `cache.c` says "Relocate
  the cache directory").
- A failed copy is reported as "Update complete" (`UpdateIsComplete`), and on
  macOS so is a daemon that crashes on every start.
- After "proceeding with restart" the double-start guard refuses when the old
  daemon still runs (`RestartProceeds`). `offs restart --help` stops the daemon,
  prints the usage of start and exits 0 (`RestartLeavesDaemon`; the comment in
  `cmd_restart` says "restart no longer exits 0 with no daemon").
- A restart drops `--foreground`, and loses what follows an empty argument or
  4095 bytes of the old command line (`RestartKeepsEveryFlag`). The comment on
  `cmd_restart` says both "preserves the original foreground mode" and "Strip
  --foreground from the preserved flags".
- A flag that gives the very value that means "not set" (`--port 23402`, or
  0 for another number) loses against the config file (`FlagsOverrideFile`;
  `main.c` says "CLI flags still override values from the file"). A
  `[network].host` in the file is never applied, because the host is preset
  (`FileHostApplies`). Ports are cut to 16 bits.
- An API key hash staged by `offs config set-auth` or `generate-auth` is
  overwritten at the next start by the hash of the configured or of a random key
  (`PendingKeyApplies`). A staged `http_port`, `ws_port` or
  `scheduler_thread_count` is not looked at by `_startup`
  (`PendingNumberApplies`; `offs config` lists them among the settable fields).
- `_stage_number` writes a size as a double: one above 2^53 may be in force as
  another number than the one printed (`StagedSizeExact`).
- `--workers 1` and a negative `[workers].count` give one worker, where
  `_get_worker_count` takes care to return two ("A single worker deadlocks those
  round-trips"; `TwoWorkers`).
- `peer list`, `friend list`, `block put` and `block get` exit 0 whatever the
  answer, and `peer connect`, `friend add` and `friend remove` on any answer but
  an ERROR frame (`ExitStatusTells`).
- A load that loaded a part, and a collection that left out some URLs, exit 0 with a
  warning (the exception `DoneInPart` of `SuccessMeansDone`).
- A size whose refusal is lost on the way is staged for the next start
  (`RefusedSizeIsNotStaged`).
- Two reports of one node at once, or a report during a `/status` or `/metrics`
  request, may use freed memory in the metrics server (`ConcurrentlySafe`); it
  destroys the HTTP server before the pool whose workers may still run its
  handlers (`ServerOutlivesHandlers`); a report that finds the table full is
  never freed (`AllReportsFreed`). It serves nobody and waits when it cannot
  listen, and, since SIGTERM is not blocked when it calls `sigwait`, a signal may
  end it without the shutdown.
- A config saved between load and mark is consumed unread
  (`OnlyLoadedIsConsumed`).
- SIGHUP stops a daemon whose update actor does not exist at that moment, as
  during a reload (`HangupKeepsRunning`).
- A teardown after the first can be forced out before the timeout, because the
  watchdog sleeps in rounds (`ForcedOnlyAfterTimeout`).
- A failed move forgets a location that was itself only staged
  (`FailedMoveKeepsLocation`), and a reload consumes the location staged by
  `--keep` (`KeepIsHonoured`).
- A `[cache].dir` in the config file defeats a move
  (`MovedDaemonRunsFromDest` with a `FileDir`).
- `cache move` does not see a daemon whose process is called `offs-daemon`, nor one
  that is started after it has looked: files move under it
  (`MoveIsAlwaysAlone`; `cache.c` says "The move flow stops the daemon itself"), and
  blocks it stores then are deleted with the source (`NoBlockEverLost`). On Windows
  an installed service counts as running even when it is stopped, so that a move
  that has blocks to move always gives up, at the stop or after its wait.
- The peers that a start cannot read are overwritten by the next stop
  (`PeersSurviveBadLoad`; `main.c` says "Persist peer state ... across restarts").
- `get` passes over data frames that do not decode and does not look at the result of
  `fclose`: exit status 0 does not mean that the file is complete on disk
  (`GetSuccessMeansSaved`).
- On a POSIX socket, which blocks, `put` and `get` wait for ever for a daemon that
  neither goes on nor dies (`ReturnsWhateverTheDaemonDoes`; the comment on
  the retries says "avoids hanging forever").
- An ERROR frame sent while put streams is not shown (`ServerErrorIsReported`),
  and a read error can come after the server accepted the upload
  (`FileErrorTouchesNoServer`).
- Two concurrent starts both pass the guard (`AtMostOneDaemon` with two
  terminals): a child is not called `offsd` until it has exec'd.
- A process called `offs-daemon` is not found by `stop` or by the guard
  (`StopFindsDaemon`); on Windows an installed, stopped service counts as
  running, so `start` refuses it (`RefusalIsRight`).
- A unit called `offsd` is not recognised as managed, and without `/proc` restart
  loses the flags.

### Bounds

- `MaxSaves` = 3: one save that a reload acknowledges, one that races it and is
  unreadable in the passing run, and one that repairs it.
- `Timeout` = 4, `Grace` = 1, `MaxAge` = 7 ticks: a teardown can begin at every
  phase of the thread's sleep, and ages above the bound are told apart.
- Two peers: one stored, one added or removed. All 32 selections of front ends.
- Three directories, two blocks, both names of the process and both platforms: a move
  can go on to a third place or back, fail between two files, and overlook a daemon
  that stores the second block.
- `FileSize` = 5 in chunks of 2, a response limit of 3, a retry budget of 2, three units per
  direction: several frames, frames larger than the socket's buffer, a response
  over the limit.
- One terminal, two process slots, two commands after an initial daemon or none, one
  poll per wait: a wait can end either way, a second daemon has room to exist, and a
  command can follow a failed restart. Command lines of up to three words, with
  and without `--foreground`, and a buffer of two: another socket, two sockets, an
  empty word, a line that does not fit, `--help`.
- Three polls per wait and two crashes in `Updater`.
- Sizes up to 31 with units 2 and 3 and up to three digits: each of the three
  overflow tests is met at its last accepted and its first rejected value. Ports
  below 8, the flag of a setting given twice, two reloads. Doubles are exact up to 8,
  so that sizes of two magnitudes above it are rounded.
- Two progress frames in a load; the other commands have one or two exchanges.
- Three nodes, two entries, two workers and three reports: the table can be full,
  a node can report again, and a handler can meet another one in every step.

### Fairness

- `OffsdLifecycle`: the main thread and a pool worker inside the reload handler
  are scheduled, and library calls return. A call that does not return is the
  subject of `ShutdownWatchdog`, where nothing is assumed of the main thread and
  only the clock and the watchdog thread are fair.
- `CacheMove`, `Updater`, `ClientStream`: the command runs. The specifications assume
  nothing of the daemon, of the service manager or of the other end of the socket: the
  bounded waits and retries of the code are what makes the commands return. The
  exception is put and get on a POSIX socket, where the code has no bound;
  `ClientReturns` says there that they return if the daemon is fair (`ServerGoesOn`).
- `DaemonControl`: each command runs, and a forked child execs or fails. Nothing
  is assumed about how long a daemon takes to come up or to drain.
- `MetricsServer`: the workers and `main` are scheduled; nobody has to send a
  request or a signal.
- `ServerResources`, `Settings` and `ClientRequests` have only safety properties
  and no fairness.

In the runs of `DaemonControl` and `Updater` the system may stop (all commands are used up,
the updater has returned), so deadlock is not an error there.

## What is proved

With TLAPS, for every value of the constants that satisfies the named
assumptions:

- **OffsdLifecycleProofs**: `LifecycleTypes`, `ReloadNeverFindsNothing`,
  `AcceptedReloadsApply`, `PidFileIsRight`, `HandlerOnLivePool` and
  `LifecycleImplementsReloadService`, for both platforms, any number of saves
  and any set of unreadable versions. The invariants are not inductive alone.
  `Control` adds where the main thread can be while a handler is in flight (so
  that only the pool stop can end it), that handlers are installed before
  anything was acknowledged, that the restart flag is clear during every
  startup (so that the file the reload reads is the one it was promised, or a
  later one), and where the PID file exists. The refinement is proved step by step: each
  action is a step of `ReloadService` or leaves the mapped variables alone.
  The same module proves the watchdog that guards these teardowns
  (`WatchdogTypes`, `WatchdogBoundsTeardown`, `FirstTeardownIsTimed`) for every
  timeout and grace. The strengthening is a countdown: a teardown's age plus what
  is left of the sleep never exceeds the timeout plus the grace, with equality to
  the timeout when the teardown created the thread.
- **ServerResourcesProofs**: `ResourceTypes`, `NoDanglingComponent`,
  `ComponentsDestroyedOnce`, `ShutdownQuiesces`, `PeerListsSafe` and `NoPeerLost`,
  for every set of peers, choice of front ends and failing step. The main thread
  works off a list, so the invariant is about what is left of it (`Program`): each
  operation has a rank in the start, in the unwinding and in the shutdown, and the
  lists the code goes through are sorted by rank. A component's state then follows
  from its place: while the server starts, what is live has been created and
  nothing is freed (`Starting`); in a teardown what is live still has its
  destruction ahead, and what is freed has it behind (`Unwinding`, `Stopping`).
  That no pointer dangles is then a comparison of ranks. For the peers, the list
  in memory is the intended one without the unread ones from the load on, and the one
  on disk from the save on.
- **OfflineFilesProofs**, on `offs cache move`: `MoveIsSafe` (no block is lost) and
  `MoveIsAlone` (files move only while the daemon is off), for all directories,
  blocks, process names and platforms; `MoveIsEffective` (a completed move restarts
  the daemon on the destination with every block), provided that the config file
  names no cache directory. The properties except the daemons the move does not know
  of, and each exception is needed (see the known limits). The strengthening says
  that from the staging to the restart the daemon is off or unnoticed, that what
  the listing read before the move does not cover of the source is astray,
  that source and destination differ, and that the staged directory is the
  destination while files move.
- **OfflineFilesProofs**, on the updater: `DaemonIsDownDuringCopy`,
  `SuccessIsARunningDaemon` and `FailureIsARollback`, for any number of polls and
  of crashes. The strengthening (`Quiet`, `Sound`, `Rollback`) says that a service
  that was seen stopped stays so over both incarnations of the updater, because
  without a crash systemd has nothing to restart; that what is started after the
  copies is a whole binary; and that the old binaries are there before the first
  copy and again after a complete restore.
- **SettingsProofs**: `PrecedenceHolds`, for every default, number of flags and
  number of reloads, and `SizeIsExact`, for every text, limit and table of units.
  The invariant for the first gives the value of the field after each stage of the
  start as a function of the inputs (`AfterFlags`, `AfterFile`, `AfterFill`,
  `AtStart`, `Cycle`). The second compares the loop over the digits, with its
  overflow tests, to the number the digits denote; both are recursive functions of
  the length, and in place of an induction the proof looks at the shortest prefix
  on which they would disagree (`LeastNumber`).
- **ClientRequestsProofs**: `ExitZeroIsTrue`, `RefusalIsFinal` and
  `StatusIsNotConfused`, for loads with any number of progress frames. The
  strengthening follows frames from the daemon to the exit status: every
  positive answer on its way is to a request that was carried out (`Truthful`);
  a command other than `status` makes one request, which is carried out or
  refused and never both (`SingleRequest`); `status` remembers the outcome of its
  first request when it makes the second (`StatusRequests`); and a size is
  staged only for want of an answer (`Returns`).
- **MetricsServerProofs**: `TableIsMemorySafe`, `AcknowledgedReportsStay` and
  `ReportsAreFreed`, for any number of nodes, table entries, workers and reports,
  as long as two handlers have not met. The invariant is one of ownership: every
  live report is owned by one entry, by one handler that stores it, or was
  refused (`Owners`, `Covered`, `Table`); an entry's report is live except
  between its `free` and the assignment of the next (`Live`); a handler that
  registers a node is at the first unused entry (`Handlers`); a node is refused
  only by a full table without it (`Full`).
- **ClientStreamProofs**: `ReadersStayAligned`, `PutReportsTheTruth` and
  `GetReportsTheTruth`, for every file size, chunk size, response limit, retry
  budget and socket capacity. The invariant is about streams: what is in the
  socket followed by what is left of the frame being sent. Such a stream begins
  with the payload its reader still waits for and goes on with whole frames
  (`Aligned`); the final frames are its last (`LastFrame`); and the bytes the
  reader has, plus those of the data frames in the stream, are the bytes the
  writer has sent (`Account`, a running sum over the stream). Frames that do not
  decode go into a sum of their own.
- **DaemonControlProofs**: `OneDaemon`, `RestartPutsBack` and `SuccessIsTrue`,
  for any process slots, flags, platforms, polls and number of commands, from
  one terminal (`OneTerminal`): with two, both commands can pass the guard, see
  the known limits. The invariant says that, where the commands alone start
  daemons, there is one process at most (`Sole`) and no service manager behind it
  (`Unmanaged`); that from its fork on that process is the command's child, and
  that the command does not return before it has exec'd or failed (`OwnChild`),
  which is why the next command's guard sees it; that a restart without flags
  holds what it could read of the old daemon's from the reading to the fork
  (`OldFlags`), which is all but `--foreground` of a line that is `Whole`; and
  that a restart that found the service up goes to its manager (`ToManager`).
- **How far the commands are from their end**: `CommandsAreBounded` (start, stop
  and restart, from any number of terminals; in `DaemonControlProofs`),
  `MoveIsBounded` and `UpdaterIsBounded` (in `OfflineFilesProofs`). Each step of
  the command lowers a pair of the stages ahead and the polls, copies or files left
  in the stage, and no other actor raises it. So the number of steps is bounded,
  which is the part of `CommandsReturn`, `MoveReturns` and `UpdaterReturns` that
  does not depend on fairness; that the command has a step to take until it has
  returned, and takes it, stays with TLC.

The inductive invariants were model-checked on the instances of the runs before
they were proved.

Every safety property that a passing run checks is one of these theorems, with
`OneTerminal` and an absent `[cache].dir` where the text above says so. The
values an operator may write for a setting (`Values`), the binaries the updater
replaces and the components of the server are those of the models, not constants.

Only model-checked: the liveness properties (`ReloadCompletes`, `ScmStopEnds`,
`SignalEndsUnreloaded`, `HungTeardownEnds`, `MoveReturns`, `UpdaterReturns`,
`ClientReturns`, `CommandsReturn`, `ShutdownEnds`). They rest on fairness and on
which actions are enabled, and are out of the prover's reach.

## Assumptions about external code

liboffs is not in this tree. From the way `main.c` and the CLI use it, and from
`test/test_offsd_integration.cpp`: `config_pending_save` merges a field into the
file and makes it unapplied; `config_pending_exists` holds until
`config_pending_mark_applied`; the reload handler tests it before it calls back
and runs on a pool worker; `scheduler_pool_stop` joins the workers;
`authority_load_peers` may read less than the store holds, and
`authority_save_peers` overwrites the store with the list in memory; the
peer-book actor takes requests only between its start and its stop.

## Not modelled

- `_daemonize` (fork, setsid, fork) and `_run_uninstall` (deletes directories
  once): sequences without another actor.
- HTTP soft authentication: a stateless filter whose decisions are those of
  liboffs.
- `install` and `uninstall` of the service ops: nothing in this tree calls them.
- What commands and handlers print, JSON and Prometheus text, usage texts, version and
  translations: formatting without control that a property depends on.
- `_normalize_path` and the test for nested directories in `cli_util.c`: string
  work; `CacheMove` takes directories that are absolute and not nested.
- `offs config set max_capacity_bytes=...`: its number is parsed in the daemon by
  liboffs; the size that `offs cache size` stages is modelled.
- Failures of `popen`, `malloc` and of reading `/proc` in `offs restart`, which then
  goes on without flags.
- Installers, images and CI: run once, outside the programs.
- liboffs and poll-dancer: not in this tree.

## Plan

1. A composition of `CacheMove` with the commands of `DaemonControl`, in place
   of the daemon's three states.
2. Paths as sequences of names in `CacheMove`, with the conflict test against
   nested directories.
3. Proofs: a bound on the steps of `put` and `get`, in which the retry budget that
   a transfer renews is paid for by the units it moved.

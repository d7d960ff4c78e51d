------------------------------ MODULE CacheMove ------------------------------
(***************************************************************************)
(* `offs cache move <dest>` (src/offs/commands/cache.c, cli_util.c,        *)
(* start_stop.c) against the daemon whose block cache it moves: both meet  *)
(* only in the process table, the pending config file and the directories. *)
(* The daemon picks its cache directory when a process starts and never on *)
(* a reload, but both consume the pending file (src/offsd/main.c).         *)
(* Paths are absolute and distinct directories are not nested.             *)
(***************************************************************************)
EXTENDS FiniteSets

CONSTANTS
  Dirs,         \* directories a cache can live in
  Default,      \* the platform default cache directory
  None,         \* no directory: absent, or JSON null
  FileDir,      \* [cache].dir of the daemon's config file, or None
  Blocks,       \* block files; each is stored at most once
  Names,        \* names the daemon's process may have
  Hosts         \* "posix", or "windows" with the daemon installed as a service

ASSUME DirsAssumption ==
  /\ Default \in Dirs /\ None \notin Dirs
  /\ FileDir \in Dirs \cup {None}
  /\ Names \subseteq {"offsd", "offs-daemon"} /\ Hosts \subseteq {"posix", "windows"}

VARIABLES
  daemon,     \* "off", "on" or, between SIGTERM and exit, "stopping"
  host,
  name,       \* the name of the daemon's process
  dir,        \* the directory the running daemon's cache is open on
  staged,     \* cache_dir in pending_config.json
  fresh,      \* the pending file was saved and has not been applied
  content,    \* the block files in each directory
  stored,     \* history: every block the daemon has stored
  cli,        \* where the move command is
  src, dest, listing, was_running,       \* its locals
  promised,   \* history: the directory --keep said the next start will use
  home,       \* history: where the last completed move put the cache
  unnoticed,  \* history: a daemon has run that the current move does not know of
  astray      \* history: blocks such a daemon stored while files were moved

service == <<daemon, host, name, dir, unnoticed>>
pending == <<staged, fresh>>
command == <<cli, src, dest, listing, was_running>>
history == <<stored, promised, home, astray>>
vars == <<service, pending, content, command, history>>

TypeOK ==
  /\ daemon \in {"off", "on", "stopping"} /\ dir \in Dirs
  /\ host \in Hosts /\ name \in {"offsd", "offs-daemon"}
  /\ staged \in Dirs \cup {None} /\ fresh \in BOOLEAN
  /\ content \in [Dirs -> SUBSET Blocks] /\ stored \in SUBSET Blocks
  /\ cli \in {"idle", "resolved", "wait", "stage", "move", "shell", "restore", "restart"}
  /\ src \in Dirs /\ dest \in Dirs /\ listing \in SUBSET Blocks
  /\ was_running \in BOOLEAN
  /\ promised \in Dirs \cup {None} /\ home \in Dirs \cup {None}
  /\ unnoticed \in BOOLEAN /\ astray \in SUBSET Blocks

Init ==
  /\ daemon = "off" /\ host \in Hosts /\ name = "offsd" /\ dir = Default
  /\ staged = None /\ fresh = FALSE
  /\ content = [d \in Dirs |-> {}] /\ stored = {}
  /\ cli = "idle" /\ src = Default /\ dest = Default /\ listing = {}
  /\ was_running = FALSE /\ promised = None /\ home = None
  /\ unnoticed = FALSE /\ astray = {}

-----------------------------------------------------------------------------
(* The daemon. *)

\* The explicit directory, else the staged one if the file is new, else the default.
CacheDirAtStart ==
  IF FileDir # None THEN FileDir
  ELSE IF fresh /\ staged # None THEN staged
  ELSE Default

\* A new process: _load_pending_override, the cache_dir substitution, _startup.
StartDaemon(process) ==
  /\ daemon = "off" /\ daemon' = "on" /\ name' = process
  /\ dir' = CacheDirAtStart
  /\ fresh' = FALSE
  /\ promised' = None
  /\ UNCHANGED <<host, staged, content, stored, home, astray>>

\* Started by hand, or by a service manager at any time: the packages for Linux run
\* it as offs-daemon.
DaemonStarts ==
  /\ \E process \in Names : StartDaemon(process)
  /\ unnoticed' = (cli # "idle")
  /\ UNCHANGED command

DaemonExits ==
  /\ daemon # "off" /\ daemon' = "off"
  /\ UNCHANGED <<host, name, dir, unnoticed, pending, content, command, history>>

StoreBlock(b) ==
  /\ daemon = "on" /\ b \notin stored
  /\ content' = [content EXCEPT ![dir] = @ \cup {b}]
  /\ stored' = stored \cup {b}
  /\ astray' = IF unnoticed /\ cli \in {"move", "shell"} THEN astray \cup {b} ELSE astray
  /\ UNCHANGED <<service, pending, command, promised, home>>

\* Some other setting is staged: config_pending_save merges it into the file.
StageOther ==
  /\ fresh' = TRUE
  /\ UNCHANGED <<service, staged, content, command, history>>

\* An accepted reload restarts the server in the same process.
Reload ==
  /\ daemon = "on" /\ fresh
  /\ fresh' = FALSE
  /\ UNCHANGED <<service, staged, content, command, history>>

\* _is_daemon_running: `pgrep -x offsd`; on Windows `sc query`, which succeeds for
\* an installed service whether or not it runs.
IsDaemonRunning == host = "windows" \/ (daemon # "off" /\ name = "offsd")
Hidden == daemon # "off" /\ ~IsDaemonRunning

-----------------------------------------------------------------------------
(* Plausible slips in the command, for the mutation checks. *)

StopWithoutWait ==
  /\ cli = "resolved" /\ content[src] # {}
  /\ was_running' = IsDaemonRunning
  /\ daemon' = IF daemon # "off" /\ IsDaemonRunning THEN "stopping" ELSE daemon
  /\ unnoticed' = Hidden
  /\ cli' = "stage"
  /\ UNCHANGED <<host, name, dir, pending, content, src, dest, listing, history>>

WaitForever ==
  /\ cli = "wait" /\ ~IsDaemonRunning /\ cli' = "stage"
  /\ UNCHANGED <<service, pending, content, src, dest, listing, was_running, history>>

MoveWithoutStaging ==
  /\ cli = "stage" /\ cli' = "move"
  /\ listing' = content[src]
  /\ UNCHANGED <<service, pending, content, src, dest, was_running, history>>

FailureIgnored ==
  /\ cli = "move" /\ cli' = "shell"
  /\ UNCHANGED <<service, pending, content, src, dest, listing, was_running, history>>

-----------------------------------------------------------------------------
(* The command. *)

\* cli_cache_resolve_current without --from.
ResolveCurrent ==
  IF FileDir # None THEN FileDir ELSE IF staged # None THEN staged ELSE Default

\* cli_cache_paths_conflict; no two of Dirs are one inside the other.
PathsConflict(a, b) == a = b

\* Validate the destination, resolve the source, refuse a conflict.
Resolve(d) ==
  /\ cli = "idle" /\ content[d] = {} /\ ~PathsConflict(ResolveCurrent, d)
  /\ cli' = "resolved" /\ src' = ResolveCurrent /\ dest' = d /\ unnoticed' = FALSE
  /\ UNCHANGED <<daemon, host, name, dir, pending, content, listing, was_running, history>>

Stage(d) == staged' = d /\ fresh' = TRUE

\* Nothing to move, or --keep: only stage the new location (which can fail).
StageOnly(keep) ==
  /\ cli = "resolved" /\ (keep \/ content[src] = {})
  /\ cli' = "idle"
  /\ \/ /\ Stage(dest) /\ home' = None
        /\ promised' = IF content[src] = {} THEN None ELSE dest
     \/ UNCHANGED <<pending, promised, home>>
  /\ UNCHANGED <<service, content, stored, astray, src, dest, listing, was_running>>

\* cli_daemon_is_running, and cmd_stop when it is, which fails if there is nothing
\* to signal or `sc stop` finds the service stopped.
StopDaemon ==
  /\ cli = "resolved" /\ content[src] # {}
  /\ was_running' = IsDaemonRunning /\ unnoticed' = Hidden
  /\ \/ ~IsDaemonRunning /\ cli' = "stage" /\ UNCHANGED daemon
     \/ IsDaemonRunning /\ daemon # "off" /\ daemon' = "stopping" /\ cli' = "wait"
     \/ IsDaemonRunning /\ cli' = "idle" /\ UNCHANGED daemon
  /\ UNCHANGED <<host, name, dir, pending, content, src, dest, listing, history>>

\* cli_daemon_wait_stopped: the process is gone, or ten seconds are.
WaitStopped ==
  /\ cli = "wait"
  /\ cli' = IF IsDaemonRunning THEN "idle" ELSE "stage"
  /\ unnoticed' = Hidden
  /\ UNCHANGED <<daemon, host, name, dir, pending, content, src, dest, listing, was_running,
                 history>>

\* Stage BEFORE moving; the daemon comes back if that fails.
StageMove ==
  /\ cli = "stage"
  /\ listing' = content[src]
  /\ \/ Stage(dest) /\ promised' = None /\ home' = None /\ cli' = "move"
     \/ cli' = "restore" /\ UNCHANGED <<pending, promised, home>>
  /\ UNCHANGED <<service, content, stored, astray, src, dest, was_running>>

\* file_move_verified: the source file goes only once the copy is good.
MoveFile(b) ==
  /\ cli = "move" /\ b \in content[src]
  /\ content' = [content EXCEPT ![src] = @ \ {b}, ![dest] = @ \cup {b}]
  /\ UNCHANGED <<service, pending, command, history>>

\* cli_cache_move_tree fails: stage null (which can fail too).
MoveFails ==
  /\ cli = "move" /\ cli' = "restore"
  /\ Stage(None) \/ UNCHANGED pending
  /\ UNCHANGED <<service, content, src, dest, listing, was_running, history>>

\* Every entry the directory was read with has been moved.
MoveDone ==
  /\ cli = "move" /\ listing \cap content[src] = {}
  /\ cli' = "shell"
  /\ UNCHANGED <<service, pending, content, src, dest, listing, was_running, history>>

\* rm_rf(src), whatever is in there by now.
RemoveShell ==
  /\ cli = "shell" /\ cli' = "restart"
  /\ content' = [content EXCEPT ![src] = {}]
  /\ home' = dest
  /\ UNCHANGED <<service, pending, stored, promised, astray, src, dest, listing, was_running>>

\* cmd_start when the daemon was running: it refuses to start a second one, and it
\* may fail.
StartAgain ==
  /\ cli \in {"restore", "restart"} /\ cli' = "idle"
  /\ \/ was_running /\ ~IsDaemonRunning /\ StartDaemon("offsd") /\ UNCHANGED unnoticed
     \/ UNCHANGED <<service, pending, content, history>>
  /\ UNCHANGED <<src, dest, listing, was_running>>

\* The command is interrupted.
Interrupt ==
  /\ cli # "idle" /\ cli' = "idle"
  /\ UNCHANGED <<service, pending, content, src, dest, listing, was_running, history>>

Command ==
  \/ \E keep \in BOOLEAN : StageOnly(keep)
  \/ StopDaemon \/ WaitStopped \/ StageMove
  \/ \E b \in Blocks : MoveFile(b)
  \/ MoveFails \/ MoveDone \/ RemoveShell \/ StartAgain

Next ==
  \/ DaemonStarts \/ DaemonExits \/ StageOther \/ Reload
  \/ \E b \in Blocks : StoreBlock(b)
  \/ \E d \in Dirs : Resolve(d)
  \/ Command
  \/ Interrupt

\* The command runs; nothing is assumed of the daemon.
Spec == Init /\ [][Next]_vars /\ WF_vars(Command)

-----------------------------------------------------------------------------
(* Properties *)

\* Every block ever stored is in some directory: no failure, interruption or
\* sequence of moves loses one, but for those that a daemon stores in the midst of
\* a move that does not know of it.
NoBlockLost == stored \ astray \subseteq UNION {content[d] : d \in Dirs}

\* No file is moved or removed while a daemon has a cache open, unless it is one the
\* move does not know of: its process has another name than offsd, or it was started
\* after the move had looked.
MoveExcludesDaemon == cli \in {"move", "shell"} /\ ~unnoticed => daemon = "off"

\* When a completed move starts the daemon again, it "already runs from dest",
\* with every block the source had, and the source is empty (with the same proviso).
MovedDaemonRunsFromDest ==
  [][(cli = "restart" /\ ~unnoticed' /\ daemon = "off" /\ daemon' = "on")
       => dir' = dest /\ content[src] = {} /\ listing \subseteq content[dest]]_vars

\* The move command always returns.
MoveReturns == cli # "idle" ~> cli = "idle"

-----------------------------------------------------------------------------
(* What the repository says of the code and the code does not always do; the *)
(* README names the circumstances.                                           *)

\* cache.c: "The move flow stops the daemon itself", so that no daemon runs while
\* files move and no block is lost.
MoveIsAlwaysAlone == cli \in {"move", "shell"} => daemon = "off"
NoBlockEverLost == stored \subseteq UNION {content[d] : d \in Dirs}

\* A failed move whose revert succeeds: "Revert staging FIRST so the daemon stays
\* on the old location".
FailedMoveKeepsLocation ==
  [][(cli = "restore" /\ staged = None /\ daemon = "off" /\ daemon' = "on")
       => dir' = src]_vars

\* --keep: "the daemon starts using it at its next start".
KeepIsHonoured ==
  [][(promised # None /\ daemon = "off" /\ daemon' = "on") => dir' = promised]_vars

\* "Relocate the cache directory": once moved, every start of the daemon finds
\* the cache where the move put it, until another location is staged.
MovedCacheStays ==
  [][(home # None /\ daemon = "off" /\ daemon' = "on") => dir' = home]_vars
=============================================================================

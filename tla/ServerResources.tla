--------------------------- MODULE ServerResources ---------------------------
(***************************************************************************)
(* The components of one offsd server (src/offsd/main.c): the order in     *)
(* which _startup creates them and _start_listening opens them, how each   *)
(* failure inside _startup unwinds, the order of _shutdown, and the peer   *)
(* store that outlives them.  Pool workers serve peer requests meanwhile.  *)
(*                                                                         *)
(* The main thread is a queue of operations, todo, executed from its head; *)
(* a creation that fails replaces the queue by the unwinding the code has  *)
(* at that place.                                                          *)
(***************************************************************************)
EXTENDS Naturals, Sequences

CONSTANT Peers         \* friends and ring peers a request may add or remove

\* Components that args may leave out (a port of 0, no socket path).
Optional == {"http", "ws", "wt", "h3", "unix"}
\* Creations whose result _startup does not test.
Unchecked == {"timer", "ofd_cache", "tuple_cache", "update_actor"}
\* Steps of _startup that can fail but create nothing.
Checks == {"dirs", "settings", "certs"}
Components == {"pool", "authority", "block_cache", "network"} \cup Optional \cup Unchecked

VARIABLES
  enabled,     \* the optional components args asks for
  mode,        \* "starting", "unwinding", "serving", "stopping", "stopped", "failed", "dead"
  todo,        \* what the main thread still has to do in this mode
  ptr,         \* the server's pointers: "null", "live" or "freed"
  workers,     \* the pool's workers run
  listening,   \* the front ends that accept requests
  mdns,        \* the mDNS announce thread runs
  book,        \* the peer-book actor: "none", "closed", "open"
  mem,         \* the peers the authority holds in memory
  disk,        \* the peers in peer_store.cbor
  intended,    \* history: what the accepted peer requests left the set at
  unread       \* history: stored peers the load did not read, not named since

machine == <<enabled, mode, todo>>
runtime == <<workers, listening, mdns, book>>
peers == <<mem, disk, intended, unread>>
vars == <<machine, ptr, runtime, peers>>

TypeOK ==
  /\ enabled \in SUBSET Optional
  /\ mode \in {"starting", "unwinding", "serving", "stopping", "stopped", "failed", "dead"}
  /\ \A i \in DOMAIN todo :
       todo[i][2] \in Components \cup Checks \cup {"mdns", "book", "connections", "peers"}
  /\ ptr \in [Components -> {"null", "live", "freed"}]
  /\ workers \in BOOLEAN /\ mdns \in BOOLEAN
  /\ listening \in SUBSET Optional
  /\ book \in {"none", "closed", "open"}
  /\ mem \in SUBSET Peers /\ disk \in SUBSET Peers /\ intended \in SUBSET Peers
  /\ unread \in SUBSET Peers

Init ==
  /\ enabled \in SUBSET Optional
  /\ mode = "stopped" /\ todo = <<>>
  /\ ptr = [c \in Components |-> "null"]
  /\ workers = FALSE /\ listening = {} /\ mdns = FALSE /\ book = "none"
  /\ mem = {} /\ disk = {} /\ intended = {} /\ unread = {}

-----------------------------------------------------------------------------
(* The orders the code fixes. *)

All(op, cs) == [i \in DOMAIN cs |-> <<op, cs[i]>>]

StartupOrder ==
  All("create", <<"dirs", "pool", "timer", "settings", "authority", "block_cache",
                  "ofd_cache", "tuple_cache", "http", "certs", "network",
                  "ws", "wt", "h3", "unix", "update_actor">>)

\* A slip: the stored peers are not loaded.
ListenOrderWithoutLoad ==
  << <<"listen", "http">>, <<"start", "mdns">>, <<"start", "book">>,
     <<"start", "connections">> >>

ListenOrder ==
  << <<"listen", "http">>, <<"start", "mdns">>,
     <<"listen", "ws">>, <<"listen", "wt">>, <<"listen", "h3">>, <<"listen", "unix">>,
     <<"load", "peers">>, <<"start", "book">>, <<"start", "connections">> >>

PoolEnd == << <<"stop", "pool">>, <<"destroy", "pool">> >>
LateUnwind ==
  All("destroy", <<"authority", "http", "tuple_cache", "ofd_cache", "block_cache",
                   "timer">>) \o PoolEnd
TransportUnwind == << <<"save", "peers">>, <<"destroy", "network">> >> \o LateUnwind

\* What _startup does when the named creation or check fails.
UnwindSettings == All("destroy", <<"timer">>) \o PoolEnd
UnwindAuthority ==
  All("destroy", <<"http", "tuple_cache", "ofd_cache", "timer">>) \o PoolEnd
UnwindBlockCache == All("destroy", <<"authority", "timer">>) \o PoolEnd
UnwindHttp ==
  All("destroy", <<"tuple_cache", "ofd_cache", "block_cache", "timer">>) \o PoolEnd
UnwindWt == All("destroy", <<"ws">>) \o TransportUnwind
UnwindH3Twice == All("destroy", <<"ws", "wt", "ws">>) \o TransportUnwind  \* a slip
UnwindH3 == All("destroy", <<"wt", "ws">>) \o TransportUnwind
UnwindUnix == All("destroy", <<"wt", "h3", "ws">>) \o TransportUnwind

Unwind(c) ==
  CASE c \in {"dirs", "pool"} -> <<>>
    [] c = "settings" -> UnwindSettings
    [] c = "authority" -> UnwindAuthority
    [] c = "block_cache" -> UnwindBlockCache
    [] c = "http" -> UnwindHttp
    [] c \in {"certs", "network"} -> LateUnwind
    [] c = "ws" -> TransportUnwind
    [] c = "wt" -> UnwindWt
    [] c = "h3" -> UnwindH3
    [] c = "unix" -> UnwindUnix

\* Slips: the pool is stopped ahead of its front end; the peers are saved while
\* the peer-book actor is still open.
StopOrderPoolFirst ==
  << <<"stop", "unix">>, <<"stop", "ws">>, <<"stop", "wt">>, <<"stop", "h3">>,
     <<"stop", "mdns">>, <<"stop", "book">>, <<"save", "peers">>,
     <<"stop", "connections">>, <<"stop", "pool">>, <<"stop", "http">> >>
StopOrderSaveFirst ==
  << <<"stop", "unix">>, <<"stop", "ws">>, <<"stop", "wt">>, <<"stop", "h3">>,
     <<"stop", "mdns">>, <<"save", "peers">>, <<"stop", "book">>,
     <<"stop", "connections">>, <<"stop", "http">>, <<"stop", "pool">> >>

StopOrder ==
  << <<"stop", "unix">>, <<"stop", "ws">>, <<"stop", "wt">>, <<"stop", "h3">>,
     <<"stop", "mdns">>, <<"stop", "book">>, <<"save", "peers">>,
     <<"stop", "connections">>, <<"stop", "http">>, <<"stop", "pool">> >>

\* Slips: the authority is forgotten; the pool goes ahead of the timer it runs.
DestroyOrderNoAuthority ==
  All("destroy", <<"unix", "ws", "wt", "h3", "http", "network", "tuple_cache",
                   "ofd_cache", "block_cache", "update_actor", "timer", "pool">>)
DestroyOrderPoolFirst ==
  All("destroy", <<"unix", "ws", "wt", "h3", "http", "network", "tuple_cache",
                   "ofd_cache", "block_cache", "update_actor", "pool", "timer",
                   "authority">>)

DestroyOrder ==
  All("destroy", <<"unix", "ws", "wt", "h3", "http", "network", "tuple_cache",
                   "ofd_cache", "block_cache", "update_actor", "timer", "pool",
                   "authority">>)

-----------------------------------------------------------------------------
(* The main thread. *)

\* _run_offsd enters a cycle: _startup clears the server, then _start_listening.
Begin ==
  /\ mode \in {"stopped", "failed", "dead"}
  /\ mode' = "starting" /\ todo' = StartupOrder \o ListenOrder
  /\ ptr' = [c \in Components |-> "null"]
  /\ workers' = FALSE /\ listening' = {} /\ mdns' = FALSE /\ book' = "none"
  /\ mem' = {} /\ intended' = disk /\ unread' = {}
  /\ UNCHANGED <<enabled, disk>>

Do(op, c) == todo # <<>> /\ Head(todo) = <<op, c>>
Done == todo' = Tail(todo) /\ UNCHANGED <<enabled, mode>>

CreateSucceeds(c) ==
  /\ Do("create", c) /\ Done
  /\ ptr' = IF c \in Checks \cup (Optional \ enabled) THEN ptr
            ELSE [ptr EXCEPT ![c] = "live"]
  /\ workers' = IF c = "pool" THEN TRUE ELSE workers
  /\ IF c = "network" THEN book' \in {"none", "closed"} ELSE UNCHANGED book
  /\ UNCHANGED <<listening, mdns, peers>>

\* The create function returned NULL and nobody looks, or the check failed.
CreateFails(c) ==
  /\ Do("create", c) /\ c \notin Optional \ enabled
  /\ IF c \in Unchecked
       THEN Done
       ELSE mode' = "unwinding" /\ todo' = Unwind(c) /\ UNCHANGED enabled
  /\ UNCHANGED <<ptr, runtime, peers>>

\* http_server_listen, ws_transport_start, ...
Listen(c) ==
  /\ Do("listen", c) /\ Done
  /\ listening' = IF ptr[c] = "live" THEN listening \cup {c} ELSE listening
  /\ UNCHANGED <<ptr, workers, mdns, book, peers>>

\* With a QUIC port and a listener; failing to start it is not fatal.
StartMdns ==
  /\ Do("start", "mdns") /\ Done
  /\ mdns' \in BOOLEAN
  /\ UNCHANGED <<ptr, workers, listening, book, peers>>

\* authority_load_peers; its result is ignored, and a store it cannot read, or
\* not to its end, leaves the server up with the peers it did get.
LoadPeers ==
  /\ Do("load", "peers") /\ Done
  /\ \E read \in SUBSET disk : mem' = mem \cup read /\ unread' = disk \ read
  /\ UNCHANGED <<ptr, runtime, disk, intended>>

StartBook ==
  /\ Do("start", "book") /\ Done
  /\ book' = IF book = "none" THEN "none" ELSE "open"
  /\ UNCHANGED <<ptr, workers, listening, mdns, peers>>

\* The server is up: network_start_connections, and the poll loop.
StartConnections ==
  /\ Do("start", "connections")
  /\ todo' = <<>> /\ mode' = "serving"
  /\ UNCHANGED <<enabled, ptr, runtime, peers>>

\* The poll loop ends, for whichever reason; _shutdown begins.
LeavePoll ==
  /\ mode = "serving"
  /\ mode' = "stopping" /\ todo' = StopOrder \o DestroyOrder
  /\ UNCHANGED <<enabled, ptr, runtime, peers>>

StopFrontEnd(c) ==
  /\ Do("stop", c) /\ Done
  /\ listening' = listening \ {c}
  /\ UNCHANGED <<ptr, workers, mdns, book, peers>>

StopMdns ==
  /\ Do("stop", "mdns") /\ Done
  /\ mdns' = FALSE
  /\ UNCHANGED <<ptr, workers, listening, book, peers>>

StopBook ==
  /\ Do("stop", "book") /\ Done
  /\ book' = IF book = "none" THEN "none" ELSE "closed"
  /\ UNCHANGED <<ptr, workers, listening, mdns, peers>>

\* authority_save_peers overwrites the store; its result is ignored, and a write
\* that fails leaves the old store, voiding what was accepted since.
SavePeers ==
  /\ Do("save", "peers") /\ Done
  /\ \/ disk' = mem /\ UNCHANGED <<intended, unread>>
     \/ intended' = disk /\ unread' = {} /\ UNCHANGED disk
  /\ UNCHANGED <<ptr, runtime, mem>>

StopConnections ==
  /\ Do("stop", "connections") /\ Done
  /\ UNCHANGED <<ptr, runtime, peers>>

StopPool ==
  /\ Do("stop", "pool") /\ Done
  /\ workers' = FALSE
  /\ UNCHANGED <<ptr, listening, mdns, book, peers>>

\* X_destroy(server->X), with or without a NULL test: the pointer is not reset.
Destroy(c) ==
  /\ Do("destroy", c) /\ Done
  /\ ptr' = IF ptr[c] = "null" THEN ptr ELSE [ptr EXCEPT ![c] = "freed"]
  /\ UNCHANGED <<runtime, peers>>

\* _startup or _shutdown returns.
Finish ==
  /\ todo = <<>> /\ mode \in {"unwinding", "stopping"}
  /\ mode' = IF mode = "stopping" THEN "stopped" ELSE "failed"
  /\ UNCHANGED <<enabled, todo, ptr, runtime, peers>>

-----------------------------------------------------------------------------
(* Beside the main thread. *)

\* A worker serves a friend or bootstrap request; the peer-book actor refuses it
\* unless it is open for business.
ServePeerRequest(p) ==
  /\ workers /\ listening # {} /\ book = "open"
  /\ \/ mem' = mem \cup {p} /\ intended' = intended \cup {p}
     \/ mem' = mem \ {p} /\ intended' = intended \ {p}
  /\ unread' = unread \ {p}
  /\ UNCHANGED <<machine, ptr, runtime, disk>>

\* A kill, a crash or the shutdown watchdog ends the process.
Die ==
  /\ mode \in {"starting", "unwinding", "serving", "stopping"}
  /\ mode' = "dead" /\ todo' = <<>>
  /\ ptr' = [c \in Components |-> "null"]
  /\ workers' = FALSE /\ listening' = {} /\ mdns' = FALSE /\ book' = "none"
  /\ mem' = {} /\ intended' = disk /\ unread' = {}
  /\ UNCHANGED <<enabled, disk>>

Next ==
  \/ Begin \/ LeavePoll \/ Finish
  \/ \E c \in Components \cup Checks : CreateSucceeds(c) \/ CreateFails(c)
  \/ \E c \in Optional : Listen(c) \/ StopFrontEnd(c)
  \/ \E c \in Components : Destroy(c)
  \/ StartMdns \/ LoadPeers \/ StartBook \/ StartConnections
  \/ StopMdns \/ StopBook \/ SavePeers \/ StopConnections \/ StopPool
  \/ \E p \in Peers : ServePeerRequest(p)
  \/ Die

Spec == Init /\ [][Next]_vars

-----------------------------------------------------------------------------
(* Properties *)

\* What each component was handed when it was created or wired.
Storage == {"pool", "block_cache", "ofd_cache", "tuple_cache"}
Needs(c) ==
  CASE c \in {"pool", "authority"} -> {}
    [] c \in {"timer", "tuple_cache"} -> {"pool"}
    [] c = "block_cache" -> {"pool", "timer", "authority"}
    [] c = "ofd_cache" -> {"pool", "block_cache"}
    [] c = "network" -> {"authority", "block_cache", "timer", "pool"}
    [] c \in {"http", "ws", "wt", "unix"} -> Storage \cup {"network", "authority"}
    [] c = "h3" -> Storage
    [] c = "update_actor" -> {"pool", "timer"}

\* No component outlives one it points to, in whichever of the orders above and
\* for every choice of transports.  The unwinding of a failed _startup frees the
\* authority and the network ahead of those that point to them, before anything
\* listens; all else it keeps too.
NothingDangles ==
  \A c \in Components : ptr[c] = "live" =>
    \A d \in Needs(c) \ (IF mode = "unwinding" THEN {"authority", "network"} ELSE {}) :
      ptr[d] # "freed"

\* No destroy function is called on a pointer already destroyed: the pointers
\* are not reset, so only the orders protect against it.
NoDoubleDestroy ==
  \A c \in Components : Do("destroy", c) => ptr[c] # "freed"

\* A completed _shutdown leaves nothing for the next cycle's memset to leak; a
\* failed _startup leaves at most the authority, and the process exits.
NothingLeaks ==
  LET Left == {c \in Components : ptr[c] = "live"}
  IN /\ mode = "stopped" => Left = {}
     /\ mode = "failed" => Left \subseteq {"authority"}

\* Whatever _startup creates, and whichever of its steps fails, is destroyed by the
\* unwinding or by _shutdown: once, and not twice.
DestroyedOnce == NoDoubleDestroy /\ NothingLeaks

\* _shutdown stops every front end before the pool that serves it, and destroys
\* nothing while workers run.
QuietBeforeDestroy ==
  mode = "stopping" =>
    /\ ~workers => listening = {}
    /\ workers => \A c \in Components : ptr[c] # "freed"

\* The direct reads and writes of the peer lists never race the peer-book actor
\* or the mDNS thread's connection attempts while the server shuts down, and
\* never the actor while it starts.
PeerListsExclusive ==
  /\ Do("load", "peers") => book # "open"
  /\ Do("save", "peers") => book # "open" /\ ~mdns

\* After a _shutdown that ran to its end the store is what it was at the start
\* with every peer request accepted since applied to it, and short of nothing but
\* the peers that the load could not read.
PeersSurviveStop == mode = "stopped" => disk = intended \ unread

\* "Persist peer state (node ID, friends, hebbian weights, ring peers) across
\* restarts": a start that fails leaves the store as it was.
PeersSurviveFailedStart == mode = "failed" => disk = intended

-----------------------------------------------------------------------------
(* What the repository says of the code and the code does not always do; the *)
(* README names the circumstances.                                           *)

\* "Persist peer state ... across restarts", also across a start that could not
\* read all of the store: the stop after it writes what was read over the rest.
PeersSurviveBadLoad == mode = "stopped" => disk = intended
=============================================================================

--------------------------- MODULE ClientRequests ---------------------------
(***************************************************************************)
(* The commands of `offs` that send a request and act on the answer:       *)
(* src/offs/main.c connects and dispatches, src/offs/commands/*.c decide   *)
(* what each answer means for the exit status.  `offs load` reads answers  *)
(* until one ends the load, `offs status` makes two requests over one      *)
(* connection, and `offs cache size` stages the size when the daemon       *)
(* cannot be reached.                                                      *)
(*                                                                         *)
(* A frame is two units on the socket, so that a receive can give up in    *)
(* its middle; ClientStream has the transfer in detail.  The daemon is not *)
(* this repository's code: it answers a request with any answer that has a *)
(* meaning for the client, late or never, and may die at any moment.       *)
(***************************************************************************)
EXTENDS Naturals, Sequences

CONSTANT MaxProgress     \* bound: LOAD_PROGRESS frames in one load

ASSUME RequestsAssumption == MaxProgress \in Nat

Queries == {"config_show", "config_get", "peer_info", "peer_list", "friend_list",
            "bootstrap_list", "block_get", "health", "status"}
Changes == {"config_set", "config_reload", "peer_connect", "friend_add", "friend_remove",
            "bootstrap", "block_put", "block_delete", "pin", "ephemeral",
            "ephemeral_list", "cache_size", "cache_gc"}
Commands == Queries \cup Changes \cup {"load"}

\* The commands that print their usage, and return, when asked to.
HasHelp == {"config_set", "load", "pin", "ephemeral", "ephemeral_list", "cache_size",
            "cache_gc"}

\* What an answer is for the client: "ok", a status other than OK, an ERROR
\* frame, a payload that does not decode, a frame of another type; "none" is
\* NULL.  A collection may have been done in "partial": its status is OK, but
\* fewer URLs were collected than requested.  A load also has progress, and ends
\* loaded, not at all, or "partial": in part, or with a status not known here.
Replies == {"ok", "partial", "refused", "error", "garbled", "other"}
LoadReplies == {"progress", "loaded", "partial", "failed", "error", "garbled", "other"}

VARIABLES
  command,
  pc,          \* "connect", "check", "send", "await", "stage" or "done"
  request,     \* the request made last: the command, or status' second one
  inbox,       \* units on their way to the client
  torn,        \* a send has given up within a frame
  result,      \* status: the exit status of cmd_health
  shown,       \* status: the request whose answer is shown as the update state
  answer,      \* the reply the exit status was decided by, or "help"
  staged,      \* max_capacity_bytes is in the pending configuration
  exit,        \* exit status, or "none"
  daemon       \* [up, queue, outbox, loading, carried_out]

client == <<command, pc, request, torn, result, shown, answer, staged, exit>>
vars == <<client, inbox, daemon>>

Requests == Commands \cup {"update_status"}
Frames == [to : Requests, kind : Replies \cup LoadReplies]
Units == [frame : Frames, part : {1, 2}]

TypeOK ==
  /\ command \in Commands /\ request \in Requests
  /\ pc \in {"connect", "check", "send", "await", "stage", "done"}
  /\ inbox \in Seq(Units) /\ torn \in BOOLEAN /\ staged \in BOOLEAN
  /\ result \in {"none", "0", "1"} /\ exit \in {"none", "0", "1"}
  /\ shown \in Requests \cup {"none"}
  /\ answer \in Replies \cup LoadReplies \cup {"none", "help"}
  /\ daemon \in [up : BOOLEAN, queue : Seq(Requests), outbox : Seq(Units),
                 loading : 0..(MaxProgress + 1), carried_out : SUBSET Requests]

\* cmd_cache connects by itself, after its arguments have been checked; for the
\* other commands main() connects before it dispatches.
SelfConnects == command \in {"cache_size", "cache_gc"}

Init ==
  /\ command \in Commands /\ request = command
  /\ pc = IF SelfConnects THEN "check" ELSE "connect"
  /\ inbox = <<>> /\ torn = FALSE /\ result = "none" /\ shown = "none"
  /\ answer = "none" /\ staged = FALSE /\ exit = "none"
  /\ daemon \in [up : BOOLEAN, queue : {<<>>}, outbox : {<<>>}, loading : {0},
                 carried_out : {{}}]

-----------------------------------------------------------------------------
(* commands/*.c: the exit statuses a reply may lead to. *)

OnlyOk(r) == IF r = "ok" THEN {"0"} ELSE {"1"}

\* Showing the answer may fail as well (no such field, a short write).
OkIfShown(r) == IF r = "ok" THEN {"0", "1"} ELSE {"1"}

\* Any answer but an ERROR frame is reported as OK.
AnyAnswer(r) == IF r \in {"none", "error"} THEN {"1"} ELSE {"0"}

ConfigSendSet(r) == OnlyOk(r)
ConfigShow(r) == OnlyOk(r)
ConfigGet(r) == OkIfShown(r)
ConfigReload(r) == OnlyOk(r)
PeerInfo(r) == OkIfShown(r)
PeerList(r) == {"0"}
PeerConnect(r) == AnyAnswer(r)
FriendAdd(r) == AnyAnswer(r)
FriendRemove(r) == AnyAnswer(r)
FriendList(r) == {"0"}
BootstrapSendAndReport(r) == OnlyOk(r)
BootstrapList(r) == OnlyOk(r)
BlockPut(r) == {"0"}
BlockGet(r) == {"0"}
BlockDelete(r) == OnlyOk(r)
PinOp(r) == OnlyOk(r)
EphemeralRepOp(r) == OnlyOk(r)
EphemeralList(r) == OnlyOk(r)
CmdHealth(r) == OnlyOk(r)
CacheSizeApply(r) == OnlyOk(r)
CacheGcApply(r) == IF r \in {"ok", "partial"} THEN {"0"} ELSE {"1"}

\* A plausible bug: the end of the connection ends the load.
LoadEndsWithConnection(r) ==
  CASE r \in {"loaded", "partial", "none"} -> {"0"}
    [] r \in {"failed", "error", "garbled"} -> {"1"}
    [] r \in {"progress", "other"} -> {}

\* No exit status yet: cmd_load reads on.
CmdLoad(r) ==
  CASE r \in {"loaded", "partial"} -> {"0"}
    [] r \in {"failed", "error", "garbled", "none"} -> {"1"}
    [] r \in {"progress", "other"} -> {}

ExitOf(c, r) ==
  CASE c = "config_show" -> ConfigShow(r)       [] c = "config_get" -> ConfigGet(r)
    [] c = "config_set" -> ConfigSendSet(r)     [] c = "config_reload" -> ConfigReload(r)
    [] c = "peer_info" -> PeerInfo(r)           [] c = "peer_list" -> PeerList(r)
    [] c = "peer_connect" -> PeerConnect(r)     [] c = "friend_add" -> FriendAdd(r)
    [] c = "friend_remove" -> FriendRemove(r)   [] c = "friend_list" -> FriendList(r)
    [] c = "bootstrap" -> BootstrapSendAndReport(r)
    [] c = "bootstrap_list" -> BootstrapList(r) [] c = "block_put" -> BlockPut(r)
    [] c = "block_get" -> BlockGet(r)           [] c = "block_delete" -> BlockDelete(r)
    [] c = "pin" -> PinOp(r)                    [] c = "ephemeral" -> EphemeralRepOp(r)
    [] c = "ephemeral_list" -> EphemeralList(r) [] c = "health" -> CmdHealth(r)
    [] c = "cache_size" -> CacheSizeApply(r)    [] c = "cache_gc" -> CacheGcApply(r)
    [] c = "load" -> CmdLoad(r)

-----------------------------------------------------------------------------
(* The client *)

Return(status) == pc' = "done" /\ exit' = status

\* main() or cmd_cache connects.  A size that cannot be sent is staged.
Connect ==
  /\ pc = "connect"
  /\ IF daemon.up THEN /\ pc' = IF SelfConnects THEN "send" ELSE "check"
                       /\ UNCHANGED exit
     ELSE IF command = "cache_size" THEN pc' = "stage" /\ UNCHANGED exit
     ELSE Return("1")
  /\ UNCHANGED <<command, request, torn, result, shown, answer, staged, inbox, daemon>>

\* The arguments, the files they name and the encoding of the request are in
\* order, or the command returns without having sent anything.
Check ==
  /\ pc = "check"
  /\ \/ Return("1")
     \/ pc' = (IF SelfConnects THEN "connect" ELSE "send") /\ UNCHANGED exit
  /\ UNCHANGED <<command, request, torn, result, shown, answer, staged, inbox, daemon>>

\* --help among the arguments; where it comes first, main() does not even connect.
Help ==
  /\ command \in HasHelp
  /\ pc = "check" \/ (pc = "connect" /\ ~SelfConnects)
  /\ Return("0") /\ answer' = "help"
  /\ UNCHANGED <<command, request, torn, result, shown, staged, inbox, daemon>>

\* A plausible bug: a refused size is staged like one that was not delivered.
DecideStagesRefused(r) ==
  /\ IF r = "ok" THEN Return("0")
     ELSE IF command = "cache_size" THEN pc' = "stage" /\ UNCHANGED exit
     ELSE Return("1")
  /\ UNCHANGED <<request, result, shown>>

\* The reply to the request made last is r.
Decide(r) ==
  \/ /\ command = "status" /\ request = "status"
     /\ result' \in CmdHealth(r) /\ request' = "update_status" /\ pc' = "send"
     /\ UNCHANGED <<exit, shown>>
  \/ /\ request = "update_status"
     /\ shown' = IF r = "ok" THEN Head(inbox).frame.to ELSE "none"
     /\ Return(result) /\ UNCHANGED <<request, result>>
  \/ /\ command = "cache_size" /\ r = "none"
     /\ pc' = "stage" /\ UNCHANGED <<exit, request, result, shown>>
  \/ /\ command # "status" /\ ~(command = "cache_size" /\ r = "none")
     /\ IF ExitOf(command, r) = {} THEN UNCHANGED <<pc, exit>>
        ELSE \E status \in ExitOf(command, r) : Return(status)
     /\ UNCHANGED <<request, result, shown>>

\* cli_client_send_frame: the request is out; or the daemon is gone; or the retry
\* budget is spent, maybe within the frame, after which the daemon finds no
\* further request on this connection.
Send ==
  /\ pc = "send"
  /\ \/ /\ daemon.up /\ pc' = "await"
        /\ daemon' = [daemon EXCEPT !.queue = IF torn THEN @ ELSE Append(@, request)]
        /\ UNCHANGED <<exit, request, result, shown, torn, answer>>
     \/ /\ Decide("none") /\ torn' = TRUE /\ answer' = "none"
        /\ UNCHANGED daemon
  /\ UNCHANGED <<command, staged, inbox>>

\* A plausible bug: the type of an answer is not looked at.
TypeIgnored(frame) == frame.kind

\* client_api_wire_get_type tells the answers of different requests apart.
ReplyIn(frame) ==
  IF frame.to = request \/ frame.kind = "error" THEN frame.kind ELSE "other"

\* cli_client_recv_frame returns a frame; or takes the rest of an earlier frame,
\* which it finds first, for one.
Receive ==
  /\ pc = "await" /\ inbox # <<>>
  /\ \/ /\ Len(inbox) > 1 /\ Head(inbox).part = 1
        /\ answer' = ReplyIn(Head(inbox).frame)
        /\ inbox' = Tail(Tail(inbox))
     \/ /\ Head(inbox).part = 2
        /\ answer' \in {"none", "other"}
        /\ inbox' = Tail(inbox)
  /\ Decide(answer')
  /\ UNCHANGED <<command, torn, staged, daemon>>

\* It returns NULL: the daemon is gone, or the retry budget is spent while the
\* frame, or its second part, is still to come.
ReceiveFails ==
  /\ pc = "await" /\ (inbox = <<>> \/ (Len(inbox) = 1 /\ Head(inbox).part = 1))
  /\ answer' = "none" /\ inbox' = <<>>
  /\ Decide("none")
  /\ UNCHANGED <<command, torn, staged, daemon>>

\* _stage_number, or the configuration directory cannot be found or written.
Stage ==
  /\ pc = "stage"
  /\ \/ staged' = TRUE /\ Return("0")
     \/ UNCHANGED staged /\ Return("1")
  /\ UNCHANGED <<command, request, torn, result, shown, answer, inbox, daemon>>

-----------------------------------------------------------------------------
(* The daemon (liboffs) *)

Post(d, to, kind) ==
  LET unit(p) == [frame |-> [to |-> to, kind |-> kind], part |-> p]
  IN [d EXCEPT !.outbox = @ \o <<unit(1), unit(2)>>]
CarryOut(d, r) == [d EXCEPT !.carried_out = @ \cup {r}]

\* What the daemon may have made of a request once it has answered so.  A query
\* has no status, and only a collection is done in part.
Answers(d, r) ==
  {Post(CarryOut(d, r), r, "ok"), Post(d, r, "error")}
    \cup {Post(s, r, kind) : s \in {d, CarryOut(d, r)}, kind \in {"garbled", "other"}}
    \cup (IF r \in Changes THEN {Post(d, r, "refused")} ELSE {})
    \cup (IF r = "cache_gc" THEN {Post(d, r, "partial")} ELSE {})

Handle ==
  /\ pc # "done" /\ daemon.up /\ daemon.queue # <<>> /\ daemon.loading = 0
  /\ LET r == Head(daemon.queue)
         d == [daemon EXCEPT !.queue = Tail(@)]
     IN IF r = "load" THEN daemon' = [d EXCEPT !.loading = 1] ELSE daemon' \in Answers(d, r)
  /\ UNCHANGED <<client, inbox>>

\* The load makes progress, or ends; a frame of an unknown type may come between.
Load ==
  /\ pc # "done" /\ daemon.up /\ daemon.loading > 0
  /\ \/ /\ daemon.loading <= MaxProgress
        /\ \E kind \in {"progress", "other"} :
             daemon' = Post([daemon EXCEPT !.loading = @ + 1], "load", kind)
     \/ daemon' = Post(CarryOut([daemon EXCEPT !.loading = 0], "load"), "load", "loaded")
     \/ \E kind \in {"partial", "failed", "error", "garbled"} :
          daemon' = Post([daemon EXCEPT !.loading = 0], "load", kind)
  /\ UNCHANGED <<client, inbox>>

Write ==
  /\ pc # "done" /\ daemon.up /\ daemon.outbox # <<>>
  /\ inbox' = Append(inbox, Head(daemon.outbox))
  /\ daemon' = [daemon EXCEPT !.outbox = Tail(@)]
  /\ UNCHANGED client

Die ==
  /\ pc # "done" /\ daemon.up
  /\ daemon' = [daemon EXCEPT !.up = FALSE, !.queue = <<>>, !.outbox = <<>>, !.loading = 0]
  /\ UNCHANGED <<client, inbox>>

Done == pc = "done" /\ UNCHANGED vars

Next ==
  \/ Connect \/ Check \/ Help \/ Send \/ Receive \/ ReceiveFails \/ Stage
  \/ Handle \/ Load \/ Write \/ Die \/ Done

Spec == Init /\ [][Next]_vars

-----------------------------------------------------------------------------
(* Properties *)

\* The commands that report OK without having looked at the daemon's answer, or
\* at more of it than that it is no ERROR frame.
Unchecked == {"peer_list", "friend_list", "block_put", "block_get",
              "peer_connect", "friend_add", "friend_remove"}

\* The commands that take part of their work done for success.
DoneInPart == {"load", "cache_gc"}

\* A command exits 0 only when the daemon has carried out all of its request and
\* has said so, or, for cache size, when the size is staged: not after a lost
\* connection, a spent budget, an answer of another type or one that does not
\* decode.  The exceptions are the answer "partial" to a load or a collection,
\* which they warn of and return 0, and --help, which sends nothing.
SuccessMeansDone ==
  exit = "0" /\ command \notin Unchecked =>
    \/ command \in daemon.carried_out /\ answer # "none"
    \/ command = "status" /\ "status" \in daemon.carried_out
    \/ command = "cache_size" /\ staged
    \/ command \in DoneInPart /\ answer = "partial"
    \/ command \in HasHelp /\ answer = "help"

\* A request the daemon has answered with a refusal leaves nothing behind: it was
\* not carried out, and a refused size is not staged for the next start either.
RefusalChangesNothing ==
  pc = "done" /\ answer \in {"refused", "error"} /\ command # "status" =>
    command \notin daemon.carried_out /\ ~staged

\* cmd_status shows as update state only what answers its second request, even when
\* the answer to the first one comes after it has been given up.
StatusShowsItsAnswer == shown \in {"none", "update_status"}

-----------------------------------------------------------------------------
(* What a reader of the code would expect and it does not do; the README names *)
(* the circumstances.                                                        *)

\* The exit status of every command tells success from failure.
ExitStatusTells ==
  exit = "0" /\ answer # "help" => request \in daemon.carried_out \/ staged

\* A size the daemon has refused is not staged: it is when the refusal is lost.
RefusedSizeIsNotStaged ==
  pc = "done" /\ staged => \A i \in 1..Len(daemon.outbox) :
                             daemon.outbox[i].frame.kind # "refused"
=============================================================================

---------------------------- MODULE ClientStream ----------------------------
(***************************************************************************)
(* `offs put` and `offs get` over the local socket: the length-prefixed    *)
(* framing and the retry loops of src/offs/client.c, and the streaming     *)
(* state machines of commands/put.c and commands/get.c.  The daemon at the *)
(* other end is not this repository's code: it reads frames, answers or    *)
(* rejects, stalls as long as it likes, and may die at any moment.         *)
(*                                                                         *)
(* The socket carries units: a frame is a length unit and its payload      *)
(* units.  A partial transfer of k units is k transfers of one.            *)
(***************************************************************************)
EXTENDS Naturals, Sequences

CONSTANTS
  FileSize,        \* bytes in the file put, or in the content got
  ChunkSize,       \* PUT_CHUNK_SIZE
  MaxResponse,     \* MAX_RESPONSE_SIZE
  Budget,          \* CLI_EAGAIN_BUDGET_MS / CLI_EAGAIN_RETRY_MS
  Capacity         \* units the socket buffers in each direction

ASSUME StreamAssumption ==
  /\ {FileSize, ChunkSize, MaxResponse, Capacity} \subseteq Nat \ {0}
  /\ Budget \in Nat

VARIABLES
  command,     \* "put" or "get"
  pipe,        \* a named pipe, which does not block; otherwise an AF_UNIX socket
  pc,          \* the command: "start", "data", "end", "receive", "done"
  out,         \* units of the frame being sent that are still to send
  need,        \* payload units still to receive; 0 before a length unit
  eagain,      \* retries since the last progress
  bytes,       \* put: bytes_sent; get: bytes written to the output
  ended,       \* put: fread came up short; get: GET_RESPONSE_START has been read
  skipped,     \* get: bytes in GET_DATA frames that did not decode
  short_write, \* get: some fwrite wrote less
  flushed,     \* get: fclose has written out what fwrite took
  exit,        \* exit status, or "none"
  why,         \* what the command reported when it returned
  c2s, s2c,    \* the two directions of the socket
  server       \* the daemon's end of the connection

output == <<skipped, short_write, flushed>>
client == <<command, pipe, pc, out, need, eagain, bytes, ended, output, exit, why>>
vars == <<client, c2s, s2c, server>>

Types == {"PUT_START", "PUT_DATA", "PUT_END", "PUT_RESPONSE", "ERROR",
          "GET_REQUEST", "GET_START", "GET_DATA", "GET_END"}
Units == [kind : {"length", "payload"}, type : Types, size : 1..(FileSize + 1)]

TypeOK ==
  /\ command \in {"put", "get"} /\ pipe \in BOOLEAN
  /\ pc \in {"start", "data", "end", "receive", "done"}
  /\ out \in Seq(Units) /\ c2s \in Seq(Units) /\ s2c \in Seq(Units)
  /\ need \in 0..(FileSize + 1) /\ eagain \in 0..Budget /\ bytes \in 0..FileSize
  /\ ended \in BOOLEAN /\ exit \in {"none", "0", "1"}
  /\ skipped \in 0..FileSize /\ short_write \in BOOLEAN /\ flushed \in BOOLEAN
  /\ why \in {"none", "success", "file", "send", "receive", "server", "write"}
  /\ server \in [state : {"open", "accepted", "rejected", "finished", "gone"},
                 need : 0..(FileSize + 1), bytes : 0..FileSize, out : Seq(Units),
                 stored : BOOLEAN, rejected : BOOLEAN]

Frame(type, size) ==
  LET unit(kind) == [kind |-> kind, type |-> type, size |-> size]
  IN <<unit("length")>> \o [i \in 1..size |-> unit("payload")]

Init ==
  /\ command \in {"put", "get"} /\ pipe \in BOOLEAN /\ pc = "start"
  /\ out = Frame(IF command = "put" THEN "PUT_START" ELSE "GET_REQUEST", 1)
  /\ need = 0 /\ eagain = 0 /\ bytes = 0
  /\ ended = FALSE /\ exit = "none" /\ why = "none"
  /\ skipped = 0 /\ short_write = FALSE /\ flushed = FALSE
  /\ c2s = <<>> /\ s2c = <<>>
  /\ server = [state |-> "open", need |-> 0, bytes |-> 0, out |-> <<>>,
               stored |-> FALSE, rejected |-> FALSE]

-----------------------------------------------------------------------------
(* client.c *)

Return(status, reason) == pc' = "done" /\ exit' = status /\ why' = reason
Continue == UNCHANGED <<pc, exit, why>>

Sending == pc \in {"start", "data", "end"} /\ out # <<>>
Receiving == pc = "receive"
Direction == IF Sending THEN "send" ELSE "receive"

\* _send_all gets one more unit into the socket.
SendUnit ==
  /\ Sending /\ server.state # "gone" /\ Len(c2s) < Capacity
  /\ c2s' = Append(c2s, Head(out)) /\ out' = Tail(out) /\ eagain' = 0
  /\ Continue
  /\ UNCHANGED <<command, pipe, need, bytes, ended, output, s2c, server>>

\* A plausible bug: a retry starts the frame again.
RetryWholeFrame ==
  /\ pipe /\ server.state # "gone"
  /\ (Sending /\ Len(c2s) = Capacity) \/ (Receiving /\ s2c = <<>>)
  /\ IF eagain >= Budget
       THEN Return("1", Direction) /\ UNCHANGED <<eagain, out>>
       ELSE /\ eagain' = eagain + 1 /\ Continue
            /\ out' = IF Sending THEN Frame(Head(out).type, Head(out).size) ELSE out
  /\ UNCHANGED <<command, pipe, need, bytes, ended, output, c2s, s2c, server>>

\* A plausible bug: retries are not counted.
RetryForever ==
  /\ pipe /\ server.state # "gone"
  /\ (Sending /\ Len(c2s) = Capacity) \/ (Receiving /\ s2c = <<>>)
  /\ UNCHANGED vars

\* EAGAIN on a named pipe: retry after a pause, until the budget is spent.  On a
\* socket send and recv block instead, for as long as it takes.
Retry ==
  /\ pipe /\ server.state # "gone"
  /\ (Sending /\ Len(c2s) = Capacity) \/ (Receiving /\ s2c = <<>>)
  /\ IF eagain >= Budget
       THEN Return("1", Direction) /\ UNCHANGED eagain
       ELSE eagain' = eagain + 1 /\ Continue
  /\ UNCHANGED <<command, pipe, out, need, bytes, ended, output, c2s, s2c, server>>

\* A plausible bug: get takes the end of the stream for the end of the content.
LossIsEnd ==
  /\ server.state = "gone"
  /\ Sending \/ (Receiving /\ s2c = <<>>)
  /\ Return(IF command = "get" /\ ended THEN "0" ELSE "1", Direction)
  /\ UNCHANGED <<command, pipe, out, need, eagain, bytes, ended, output, c2s, s2c,
                 server>>

\* The peer is gone: a send fails, a receive returns 0 once the socket is drained.
ConnectionLost ==
  /\ server.state = "gone"
  /\ Sending \/ (Receiving /\ s2c = <<>>)
  /\ Return("1", Direction)
  /\ UNCHANGED <<command, pipe, out, need, eagain, bytes, ended, output, c2s, s2c,
                 server>>

-----------------------------------------------------------------------------
(* commands/put.c and commands/get.c, between frames. *)

\* PUT_START is out: stream the file.  GET_REQUEST is out: read the answer.
RequestSent ==
  /\ pc = "start" /\ out = <<>>
  /\ pc' = IF command = "put" THEN "data" ELSE "receive"
  /\ UNCHANGED <<command, pipe, out, need, eagain, bytes, ended, output, exit, why, c2s,
                 s2c, server>>

\* fread returns to_read bytes, or fewer when the file has shrunk or a read
\* fails (and it is called again), and they become a PUT_DATA frame.  bytes runs
\* ahead of bytes_sent by the frame in flight; it is read again only once that
\* frame is out.
ReadChunk ==
  /\ pc = "data" /\ out = <<>> /\ bytes < FileSize
  /\ LET left == FileSize - bytes
         to_read == IF left > ChunkSize THEN ChunkSize ELSE left
     IN \E n \in 1..to_read :
          /\ out' = Frame("PUT_DATA", n) /\ bytes' = bytes + n
          /\ ended' = (ended \/ n < to_read)
  /\ Continue
  /\ UNCHANGED <<command, pipe, need, eagain, output, c2s, s2c, server>>

\* fread returns 0: a read error, or the end of a file that has shrunk.
ReadStops ==
  /\ pc = "data" /\ out = <<>> /\ bytes < FileSize
  /\ \/ Return("1", "file") /\ UNCHANGED <<out, ended>>
     \/ /\ pc' = "end" /\ out' = Frame("PUT_END", 1) /\ ended' = TRUE
        /\ UNCHANGED <<exit, why>>
  /\ UNCHANGED <<command, pipe, need, eagain, bytes, output, c2s, s2c, server>>

\* The whole file is out: send PUT_END ...
SendEnd ==
  /\ pc = "data" /\ out = <<>> /\ bytes = FileSize
  /\ pc' = "end" /\ out' = Frame("PUT_END", 1)
  /\ UNCHANGED <<command, pipe, need, eagain, bytes, ended, output, exit, why, c2s, s2c,
                 server>>

\* ... and wait for the answer.
EndSent ==
  /\ pc = "end" /\ out = <<>>
  /\ pc' = "receive"
  /\ UNCHANGED <<command, pipe, out, need, eagain, bytes, ended, output, exit, why, c2s,
                 s2c, server>>

\* A plausible bug: any answer is a success.
PutTrustsAnyReply(type, size) ==
  Return("0", "success") /\ UNCHANGED <<bytes, ended, output>>

\* put has received a whole frame: print the ORI, or the error; a response that
\* does not decode is one too.
PutHandles(type, size) ==
  /\ (type = "PUT_RESPONSE" /\ Return("0", "success")) \/ Return("1", "server")
  /\ UNCHANGED <<bytes, ended, output>>

\* get has received a whole frame: first the start frame, which opens the
\* output; then data, until the end or an error.  A data frame that does not
\* decode is passed over, and the result of the final fclose is not looked at.
GetHandles(type, size) ==
  \/ /\ ~ended /\ type = "GET_START"
     /\ \/ ended' = TRUE /\ Continue
        \/ Return("1", "file") /\ UNCHANGED ended
     /\ UNCHANGED <<bytes, output>>
  \/ /\ ~ended /\ type # "GET_START" /\ Return("1", "server")
     /\ UNCHANGED <<bytes, ended, output>>
  \/ /\ ended /\ type = "GET_DATA"
     /\ \/ bytes' = bytes + size /\ UNCHANGED <<skipped, short_write>>
        \/ short_write' = TRUE /\ UNCHANGED <<bytes, skipped>>
        \/ skipped' = skipped + size /\ UNCHANGED <<bytes, short_write>>
     /\ Continue /\ UNCHANGED <<ended, flushed>>
  \/ /\ ended /\ type = "GET_END"
     /\ IF short_write THEN Return("1", "write") ELSE Return("0", "success")
     /\ flushed' \in BOOLEAN /\ UNCHANGED <<bytes, ended, skipped, short_write>>
  \/ /\ ended /\ type = "ERROR" /\ Return("1", "server")
     /\ UNCHANGED <<bytes, ended, output>>

\* cli_client_recv_frame reads one more unit; the last one completes a frame, which
\* cbor_load may refuse.
ReceiveUnit ==
  /\ Receiving /\ s2c # <<>>
  /\ s2c' = Tail(s2c) /\ eagain' = 0
  /\ LET unit == Head(s2c) IN
     \/ /\ need = 0 /\ unit.size > MaxResponse
        /\ Return("1", "receive") /\ UNCHANGED <<need, bytes, ended, output>>
     \/ /\ need = 0 /\ unit.size <= MaxResponse
        /\ need' = unit.size /\ Continue /\ UNCHANGED <<bytes, ended, output>>
     \/ /\ need > 1
        /\ need' = need - 1 /\ Continue /\ UNCHANGED <<bytes, ended, output>>
     \/ /\ need = 1 /\ need' = 0
        /\ Return("1", "receive") /\ UNCHANGED <<bytes, ended, output>>
     \/ /\ need = 1 /\ need' = 0
        /\ IF command = "put" THEN PutHandles(unit.type, unit.size)
                              ELSE GetHandles(unit.type, unit.size)
  /\ UNCHANGED <<command, pipe, out, c2s, server>>

ClientStep ==
  \/ SendUnit \/ Retry \/ ConnectionLost
  \/ RequestSent \/ ReadChunk \/ ReadStops \/ SendEnd \/ EndSent \/ ReceiveUnit

-----------------------------------------------------------------------------
(* The daemon's end of the connection (liboffs).                           *)

Reject(s) == [s EXCEPT !.state = "rejected", !.rejected = TRUE, !.out = Frame("ERROR", 1)]

\* What the daemon may do with a whole frame.  After a rejection it reads on
\* and drops what it reads.
ServerHandles(s, type, size) ==
  IF s.state = "rejected" THEN {s}
  ELSE CASE type = "PUT_START" -> {[s EXCEPT !.state = "accepted"], Reject(s)}
         [] type = "PUT_DATA" -> {[s EXCEPT !.bytes = @ + size], Reject(s)}
         [] type = "PUT_END" -> {[s EXCEPT !.state = "finished", !.stored = TRUE,
                                           !.out = Frame("PUT_RESPONSE", 1)], Reject(s)}
         [] type = "GET_REQUEST" -> {[s EXCEPT !.state = "accepted",
                                               !.out = Frame("GET_START", 1)], Reject(s)}

ServerReads ==
  /\ pc # "done" /\ server.state # "gone" /\ c2s # <<>>
  /\ c2s' = Tail(c2s)
  /\ LET unit == Head(c2s) IN
       IF server.need = 0 THEN server' = [server EXCEPT !.need = unit.size]
       ELSE LET s == [server EXCEPT !.need = @ - 1] IN
              IF s.need > 0 THEN server' = s
              ELSE server' \in ServerHandles(s, unit.type, unit.size)
  /\ UNCHANGED <<client, s2c>>

\* The content of a get, in frames of the daemon's choosing.
ServerServes ==
  /\ pc # "done" /\ command = "get" /\ server.state = "accepted" /\ server.out = <<>>
  /\ \/ \E n \in 1..(FileSize - server.bytes) :
          server' = [server EXCEPT !.bytes = @ + n, !.out = Frame("GET_DATA", n)]
     \/ /\ server.bytes = FileSize
        /\ server' = [server EXCEPT !.state = "finished", !.out = Frame("GET_END", 1)]
     \/ server' = Reject(server)
  /\ UNCHANGED <<client, c2s, s2c>>

ServerWrites ==
  /\ pc # "done" /\ server.state # "gone" /\ server.out # <<>> /\ Len(s2c) < Capacity
  /\ s2c' = Append(s2c, Head(server.out))
  /\ server' = [server EXCEPT !.out = Tail(@)]
  /\ UNCHANGED <<client, c2s>>

ServerDies ==
  /\ pc # "done" /\ server.state # "gone"
  /\ server' = [server EXCEPT !.state = "gone"]
  /\ UNCHANGED <<client, c2s, s2c>>

Done == pc = "done" /\ UNCHANGED vars

Next == ClientStep \/ ServerReads \/ ServerServes \/ ServerWrites \/ ServerDies \/ Done

Spec == Init /\ [][Next]_vars /\ WF_vars(ClientStep)

-----------------------------------------------------------------------------
(* Properties *)

\* Whatever partial transfers and retries happen, a reader that is between two
\* frames finds a length unit next: _send_all and _recv_all never lose, repeat
\* or split a frame.
FramesAligned ==
  /\ pc # "done" /\ need = 0 /\ s2c # <<>> => Head(s2c).kind = "length"
  /\ server.need = 0 /\ c2s # <<>> => Head(c2s).kind = "length"

\* cmd_put exits 0 only when the daemon has stored every byte that was read, and
\* that is the whole file unless the file shrank under the upload.
PutSuccessMeansStored ==
  command = "put" /\ exit = "0" =>
    /\ server.stored /\ server.bytes = bytes
    /\ ended \/ bytes = FileSize

\* cmd_get exits 0 only when fwrite has taken all of the content but the data
\* frames that did not decode: not after a dropped connection, a spent retry
\* budget, an ERROR frame or a short write.
GetSuccessMeansComplete ==
  command = "get" /\ exit = "0" => bytes + skipped = FileSize

\* The daemon reads what is sent, serves what it accepted and writes what it has
\* to say, unless it dies.
ServerGoesOn == WF_vars(ServerReads) /\ WF_vars(ServerServes) /\ WF_vars(ServerWrites)

\* Both commands return.  On a named pipe they do whatever the daemon does: the
\* retry budget "avoids hanging forever if the daemon dies without closing the
\* pipe".  On a socket, which blocks, they do if the daemon goes on or dies.
ClientReturns == pipe \/ ServerGoesOn => <>(pc = "done")

-----------------------------------------------------------------------------
(* What the repository says of the code and the code does not always do; the *)
(* README names the circumstances.                                           *)

\* The budget "mirrors the blocking behaviour the POSIX AF_UNIX path gives for
\* free, and avoids hanging forever": the socket gives the blocking and not the
\* budget, and a daemon that stalls keeps put and get waiting.
ReturnsWhateverTheDaemonDoes == <>(pc = "done")

\* Exit status 0 of get: all of the content is in the output file.
GetSuccessMeansSaved == command = "get" /\ exit = "0" => skipped = 0 /\ flushed

\* Design, error handling: "Server-sent ERROR frame at any point: print
\* `Error: <message>`".  put looks for the frame only once PUT_END is out.
ServerErrorIsReported ==
  pc = "done" /\ server.rejected /\ server.out = <<>> /\ command = "put"
    /\ why # "file" => why = "server"

\* Design, error handling: file errors (fopen, fseek, fread) happen with "No
\* server state touched yet".  put reads the file after PUT_START.
FileErrorTouchesNoServer ==
  command = "put" /\ why = "file" => server.state \in {"open", "gone"}
=============================================================================

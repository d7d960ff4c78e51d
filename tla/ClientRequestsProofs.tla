------------------------ MODULE ClientRequestsProofs ------------------------
(***************************************************************************)
(* What the exit status of the commands of `offs` says about the daemon,   *)
(* whatever answers are lost, late or garbled, for loads of any length.    *)
(***************************************************************************)
EXTENDS ClientRequests, TLAPS, SequenceTheorems

-----------------------------------------------------------------------------
(* The frames in a sequence of units. *)

FramesIn(units) == {units[i].frame : i \in 1..Len(units)}

\* What is left of a queue holds no frame that was not there.
LEMMA FramesInTail ==
  ASSUME NEW units \in Seq(Units), units # <<>>
  PROVE  /\ Head(units) \in Units /\ Head(units).frame \in FramesIn(units)
         /\ Tail(units) \in Seq(Units)
         /\ FramesIn(Tail(units)) \subseteq FramesIn(units)
<1>1. /\ Head(units) \in Units /\ Tail(units) \in Seq(Units)
      /\ Len(Tail(units)) = Len(units) - 1 /\ Len(units) \in Nat \ {0}
      /\ \A i \in 1..Len(Tail(units)) : Tail(units)[i] = units[i + 1]
  BY HeadTailProperties, EmptySeq, LenProperties
<1>2. Head(units) = units[1]
  BY <1>1
<1> QED
  BY <1>1, <1>2 DEF FramesIn

\* A unit that is put into a queue adds its frame.
LEMMA FramesInAppend ==
  ASSUME NEW units \in Seq(Units), NEW u \in Units
  PROVE  /\ Append(units, u) \in Seq(Units)
         /\ FramesIn(Append(units, u)) = FramesIn(units) \cup {u.frame}
<1>1. /\ Append(units, u) \in Seq(Units) /\ Len(Append(units, u)) = Len(units) + 1
      /\ Len(units) \in Nat
      /\ \A i \in 1..Len(units) : Append(units, u)[i] = units[i]
      /\ Append(units, u)[Len(units) + 1] = u
  BY AppendProperties, LenProperties
<1> QED
  BY <1>1 DEF FramesIn

Daemons == [up : BOOLEAN, queue : Seq(Requests), outbox : Seq(Units),
            loading : 0..(MaxProgress + 1), carried_out : SUBSET Requests]

\* The daemon's answer adds one frame and changes nothing else.
LEMMA PostAddsFrame ==
  ASSUME NEW d \in Daemons, NEW f \in Frames
  PROVE  /\ Post(d, f.to, f.kind) \in Daemons
         /\ FramesIn(Post(d, f.to, f.kind).outbox) = FramesIn(d.outbox) \cup {f}
         /\ Post(d, f.to, f.kind).up = d.up /\ Post(d, f.to, f.kind).queue = d.queue
         /\ Post(d, f.to, f.kind).loading = d.loading
         /\ Post(d, f.to, f.kind).carried_out = d.carried_out
<1> DEFINE unit(p) == [frame |-> f, part |-> p]
<1>1. f = [to |-> f.to, kind |-> f.kind]
  BY DEF Frames
<1>2. unit(1) \in Units /\ unit(2) \in Units
  BY DEF Units
<1>3. <<unit(1), unit(2)>> \in Seq(Units)
  BY <1>2
<1> DEFINE box == d.outbox \o <<unit(1), unit(2)>>
<1>4. /\ box \in Seq(Units) /\ Len(box) = Len(d.outbox) + 2 /\ Len(d.outbox) \in Nat
      /\ \A i \in 1..Len(box) : box[i] = IF i <= Len(d.outbox) THEN d.outbox[i]
                                         ELSE <<unit(1), unit(2)>>[i - Len(d.outbox)]
  BY <1>3, ConcatProperties, LenProperties DEF Daemons
<1>5. FramesIn(box) = FramesIn(d.outbox) \cup {f}
  <2>1. \A i \in 1..Len(box) : box[i] = IF i <= Len(d.outbox) THEN d.outbox[i]
                                 ELSE IF i = Len(d.outbox) + 1 THEN unit(1) ELSE unit(2)
    BY <1>4
  <2>2. unit(1).frame = f /\ unit(2).frame = f
    OBVIOUS
  <2> HIDE DEF box, unit
  <2>3. \A i \in 1..Len(box) : box[i].frame = IF i <= Len(d.outbox) THEN d.outbox[i].frame
                                                                  ELSE f
    BY <2>1, <2>2
  <2>4. FramesIn(box) \subseteq FramesIn(d.outbox) \cup {f}
    <3>1. ASSUME NEW i \in 1..Len(box) PROVE box[i].frame \in FramesIn(d.outbox) \cup {f}
      <4>1. CASE i <= Len(d.outbox)
        <5>1. i \in 1..Len(d.outbox) /\ box[i].frame = d.outbox[i].frame
          BY <1>4, <2>3, <4>1
        <5> QED
          BY <5>1 DEF FramesIn
      <4>2. CASE ~(i <= Len(d.outbox))
        BY <2>3, <4>2
      <4> QED
        BY <4>1, <4>2
    <3> QED
      BY <3>1 DEF FramesIn
  <2>5. Len(d.outbox) + 1 \in 1..Len(box) /\ box[Len(d.outbox) + 1].frame = f
    BY <1>4, <2>3
  <2>6. \A i \in 1..Len(d.outbox) : i \in 1..Len(box) /\ box[i].frame = d.outbox[i].frame
    BY <1>4, <2>3
  <2>7. f \in FramesIn(box)
    BY <2>5 DEF FramesIn
  <2>8. FramesIn(d.outbox) \subseteq FramesIn(box)
    BY <2>6 DEF FramesIn
  <2> QED
    BY <2>4, <2>7, <2>8
<1>6. Post(d, f.to, f.kind) = [d EXCEPT !.outbox = box]
  BY <1>1 DEF Post
<1> HIDE DEF box
<1> QED
  BY <1>4, <1>5, <1>6 DEF Daemons

-----------------------------------------------------------------------------
(* The invariant. *)

InFlight == FramesIn(inbox) \cup FramesIn(daemon.outbox)
Refusals == {"refused", "error"}
Fulfilled == {"ok", "loaded"}
BeforeRequest == {"connect", "check", "send"}

\* No refusal is on its way to the client or has reached it.
NoRefusal == answer \notin Refusals /\ \A f \in InFlight : f.kind \notin Refusals

\* What is on its way answers a request that was made, and is true.
Truthful ==
  \A f \in InFlight :
    /\ f.kind \in Fulfilled => f.to \in daemon.carried_out
    /\ f.kind \in IF f.to = "load" THEN LoadReplies ELSE Replies
    /\ f.to = "load" <=> command = "load"

\* Every command but status makes one request, which the daemon takes up once and
\* either carries out or refuses.
SingleRequest ==
  command # "status" =>
    /\ request = command
    /\ pc \in BeforeRequest =>
         daemon.queue = <<>> /\ daemon.loading = 0 /\ daemon.carried_out = {} /\ NoRefusal
           /\ ~torn /\ answer = "none"
    /\ daemon.queue # <<>> => daemon.queue = <<command>> /\ daemon.loading = 0
    /\ daemon.queue # <<>> \/ daemon.loading > 0 => daemon.carried_out = {} /\ NoRefusal
    /\ NoRefusal \/ command \notin daemon.carried_out

\* status makes two requests, neither of them a load.
StatusRequests ==
  /\ command = "status" => /\ request \in {"status", "update_status"}
                           /\ daemon.queue \in Seq({"status", "update_status"})
  /\ command # "load" => daemon.loading = 0
  /\ result = "0" => "status" \in daemon.carried_out
  /\ result = "none" <=> request # "update_status"

\* The exit status is set with the return, and a size is staged for want of an answer.
Returns ==
  /\ exit # "none" <=> pc = "done"
  /\ pc = "stage" \/ staged => command = "cache_size" /\ answer = "none"
  /\ staged => pc = "done"

IInv ==
  /\ TypeOK /\ Truthful /\ SingleRequest /\ StatusRequests /\ Returns
  /\ SuccessMeansDone /\ StatusShowsItsAnswer

-----------------------------------------------------------------------------
(* The decision of a command. *)

AnyReply == Replies \cup LoadReplies \cup {"none"}

\* Exit status 0 is decided by a reply that says the request was carried out, for a
\* load or a collection maybe in part, and only cmd_load reads on.
LEMMA ExitIsDecided ==
  ASSUME NEW c \in Commands \ {"status"}, NEW r \in AnyReply,
         c = "load" => r \in LoadReplies \cup {"none"}
  PROVE  /\ ExitOf(c, r) \subseteq {"0", "1"}
         /\ c \notin Unchecked /\ "0" \in ExitOf(c, r) =>
              r \in Fulfilled \/ (c \in DoneInPart /\ r = "partial")
         /\ ExitOf(c, "none") # {}
<1>1. CASE c = "load"
  BY <1>1 DEF ExitOf, CmdLoad, LoadReplies, Fulfilled, DoneInPart
<1>2. CASE c \in {"config_show", "config_set", "config_reload", "bootstrap", "bootstrap_list",
                  "block_delete", "pin", "ephemeral", "ephemeral_list", "health",
                  "cache_size"}
  <2>1. ExitOf(c, r) = OnlyOk(r) /\ ExitOf(c, "none") = OnlyOk("none")
    BY <1>2 DEF ExitOf, ConfigShow, ConfigSendSet, ConfigReload, BootstrapSendAndReport,
       BootstrapList, BlockDelete, PinOp, EphemeralRepOp, EphemeralList, CmdHealth,
       CacheSizeApply
  <2> QED
    BY <2>1 DEF OnlyOk, Fulfilled
<1>3. CASE c \in {"config_get", "peer_info"}
  BY <1>3 DEF ExitOf, ConfigGet, PeerInfo, OkIfShown, Fulfilled
<1>4. CASE c \in Unchecked
  BY <1>4 DEF Unchecked, ExitOf, PeerList, FriendList, BlockPut, BlockGet, PeerConnect,
     FriendAdd, FriendRemove, AnyAnswer
<1>5. CASE c = "cache_gc"
  BY <1>5 DEF ExitOf, CacheGcApply, Fulfilled, DoneInPart
<1> QED
  BY <1>1, <1>2, <1>3, <1>4, <1>5 DEF Commands, Queries, Changes, Unchecked

\* What a decision leaves behind.
Decided(r) ==
  /\ pc' \in {"send", "await", "stage", "done"} /\ exit' \in {"none", "0", "1"}
  /\ request' \in Requests /\ result' \in {"none", "0", "1"} /\ shown' \in {"none", "update_status"}
  /\ exit' # "none" <=> pc' = "done"
  /\ pc' = "stage" => command = "cache_size" /\ r = "none"
  /\ pc' = "send" => command = "status"
  /\ command # "status" => request' = request
  /\ command = "status" => request' = "update_status"
  /\ result' = "0" => "status" \in daemon.carried_out
  /\ result' = "none" <=> request' # "update_status"
  /\ exit' = "0" /\ command \notin Unchecked =>
       \/ command \in daemon.carried_out /\ r # "none"
       \/ command = "status" /\ "status" \in daemon.carried_out
       \/ command \in DoneInPart /\ r = "partial"

\* A decision by a truthful reply is right.
LEMMA DecideIsRight ==
  ASSUME IInv, pc \in {"send", "await"}, NEW r \in AnyReply, Decide(r),
         r \in Fulfilled => request \in daemon.carried_out,
         command = "load" => r \in LoadReplies \cup {"none"},
         pc = "send" => r = "none",
         r = "ok" => Head(inbox).frame.to = request
  PROVE  Decided(r)
<1> USE DEF IInv, TypeOK, SingleRequest, StatusRequests, Returns, StatusShowsItsAnswer,
        Return
<1>0. /\ "update_status" \notin Commands /\ "none" \notin Requests
      /\ {"status", "load", "cache_size"} \subseteq Commands
  BY DEF Commands, Requests, Queries, Changes
<1>1. CASE command = "status" /\ request = "status"
  <2>1. /\ result' \in CmdHealth(r) /\ request' = "update_status" /\ pc' = "send"
        /\ UNCHANGED <<exit, shown>>
    BY <1>1, <1>0 DEF Decide
  <2>2. result' \in {"0", "1"} /\ (result' = "0" => r = "ok")
    BY <2>1 DEF CmdHealth, OnlyOk
  <2> QED
    BY <1>1, <2>1, <2>2 DEF Decided, Fulfilled, Requests
<1>2. CASE request = "update_status"
  <2>1. command = "status"
    BY <1>2, <1>0
  <2>2. /\ shown' = IF r = "ok" THEN Head(inbox).frame.to ELSE "none"
        /\ pc' = "done" /\ exit' = result /\ UNCHANGED <<request, result>>
    BY <1>2, <2>1 DEF Decide
  <2> QED
    BY <1>2, <2>1, <2>2 DEF Decided, Requests
<1>3. CASE command = "cache_size" /\ r = "none"
  <2>1. pc' = "stage" /\ UNCHANGED <<exit, request, result, shown>>
    BY <1>3, <1>0 DEF Decide
  <2> QED
    BY <1>3, <2>1, <1>0 DEF Decided
<1>4. CASE command # "status" /\ ~(command = "cache_size" /\ r = "none")
  <2>1. /\ IF ExitOf(command, r) = {} THEN UNCHANGED <<pc, exit>>
           ELSE \E status \in ExitOf(command, r) : pc' = "done" /\ exit' = status
        /\ UNCHANGED <<request, result, shown>>
    BY <1>4, <1>0 DEF Decide
  <2>2. /\ ExitOf(command, r) \subseteq {"0", "1"}
        /\ command \notin Unchecked /\ "0" \in ExitOf(command, r) =>
             r \in Fulfilled \/ (command \in DoneInPart /\ r = "partial")
        /\ ExitOf(command, "none") # {}
    BY <1>4, ExitIsDecided
  <2>3. r \in Fulfilled => r # "none"
    BY DEF Fulfilled
  <2>4. request # "update_status" /\ request = command
    BY <1>4, <1>0
  <2>5. CASE ExitOf(command, r) = {}
    BY <1>4, <2>1, <2>2, <2>4, <2>5 DEF Decided
  <2>6. CASE ExitOf(command, r) # {}
    BY <1>4, <2>1, <2>2, <2>3, <2>4, <2>6 DEF Decided
  <2> QED
    BY <2>5, <2>6
<1> QED
  BY <1>1, <1>2, <1>3, <1>4

-----------------------------------------------------------------------------
(* The steps of the client. *)

\* The invariant holds before a command.
LEMMA InitIInv == Init => IInv
<1> SUFFICES ASSUME Init PROVE IInv
  OBVIOUS
<1>1. /\ inbox = <<>> /\ daemon.outbox = <<>> /\ daemon.queue = <<>>
      /\ daemon.loading = 0 /\ daemon.carried_out = {}
  BY DEF Init
<1>2. TypeOK
  <2>1. daemon \in Daemons
    <3>1. 0 \in 0..(MaxProgress + 1)
      BY RequestsAssumption DEF RequestsAssumption
    <3>2. <<>> \in Seq(Requests) /\ <<>> \in Seq(Units)
      OBVIOUS
    <3> QED
      BY <3>1, <3>2 DEF Init, Daemons
  <2> QED
    BY <2>1 DEF Init, TypeOK, Daemons, Requests
<1>3. InFlight = {}
  BY <1>1 DEF InFlight, FramesIn
<1>4. "update_status" \notin Commands
  BY DEF Commands, Queries, Changes
<1> QED
  BY <1>1, <1>2, <1>3, <1>4 DEF Init, IInv, Truthful, SingleRequest, StatusRequests, Returns,
     SuccessMeansDone, StatusShowsItsAnswer, NoRefusal, Refusals, BeforeRequest

\* A step that decides by a reply, takes no frame but out of the inbox and leaves
\* the daemon alone keeps the invariant.
LEMMA DecisionKeepsIInv ==
  ASSUME IInv, pc \in {"send", "await"}, NEW r \in AnyReply, Decided(r), answer' = r,
         inbox' \in Seq(Units), FramesIn(inbox') \subseteq FramesIn(inbox),
         torn' \in BOOLEAN,
         r \in Refusals => ~NoRefusal,
         UNCHANGED <<command, staged, daemon>>
  PROVE  IInv'
<1>1. TypeOK'
  <2>1. shown' \in Requests \cup {"none"}
    BY DEF Decided, Requests
  <2> QED
    BY <2>1 DEF IInv, TypeOK, Decided, AnyReply
<1>2. InFlight' \subseteq InFlight
  BY DEF InFlight
<1>3. NoRefusal => NoRefusal'
  BY <1>2 DEF NoRefusal, Refusals
<1>4. Truthful'
  BY <1>2 DEF IInv, Truthful
<1>5. SingleRequest'
  <2> SUFFICES ASSUME command # "status" PROVE SingleRequest'
    BY DEF SingleRequest
  <2>1. pc' \notin BeforeRequest
    BY DEF Decided, BeforeRequest
  <2> QED
    BY <1>3, <2>1 DEF IInv, SingleRequest, Decided
<1>6. StatusRequests'
  BY DEF IInv, StatusRequests, Decided
<1>7. Returns' /\ SuccessMeansDone' /\ StatusShowsItsAnswer'
  BY DEF IInv, Returns, SuccessMeansDone, StatusShowsItsAnswer, Decided
<1> QED
  BY <1>1, <1>4, <1>5, <1>6, <1>7 DEF IInv

\* Before the request, nothing but where the command is changes.
LEMMA EarlyStepsKeepIInv == IInv /\ (Connect \/ Check) => IInv'
<1> SUFFICES ASSUME IInv, Connect \/ Check PROVE IInv'
  OBVIOUS
<1>1. /\ UNCHANGED <<command, request, torn, result, shown, answer, staged, inbox, daemon>>
      /\ pc \in {"connect", "check"}
      /\ \/ pc' \in {"connect", "check", "send"} /\ UNCHANGED exit
         \/ pc' = "stage" /\ command = "cache_size" /\ UNCHANGED exit
         \/ pc' = "done" /\ exit' = "1"
  BY DEF Connect, Check, Return
<1>2. InFlight' = InFlight /\ NoRefusal' = NoRefusal
  BY <1>1 DEF InFlight, NoRefusal
<1>3. TypeOK'
  BY <1>1 DEF IInv, TypeOK
<1>4. Truthful' /\ StatusRequests' /\ StatusShowsItsAnswer'
  BY <1>1, <1>2 DEF IInv, Truthful, StatusRequests, StatusShowsItsAnswer
<1>5. SingleRequest'
  BY <1>1, <1>2 DEF IInv, SingleRequest, BeforeRequest
<1>6. Returns' /\ SuccessMeansDone'
  BY <1>1 DEF IInv, Returns, SuccessMeansDone, SingleRequest, BeforeRequest
<1> QED
  BY <1>3, <1>4, <1>5, <1>6 DEF IInv

\* The usage is printed, and nothing is sent.
LEMMA HelpKeepsIInv == IInv /\ Help => IInv'
<1> SUFFICES ASSUME IInv, Help PROVE IInv'
  OBVIOUS
<1>1. /\ UNCHANGED <<command, request, torn, result, shown, staged, inbox, daemon>>
      /\ pc \in {"connect", "check"} /\ command \in HasHelp
      /\ pc' = "done" /\ exit' = "0" /\ answer' = "help"
  BY DEF Help, Return
<1>2. InFlight' = InFlight
  BY <1>1 DEF InFlight
<1>3. NoRefusal => NoRefusal'
  BY <1>1, <1>2 DEF NoRefusal, Refusals
<1>4. TypeOK'
  BY <1>1 DEF IInv, TypeOK
<1>5. Truthful' /\ StatusRequests' /\ StatusShowsItsAnswer'
  BY <1>1, <1>2 DEF IInv, Truthful, StatusRequests, StatusShowsItsAnswer
<1>6. SingleRequest'
  BY <1>1, <1>3 DEF IInv, SingleRequest, BeforeRequest
<1>7. Returns' /\ SuccessMeansDone'
  BY <1>1 DEF IInv, Returns, SuccessMeansDone
<1> QED
  BY <1>4, <1>5, <1>6, <1>7 DEF IInv

\* A request goes out, once unless the command is status; or the send fails.
LEMMA SendKeepsIInv == IInv /\ Send => IInv'
<1> SUFFICES ASSUME IInv, Send PROVE IInv'
  OBVIOUS
<1>1. CASE /\ daemon.up /\ pc' = "await"
           /\ daemon' = [daemon EXCEPT !.queue = IF torn THEN @ ELSE Append(@, request)]
           /\ UNCHANGED <<exit, request, result, shown, torn, answer>>
  <2>1. pc = "send" /\ UNCHANGED <<command, staged, inbox>>
    BY DEF Send
  <2>2. daemon \in Daemons
    BY DEF IInv, TypeOK, Daemons
  <2> DEFINE q == IF torn THEN daemon.queue ELSE Append(daemon.queue, request)
  <2>3. q \in Seq(Requests)
    BY <2>2 DEF IInv, TypeOK, Daemons
  <2>4. command = "status" => q \in Seq({"status", "update_status"})
    BY DEF IInv, StatusRequests
  <2>5. command # "status" => q = <<command>>
    <3>1. command # "status" => q = Append(<<>>, command)
      BY <2>1 DEF IInv, SingleRequest, BeforeRequest
    <3>2. Append(<<>>, command) = <<command>>
      OBVIOUS
    <3> QED
      BY <3>1, <3>2
  <2> HIDE DEF q
  <2>6. /\ daemon' \in Daemons /\ daemon'.queue = q /\ daemon'.outbox = daemon.outbox
        /\ daemon'.loading = daemon.loading /\ daemon'.carried_out = daemon.carried_out
    <3>1. daemon' = [daemon EXCEPT !.queue = q]
      BY <1>1 DEF q
    <3> QED
      BY <2>2, <2>3, <3>1 DEF Daemons
  <2>7. InFlight' = InFlight /\ NoRefusal' = NoRefusal
    BY <1>1, <2>1, <2>6 DEF InFlight, NoRefusal
  <2>8. TypeOK'
    BY <1>1, <2>1, <2>6 DEF IInv, TypeOK, Daemons
  <2>9. SingleRequest'
    BY <1>1, <2>1, <2>5, <2>6, <2>7 DEF IInv, SingleRequest, BeforeRequest
  <2>10. Truthful' /\ StatusRequests' /\ StatusShowsItsAnswer'
    BY <1>1, <2>1, <2>4, <2>6, <2>7 DEF IInv, Truthful, StatusRequests, StatusShowsItsAnswer
  <2>11. Returns' /\ SuccessMeansDone'
    BY <1>1, <2>1, <2>6 DEF IInv, Returns, SuccessMeansDone
  <2> QED
    BY <2>8, <2>9, <2>10, <2>11 DEF IInv
<1>2. CASE /\ Decide("none") /\ torn' = TRUE /\ answer' = "none"
           /\ UNCHANGED daemon
  <2>1. pc = "send" /\ UNCHANGED <<command, staged, inbox>>
    BY DEF Send
  <2>2. "none" \in AnyReply /\ "none" \notin Fulfilled /\ "none" \notin Refusals
    BY DEF AnyReply, Fulfilled, Refusals
  <2>3. Decided("none")
    BY <1>2, <2>1, <2>2, DecideIsRight
  <2>4. inbox' \in Seq(Units) /\ FramesIn(inbox') \subseteq FramesIn(inbox)
    BY <2>1 DEF IInv, TypeOK
  <2> QED
    BY <1>2, <2>1, <2>2, <2>3, <2>4, DecisionKeepsIInv
<1> QED
  BY <1>1, <1>2 DEF Send

\* A frame, or the rest of one, is taken from the inbox.
LEMMA ReceiveKeepsIInv == IInv /\ Receive => IInv'
<1> SUFFICES ASSUME IInv, Receive PROVE IInv'
  OBVIOUS
<1>1. /\ pc = "await" /\ inbox # <<>> /\ inbox \in Seq(Units)
      /\ Decide(answer') /\ UNCHANGED <<command, torn, staged, daemon>>
      /\ torn \in BOOLEAN
  BY DEF IInv, TypeOK, Receive
<1> DEFINE f == Head(inbox).frame
<1>2. f \in InFlight /\ f \in Frames
  BY <1>1, FramesInTail DEF InFlight, Units
<1>3. Tail(inbox) \in Seq(Units) /\ FramesIn(Tail(inbox)) \subseteq FramesIn(inbox)
  BY <1>1, FramesInTail
<1>4. CASE /\ Len(inbox) > 1 /\ Head(inbox).part = 1
           /\ answer' = ReplyIn(f) /\ inbox' = Tail(Tail(inbox))
  <2>1. Tail(inbox) # <<>>
    <3>1. Len(Tail(inbox)) = Len(inbox) - 1 /\ Len(inbox) \in Nat
      BY <1>1, HeadTailProperties, LenProperties
    <3>2. Len(Tail(inbox)) > 0
      BY <1>4, <3>1
    <3>3. ~(Len(<<>>) > 0)
      OBVIOUS
    <3> QED
      BY <3>2, <3>3
  <2>2. inbox' \in Seq(Units) /\ FramesIn(inbox') \subseteq FramesIn(inbox)
    BY <1>3, <1>4, <2>1, FramesInTail
  <2> DEFINE r == ReplyIn(f)
  <2>3. /\ f.kind \in Fulfilled => f.to \in daemon.carried_out
        /\ f.kind \in IF f.to = "load" THEN LoadReplies ELSE Replies
        /\ f.to = "load" <=> command = "load"
    BY <1>2 DEF IInv, Truthful
  <2>4. \/ r = f.kind /\ (f.to = request \/ f.kind = "error")
        \/ r = "other"
    BY DEF ReplyIn
  <2>5. r \in AnyReply
    BY <2>3, <2>4 DEF AnyReply, Replies, LoadReplies
  <2>6. r \in Fulfilled => request \in daemon.carried_out
    BY <2>3, <2>4 DEF Fulfilled
  <2>7. command = "load" => r \in LoadReplies \cup {"none"}
    BY <2>3, <2>4 DEF LoadReplies
  <2>8. r = "ok" => f.to = request
    BY <2>4
  <2>9. r \in Refusals => ~NoRefusal
    BY <1>2, <2>4 DEF NoRefusal, Refusals
  <2> HIDE DEF r
  <2>10. answer' = r /\ Decide(r)
    BY <1>1, <1>4 DEF r
  <2>11. Decided(r)
    BY <1>1, <2>5, <2>6, <2>7, <2>8, <2>10, DecideIsRight
  <2> QED
    BY <1>1, <2>2, <2>5, <2>9, <2>10, <2>11, DecisionKeepsIInv
<1>5. CASE answer' \in {"none", "other"} /\ inbox' = Tail(inbox)
  <2>1. PICK r \in {"none", "other"} : answer' = r
    BY <1>5
  <2>2. /\ r \in AnyReply /\ r \notin Fulfilled /\ r \notin Refusals /\ r # "ok"
        /\ r \in LoadReplies \cup {"none"}
    BY <2>1 DEF AnyReply, Fulfilled, Refusals, LoadReplies
  <2>3. Decide(r)
    BY <1>1, <2>1
  <2>4. Decided(r)
    BY <1>1, <2>2, <2>3, DecideIsRight
  <2> QED
    BY <1>1, <1>3, <1>5, <2>1, <2>2, <2>4, DecisionKeepsIInv
<1> QED
  BY <1>4, <1>5 DEF Receive

\* The budget is spent or the daemon is gone.
LEMMA ReceiveFailsKeepsIInv == IInv /\ ReceiveFails => IInv'
<1> SUFFICES ASSUME IInv, ReceiveFails PROVE IInv'
  OBVIOUS
<1>1. /\ pc = "await" /\ answer' = "none" /\ inbox' = <<>> /\ Decide("none")
      /\ UNCHANGED <<command, torn, staged, daemon>> /\ torn \in BOOLEAN
  BY DEF IInv, TypeOK, ReceiveFails
<1>2. "none" \in AnyReply /\ "none" \notin Fulfilled /\ "none" \notin Refusals
  BY DEF AnyReply, Fulfilled, Refusals
<1>3. inbox' \in Seq(Units) /\ FramesIn(inbox') \subseteq FramesIn(inbox)
  BY <1>1 DEF FramesIn
<1>4. Decided("none")
  BY <1>1, <1>2, DecideIsRight
<1> QED
  BY <1>1, <1>2, <1>3, <1>4, DecisionKeepsIInv

\* The size is staged, or it cannot be.
LEMMA StageKeepsIInv == IInv /\ Stage => IInv'
<1> SUFFICES ASSUME IInv, Stage PROVE IInv'
  OBVIOUS
<1>1. /\ UNCHANGED <<command, request, torn, result, shown, answer, inbox, daemon>>
      /\ pc = "stage" /\ pc' = "done" /\ exit' \in {"0", "1"} /\ staged' \in BOOLEAN
      /\ exit' = "0" => staged'
      /\ command = "cache_size" /\ answer = "none"
  BY DEF Stage, Return, IInv, TypeOK, Returns
<1>2. InFlight' = InFlight /\ NoRefusal' = NoRefusal
  BY <1>1 DEF InFlight, NoRefusal
<1>3. TypeOK'
  BY <1>1 DEF IInv, TypeOK
<1>4. Truthful' /\ StatusRequests' /\ StatusShowsItsAnswer'
  BY <1>1, <1>2 DEF IInv, Truthful, StatusRequests, StatusShowsItsAnswer
<1>5. SingleRequest'
  BY <1>1, <1>2 DEF IInv, SingleRequest, BeforeRequest
<1>6. Returns' /\ SuccessMeansDone'
  BY <1>1 DEF Returns, SuccessMeansDone
<1> QED
  BY <1>3, <1>4, <1>5, <1>6 DEF IInv

-----------------------------------------------------------------------------
(* The steps of the daemon. *)

\* The daemon d, which has taken a request up, answers it with the frame f.
LEMMA AnswerKeepsIInv ==
  ASSUME IInv, pc # "done", UNCHANGED <<client, inbox>>,
         NEW d \in Daemons, NEW f \in Frames, daemon' = Post(d, f.to, f.kind),
         d.outbox = daemon.outbox,
         d.carried_out \in {daemon.carried_out, daemon.carried_out \cup {f.to}},
         f.kind \in Fulfilled => f.to \in d.carried_out,
         f.kind \in IF f.to = "load" THEN LoadReplies ELSE Replies,
         f.to = "load" <=> command = "load",
         command # "load" => d.loading = 0,
         command = "status" => d.queue \in Seq({"status", "update_status"}),
         command # "status" =>
           /\ daemon.queue # <<>> \/ daemon.loading > 0
           /\ f.to = command /\ d.queue = <<>>
           /\ d.loading > 0 \/ f.kind \in Refusals => d.carried_out = daemon.carried_out
           /\ d.loading > 0 => f.kind \notin Refusals
  PROVE  IInv'
<1>1. /\ daemon' \in Daemons /\ FramesIn(daemon'.outbox) = FramesIn(d.outbox) \cup {f}
      /\ daemon'.queue = d.queue /\ daemon'.loading = d.loading
      /\ daemon'.carried_out = d.carried_out
  BY PostAddsFrame
<1>2. UNCHANGED <<command, pc, request, torn, result, shown, answer, staged, exit, inbox>>
  BY DEF client
<1>3. InFlight' = InFlight \cup {f}
  BY <1>1, <1>2 DEF InFlight
<1>4. TypeOK'
  BY <1>1, <1>2 DEF IInv, TypeOK, Daemons
<1>5. Truthful'
  <2> SUFFICES ASSUME NEW g \in InFlight'
               PROVE  /\ g.kind \in Fulfilled => g.to \in daemon'.carried_out
                      /\ g.kind \in IF g.to = "load" THEN LoadReplies ELSE Replies
                      /\ g.to = "load" <=> command = "load"
    BY <1>2 DEF Truthful
  <2>1. CASE g = f
    BY <1>1, <2>1
  <2>2. CASE g \in InFlight
    BY <1>1, <2>2 DEF IInv, Truthful
  <2> QED
    BY <1>3, <2>1, <2>2
<1>6. SingleRequest'
  <2> SUFFICES ASSUME command # "status" PROVE SingleRequest'
    BY <1>2 DEF SingleRequest
  <2>1. /\ request = command /\ daemon.carried_out = {} /\ NoRefusal
        /\ pc \notin BeforeRequest
    BY DEF IInv, SingleRequest
  <2>2. NoRefusal' \/ f.kind \in Refusals
    BY <1>2, <1>3, <2>1 DEF NoRefusal
  <2> QED
    BY <1>1, <1>2, <2>1, <2>2 DEF SingleRequest
<1>7. StatusRequests'
  <2>1. daemon.carried_out \subseteq daemon'.carried_out
    BY <1>1
  <2> QED
    BY <1>1, <1>2, <2>1 DEF IInv, StatusRequests
<1>8. Returns' /\ SuccessMeansDone' /\ StatusShowsItsAnswer'
  BY <1>2 DEF IInv, Returns, SuccessMeansDone, StatusShowsItsAnswer
<1> QED
  BY <1>4, <1>5, <1>6, <1>7, <1>8 DEF IInv

\* The daemon takes the next request up: it begins a load, or answers.
LEMMA HandleKeepsIInv == IInv /\ Handle => IInv'
<1> SUFFICES ASSUME IInv, Handle PROVE IInv'
  OBVIOUS
<1> DEFINE r == Head(daemon.queue)
           d == [daemon EXCEPT !.queue = Tail(daemon.queue)]
<1>1. /\ pc # "done" /\ daemon.queue # <<>> /\ daemon.loading = 0
      /\ UNCHANGED <<client, inbox>>
      /\ IF r = "load" THEN daemon' = [d EXCEPT !.loading = 1] ELSE daemon' \in Answers(d, r)
  BY DEF Handle
<1>2. daemon \in Daemons
  BY DEF IInv, TypeOK, Daemons
<1>3. r \in Requests /\ Tail(daemon.queue) \in Seq(Requests)
  BY <1>1, <1>2, HeadTailProperties DEF Daemons
<1>4. /\ d \in Daemons /\ d.outbox = daemon.outbox /\ d.loading = daemon.loading
      /\ d.carried_out = daemon.carried_out /\ d.queue = Tail(daemon.queue)
  BY <1>2, <1>3 DEF Daemons
<1>5. command # "status" => r = command /\ Tail(daemon.queue) = <<>>
  <2>1. command # "status" => daemon.queue = <<command>>
    BY <1>1 DEF IInv, SingleRequest
  <2>2. Head(<<command>>) = command /\ Tail(<<command>>) = <<>>
    OBVIOUS
  <2> QED
    BY <2>1, <2>2
<1>6. command = "status" => /\ r \in {"status", "update_status"}
                            /\ Tail(daemon.queue) \in Seq({"status", "update_status"})
  BY <1>1, HeadTailProperties DEF IInv, StatusRequests
<1>7. r = "load" <=> command = "load"
  BY <1>5, <1>6
<1> HIDE DEF r, d
<1>8. CASE r = "load"
  <2>1. command = "load" /\ daemon' = [d EXCEPT !.loading = 1]
    BY <1>1, <1>7, <1>8
  <2>2. 1 \in 0..(MaxProgress + 1)
    BY RequestsAssumption DEF RequestsAssumption
  <2>3. /\ daemon' \in Daemons /\ daemon'.outbox = daemon.outbox /\ daemon'.loading = 1
        /\ daemon'.carried_out = daemon.carried_out /\ daemon'.queue = <<>>
    BY <1>4, <1>5, <2>1, <2>2 DEF Daemons
  <2>4. UNCHANGED <<command, pc, request, torn, result, shown, answer, staged, exit, inbox>>
    BY <1>1 DEF client
  <2>5. InFlight' = InFlight /\ NoRefusal' = NoRefusal
    BY <2>3, <2>4 DEF InFlight, NoRefusal
  <2>6. TypeOK'
    BY <2>3, <2>4 DEF IInv, TypeOK, Daemons
  <2>7. SingleRequest'
    BY <1>1, <2>1, <2>3, <2>4, <2>5 DEF IInv, SingleRequest
  <2>8. Truthful' /\ StatusRequests' /\ StatusShowsItsAnswer'
    BY <2>1, <2>3, <2>4, <2>5 DEF IInv, Truthful, StatusRequests, StatusShowsItsAnswer
  <2>9. Returns' /\ SuccessMeansDone'
    BY <1>1, <2>3, <2>4 DEF IInv, Returns, SuccessMeansDone
  <2> QED
    BY <2>6, <2>7, <2>8, <2>9 DEF IInv
<1>9. CASE r # "load"
  <2>1. PICK e \in {d, CarryOut(d, r)}, kind \in Replies :
          /\ daemon' = Post(e, r, kind)
          /\ kind = "ok" => e = CarryOut(d, r)
          /\ kind \in Refusals => e = d
    BY <1>1, <1>9 DEF Answers, Replies, Refusals
  <2> DEFINE f == [to |-> r, kind |-> kind]
  <2>2. f \in Frames /\ f.to = r /\ f.kind = kind
    BY <1>3 DEF Frames
  <2>3. /\ CarryOut(d, r) \in Daemons /\ CarryOut(d, r).outbox = d.outbox
        /\ CarryOut(d, r).loading = d.loading /\ CarryOut(d, r).queue = d.queue
        /\ CarryOut(d, r).carried_out = d.carried_out \cup {r}
    BY <1>3, <1>4 DEF CarryOut, Daemons
  <2>4. /\ e \in Daemons /\ e.outbox = daemon.outbox /\ e.loading = 0
        /\ e.queue = Tail(daemon.queue)
        /\ e.carried_out \in {daemon.carried_out, daemon.carried_out \cup {r}}
        /\ kind = "ok" => r \in e.carried_out
        /\ kind \in Refusals => e.carried_out = daemon.carried_out
    BY <1>1, <1>4, <2>1, <2>3
  <2>5. kind \in Fulfilled => kind = "ok"
    BY DEF Fulfilled, Replies
  <2>6. /\ ~(e.loading > 0)
        /\ kind \in IF r = "load" THEN LoadReplies ELSE Replies
        /\ kind \in Fulfilled => r \in e.carried_out
        /\ command = "status" => e.queue \in Seq({"status", "update_status"})
        /\ command # "status" => r = command /\ e.queue = <<>>
    BY <1>5, <1>6, <1>9, <2>4, <2>5
  <2>7. daemon' = Post(e, f.to, f.kind)
    BY <2>1, <2>2
  <2> HIDE DEF f
  <2> QED
    BY <1>1, <1>7, <2>2, <2>4, <2>6, <2>7, AnswerKeepsIInv
<1> QED
  BY <1>8, <1>9

\* A load goes on, or ends.
LEMMA LoadKeepsIInv == IInv /\ Load => IInv'
<1> SUFFICES ASSUME IInv, Load PROVE IInv'
  OBVIOUS
<1>1. pc # "done" /\ daemon.loading > 0 /\ UNCHANGED <<client, inbox>>
  BY DEF Load
<1>2. daemon \in Daemons
  BY DEF IInv, TypeOK, Daemons
<1>3. daemon.loading \in 0..(MaxProgress + 1) /\ MaxProgress \in Nat
  BY <1>2, RequestsAssumption DEF Daemons, RequestsAssumption
<1>4. command = "load"
  BY <1>1, <1>3 DEF IInv, StatusRequests
<1>5. daemon.queue = <<>>
  BY <1>1, <1>3, <1>4 DEF IInv, SingleRequest
<1>6. "load" \in Requests
  BY DEF Requests, Commands
<1> DEFINE Frame(kind) == [to |-> "load", kind |-> kind]
<1>7. \A kind \in LoadReplies : /\ Frame(kind) \in Frames
                                /\ Frame(kind).to = "load" /\ Frame(kind).kind = kind
  BY <1>6 DEF Frames
<1> HIDE DEF Frame
<1>8. ASSUME daemon.loading <= MaxProgress, NEW kind \in {"progress", "other"},
             daemon' = Post([daemon EXCEPT !.loading = daemon.loading + 1], "load", kind)
      PROVE  IInv'
  <2> DEFINE d == [daemon EXCEPT !.loading = daemon.loading + 1]
  <2>1. daemon.loading + 1 \in 0..(MaxProgress + 1) /\ daemon.loading + 1 > 0
    BY <1>3, <1>8
  <2>2. /\ d \in Daemons /\ d.outbox = daemon.outbox /\ d.queue = <<>>
        /\ d.carried_out = daemon.carried_out /\ d.loading = daemon.loading + 1
    BY <1>2, <1>5, <2>1 DEF Daemons
  <2>3. kind \in LoadReplies /\ kind \notin Fulfilled /\ kind \notin Refusals
    BY DEF LoadReplies, Fulfilled, Refusals
  <2>4. daemon' = Post(d, Frame(kind).to, Frame(kind).kind)
    BY <1>7, <1>8, <2>3
  <2> HIDE DEF d
  <2> QED
    BY <1>1, <1>4, <1>7, <2>2, <2>3, <2>4, AnswerKeepsIInv
<1>9. ASSUME NEW kind \in {"loaded"},
             daemon' = Post(CarryOut([daemon EXCEPT !.loading = 0], "load"), "load", kind)
      PROVE  IInv'
  <2> DEFINE idle == [daemon EXCEPT !.loading = 0]
             d == CarryOut(idle, "load")
  <2>1. /\ d \in Daemons /\ d.outbox = daemon.outbox /\ d.queue = <<>>
        /\ d.carried_out = daemon.carried_out \cup {"load"} /\ d.loading = 0
    <3>1. /\ idle \in Daemons /\ idle.outbox = daemon.outbox /\ idle.queue = <<>>
          /\ idle.carried_out = daemon.carried_out /\ idle.loading = 0
      BY <1>2, <1>3, <1>5 DEF Daemons
    <3> HIDE DEF idle
    <3> QED
      BY <1>6, <3>1 DEF Daemons, CarryOut
  <2>2. kind \in LoadReplies /\ kind \notin Refusals
    BY DEF LoadReplies, Refusals
  <2>3. daemon' = Post(d, Frame(kind).to, Frame(kind).kind)
    BY <1>7, <1>9, <2>2
  <2> HIDE DEF d
  <2>4. "load" \in d.carried_out /\ ~(d.loading > 0)
    BY <2>1
  <2> QED
    BY <1>1, <1>4, <1>7, <2>1, <2>2, <2>3, <2>4, AnswerKeepsIInv
<1>10. ASSUME NEW kind \in {"partial", "failed", "error", "garbled"},
              daemon' = Post([daemon EXCEPT !.loading = 0], "load", kind)
       PROVE  IInv'
  <2> DEFINE d == [daemon EXCEPT !.loading = 0]
  <2>1. /\ d \in Daemons /\ d.outbox = daemon.outbox /\ d.queue = <<>>
        /\ d.carried_out = daemon.carried_out /\ d.loading = 0
    BY <1>2, <1>3, <1>5 DEF Daemons
  <2>2. kind \in LoadReplies /\ kind \notin Fulfilled
    BY DEF LoadReplies, Fulfilled
  <2>3. daemon' = Post(d, Frame(kind).to, Frame(kind).kind)
    BY <1>7, <1>10, <2>2
  <2> HIDE DEF d
  <2>4. ~(d.loading > 0)
    BY <2>1
  <2> QED
    BY <1>1, <1>4, <1>7, <2>1, <2>2, <2>3, <2>4, AnswerKeepsIInv
<1> QED
  BY <1>8, <1>9, <1>10 DEF Load

\* A unit passes from the daemon to the client.
LEMMA WriteKeepsIInv == IInv /\ Write => IInv'
<1> SUFFICES ASSUME IInv, Write PROVE IInv'
  OBVIOUS
<1>1. /\ pc # "done" /\ daemon.outbox # <<>> /\ inbox' = Append(inbox, Head(daemon.outbox))
      /\ daemon' = [daemon EXCEPT !.outbox = Tail(daemon.outbox)] /\ UNCHANGED client
  BY DEF Write
<1>2. daemon \in Daemons /\ inbox \in Seq(Units)
  BY DEF IInv, TypeOK, Daemons
<1>3. /\ Head(daemon.outbox) \in Units /\ Head(daemon.outbox).frame \in FramesIn(daemon.outbox)
      /\ Tail(daemon.outbox) \in Seq(Units)
      /\ FramesIn(Tail(daemon.outbox)) \subseteq FramesIn(daemon.outbox)
  BY <1>1, <1>2, FramesInTail DEF Daemons
<1>4. /\ inbox' \in Seq(Units)
      /\ FramesIn(inbox') = FramesIn(inbox) \cup {Head(daemon.outbox).frame}
  BY <1>1, <1>2, <1>3, FramesInAppend
<1>5. /\ daemon' \in Daemons /\ daemon'.outbox = Tail(daemon.outbox)
      /\ daemon'.queue = daemon.queue /\ daemon'.loading = daemon.loading
      /\ daemon'.carried_out = daemon.carried_out
  BY <1>1, <1>2, <1>3 DEF Daemons
<1>6. UNCHANGED <<command, pc, request, torn, result, shown, answer, staged, exit>>
  BY <1>1 DEF client
<1>7. InFlight' \subseteq InFlight
  BY <1>3, <1>4, <1>5 DEF InFlight
<1>8. NoRefusal => NoRefusal'
  BY <1>6, <1>7 DEF NoRefusal
<1>9. TypeOK'
  BY <1>4, <1>5, <1>6 DEF IInv, TypeOK, Daemons
<1>10. Truthful' /\ SingleRequest' /\ StatusRequests'
  BY <1>5, <1>6, <1>7, <1>8 DEF IInv, Truthful, SingleRequest, StatusRequests
<1>11. Returns' /\ SuccessMeansDone' /\ StatusShowsItsAnswer'
  BY <1>5, <1>6 DEF IInv, Returns, SuccessMeansDone, StatusShowsItsAnswer
<1> QED
  BY <1>9, <1>10, <1>11 DEF IInv

\* The daemon dies; what it has carried out stays carried out.
LEMMA DieKeepsIInv == IInv /\ Die => IInv'
<1> SUFFICES ASSUME IInv, Die PROVE IInv'
  OBVIOUS
<1>1. /\ daemon' = [daemon EXCEPT !.up = FALSE, !.queue = <<>>, !.outbox = <<>>, !.loading = 0]
      /\ UNCHANGED <<client, inbox>>
  BY DEF Die
<1>2. daemon \in Daemons /\ 0 \in 0..(MaxProgress + 1)
  BY RequestsAssumption DEF IInv, TypeOK, Daemons, RequestsAssumption
<1>3. /\ daemon' \in Daemons /\ daemon'.outbox = <<>> /\ daemon'.queue = <<>>
      /\ daemon'.loading = 0 /\ daemon'.carried_out = daemon.carried_out
  <2>1. daemon' = [up |-> FALSE, queue |-> <<>>, outbox |-> <<>>, loading |-> 0,
                   carried_out |-> daemon.carried_out]
    BY <1>1, <1>2 DEF Daemons
  <2>2. <<>> \in Seq(Requests) /\ <<>> \in Seq(Units) /\ daemon.carried_out \in SUBSET Requests
    BY <1>2 DEF Daemons
  <2> QED
    BY <1>2, <2>1, <2>2 DEF Daemons
<1>4. UNCHANGED <<command, pc, request, torn, result, shown, answer, staged, exit, inbox>>
  BY <1>1 DEF client
<1>5. InFlight' \subseteq InFlight
  BY <1>3, <1>4 DEF InFlight, FramesIn
<1>6. NoRefusal => NoRefusal'
  BY <1>4, <1>5 DEF NoRefusal
<1>7. TypeOK'
  BY <1>3, <1>4 DEF IInv, TypeOK, Daemons
<1>8. Truthful' /\ SingleRequest'
  BY <1>3, <1>4, <1>5, <1>6 DEF IInv, Truthful, SingleRequest
<1>9. StatusRequests'
  BY <1>3, <1>4 DEF IInv, StatusRequests
<1>10. Returns' /\ SuccessMeansDone' /\ StatusShowsItsAnswer'
  BY <1>3, <1>4 DEF IInv, Returns, SuccessMeansDone, StatusShowsItsAnswer
<1> QED
  BY <1>7, <1>8, <1>9, <1>10 DEF IInv

\* Every step keeps the invariant.
LEMMA NextIInv == IInv /\ [Next]_vars => IInv'
<1> SUFFICES ASSUME IInv, [Next]_vars PROVE IInv'
  OBVIOUS
<1>1. CASE UNCHANGED vars
  <2> USE <1>1 DEF vars, client
  <2>1. TypeOK'
    BY DEF IInv, TypeOK
  <2>2. Truthful'
    BY DEF IInv, Truthful, InFlight
  <2>3. SingleRequest'
    <3>1. NoRefusal' <=> NoRefusal
      BY DEF NoRefusal, InFlight
    <3> QED
      BY <3>1 DEF IInv, SingleRequest
  <2>4. StatusRequests' /\ Returns'
    BY DEF IInv, StatusRequests, Returns
  <2>5. SuccessMeansDone' /\ StatusShowsItsAnswer'
    BY DEF IInv, SuccessMeansDone, StatusShowsItsAnswer
  <2> QED
    BY <2>1, <2>2, <2>3, <2>4, <2>5 DEF IInv
<1>2. CASE Next
  BY <1>1, <1>2, EarlyStepsKeepIInv, HelpKeepsIInv, SendKeepsIInv, ReceiveKeepsIInv,
     ReceiveFailsKeepsIInv, StageKeepsIInv, HandleKeepsIInv, LoadKeepsIInv, WriteKeepsIInv,
     DieKeepsIInv DEF Next, Done
<1> QED
  BY <1>1, <1>2

\* The invariant holds in every behaviour.
LEMMA AlwaysIInv == Spec => []IInv
  BY InitIInv, NextIInv, PTL DEF Spec

-----------------------------------------------------------------------------
(* The results. *)

\* Outside the commands that do not look at the answer, exit status 0 means that the
\* daemon has carried the request out and said so, that it has answered a load or a
\* collection with "in part", that the size is staged, or that help was asked for.
THEOREM ExitZeroIsTrue == Spec => []SuccessMeansDone
<1>1. IInv => SuccessMeansDone
  BY DEF IInv
<1> QED
  BY <1>1, AlwaysIInv, PTL

\* A command that returns on a refusal leaves nothing behind, in the daemon or in
\* the pending configuration.
THEOREM RefusalIsFinal == Spec => []RefusalChangesNothing
<1>1. IInv => RefusalChangesNothing
  BY DEF IInv, RefusalChangesNothing, SingleRequest, Returns, NoRefusal, Refusals
<1> QED
  BY <1>1, AlwaysIInv, PTL

\* A late answer to the health request is never shown as the update state.
THEOREM StatusIsNotConfused == Spec => []StatusShowsItsAnswer
<1>1. IInv => StatusShowsItsAnswer
  BY DEF IInv
<1> QED
  BY <1>1, AlwaysIInv, PTL
=============================================================================

------------------------ MODULE ServerResourcesProofs ------------------------
(***************************************************************************)
(* For every set of peers, every choice of transports and every failure of *)
(* _startup: what the orders of creation, stopping and destruction in      *)
(* src/offsd/main.c protect.                                               *)
(*                                                                         *)
(* The main thread works through a list.  Each operation has a rank in     *)
(* each of the three programs (start, unwinding, shutdown), the lists are  *)
(* sorted by it, and the invariant relates the state of a component to its *)
(* place: what is live is still ahead of a teardown, what is freed is      *)
(* behind it.  The lemmas come in this order: that the lists of the code   *)
(* are sorted, one step through a sorted list, the actions one by one, and *)
(* that the invariant gives the properties.                                *)
(***************************************************************************)
EXTENDS ServerResources, SequenceTheorems, TLAPS

\* An operation of the main thread: what to do, and to which component.
VerbSet == {"create", "listen", "start", "load", "stop", "save", "destroy"}
Things == Components \cup Checks \cup {"mdns", "book", "connections", "peers"}
Ops == VerbSet \X Things

\* The place of a creation in _startup.
CreateRank(c) ==
  CASE c = "dirs" -> 1 [] c = "pool" -> 2 [] c = "timer" -> 3 [] c = "settings" -> 4
    [] c = "authority" -> 5 [] c = "block_cache" -> 6 [] c = "ofd_cache" -> 7
    [] c = "tuple_cache" -> 8 [] c = "http" -> 9 [] c = "certs" -> 10
    [] c = "network" -> 11 [] c = "ws" -> 12 [] c = "wt" -> 13 [] c = "h3" -> 14
    [] c = "unix" -> 15 [] OTHER -> 16
ListenRank(o) ==
  CASE o = <<"listen", "http">> -> 17 [] o = <<"start", "mdns">> -> 18
    [] o = <<"listen", "ws">> -> 19 [] o = <<"listen", "wt">> -> 20
    [] o = <<"listen", "h3">> -> 21 [] o = <<"listen", "unix">> -> 22
    [] o = <<"load", "peers">> -> 23 [] o = <<"start", "book">> -> 24 [] OTHER -> 25
StartRank(o) == IF o[1] = "create" THEN CreateRank(o[2]) ELSE ListenRank(o)

\* The place of an operation in _shutdown.
HaltRank(c) ==
  CASE c = "unix" -> 1 [] c = "ws" -> 2 [] c = "wt" -> 3 [] c = "h3" -> 4
    [] c = "mdns" -> 5 [] c = "book" -> 6 [] c = "connections" -> 8
    [] c = "http" -> 9 [] OTHER -> 10
QuiesceRank(o) == IF o[1] = "save" THEN 7 ELSE HaltRank(o[2])
DestroyRank(c) ==
  CASE c = "unix" -> 11 [] c = "ws" -> 12 [] c = "wt" -> 13 [] c = "h3" -> 14
    [] c = "http" -> 15 [] c = "network" -> 16 [] c = "tuple_cache" -> 17
    [] c = "ofd_cache" -> 18 [] c = "block_cache" -> 19 [] c = "update_actor" -> 20
    [] c = "timer" -> 21 [] c = "pool" -> 22 [] OTHER -> 23
StopRank(o) == IF o[1] = "destroy" THEN DestroyRank(o[2]) ELSE QuiesceRank(o)

\* One order all the unwindings of _startup agree with.
UndoRank(c) ==
  CASE c = "wt" -> 1 [] c = "h3" -> 2 [] c = "ws" -> 3 [] c = "network" -> 5
    [] c = "authority" -> 6 [] c = "http" -> 7 [] c = "tuple_cache" -> 8
    [] c = "ofd_cache" -> 9 [] c = "block_cache" -> 10 [] c = "timer" -> 11
    [] c = "pool" -> 13 [] OTHER -> 0
UnwindRank(o) ==
  IF o[1] = "destroy" THEN UndoRank(o[2]) ELSE IF o[1] = "save" THEN 4 ELSE 12

Rank(m, o) ==
  CASE m = "starting" -> StartRank(o) [] m = "stopping" -> StopRank(o) [] OTHER -> UnwindRank(o)

Verbs(m) == IF m = "starting" THEN {"create", "listen", "start", "load"}
            ELSE {"stop", "save", "destroy"}

Sorted(m, t) == \A i, j \in 1..Len(t) : i < j => Rank(m, t[i]) < Rank(m, t[j])
Elements(t) == {t[i] : i \in 1..Len(t)}
Rest == Elements(todo)

\* The main thread is past the place of o.
Past(o) == \A r \in Rest : Rank(mode, o) < Rank(mode, r)

Busy == {"starting", "stopping", "unwinding"}

\* The list is one the mode can have.
Program ==
  /\ todo \in Seq(Ops)
  /\ mode \in Busy => Sorted(mode, todo) /\ \A r \in Rest : r[1] \in Verbs(mode)
  /\ mode \notin Busy => todo = <<>>

\* While the server starts nothing is freed, and what is live was created.
Starting ==
  mode = "starting" =>
    /\ \A c \in Components : ptr[c] # "freed" /\ (ptr[c] = "live" => Past(<<"create", c>>))
    /\ workers \/ <<"create", "pool">> \in Rest
    /\ listening # {} \/ mdns \/ book = "open" => Past(<<"create", "update_actor">>)
    /\ book = "open" => Past(<<"start", "book">>)
    /\ IF <<"load", "peers">> \in Rest THEN mem = {} /\ intended = disk ELSE mem = intended \ unread

Serving ==
  mode = "serving" =>
    /\ workers /\ mem = intended \ unread
    /\ \A c \in Components : ptr[c] # "freed"

\* While a failed start is unwound: the authority may be left behind.
Unwinding ==
  mode = "unwinding" =>
    /\ \A c \in Components :
         /\ ptr[c] = "live" => c = "authority" \/ <<"destroy", c>> \in Rest
         /\ ptr[c] = "freed" => Past(<<"destroy", c>>)
    /\ ~mdns /\ book # "open"

\* In _shutdown, what runs or is live has its stop or destruction ahead.
Stopping ==
  mode = "stopping" =>
    /\ \A c \in Components :
         /\ ptr[c] = "live" => <<"destroy", c>> \in Rest
         /\ ptr[c] = "freed" => Past(<<"destroy", c>>)
    /\ \A c \in listening : <<"stop", c>> \in Rest
    /\ IF workers THEN <<"stop", "pool">> \in Rest ELSE Past(<<"stop", "pool">>)
    /\ mdns => <<"stop", "mdns">> \in Rest
    /\ book = "open" => {<<"stop", "book">>, <<"save", "peers">>} \subseteq Rest
    /\ IF <<"save", "peers">> \in Rest THEN mem = intended \ unread ELSE disk = intended \ unread

\* Between two cycles.
Ended ==
  /\ mode = "stopped" => disk = intended \ unread /\ \A c \in Components : ptr[c] # "live"
  /\ mode = "failed" => \A c \in Components : ptr[c] = "live" => c = "authority"
  /\ mode = "dead" => \A c \in Components : ptr[c] = "null"
  /\ mode \in {"stopped", "failed", "dead"} => book # "open"

IInv == TypeOK /\ Program /\ Starting /\ Serving /\ Unwinding /\ Stopping /\ Ended

-----------------------------------------------------------------------------

\* One list of operations after another.
LEMMA Joined ==
  ASSUME NEW m, NEW s \in Seq(Ops), NEW t \in Seq(Ops), Sorted(m, s), Sorted(m, t),
         \A a \in Elements(s), b \in Elements(t) : Rank(m, a) < Rank(m, b)
  PROVE  /\ s \o t \in Seq(Ops) /\ Sorted(m, s \o t)
         /\ Elements(s \o t) = Elements(s) \cup Elements(t)
<1> DEFINE u == s \o t
<1>1. /\ u \in Seq(Ops) /\ Len(u) = Len(s) + Len(t)
      /\ Len(s) \in Nat /\ Len(t) \in Nat
      /\ \A i \in 1..Len(s) : u[i] = s[i]
      /\ \A i \in 1..Len(t) : u[Len(s) + i] = t[i]
  BY ConcatProperties
<1> HIDE DEF u
<1>2. ASSUME NEW i \in 1..Len(u)
      PROVE  \/ i \in 1..Len(s) /\ u[i] = s[i]
             \/ \E k \in 1..Len(t) : i = Len(s) + k /\ u[i] = t[k]
  <2>1. CASE i <= Len(s)
    BY <1>1, <2>1
  <2>2. CASE i > Len(s)
    <3>1. i - Len(s) \in 1..Len(t) /\ i = Len(s) + (i - Len(s))
      BY <1>1, <2>2
    <3> QED
      BY <1>1, <3>1
  <2> QED
    BY <1>1, <2>1, <2>2
<1>3. Elements(u) = Elements(s) \cup Elements(t)
  <2>1. ASSUME NEW i \in 1..Len(u) PROVE u[i] \in Elements(s) \cup Elements(t)
    BY <1>2 DEF Elements
  <2>2. ASSUME NEW i \in 1..Len(s) PROVE s[i] \in Elements(u)
    BY <1>1 DEF Elements
  <2>3. ASSUME NEW i \in 1..Len(t) PROVE t[i] \in Elements(u)
    <3>1. Len(s) + i \in 1..Len(u)
      BY <1>1
    <3> QED
      BY <1>1, <3>1 DEF Elements
  <2> QED
    BY <2>1, <2>2, <2>3 DEF Elements
<1>4. ASSUME NEW i \in 1..Len(u), NEW j \in 1..Len(u), i < j
      PROVE  Rank(m, u[i]) < Rank(m, u[j])
  <2>1. CASE j \in 1..Len(s)
    <3>1. i \in 1..Len(s)
      BY <1>1, <1>4, <2>1
    <3>2. u[i] = s[i] /\ u[j] = s[j]
      BY <1>1, <2>1, <3>1
    <3> QED
      BY <1>4, <2>1, <3>1, <3>2 DEF Sorted
  <2>2. CASE i \in 1..Len(s) /\ j \notin 1..Len(s)
    <3>1. u[i] \in Elements(s)
      BY <1>1, <2>2 DEF Elements
    <3>2. u[j] \in Elements(t)
      BY <1>2, <2>2 DEF Elements
    <3> QED
      BY <3>1, <3>2
  <2>3. CASE i \notin 1..Len(s) /\ j \notin 1..Len(s)
    <3>1. PICK k \in 1..Len(t) : i = Len(s) + k /\ u[i] = t[k]
      BY <1>2, <2>3
    <3>2. PICK l \in 1..Len(t) : j = Len(s) + l /\ u[j] = t[l]
      BY <1>2, <2>3
    <3>3. k < l
      BY <1>1, <1>4, <3>1, <3>2
    <3> QED
      BY <3>1, <3>2, <3>3 DEF Sorted
  <2> QED
    BY <1>1, <1>4, <2>1, <2>2, <2>3
<1> QED
  BY <1>1, <1>3, <1>4 DEF u, Sorted

\* An operation applied to a list of components, in their order.
LEMMA AllSorted ==
  ASSUME NEW m, NEW op \in VerbSet, NEW cs \in Seq(Things),
         \A i, j \in 1..Len(cs) : i < j => Rank(m, <<op, cs[i]>>) < Rank(m, <<op, cs[j]>>)
  PROVE  /\ All(op, cs) \in Seq(Ops) /\ Sorted(m, All(op, cs))
         /\ Elements(All(op, cs)) = {<<op, c>> : c \in Elements(cs)}
<1>1. DOMAIN cs = 1..Len(cs) /\ Len(cs) \in Nat /\ \A i \in 1..Len(cs) : cs[i] \in Things
  OBVIOUS
<1>2. All(op, cs) = [i \in 1..Len(cs) |-> <<op, cs[i]>>]
  BY <1>1 DEF All
<1>3. \A i \in 1..Len(cs) : <<op, cs[i]>> \in Ops
  BY <1>1 DEF Ops
<1>4. All(op, cs) \in Seq(Ops) /\ Len(All(op, cs)) = Len(cs)
  BY <1>1, <1>2, <1>3
<1>5. \A i \in 1..Len(cs) : All(op, cs)[i] = <<op, cs[i]>>
  BY <1>2
<1>6. Sorted(m, All(op, cs))
  BY <1>4, <1>5 DEF Sorted
<1> QED
  BY <1>4, <1>5, <1>6 DEF Elements

\* A list whose ranks are consecutive.
LEMMA RankedSorted ==
  ASSUME NEW m, NEW t \in Seq(Ops), NEW k \in Nat,
         \A i \in 1..Len(t) : Rank(m, t[i]) = k + i
  PROVE  Sorted(m, t)
<1>1. ASSUME NEW i \in 1..Len(t), NEW j \in 1..Len(t), i < j
      PROVE  Rank(m, t[i]) < Rank(m, t[j])
  BY <1>1
<1> QED
  BY <1>1 DEF Sorted

\* The creations of _startup are in the order of their ranks.
LEMMA ElementsOfStartup ==
  /\ StartupOrder \in Seq(Ops) /\ Sorted("starting", StartupOrder)
  /\ Elements(StartupOrder) = {<<"create", c>> : c \in Components \cup Checks}
<1> DEFINE cs == <<"dirs", "pool", "timer", "settings", "authority", "block_cache",
                  "ofd_cache", "tuple_cache", "http", "certs", "network",
                  "ws", "wt", "h3", "unix", "update_actor">>
<1>1. cs \in Seq(Things) /\ Len(cs) = 16
  BY DEF Things, Components, Checks, Optional, Unchecked
<1>2. ASSUME NEW i \in 1..16 PROVE CreateRank(cs[i]) = i
  BY DEF CreateRank
<1>3. ASSUME NEW c PROVE Rank("starting", <<"create", c>>) = CreateRank(c)
  BY DEF Rank, StartRank
<1>4. Elements(cs) = Components \cup Checks
  BY DEF Elements, Components, Checks, Optional, Unchecked
<1>5. StartupOrder = All("create", cs) /\ "create" \in VerbSet
  BY DEF StartupOrder, VerbSet
<1> HIDE DEF cs
<1>6. ASSUME NEW i \in 1..Len(cs), NEW j \in 1..Len(cs), i < j
      PROVE  Rank("starting", <<"create", cs[i]>>) < Rank("starting", <<"create", cs[j]>>)
  <2>1. i \in 1..16 /\ j \in 1..16
    BY <1>1
  <2>2. Rank("starting", <<"create", cs[i]>>) = i
    BY <1>2, <1>3, <2>1
  <2>3. Rank("starting", <<"create", cs[j]>>) = j
    BY <1>2, <1>3, <2>1
  <2> QED
    BY <1>6, <2>1, <2>2, <2>3
<1>7. /\ All("create", cs) \in Seq(Ops) /\ Sorted("starting", All("create", cs))
      /\ Elements(All("create", cs)) = {<<"create", c>> : c \in Elements(cs)}
  BY <1>1, <1>5, <1>6, AllSorted
<1> QED
  BY <1>4, <1>5, <1>7

\* So are the steps of _start_listening.
LEMMA ElementsOfListen ==
  /\ ListenOrder \in Seq(Ops) /\ Sorted("starting", ListenOrder)
  /\ Elements(ListenOrder) =
       {<<"listen", c>> : c \in Optional} \cup {<<"start", "mdns">>, <<"load", "peers">>,
        <<"start", "book">>, <<"start", "connections">>}
<1>1. Len(ListenOrder) = 9 /\ ListenOrder \in Seq(Ops)
  BY DEF ListenOrder, Ops, VerbSet, Things, Components, Checks, Optional, Unchecked
<1>2. ASSUME NEW i \in 1..9
      PROVE  /\ ListenOrder[i][1] # "create"
             /\ ListenRank(ListenOrder[i]) = 16 + i
  <2>1. CASE i \in 1..3
    <3>1. ListenOrder[i] = CASE i = 1 -> <<"listen", "http">> [] i = 2 -> <<"start", "mdns">>
                             [] i = 3 -> <<"listen", "ws">>
      BY <2>1 DEF ListenOrder
    <3> QED
      BY <2>1, <3>1 DEF ListenRank
  <2>2. CASE i \in 4..6
    <3>1. ListenOrder[i] = CASE i = 4 -> <<"listen", "wt">> [] i = 5 -> <<"listen", "h3">>
                             [] i = 6 -> <<"listen", "unix">>
      BY <2>2 DEF ListenOrder
    <3> QED
      BY <2>2, <3>1 DEF ListenRank
  <2>3. CASE i \in 7..9
    <3>1. ListenOrder[i] = CASE i = 7 -> <<"load", "peers">> [] i = 8 -> <<"start", "book">>
                             [] i = 9 -> <<"start", "connections">>
      BY <2>3 DEF ListenOrder
    <3> QED
      BY <2>3, <3>1 DEF ListenRank
  <2> QED
    BY <2>1, <2>2, <2>3
<1>3. ASSUME NEW i \in 1..9 PROVE Rank("starting", ListenOrder[i]) = 16 + i
  BY <1>2 DEF Rank, StartRank
<1>4. Sorted("starting", ListenOrder)
  BY <1>1, <1>3, RankedSorted
<1>5. Elements(ListenOrder) =
       {<<"listen", c>> : c \in Optional} \cup {<<"start", "mdns">>, <<"load", "peers">>,
        <<"start", "book">>, <<"start", "connections">>}
  BY DEF Elements, ListenOrder, Optional
<1> QED
  BY <1>1, <1>4, <1>5

\* So are the steps of _shutdown that stop something or save the peers ...
LEMMA ElementsOfStop ==
  /\ StopOrder \in Seq(Ops) /\ Sorted("stopping", StopOrder)
  /\ Elements(StopOrder) =
       {<<"stop", c>> : c \in Optional \cup {"mdns", "book", "connections", "pool"}}
         \cup {<<"save", "peers">>}
<1>1. Len(StopOrder) = 10 /\ StopOrder \in Seq(Ops)
  BY DEF StopOrder, Ops, VerbSet, Things, Components, Checks, Optional, Unchecked
<1>2. ASSUME NEW i \in 1..10
      PROVE  StopOrder[i][1] # "destroy" /\ QuiesceRank(StopOrder[i]) = i
  <2>1. StopOrder[i][1] = IF i = 7 THEN "save" ELSE "stop"
    BY DEF StopOrder
  <2>2. i # 7 => HaltRank(StopOrder[i][2]) = i
    BY DEF StopOrder, HaltRank
  <2> QED
    BY <2>1, <2>2 DEF QuiesceRank
<1>3. ASSUME NEW i \in 1..10 PROVE Rank("stopping", StopOrder[i]) = i
  BY <1>2 DEF Rank, StopRank
<1>4. Sorted("stopping", StopOrder)
  <2>1. ASSUME NEW i \in 1..10, NEW j \in 1..10, i < j
        PROVE  Rank("stopping", StopOrder[i]) < Rank("stopping", StopOrder[j])
    BY <1>3, <2>1
  <2> QED
    BY <1>1, <2>1 DEF Sorted
<1>5. Elements(StopOrder) =
       {<<"stop", c>> : c \in Optional \cup {"mdns", "book", "connections", "pool"}}
         \cup {<<"save", "peers">>}
  BY DEF Elements, StopOrder, Optional
<1> QED
  BY <1>1, <1>4, <1>5

\* ... and those that destroy something.
LEMMA ElementsOfDestroy ==
  /\ DestroyOrder \in Seq(Ops) /\ Sorted("stopping", DestroyOrder)
  /\ Elements(DestroyOrder) = {<<"destroy", c>> : c \in Components}
<1> DEFINE cs == <<"unix", "ws", "wt", "h3", "http", "network", "tuple_cache",
                   "ofd_cache", "block_cache", "update_actor", "timer", "pool",
                   "authority">>
<1>1. cs \in Seq(Things) /\ Len(cs) = 13
  BY DEF Things, Components, Checks, Optional, Unchecked
<1>2. ASSUME NEW i \in 1..13 PROVE DestroyRank(cs[i]) = 10 + i
  BY DEF DestroyRank
<1>3. ASSUME NEW c PROVE Rank("stopping", <<"destroy", c>>) = DestroyRank(c)
  BY DEF Rank, StopRank
<1>4. Elements(cs) = Components
  BY DEF Elements, Components, Optional, Unchecked
<1>5. DestroyOrder = All("destroy", cs) /\ "destroy" \in VerbSet
  BY DEF DestroyOrder, VerbSet
<1> HIDE DEF cs
<1>6. ASSUME NEW i \in 1..Len(cs), NEW j \in 1..Len(cs), i < j
      PROVE  Rank("stopping", <<"destroy", cs[i]>>) < Rank("stopping", <<"destroy", cs[j]>>)
  <2>1. i \in 1..13 /\ j \in 1..13
    BY <1>1
  <2>2. Rank("stopping", <<"destroy", cs[i]>>) = 10 + i
    BY <1>2, <1>3, <2>1
  <2>3. Rank("stopping", <<"destroy", cs[j]>>) = 10 + j
    BY <1>2, <1>3, <2>1
  <2> QED
    BY <1>6, <2>1, <2>2, <2>3
<1>7. /\ All("destroy", cs) \in Seq(Ops) /\ Sorted("stopping", All("destroy", cs))
      /\ Elements(All("destroy", cs)) = {<<"destroy", c>> : c \in Elements(cs)}
  BY <1>1, <1>5, <1>6, AllSorted
<1> QED
  BY <1>4, <1>5, <1>7

\* The ranks of single operations.
LEMMA Ranks ==
  /\ \A c : /\ Rank("starting", <<"create", c>>) = CreateRank(c)
            /\ Rank("stopping", <<"destroy", c>>) = DestroyRank(c)
            /\ Rank("unwinding", <<"destroy", c>>) = UndoRank(c)
  /\ \A c : CreateRank(c) \in 1..16 /\ DestroyRank(c) \in 11..23 /\ UndoRank(c) \in 0..13
  /\ \A o : ListenRank(o) \in 17..25 /\ QuiesceRank(o) \in 1..10
  /\ Rank("unwinding", <<"stop", "pool">>) = 12
  /\ Rank("unwinding", <<"save", "peers">>) = 4
<1>1. \A c : /\ Rank("starting", <<"create", c>>) = CreateRank(c)
             /\ Rank("stopping", <<"destroy", c>>) = DestroyRank(c)
             /\ Rank("unwinding", <<"destroy", c>>) = UndoRank(c)
  BY DEF Rank, StartRank, StopRank, UnwindRank
<1>2. \A c : CreateRank(c) \in 1..16
  BY DEF CreateRank
<1>3. \A c : DestroyRank(c) \in 11..23
  BY DEF DestroyRank
<1>4. \A c : UndoRank(c) \in 0..13
  BY DEF UndoRank
<1>5. \A o : ListenRank(o) \in 17..25
  BY DEF ListenRank
<1>6. \A o : QuiesceRank(o) \in 1..10
  <2>1. \A c : HaltRank(c) \in 1..10
    BY DEF HaltRank
  <2> QED
    BY <2>1 DEF QuiesceRank
<1>7. Rank("unwinding", <<"stop", "pool">>) = 12 /\ Rank("unwinding", <<"save", "peers">>) = 4
  BY DEF Rank, UnwindRank
<1> QED
  BY <1>1, <1>2, <1>3, <1>4, <1>5, <1>6, <1>7

\* What _startup and _start_listening do, and what _shutdown does.
LEMMA StartOrdered ==
  /\ StartupOrder \o ListenOrder \in Seq(Ops)
  /\ Sorted("starting", StartupOrder \o ListenOrder)
  /\ Elements(StartupOrder \o ListenOrder) = Elements(StartupOrder) \cup Elements(ListenOrder)
<1>1. ASSUME NEW a \in Elements(StartupOrder), NEW b \in Elements(ListenOrder)
      PROVE  Rank("starting", a) < Rank("starting", b)
  <2>1. Rank("starting", a) \in 1..16
    BY ElementsOfStartup, Ranks
  <2>2. b[1] # "create"
    BY ElementsOfListen
  <2>3. Rank("starting", b) \in 17..25
    BY <2>2, Ranks DEF Rank, StartRank
  <2> QED
    BY <2>1, <2>3
<1> QED
  BY <1>1, ElementsOfStartup, ElementsOfListen, Joined

\* _shutdown quiesces first and destroys then.
LEMMA StopOrdered ==
  /\ StopOrder \o DestroyOrder \in Seq(Ops)
  /\ Sorted("stopping", StopOrder \o DestroyOrder)
  /\ Elements(StopOrder \o DestroyOrder) = Elements(StopOrder) \cup Elements(DestroyOrder)
<1>1. ASSUME NEW a \in Elements(StopOrder), NEW b \in Elements(DestroyOrder)
      PROVE  Rank("stopping", a) < Rank("stopping", b)
  <2>1. a[1] # "destroy"
    BY ElementsOfStop
  <2>2. Rank("stopping", a) \in 1..10
    BY <2>1, Ranks DEF Rank, StopRank
  <2>3. Rank("stopping", b) \in 11..23
    BY ElementsOfDestroy, Ranks
  <2> QED
    BY <2>2, <2>3
<1> QED
  BY <1>1, ElementsOfStop, ElementsOfDestroy, Joined

\* A list of destructions in front of an unwinding.
LEMMA DestroyFirst ==
  ASSUME NEW cs \in Seq(Things), NEW t \in Seq(Ops), Sorted("unwinding", t),
         \A i, j \in 1..Len(cs) : i < j => UndoRank(cs[i]) < UndoRank(cs[j]),
         \A c \in Elements(cs), b \in Elements(t) : UndoRank(c) < Rank("unwinding", b)
  PROVE  /\ All("destroy", cs) \o t \in Seq(Ops)
         /\ Sorted("unwinding", All("destroy", cs) \o t)
         /\ Elements(All("destroy", cs) \o t) =
              {<<"destroy", c>> : c \in Elements(cs)} \cup Elements(t)
<1>1. "destroy" \in VerbSet
  BY DEF VerbSet
<1>2. \A i, j \in 1..Len(cs) : i < j =>
        Rank("unwinding", <<"destroy", cs[i]>>) < Rank("unwinding", <<"destroy", cs[j]>>)
  BY Ranks
<1>3. /\ All("destroy", cs) \in Seq(Ops) /\ Sorted("unwinding", All("destroy", cs))
      /\ Elements(All("destroy", cs)) = {<<"destroy", c>> : c \in Elements(cs)}
  BY <1>1, <1>2, AllSorted
<1>4. \A a \in Elements(All("destroy", cs)), b \in Elements(t) :
        Rank("unwinding", a) < Rank("unwinding", b)
  BY <1>3, Ranks
<1> QED
  BY <1>3, <1>4, Joined

\* Every unwinding stops the pool before it destroys it.
LEMMA PoolEndOrdered ==
  /\ PoolEnd \in Seq(Ops) /\ Sorted("unwinding", PoolEnd)
  /\ Elements(PoolEnd) = {<<"stop", "pool">>, <<"destroy", "pool">>}
<1>1. PoolEnd \in Seq(Ops) /\ Len(PoolEnd) = 2
  BY DEF PoolEnd, Ops, VerbSet, Things, Components
<1>2. Elements(PoolEnd) = {<<"stop", "pool">>, <<"destroy", "pool">>}
  BY DEF PoolEnd, Elements
<1>3. UndoRank("pool") = 13
  BY DEF UndoRank
<1>4. Rank("unwinding", PoolEnd[1]) = 12 /\ Rank("unwinding", PoolEnd[2]) = 13
  BY <1>3, Ranks DEF PoolEnd
<1>5. Sorted("unwinding", PoolEnd)
  BY <1>1, <1>4 DEF Sorted
<1> QED
  BY <1>1, <1>2, <1>5

\* Destructions that end with the pool's.
LEMMA ThenPoolEnd ==
  ASSUME NEW cs \in Seq(Things),
         \A i, j \in 1..Len(cs) : i < j => UndoRank(cs[i]) < UndoRank(cs[j]),
         \A c \in Elements(cs) : UndoRank(c) < 12
  PROVE  /\ All("destroy", cs) \o PoolEnd \in Seq(Ops)
         /\ Sorted("unwinding", All("destroy", cs) \o PoolEnd)
         /\ Elements(All("destroy", cs) \o PoolEnd) =
              {<<"destroy", c>> : c \in Elements(cs)} \cup Elements(PoolEnd)
<1>1. UndoRank("pool") = 13
  BY DEF UndoRank
<1>2. \A b \in Elements(PoolEnd) : Rank("unwinding", b) \in {12, 13}
  BY <1>1, PoolEndOrdered, Ranks
<1>3. \A c \in Elements(cs), b \in Elements(PoolEnd) : UndoRank(c) < Rank("unwinding", b)
  BY <1>2, Ranks
<1> QED
  BY <1>3, PoolEndOrdered, DestroyFirst

\* The unwindings of _startup, one by one: the settings cannot be read.
LEMMA UnwindSettingsOrdered ==
  /\ UnwindSettings \in Seq(Ops) /\ Sorted("unwinding", UnwindSettings)
  /\ Elements(UnwindSettings) =
       {<<"destroy", c>> : c \in {"timer"}}
         \cup Elements(PoolEnd)
<1> DEFINE cs == <<"timer">>
<1>1. cs \in Seq(Things) /\ Len(cs) = 1
  BY DEF Things, Components, Checks, Optional, Unchecked
<1>2. Elements(cs) = {"timer"}
  BY DEF Elements
<1>3. \A i, j \in 1..Len(cs) : i < j => UndoRank(cs[i]) < UndoRank(cs[j])
  BY DEF UndoRank
<1>4. \A c \in Elements(cs) : UndoRank(c) < 12
  BY <1>2 DEF UndoRank
<1>5. UnwindSettings = All("destroy", cs) \o PoolEnd
  BY DEF UnwindSettings
<1> HIDE DEF cs
<1> QED
  BY <1>1, <1>2, <1>3, <1>4, <1>5, ThenPoolEnd

\* The authority cannot be created.
LEMMA UnwindAuthorityOrdered ==
  /\ UnwindAuthority \in Seq(Ops) /\ Sorted("unwinding", UnwindAuthority)
  /\ Elements(UnwindAuthority) =
       {<<"destroy", c>> : c \in {"http", "tuple_cache", "ofd_cache", "timer"}}
         \cup Elements(PoolEnd)
<1> DEFINE cs == <<"http", "tuple_cache", "ofd_cache", "timer">>
<1>1. cs \in Seq(Things) /\ Len(cs) = 4
  BY DEF Things, Components, Checks, Optional, Unchecked
<1>2. Elements(cs) = {"http", "tuple_cache", "ofd_cache", "timer"}
  BY DEF Elements
<1>3. \A i, j \in 1..Len(cs) : i < j => UndoRank(cs[i]) < UndoRank(cs[j])
  BY DEF UndoRank
<1>4. \A c \in Elements(cs) : UndoRank(c) < 12
  BY <1>2 DEF UndoRank
<1>5. UnwindAuthority = All("destroy", cs) \o PoolEnd
  BY DEF UnwindAuthority
<1> HIDE DEF cs
<1> QED
  BY <1>1, <1>2, <1>3, <1>4, <1>5, ThenPoolEnd

\* The block cache cannot.
LEMMA UnwindBlockCacheOrdered ==
  /\ UnwindBlockCache \in Seq(Ops) /\ Sorted("unwinding", UnwindBlockCache)
  /\ Elements(UnwindBlockCache) =
       {<<"destroy", c>> : c \in {"authority", "timer"}}
         \cup Elements(PoolEnd)
<1> DEFINE cs == <<"authority", "timer">>
<1>1. cs \in Seq(Things) /\ Len(cs) = 2
  BY DEF Things, Components, Checks, Optional, Unchecked
<1>2. Elements(cs) = {"authority", "timer"}
  BY DEF Elements
<1>3. \A i, j \in 1..Len(cs) : i < j => UndoRank(cs[i]) < UndoRank(cs[j])
  BY DEF UndoRank
<1>4. \A c \in Elements(cs) : UndoRank(c) < 12
  BY <1>2 DEF UndoRank
<1>5. UnwindBlockCache = All("destroy", cs) \o PoolEnd
  BY DEF UnwindBlockCache
<1> HIDE DEF cs
<1> QED
  BY <1>1, <1>2, <1>3, <1>4, <1>5, ThenPoolEnd

\* The HTTP server cannot.
LEMMA UnwindHttpOrdered ==
  /\ UnwindHttp \in Seq(Ops) /\ Sorted("unwinding", UnwindHttp)
  /\ Elements(UnwindHttp) =
       {<<"destroy", c>> : c \in {"tuple_cache", "ofd_cache", "block_cache", "timer"}}
         \cup Elements(PoolEnd)
<1> DEFINE cs == <<"tuple_cache", "ofd_cache", "block_cache", "timer">>
<1>1. cs \in Seq(Things) /\ Len(cs) = 4
  BY DEF Things, Components, Checks, Optional, Unchecked
<1>2. Elements(cs) = {"tuple_cache", "ofd_cache", "block_cache", "timer"}
  BY DEF Elements
<1>3. \A i, j \in 1..Len(cs) : i < j => UndoRank(cs[i]) < UndoRank(cs[j])
  BY DEF UndoRank
<1>4. \A c \in Elements(cs) : UndoRank(c) < 12
  BY <1>2 DEF UndoRank
<1>5. UnwindHttp = All("destroy", cs) \o PoolEnd
  BY DEF UnwindHttp
<1> HIDE DEF cs
<1> QED
  BY <1>1, <1>2, <1>3, <1>4, <1>5, ThenPoolEnd

\* What the unwindings after the HTTP server have in common.
LEMMA LateUnwindOrdered ==
  /\ LateUnwind \in Seq(Ops) /\ Sorted("unwinding", LateUnwind)
  /\ Elements(LateUnwind) =
       {<<"destroy", c>> : c \in {"authority", "http", "tuple_cache", "ofd_cache", "block_cache", "timer"}}
         \cup Elements(PoolEnd)
<1> DEFINE cs == <<"authority", "http", "tuple_cache", "ofd_cache", "block_cache", "timer">>
<1>1. cs \in Seq(Things) /\ Len(cs) = 6
  BY DEF Things, Components, Checks, Optional, Unchecked
<1>2. Elements(cs) = {"authority", "http", "tuple_cache", "ofd_cache", "block_cache", "timer"}
  BY DEF Elements
<1>3. \A i, j \in 1..Len(cs) : i < j => UndoRank(cs[i]) < UndoRank(cs[j])
  BY DEF UndoRank
<1>4. \A c \in Elements(cs) : UndoRank(c) < 12
  BY <1>2 DEF UndoRank
<1>5. LateUnwind = All("destroy", cs) \o PoolEnd
  BY DEF LateUnwind
<1> HIDE DEF cs
<1> QED
  BY <1>1, <1>2, <1>3, <1>4, <1>5, ThenPoolEnd

\* Once there is a network, they first save the peers and destroy it.
LEMMA TransportUnwindOrdered ==
  /\ TransportUnwind \in Seq(Ops) /\ Sorted("unwinding", TransportUnwind)
  /\ Elements(TransportUnwind) =
       {<<"save", "peers">>, <<"destroy", "network">>} \cup Elements(LateUnwind)
  /\ \A b \in Elements(TransportUnwind) : Rank("unwinding", b) \in 4..13
<1> DEFINE s == << <<"save", "peers">>, <<"destroy", "network">> >>
<1>1. s \in Seq(Ops) /\ Len(s) = 2
  BY DEF Ops, VerbSet, Things, Components
<1>2. Elements(s) = {<<"save", "peers">>, <<"destroy", "network">>}
  BY DEF Elements
<1>3. UndoRank("network") = 5
  BY DEF UndoRank
<1>4. Rank("unwinding", s[1]) = 4 /\ Rank("unwinding", s[2]) = 5
  BY <1>3, Ranks
<1>5. TransportUnwind = s \o LateUnwind
  BY DEF TransportUnwind
<1> HIDE DEF s
<1>6. Sorted("unwinding", s)
  BY <1>1, <1>4 DEF Sorted
<1>7. \A c \in {"authority", "http", "tuple_cache", "ofd_cache", "block_cache", "timer", "pool"} :
        UndoRank(c) \in 6..13
  BY DEF UndoRank
<1>8. \A b \in Elements(LateUnwind) : Rank("unwinding", b) \in 6..13
  <2>1. ASSUME NEW b \in Elements(LateUnwind)
        PROVE  \/ b = <<"stop", "pool">>
               \/ \E c \in {"authority", "http", "tuple_cache", "ofd_cache", "block_cache",
                            "timer", "pool"} : b = <<"destroy", c>>
    BY LateUnwindOrdered, PoolEndOrdered
  <2> QED
    BY <1>7, <2>1, Ranks
<1>9. \A a \in Elements(s) : Rank("unwinding", a) \in 4..5
  BY <1>2, <1>3, Ranks
<1>10. \A a \in Elements(s), b \in Elements(LateUnwind) :
         Rank("unwinding", a) < Rank("unwinding", b)
  BY <1>8, <1>9
<1>11. /\ s \o LateUnwind \in Seq(Ops) /\ Sorted("unwinding", s \o LateUnwind)
       /\ Elements(s \o LateUnwind) = Elements(s) \cup Elements(LateUnwind)
  BY <1>1, <1>6, <1>10, LateUnwindOrdered, Joined
<1>12. \A b \in Elements(TransportUnwind) : Rank("unwinding", b) \in 4..13
  BY <1>5, <1>8, <1>9, <1>11
<1> QED
  BY <1>2, <1>5, <1>11, <1>12

\* The transports in front of what they stand on.
LEMMA ThenTransportUnwind ==
  ASSUME NEW cs \in Seq(Things),
         \A i, j \in 1..Len(cs) : i < j => UndoRank(cs[i]) < UndoRank(cs[j]),
         \A c \in Elements(cs) : UndoRank(c) < 4
  PROVE  /\ All("destroy", cs) \o TransportUnwind \in Seq(Ops)
         /\ Sorted("unwinding", All("destroy", cs) \o TransportUnwind)
         /\ Elements(All("destroy", cs) \o TransportUnwind) =
              {<<"destroy", c>> : c \in Elements(cs)} \cup Elements(TransportUnwind)
<1>1. ASSUME NEW c \in Elements(cs), NEW b \in Elements(TransportUnwind)
      PROVE  UndoRank(c) < Rank("unwinding", b)
  <2>1. UndoRank(c) \in 0..13 /\ UndoRank(c) < 4
    BY Ranks
  <2>2. Rank("unwinding", b) \in 4..13
    BY TransportUnwindOrdered
  <2> QED
    BY <2>1, <2>2
<1> QED
  BY <1>1, TransportUnwindOrdered, DestroyFirst

\* WebTransport cannot be created.
LEMMA UnwindWtOrdered ==
  /\ UnwindWt \in Seq(Ops) /\ Sorted("unwinding", UnwindWt)
  /\ Elements(UnwindWt) =
       {<<"destroy", c>> : c \in {"ws"}}
         \cup Elements(TransportUnwind)
<1> DEFINE cs == <<"ws">>
<1>1. cs \in Seq(Things) /\ Len(cs) = 1
  BY DEF Things, Components, Checks, Optional, Unchecked
<1>2. Elements(cs) = {"ws"}
  BY DEF Elements
<1>3. \A i, j \in 1..Len(cs) : i < j => UndoRank(cs[i]) < UndoRank(cs[j])
  BY DEF UndoRank
<1>4. \A c \in Elements(cs) : UndoRank(c) < 4
  BY <1>2 DEF UndoRank
<1>5. UnwindWt = All("destroy", cs) \o TransportUnwind
  BY DEF UnwindWt
<1> HIDE DEF cs
<1> QED
  BY <1>1, <1>2, <1>3, <1>4, <1>5, ThenTransportUnwind

\* HTTP/3 cannot.
LEMMA UnwindH3Ordered ==
  /\ UnwindH3 \in Seq(Ops) /\ Sorted("unwinding", UnwindH3)
  /\ Elements(UnwindH3) =
       {<<"destroy", c>> : c \in {"wt", "ws"}}
         \cup Elements(TransportUnwind)
<1> DEFINE cs == <<"wt", "ws">>
<1>1. cs \in Seq(Things) /\ Len(cs) = 2
  BY DEF Things, Components, Checks, Optional, Unchecked
<1>2. Elements(cs) = {"wt", "ws"}
  BY DEF Elements
<1>3. \A i, j \in 1..Len(cs) : i < j => UndoRank(cs[i]) < UndoRank(cs[j])
  BY DEF UndoRank
<1>4. \A c \in Elements(cs) : UndoRank(c) < 4
  BY <1>2 DEF UndoRank
<1>5. UnwindH3 = All("destroy", cs) \o TransportUnwind
  BY DEF UnwindH3
<1> HIDE DEF cs
<1> QED
  BY <1>1, <1>2, <1>3, <1>4, <1>5, ThenTransportUnwind

\* The Unix socket cannot.
LEMMA UnwindUnixOrdered ==
  /\ UnwindUnix \in Seq(Ops) /\ Sorted("unwinding", UnwindUnix)
  /\ Elements(UnwindUnix) =
       {<<"destroy", c>> : c \in {"wt", "h3", "ws"}}
         \cup Elements(TransportUnwind)
<1> DEFINE cs == <<"wt", "h3", "ws">>
<1>1. cs \in Seq(Things) /\ Len(cs) = 3
  BY DEF Things, Components, Checks, Optional, Unchecked
<1>2. Elements(cs) = {"wt", "h3", "ws"}
  BY DEF Elements
<1>3. \A i, j \in 1..Len(cs) : i < j => UndoRank(cs[i]) < UndoRank(cs[j])
  BY DEF UndoRank
<1>4. \A c \in Elements(cs) : UndoRank(c) < 4
  BY <1>2 DEF UndoRank
<1>5. UnwindUnix = All("destroy", cs) \o TransportUnwind
  BY DEF UnwindUnix
<1> HIDE DEF cs
<1> QED
  BY <1>1, <1>2, <1>3, <1>4, <1>5, ThenTransportUnwind

\* Whatever fails in _startup, its unwinding works its way down the same order and
\* destroys all that was created before, the authority perhaps excepted.
LEMMA UnwindOrdered ==
  ASSUME NEW c \in (Components \cup Checks) \ Unchecked
  PROVE  /\ Unwind(c) \in Seq(Ops) /\ Sorted("unwinding", Unwind(c))
         /\ \A r \in Elements(Unwind(c)) : r[1] \in {"stop", "save", "destroy"}
         /\ \A d \in Components : CreateRank(d) < CreateRank(c) =>
              d = "authority" \/ <<"destroy", d>> \in Elements(Unwind(c))
<1> DEFINE Cover(t) == /\ t \in Seq(Ops) /\ Sorted("unwinding", t)
                       /\ \A r \in Elements(t) : r[1] \in {"stop", "save", "destroy"}
<1> DEFINE Below(S) == \A d \in Components : CreateRank(d) < CreateRank(c) =>
                         d = "authority" \/ d \in S
<1> USE DEF Components, Checks, Optional, Unchecked
<1>1. CASE c \in {"dirs", "pool"}
  <2>1. Unwind(c) = <<>>
    BY <1>1 DEF Unwind
  <2>2. Cover(<<>>) /\ Elements(<<>>) = {}
    BY DEF Sorted, Elements
  <2>3. Below({})
    BY <1>1 DEF CreateRank
  <2> QED
    BY <2>1, <2>2, <2>3
<1>2. CASE c = "settings"
  <2>1. Unwind(c) = UnwindSettings
    BY <1>2 DEF Unwind
  <2>2. Cover(UnwindSettings)
    BY UnwindSettingsOrdered, PoolEndOrdered
  <2>3. Below({"timer", "pool"})
    BY <1>2 DEF CreateRank
  <2> QED
    BY <2>1, <2>2, <2>3, UnwindSettingsOrdered, PoolEndOrdered
<1>3. CASE c = "authority"
  <2>1. Unwind(c) = UnwindAuthority
    BY <1>3 DEF Unwind
  <2>2. Cover(UnwindAuthority)
    BY UnwindAuthorityOrdered, PoolEndOrdered
  <2>3. Below({"timer", "pool"})
    BY <1>3 DEF CreateRank
  <2> QED
    BY <2>1, <2>2, <2>3, UnwindAuthorityOrdered, PoolEndOrdered
<1>4. CASE c = "block_cache"
  <2>1. Unwind(c) = UnwindBlockCache
    BY <1>4 DEF Unwind
  <2>2. Cover(UnwindBlockCache)
    BY UnwindBlockCacheOrdered, PoolEndOrdered
  <2>3. Below({"timer", "pool"})
    BY <1>4 DEF CreateRank
  <2> QED
    BY <2>1, <2>2, <2>3, UnwindBlockCacheOrdered, PoolEndOrdered
<1>5. CASE c = "http"
  <2>1. Unwind(c) = UnwindHttp
    BY <1>5 DEF Unwind
  <2>2. Cover(UnwindHttp)
    BY UnwindHttpOrdered, PoolEndOrdered
  <2>3. Below({"tuple_cache", "ofd_cache", "block_cache", "timer", "pool"})
    BY <1>5 DEF CreateRank
  <2> QED
    BY <2>1, <2>2, <2>3, UnwindHttpOrdered, PoolEndOrdered
<1>6. CASE c \in {"certs", "network"}
  <2>1. Unwind(c) = LateUnwind
    BY <1>6 DEF Unwind
  <2>2. Cover(LateUnwind)
    BY LateUnwindOrdered, PoolEndOrdered
  <2>3. Below({"http", "tuple_cache", "ofd_cache", "block_cache", "timer", "pool"})
    BY <1>6 DEF CreateRank
  <2> QED
    BY <2>1, <2>2, <2>3, LateUnwindOrdered, PoolEndOrdered
<1>7. Cover(TransportUnwind)
  BY TransportUnwindOrdered, LateUnwindOrdered, PoolEndOrdered
<1>8. \A d \in {"network", "http", "tuple_cache", "ofd_cache", "block_cache", "timer", "pool"} :
        <<"destroy", d>> \in Elements(TransportUnwind)
  BY TransportUnwindOrdered, LateUnwindOrdered, PoolEndOrdered
<1>9. CASE c = "ws"
  <2>1. Unwind(c) = TransportUnwind
    BY <1>9 DEF Unwind
  <2>2. Below({"network", "http", "tuple_cache", "ofd_cache", "block_cache", "timer", "pool"})
    BY <1>9 DEF CreateRank
  <2> QED
    BY <1>7, <1>8, <2>1, <2>2
<1>10. CASE c = "wt"
  <2>1. Unwind(c) = UnwindWt
    BY <1>10 DEF Unwind
  <2>2. Cover(UnwindWt)
    BY <1>7, UnwindWtOrdered
  <2>3. Below({"ws", "network", "http", "tuple_cache", "ofd_cache", "block_cache", "timer",
               "pool"})
    BY <1>10 DEF CreateRank
  <2> QED
    BY <1>8, <2>1, <2>2, <2>3, UnwindWtOrdered
<1>11. CASE c = "h3"
  <2>1. Unwind(c) = UnwindH3
    BY <1>11 DEF Unwind
  <2>2. Cover(UnwindH3)
    BY <1>7, UnwindH3Ordered
  <2>3. Below({"wt", "ws", "network", "http", "tuple_cache", "ofd_cache", "block_cache",
               "timer", "pool"})
    BY <1>11 DEF CreateRank
  <2> QED
    BY <1>8, <2>1, <2>2, <2>3, UnwindH3Ordered
<1>12. CASE c = "unix"
  <2>1. Unwind(c) = UnwindUnix
    BY <1>12 DEF Unwind
  <2>2. Cover(UnwindUnix)
    BY <1>7, UnwindUnixOrdered
  <2>3. Below({"wt", "h3", "ws", "network", "http", "tuple_cache", "ofd_cache", "block_cache",
               "timer", "pool"})
    BY <1>12 DEF CreateRank
  <2> QED
    BY <1>8, <2>1, <2>2, <2>3, UnwindUnixOrdered
<1> QED
  BY <1>1, <1>2, <1>3, <1>4, <1>5, <1>6, <1>9, <1>10, <1>11, <1>12

-----------------------------------------------------------------------------

\* The main thread takes the first operation of an ordered list.
LEMMA TakeFirst ==
  ASSUME NEW m, NEW t \in Seq(Ops), t # <<>>, Sorted(m, t)
  PROVE  /\ Tail(t) \in Seq(Ops) /\ Sorted(m, Tail(t))
         /\ Head(t) \in Elements(t) /\ Head(t) \in Ops
         /\ \A r \in Elements(Tail(t)) : Rank(m, Head(t)) < Rank(m, r)
         /\ \A r \in Elements(t) : r = Head(t) \/ r \in Elements(Tail(t))
         /\ Elements(Tail(t)) \subseteq Elements(t)
<1>1. /\ Len(t) \in Nat \ {0} /\ Head(t) = t[1] /\ Head(t) \in Ops
      /\ Tail(t) \in Seq(Ops) /\ Len(Tail(t)) = Len(t) - 1
      /\ \A i \in 1..Len(t) - 1 : Tail(t)[i] = t[i + 1]
  OBVIOUS
<1> DEFINE u == Tail(t)
<1> HIDE DEF u
<1>2. \A i \in 1..Len(u) : i + 1 \in 1..Len(t) /\ u[i] = t[i + 1]
  BY <1>1 DEF u
<1>3. Sorted(m, u)
  <2>1. ASSUME NEW i \in 1..Len(u), NEW j \in 1..Len(u), i < j
        PROVE  Rank(m, u[i]) < Rank(m, u[j])
    <3>1. i + 1 \in 1..Len(t) /\ j + 1 \in 1..Len(t) /\ i + 1 < j + 1
      BY <1>2, <2>1
    <3>2. Rank(m, t[i + 1]) < Rank(m, t[j + 1])
      BY <3>1 DEF Sorted
    <3> QED
      BY <1>2, <3>2
  <2> QED
    BY <2>1 DEF Sorted
<1>4. Head(t) \in Elements(t)
  BY <1>1 DEF Elements
<1>5. ASSUME NEW r \in Elements(u) PROVE Rank(m, Head(t)) < Rank(m, r) /\ r \in Elements(t)
  <2>1. PICK i \in 1..Len(u) : r = u[i]
    BY DEF Elements
  <2>2. i + 1 \in 1..Len(t) /\ 1 \in 1..Len(t) /\ 1 < i + 1 /\ r = t[i + 1]
    BY <1>1, <1>2, <2>1
  <2>3. Rank(m, t[1]) < Rank(m, t[i + 1])
    BY <2>2 DEF Sorted
  <2> QED
    BY <1>1, <2>2, <2>3 DEF Elements
<1>6. ASSUME NEW r \in Elements(t) PROVE r = Head(t) \/ r \in Elements(u)
  <2>1. PICK i \in 1..Len(t) : r = t[i]
    BY DEF Elements
  <2>2. CASE i = 1
    BY <1>1, <2>1, <2>2
  <2>3. CASE i # 1
    <3>1. i - 1 \in 1..Len(u) /\ (i - 1) + 1 = i
      BY <1>1, <2>3 DEF u
    <3>2. u[i - 1] = t[i]
      BY <1>2, <3>1
    <3> QED
      BY <2>1, <3>1, <3>2 DEF Elements
  <2> QED
    BY <2>2, <2>3
<1> QED
  BY <1>1, <1>3, <1>4, <1>5, <1>6 DEF u

\* Every operation names a component or a step of the code.
LEMMA OpsTyped ==
  ASSUME NEW t \in Seq(Ops)
  PROVE  \A i \in DOMAIN t : t[i][2] \in Components \cup Checks
                               \cup {"mdns", "book", "connections", "peers"}
<1>1. \A i \in DOMAIN t : t[i] \in Ops
  OBVIOUS
<1> QED
  BY <1>1 DEF Ops, Things

\* A step of the main thread through its list: what is left, and what it is past.
Stepped(op, c) ==
  /\ Past(<<op, c>>)' /\ Rest' \subseteq Rest
  /\ \A r \in Rest : r = <<op, c>> \/ r \in Rest'
  /\ \A r \in Rest : r = <<op, c>> \/ Rank(mode, <<op, c>>) < Rank(mode, r)
  /\ \A o : Past(o) => Past(o)'
  /\ \A i \in DOMAIN todo' : todo'[i][2] \in Components \cup Checks
                               \cup {"mdns", "book", "connections", "peers"}

\* An operation of the main thread takes the head off its list.
LEMMA Advance ==
  ASSUME IInv, NEW op, NEW c, Do(op, c), Done
  PROVE  /\ mode \in Busy /\ mode' = mode /\ op \in Verbs(mode) /\ <<op, c>> \in Rest
         /\ Program' /\ Stepped(op, c)
<1>1. todo # <<>> /\ Head(todo) = <<op, c>> /\ todo' = Tail(todo) /\ mode' = mode
  BY DEF Do, Done
<1>2. todo \in Seq(Ops) /\ mode \in Busy /\ Sorted(mode, todo)
      /\ \A r \in Rest : r[1] \in Verbs(mode)
  BY <1>1 DEF IInv, Program
<1>3. /\ Tail(todo) \in Seq(Ops) /\ Sorted(mode, Tail(todo))
      /\ Head(todo) \in Elements(todo)
      /\ \A r \in Elements(Tail(todo)) : Rank(mode, Head(todo)) < Rank(mode, r)
      /\ \A r \in Elements(todo) : r = Head(todo) \/ r \in Elements(Tail(todo))
      /\ Elements(Tail(todo)) \subseteq Elements(todo)
  BY <1>1, <1>2, TakeFirst
<1>4. Rest' = Elements(Tail(todo)) /\ Rest = Elements(todo)
  BY <1>1 DEF Rest
<1>5. <<op, c>> \in Rest /\ op \in Verbs(mode)
  <2>1. <<op, c>> \in Rest
    BY <1>1, <1>3, <1>4
  <2>2. <<op, c>>[1] = op
    OBVIOUS
  <2> QED
    BY <1>2, <2>1, <2>2
<1>6. /\ Rest' \subseteq Rest
      /\ \A r \in Rest : r = <<op, c>> \/ r \in Rest'
      /\ \A r \in Rest' : Rank(mode, <<op, c>>) < Rank(mode, r)
  BY <1>1, <1>3, <1>4
<1>7. Program'
  BY <1>1, <1>2, <1>3, <1>4, <1>6 DEF Program
<1>8. Past(<<op, c>>)'
  BY <1>1, <1>6 DEF Past
<1>9. ASSUME NEW o, Past(o) PROVE Past(o)'
  BY <1>1, <1>6, <1>9 DEF Past
<1>10. \A i \in DOMAIN todo' : todo'[i][2] \in Components \cup Checks
                               \cup {"mdns", "book", "connections", "peers"}
  BY <1>1, <1>3, OpsTyped
<1>11. Stepped(op, c)
  BY <1>6, <1>8, <1>9, <1>10 DEF Stepped
<1> QED
  BY <1>1, <1>2, <1>5, <1>7, <1>11

\* A rank is a number, whatever the operation.
LEMMA RanksTyped ==
  \A o : Rank("starting", o) \in 1..25 /\ Rank("stopping", o) \in 1..23
<1>1. ASSUME NEW o PROVE Rank("starting", o) \in 1..25
  <2>1. CreateRank(o[2]) \in 1..16 /\ ListenRank(o) \in 17..25
    BY Ranks
  <2> QED
    BY <2>1 DEF Rank, StartRank
<1>2. ASSUME NEW o PROVE Rank("stopping", o) \in 1..23
  <2>1. DestroyRank(o[2]) \in 11..23 /\ QuiesceRank(o) \in 1..10
    BY Ranks
  <2> QED
    BY <2>1 DEF Rank, StopRank
<1> QED
  BY <1>1, <1>2

\* The ranks that decide which of two operations comes first.
LEMMA StartRanks ==
  /\ CreateRank("update_actor") = 16 /\ CreateRank("pool") = 2
  /\ \A c : Rank("starting", <<"listen", c>>) >= 17
  /\ Rank("starting", <<"start", "mdns">>) = 18
  /\ Rank("starting", <<"load", "peers">>) = 23
  /\ Rank("starting", <<"start", "book">>) = 24
  /\ Rank("starting", <<"start", "connections">>) = 25
<1>1. CreateRank("update_actor") = 16 /\ CreateRank("pool") = 2
  BY DEF CreateRank
<1>2. \A c : Rank("starting", <<"listen", c>>) = ListenRank(<<"listen", c>>)
  BY DEF Rank, StartRank
<1>3. ASSUME NEW c PROVE Rank("starting", <<"listen", c>>) >= 17
  <2>1. ListenRank(<<"listen", c>>) \in 17..25
    BY Ranks
  <2> QED
    BY <1>2, <2>1
<1>4. /\ Rank("starting", <<"start", "mdns">>) = 18
      /\ Rank("starting", <<"load", "peers">>) = 23
      /\ Rank("starting", <<"start", "book">>) = 24
      /\ Rank("starting", <<"start", "connections">>) = 25
  BY DEF Rank, StartRank, ListenRank
<1> QED
  BY <1>1, <1>3, <1>4

\* And in _shutdown.
LEMMA StopRanks ==
  /\ \A c \in Optional : Rank("stopping", <<"stop", c>>) \in 1..9
  /\ Rank("stopping", <<"stop", "mdns">>) = 5
  /\ Rank("stopping", <<"stop", "book">>) = 6
  /\ Rank("stopping", <<"save", "peers">>) = 7
  /\ Rank("stopping", <<"stop", "pool">>) = 10
<1>1. /\ HaltRank("mdns") = 5 /\ HaltRank("book") = 6 /\ HaltRank("pool") = 10
      /\ \A c \in Optional : HaltRank(c) \in 1..9
  BY DEF HaltRank, Optional
<1>2. \A c : Rank("stopping", <<"stop", c>>) = HaltRank(c)
  BY DEF Rank, StopRank, QuiesceRank
<1>3. Rank("stopping", <<"save", "peers">>) = 7
  BY DEF Rank, StopRank, QuiesceRank
<1> QED
  BY <1>1, <1>2, <1>3

\* Each operation belongs to one of the main thread's modes.
LEMMA InStart ==
  ASSUME IInv, NEW op \in {"create", "listen", "start", "load"}, NEW c, Do(op, c), Done
  PROVE  mode = "starting" /\ mode' = "starting" /\ (TypeOK' /\ Starting' => IInv')
<1>1. mode \in Busy /\ mode' = mode /\ op \in Verbs(mode) /\ Program'
  BY Advance
<1>2. mode = "starting" /\ mode' = "starting"
  BY <1>1 DEF Busy, Verbs
<1>3. Serving' /\ Unwinding' /\ Stopping' /\ Ended'
  BY <1>2 DEF Serving, Unwinding, Stopping, Ended
<1> QED
  BY <1>1, <1>2, <1>3 DEF IInv

\* The teardowns stop, save and destroy.
LEMMA InTeardown ==
  ASSUME IInv, NEW op \in {"stop", "save", "destroy"}, NEW c, Do(op, c), Done
  PROVE  /\ mode \in {"stopping", "unwinding"} /\ mode' = mode
         /\ TypeOK' /\ Unwinding' /\ Stopping' => IInv'
<1>1. mode \in Busy /\ mode' = mode /\ op \in Verbs(mode) /\ Program'
  BY Advance
<1>2. mode \in {"stopping", "unwinding"}
  BY <1>1 DEF Busy, Verbs
<1>3. Serving' /\ Starting' /\ Ended'
  BY <1>1, <1>2 DEF Serving, Starting, Ended
<1> QED
  BY <1>1, <1>2, <1>3 DEF IInv

-----------------------------------------------------------------------------

\* A cycle begins with every creation ahead.
LEMMA BeginIInv ==
  ASSUME IInv, Begin PROVE IInv'
<1>1. mode' = "starting" /\ todo' = StartupOrder \o ListenOrder
  BY DEF Begin
<1>2. /\ Rest' = Elements(StartupOrder) \cup Elements(ListenOrder)
      /\ todo' \in Seq(Ops) /\ Sorted("starting", todo')
  BY <1>1, StartOrdered DEF Rest
<1>3. \A r \in Rest' : r[1] \in Verbs("starting")
  BY <1>2, ElementsOfStartup, ElementsOfListen DEF Verbs
<1>4. Program'
  BY <1>1, <1>2, <1>3 DEF Program, Busy
<1>5. \A i \in DOMAIN todo' : todo'[i][2] \in Components \cup Checks
                               \cup {"mdns", "book", "connections", "peers"}
  BY <1>2, OpsTyped
<1>6. TypeOK'
  BY <1>1, <1>5 DEF IInv, TypeOK, Begin
<1>7. <<"create", "pool">> \in Rest' /\ <<"load", "peers">> \in Rest'
  BY <1>2, ElementsOfStartup, ElementsOfListen DEF Components
<1>8. Starting'
  BY <1>7 DEF Starting, Begin
<1>9. Serving' /\ Unwinding' /\ Stopping' /\ Ended'
  BY <1>1 DEF Serving, Unwinding, Stopping, Ended
<1> QED
  BY <1>4, <1>6, <1>8, <1>9 DEF IInv

\* A creation done or skipped, or one whose failure nobody looks at.
LEMMA CreateSucceedsIInv ==
  ASSUME IInv, NEW c \in Components \cup Checks, CreateSucceeds(c) PROVE IInv'
<1>1. Do("create", c) /\ Done
  BY DEF CreateSucceeds
<1>2. mode = "starting" /\ mode' = "starting" /\ (TypeOK' /\ Starting' => IInv')
  BY <1>1, InStart
<1>3. Stepped("create", c)
  BY <1>1, Advance
<1>4. \/ ptr' = ptr
      \/ c \in Components /\ ptr' = [ptr EXCEPT ![c] = "live"]
  <2> DEFINE S == Checks \cup (Optional \ enabled)
  <2>1. ptr' = IF c \in S THEN ptr ELSE [ptr EXCEPT ![c] = "live"]
    BY DEF CreateSucceeds
  <2>2. c \notin S => c \in Components
    OBVIOUS
  <2> HIDE DEF S
  <2> QED
    BY <2>1, <2>2
<1>5. TypeOK'
  <2>1. ptr' \in [Components -> {"null", "live", "freed"}]
    BY <1>4 DEF IInv, TypeOK
  <2>2. workers' \in BOOLEAN /\ book' \in {"none", "closed", "open"}
    BY DEF CreateSucceeds, IInv, TypeOK
  <2> QED
    BY <1>1, <1>3, <2>1, <2>2 DEF Stepped, CreateSucceeds, Done, IInv, TypeOK, peers
<1>6. ASSUME NEW d \in Components
      PROVE  ptr'[d] # "freed" /\ (ptr'[d] = "live" => Past(<<"create", d>>)')
  <2>1. ptr[d] # "freed" /\ (ptr[d] = "live" => Past(<<"create", d>>))
    BY <1>2 DEF IInv, Starting
  <2>2. CASE d = c /\ ptr' # ptr
    BY <1>3, <1>4, <2>2 DEF Stepped, IInv, TypeOK
  <2>3. CASE ~(d = c /\ ptr' # ptr)
    <3>1. ptr'[d] = ptr[d]
      BY <1>4, <2>3 DEF IInv, TypeOK
    <3> QED
      BY <1>3, <2>1, <3>1 DEF Stepped
  <2> QED
    BY <2>2, <2>3
<1>7. workers' \/ <<"create", "pool">> \in Rest'
  BY <1>2, <1>3 DEF Stepped, CreateSucceeds, IInv, Starting
<1>8. book' = "open" => book = "open"
  BY DEF CreateSucceeds
<1>9. /\ listening' # {} \/ mdns' \/ book' = "open" => Past(<<"create", "update_actor">>)'
      /\ book' = "open" => Past(<<"start", "book">>)'
  BY <1>2, <1>3, <1>8 DEF Stepped, CreateSucceeds, IInv, Starting
<1>10. <<"load", "peers">> \in Rest' <=> <<"load", "peers">> \in Rest
  BY <1>3 DEF Stepped
<1>11. IF <<"load", "peers">> \in Rest' THEN mem' = {} /\ intended' = disk' ELSE mem' = intended' \ unread'
  BY <1>2, <1>10 DEF CreateSucceeds, peers, IInv, Starting
<1>12. Starting'
  BY <1>6, <1>7, <1>9, <1>11 DEF Starting
<1> QED
  BY <1>2, <1>5, <1>12

\* A step of the start that creates nothing and leaves the peers alone.
LEMMA StartStep ==
  ASSUME IInv, NEW op \in {"create", "listen", "start"}, NEW c, Do(op, c), Done,
         <<op, c>> # <<"create", "pool">>, TypeOK', ptr' = ptr, workers' = workers,
         mem' = mem, disk' = disk, intended' = intended, unread' = unread,
         op = "create" => listening' = listening /\ mdns' = mdns,
         op # "create" => Rank("starting", <<op, c>>) \in 17..25,
         book' = "open" => book = "open" \/ <<op, c>> = <<"start", "book">>
  PROVE  IInv'
<1>1. mode = "starting" /\ mode' = "starting" /\ (TypeOK' /\ Starting' => IInv')
  BY InStart
<1>2. Stepped(op, c)
  BY Advance
<1>3. \A d \in Components : ptr'[d] # "freed" /\ (ptr'[d] = "live" => Past(<<"create", d>>)')
  BY <1>1, <1>2 DEF IInv, Starting, Stepped
<1>4. workers' \/ <<"create", "pool">> \in Rest'
  BY <1>1, <1>2 DEF IInv, Starting, Stepped
<1>5. book' = "open" => Past(<<"start", "book">>)'
  BY <1>1, <1>2 DEF IInv, Starting, Stepped
<1>6. listening' # {} \/ mdns' \/ book' = "open" => Past(<<"create", "update_actor">>)'
  <2>1. CASE op = "create"
    BY <1>1, <1>2, <2>1 DEF IInv, Starting, Stepped
  <2>2. CASE op # "create"
    <3>1. ASSUME NEW r \in Rest' PROVE Rank("starting", <<"create", "update_actor">>) < Rank("starting", r)
      <4>1. Rank("starting", <<op, c>>) < Rank("starting", r)
        BY <1>1, <1>2 DEF Stepped, Past
      <4>2. Rank("starting", r) \in 1..25
        BY RanksTyped
      <4> QED
        BY <2>2, <4>1, <4>2, StartRanks, Ranks
    <3> QED
      BY <1>1, <3>1 DEF Past
  <2> QED
    BY <2>1, <2>2
<1>7. <<"load", "peers">> \in Rest' <=> <<"load", "peers">> \in Rest
  BY <1>2 DEF Stepped
<1>8. IF <<"load", "peers">> \in Rest' THEN mem' = {} /\ intended' = disk' ELSE mem' = intended' \ unread'
  BY <1>1, <1>7 DEF IInv, Starting
<1>9. Starting'
  BY <1>3, <1>4, <1>5, <1>6, <1>8 DEF Starting
<1> QED
  BY <1>1, <1>9

\* A failure: the main thread goes over to the unwinding of that place, which
\* destroys what is live.
LEMMA CreateFailsIInv ==
  ASSUME IInv, NEW c \in Components \cup Checks, CreateFails(c) PROVE IInv'
<1>1. CASE c \in Unchecked
  <2>1. Do("create", c) /\ Done /\ "create" \in {"create", "listen", "start"}
    BY <1>1 DEF CreateFails
  <2>2. /\ ptr' = ptr /\ workers' = workers /\ mem' = mem /\ disk' = disk
        /\ intended' = intended /\ unread' = unread
        /\ listening' = listening /\ mdns' = mdns /\ book' = book
    BY DEF CreateFails, runtime, peers
  <2>3. Stepped("create", c)
    BY <2>1, Advance
  <2>4. TypeOK'
    BY <2>1, <2>2, <2>3 DEF Done, Stepped, IInv, TypeOK
  <2>5. <<"create", c>> # <<"create", "pool">>
    BY <1>1 DEF Unchecked
  <2> QED
    BY <2>1, <2>2, <2>4, <2>5, StartStep
<1>2. CASE c \notin Unchecked
  <2>1. mode' = "unwinding" /\ todo' = Unwind(c) /\ enabled' = enabled
    BY <1>2 DEF CreateFails
  <2>2. /\ ptr' = ptr /\ workers' = workers /\ mem' = mem /\ disk' = disk
        /\ intended' = intended /\ unread' = unread
        /\ listening' = listening /\ mdns' = mdns /\ book' = book
    BY DEF CreateFails, runtime, peers
  <2>3. todo # <<>> /\ Head(todo) = <<"create", c>>
    BY DEF CreateFails, Do
  <2>4. mode \in Busy /\ todo \in Seq(Ops) /\ \A r \in Rest : r[1] \in Verbs(mode)
    BY <2>3 DEF IInv, Program
  <2>5. <<"create", c>> \in Rest
    BY <2>3, <2>4, TakeFirst DEF IInv, Program, Rest
  <2>6. mode = "starting"
    <3>1. <<"create", c>>[1] = "create"
      OBVIOUS
    <3>2. "create" \in Verbs(mode)
      BY <2>4, <2>5, <3>1
    <3> QED
      BY <2>4, <3>2 DEF Verbs, Busy
  <2>7. /\ Unwind(c) \in Seq(Ops) /\ Sorted("unwinding", Unwind(c))
        /\ \A r \in Elements(Unwind(c)) : r[1] \in {"stop", "save", "destroy"}
        /\ \A d \in Components : CreateRank(d) < CreateRank(c) =>
             d = "authority" \/ <<"destroy", d>> \in Elements(Unwind(c))
    BY <1>2, UnwindOrdered
  <2>8. Rest' = Elements(Unwind(c))
    BY <2>1 DEF Rest
  <2>9. Program'
    BY <2>1, <2>7, <2>8 DEF Program, Busy, Verbs
  <2>10. TypeOK'
    <3>1. \A i \in DOMAIN todo' : todo'[i][2] \in Components \cup Checks
                               \cup {"mdns", "book", "connections", "peers"}
      BY <2>1, <2>7, OpsTyped
    <3> QED
      BY <2>1, <2>2, <3>1 DEF IInv, TypeOK
  <2>11. ~mdns /\ book # "open"
    <3>1. SUFFICES ASSUME mdns \/ book = "open" PROVE FALSE
      OBVIOUS
    <3>2. Past(<<"create", "update_actor">>)
      BY <2>6, <3>1 DEF IInv, Starting
    <3>3. CreateRank("update_actor") < CreateRank(c)
      BY <2>5, <2>6, <3>2, Ranks DEF Past
    <3> QED
      BY <3>3, Ranks, StartRanks
  <2>12. ASSUME NEW d \in Components
         PROVE  /\ ptr[d] # "freed"
                /\ ptr[d] = "live" => d = "authority" \/ <<"destroy", d>> \in Rest'
    <3>1. ptr[d] # "freed" /\ (ptr[d] = "live" => Past(<<"create", d>>))
      BY <2>6 DEF IInv, Starting
    <3>2. Past(<<"create", d>>) => CreateRank(d) < CreateRank(c)
      BY <2>5, <2>6, Ranks DEF Past
    <3> QED
      BY <2>7, <2>8, <3>1, <3>2
  <2>13. Unwinding'
    BY <2>2, <2>11, <2>12 DEF Unwinding
  <2>14. Starting' /\ Serving' /\ Stopping' /\ Ended'
    BY <2>1 DEF Starting, Serving, Stopping, Ended
  <2> QED
    BY <2>9, <2>10, <2>13, <2>14 DEF IInv
<1> QED
  BY <1>1, <1>2

\* A front end listens once everything is created.
LEMMA ListenIInv ==
  ASSUME IInv, NEW c \in Optional, Listen(c) PROVE IInv'
<1>1. Do("listen", c) /\ Done /\ "listen" \in {"create", "listen", "start"}
  BY DEF Listen
<1>2. /\ ptr' = ptr /\ workers' = workers /\ mem' = mem /\ disk' = disk
      /\ intended' = intended /\ unread' = unread /\ mdns' = mdns /\ book' = book
  BY DEF Listen, peers
<1>3. Stepped("listen", c)
  BY <1>1, Advance
<1>4. listening' \in SUBSET Optional
  BY DEF Listen, IInv, TypeOK
<1>5. TypeOK'
  BY <1>1, <1>2, <1>3, <1>4 DEF Done, Stepped, IInv, TypeOK
<1>6. Rank("starting", <<"listen", c>>) \in 17..25
  <2>1. Rank("starting", <<"listen", c>>) \in 1..25
    BY RanksTyped
  <2> QED
    BY <2>1, StartRanks
<1> QED
  BY <1>1, <1>2, <1>5, <1>6, StartStep

\* So does mDNS.
LEMMA StartMdnsIInv ==
  ASSUME IInv, StartMdns PROVE IInv'
<1>1. Do("start", "mdns") /\ Done /\ "start" \in {"create", "listen", "start"}
  BY DEF StartMdns
<1>2. /\ ptr' = ptr /\ workers' = workers /\ mem' = mem /\ disk' = disk
      /\ intended' = intended /\ unread' = unread
      /\ listening' = listening /\ book' = book /\ mdns' \in BOOLEAN
  BY DEF StartMdns, peers
<1>3. Stepped("start", "mdns")
  BY <1>1, Advance
<1>4. TypeOK'
  BY <1>1, <1>2, <1>3 DEF Done, Stepped, IInv, TypeOK
<1>5. Rank("starting", <<"start", "mdns">>) \in 17..25
  BY StartRanks
<1> QED
  BY <1>1, <1>2, <1>4, <1>5, StartStep

\* The peer-book actor opens after the peers were loaded.
LEMMA StartBookIInv ==
  ASSUME IInv, StartBook PROVE IInv'
<1>1. Do("start", "book") /\ Done /\ "start" \in {"create", "listen", "start"}
  BY DEF StartBook
<1>2. /\ ptr' = ptr /\ workers' = workers /\ mem' = mem /\ disk' = disk
      /\ intended' = intended /\ unread' = unread /\ listening' = listening /\ mdns' = mdns
      /\ book' \in {"none", "open"}
  BY DEF StartBook, peers
<1>3. Stepped("start", "book")
  BY <1>1, Advance
<1>4. TypeOK'
  BY <1>1, <1>2, <1>3 DEF Done, Stepped, IInv, TypeOK
<1>5. Rank("starting", <<"start", "book">>) \in 17..25
  BY StartRanks
<1> QED
  BY <1>1, <1>2, <1>4, <1>5, StartStep

\* Loading brings the peers in memory to what is intended, but for those not read.
LEMMA LoadPeersIInv ==
  ASSUME IInv, LoadPeers PROVE IInv'
<1>1. Do("load", "peers") /\ Done /\ "load" \in {"create", "listen", "start", "load"}
  BY DEF LoadPeers
<1>2. /\ ptr' = ptr /\ workers' = workers /\ disk' = disk
      /\ intended' = intended /\ listening' = listening /\ mdns' = mdns /\ book' = book
  BY DEF LoadPeers, runtime
<1> PICK read \in SUBSET disk : mem' = mem \cup read /\ unread' = disk \ read
  BY DEF LoadPeers
<1>3. mode = "starting" /\ mode' = "starting" /\ (TypeOK' /\ Starting' => IInv')
  BY <1>1, InStart
<1>4. Stepped("load", "peers") /\ <<"load", "peers">> \in Rest
  BY <1>1, Advance
<1>5. TypeOK'
  BY <1>1, <1>2, <1>4 DEF Done, Stepped, IInv, TypeOK
<1>6. mem' = intended' \ unread'
  BY <1>2, <1>3, <1>4 DEF IInv, Starting
<1>7. <<"load", "peers">> \notin Rest'
  <2>1. <<"load", "peers">> \in Rest' =>
          Rank("starting", <<"load", "peers">>) < Rank("starting", <<"load", "peers">>)
    BY <1>3, <1>4 DEF Stepped, Past
  <2> QED
    BY <2>1, StartRanks
<1>8. /\ \A d \in Components : ptr'[d] # "freed" /\ (ptr'[d] = "live" => Past(<<"create", d>>)')
      /\ workers' \/ <<"create", "pool">> \in Rest'
      /\ listening' # {} \/ mdns' \/ book' = "open" => Past(<<"create", "update_actor">>)'
      /\ book' = "open" => Past(<<"start", "book">>)'
  BY <1>2, <1>3, <1>4 DEF IInv, Starting, Stepped
<1>9. Starting'
  BY <1>6, <1>7, <1>8 DEF Starting
<1> QED
  BY <1>3, <1>5, <1>9

\* The last step of the start: everything before it is done.
LEMMA StartConnectionsIInv ==
  ASSUME IInv, StartConnections PROVE IInv'
<1>1. todo # <<>> /\ Head(todo) = <<"start", "connections">>
  BY DEF StartConnections, Do
<1>2. mode \in Busy /\ todo \in Seq(Ops) /\ Sorted(mode, todo) /\ \A r \in Rest : r[1] \in Verbs(mode)
  BY <1>1 DEF IInv, Program
<1>3. /\ <<"start", "connections">> \in Rest
      /\ \A r \in Rest : r = <<"start", "connections">>
                           \/ Rank(mode, <<"start", "connections">>) < Rank(mode, r)
  BY <1>1, <1>2, TakeFirst DEF Rest
<1>4. mode = "starting"
  <2>1. <<"start", "connections">>[1] = "start"
    OBVIOUS
  <2>2. "start" \in Verbs(mode)
    BY <1>2, <1>3, <2>1
  <2> QED
    BY <1>2, <2>2 DEF Verbs, Busy
<1>5. <<"load", "peers">> \notin Rest
  <2>1. <<"load", "peers">> \in Rest =>
          Rank("starting", <<"start", "connections">>) < Rank("starting", <<"load", "peers">>)
    BY <1>3, <1>4
  <2> QED
    BY <2>1, StartRanks
<1>6. <<"create", "pool">> \notin Rest
  <2>1. <<"create", "pool">> \in Rest =>
          Rank("starting", <<"start", "connections">>) < Rank("starting", <<"create", "pool">>)
    BY <1>3, <1>4
  <2> QED
    BY <2>1, StartRanks, Ranks
<1>7. /\ mode' = "serving" /\ todo' = <<>> /\ enabled' = enabled
      /\ ptr' = ptr /\ workers' = workers /\ mem' = mem /\ disk' = disk
      /\ intended' = intended /\ unread' = unread
      /\ listening' = listening /\ mdns' = mdns /\ book' = book
  BY DEF StartConnections, runtime, peers
<1>8. TypeOK'
  BY <1>7 DEF IInv, TypeOK
<1>9. Program'
  BY <1>7 DEF Program, Busy
<1>10. Serving'
  BY <1>4, <1>5, <1>6, <1>7 DEF IInv, Starting, Serving
<1>11. Starting' /\ Unwinding' /\ Stopping' /\ Ended'
  BY <1>7 DEF Starting, Unwinding, Stopping, Ended
<1> QED
  BY <1>8, <1>9, <1>10, <1>11 DEF IInv

\* _shutdown begins with everything still to be stopped and destroyed.
LEMMA LeavePollIInv ==
  ASSUME IInv, LeavePoll PROVE IInv'
<1>1. /\ mode = "serving" /\ mode' = "stopping" /\ todo' = StopOrder \o DestroyOrder
      /\ enabled' = enabled
      /\ ptr' = ptr /\ workers' = workers /\ mem' = mem /\ disk' = disk
      /\ intended' = intended /\ unread' = unread
      /\ listening' = listening /\ mdns' = mdns /\ book' = book
  BY DEF LeavePoll, runtime, peers
<1>2. /\ Rest' = Elements(StopOrder) \cup Elements(DestroyOrder)
      /\ todo' \in Seq(Ops) /\ Sorted("stopping", todo')
  BY <1>1, StopOrdered DEF Rest
<1>3. \A r \in Rest' : r[1] \in Verbs("stopping")
  BY <1>2, ElementsOfStop, ElementsOfDestroy DEF Verbs
<1>4. Program'
  BY <1>1, <1>2, <1>3 DEF Program, Busy
<1>5. \A i \in DOMAIN todo' : todo'[i][2] \in Components \cup Checks
                               \cup {"mdns", "book", "connections", "peers"}
  BY <1>2, OpsTyped
<1>6. TypeOK'
  BY <1>1, <1>5 DEF IInv, TypeOK
<1>7. workers /\ mem = intended \ unread /\ \A c \in Components : ptr[c] # "freed"
  BY <1>1 DEF IInv, Serving
<1>8. \A c \in Components : <<"destroy", c>> \in Rest'
  BY <1>2, ElementsOfDestroy
<1>9. /\ \A c \in Optional : <<"stop", c>> \in Rest'
      /\ <<"stop", "pool">> \in Rest' /\ <<"stop", "mdns">> \in Rest'
      /\ <<"stop", "book">> \in Rest' /\ <<"save", "peers">> \in Rest'
  BY <1>2, ElementsOfStop
<1>10. listening \subseteq Optional
  BY DEF IInv, TypeOK
<1>11. Stopping'
  BY <1>1, <1>7, <1>8, <1>9, <1>10 DEF Stopping
<1>12. Starting' /\ Serving' /\ Unwinding' /\ Ended'
  BY <1>1 DEF Starting, Serving, Unwinding, Ended
<1> QED
  BY <1>4, <1>6, <1>11, <1>12 DEF IInv

\* A step of a teardown: each operation ends what it is there to end, and no other.
LEMMA TeardownStep ==
  ASSUME IInv, NEW op \in {"stop", "save", "destroy"}, NEW c, Do(op, c), Done, TypeOK',
         \A d \in Components : \/ ptr'[d] = ptr[d] /\ (<<op, c>> = <<"destroy", d>> => ptr[d] # "live")
                               \/ ptr'[d] = "freed" /\ <<op, c>> = <<"destroy", d>>,
         listening' \subseteq listening, op = "stop" => c \notin listening',
         mdns' => mdns /\ <<op, c>> # <<"stop", "mdns">>,
         book' = "open" => book = "open" /\ <<op, c>> # <<"stop", "book">>,
         workers' = (workers /\ <<op, c>> # <<"stop", "pool">>),
         mem' = mem,
         IF <<op, c>> = <<"save", "peers">>
           THEN \/ disk' = mem /\ intended' = intended /\ unread' = unread
                \/ disk' = disk /\ intended' = disk /\ unread' = {}
           ELSE disk' = disk /\ intended' = intended /\ unread' = unread
  PROVE  IInv'
<1>1. /\ mode \in {"stopping", "unwinding"} /\ mode' = mode
      /\ TypeOK' /\ Unwinding' /\ Stopping' => IInv'
  BY InTeardown
<1>2. Stepped(op, c) /\ <<op, c>> \in Rest
  BY Advance
<1>3. Unwinding'
  <2>1. SUFFICES ASSUME mode = "unwinding" PROVE Unwinding'
    BY <1>1 DEF Unwinding
  <2>2. ASSUME NEW d \in Components
        PROVE  /\ ptr'[d] = "live" => d = "authority" \/ <<"destroy", d>> \in Rest'
               /\ ptr'[d] = "freed" => Past(<<"destroy", d>>)'
    BY <1>2, <2>1 DEF IInv, Unwinding, Stepped
  <2> QED
    BY <2>1, <2>2 DEF IInv, Unwinding
<1>4. Stopping'
  <2>1. SUFFICES ASSUME mode = "stopping" PROVE Stopping'
    BY <1>1 DEF Stopping
  <2>2. ASSUME NEW d \in Components
        PROVE  /\ ptr'[d] = "live" => <<"destroy", d>> \in Rest'
               /\ ptr'[d] = "freed" => Past(<<"destroy", d>>)'
    BY <1>2, <2>1 DEF IInv, Stopping, Stepped
  <2>3. \A d \in listening' : <<"stop", d>> \in Rest'
    BY <1>2, <2>1 DEF IInv, Stopping, Stepped
  <2>4. IF workers' THEN <<"stop", "pool">> \in Rest' ELSE Past(<<"stop", "pool">>)'
    <3>1. CASE <<op, c>> = <<"stop", "pool">>
      BY <1>2, <3>1 DEF Stepped
    <3>2. CASE <<op, c>> # <<"stop", "pool">> /\ workers
      BY <1>2, <2>1, <3>2 DEF IInv, Stopping, Stepped
    <3>3. CASE <<op, c>> # <<"stop", "pool">> /\ ~workers
      BY <1>2, <2>1, <3>3 DEF IInv, Stopping, Stepped
    <3> QED
      BY <3>1, <3>2, <3>3
  <2>5. mdns' => <<"stop", "mdns">> \in Rest'
    BY <1>2, <2>1 DEF IInv, Stopping, Stepped
  <2>6. ASSUME book = "open" PROVE <<op, c>> # <<"save", "peers">>
    <3>1. <<"stop", "book">> \in Rest
      BY <2>1, <2>6 DEF IInv, Stopping
    <3>2. <<op, c>> = <<"save", "peers">> =>
            Rank("stopping", <<"save", "peers">>) < Rank("stopping", <<"stop", "book">>)
      BY <1>2, <2>1, <3>1 DEF Stepped
    <3> QED
      BY <3>2, StopRanks
  <2>7. book' = "open" => {<<"stop", "book">>, <<"save", "peers">>} \subseteq Rest'
    BY <1>2, <2>1, <2>6 DEF IInv, Stopping, Stepped
  <2>8. IF <<"save", "peers">> \in Rest' THEN mem' = intended' \ unread' ELSE disk' = intended' \ unread'
    <3>1. CASE <<op, c>> = <<"save", "peers">>
      <4>1. mem = intended \ unread
        BY <1>2, <2>1, <3>1 DEF IInv, Stopping
      <4>2. <<"save", "peers">> \in Rest' =>
              Rank("stopping", <<"save", "peers">>) < Rank("stopping", <<"save", "peers">>)
        BY <1>1, <1>2, <2>1, <3>1 DEF Stepped, Past
      <4> QED
        BY <3>1, <4>1, <4>2, StopRanks
    <3>2. CASE <<op, c>> # <<"save", "peers">>
      <4>1. <<"save", "peers">> \in Rest' <=> <<"save", "peers">> \in Rest
        BY <1>2, <3>2 DEF Stepped
      <4> QED
        BY <2>1, <3>2, <4>1 DEF IInv, Stopping
    <3> QED
      BY <3>1, <3>2
  <2> QED
    BY <2>2, <2>3, <2>4, <2>5, <2>7, <2>8 DEF Stopping
<1> QED
  BY <1>1, <1>3, <1>4

\* A front end stops: it does not listen any more.
LEMMA StopFrontEndIInv ==
  ASSUME IInv, NEW c \in Optional, StopFrontEnd(c) PROVE IInv'
<1>1. Do("stop", c) /\ Done /\ "stop" \in {"stop", "save", "destroy"}
  BY DEF StopFrontEnd
<1>2. /\ ptr' = ptr /\ listening' = listening \ {c} /\ mdns' = mdns /\ book' = book
      /\ workers' = workers /\ mem' = mem /\ disk' = disk
      /\ intended' = intended /\ unread' = unread
  BY DEF StopFrontEnd, peers
<1>3. Stepped("stop", c)
  BY <1>1, Advance
<1>4. TypeOK'
  BY <1>1, <1>2, <1>3 DEF Done, Stepped, IInv, TypeOK
<1>5. /\ \A d \in Components : <<"stop", c>> # <<"destroy", d>>
      /\ <<"stop", c>> # <<"stop", "mdns">> /\ <<"stop", c>> # <<"stop", "book">>
      /\ <<"stop", c>> # <<"stop", "pool">> /\ <<"stop", c>> # <<"save", "peers">>
  BY DEF Optional
<1>6. workers' = (workers /\ <<"stop", c>> # <<"stop", "pool">>)
  BY <1>2, <1>5 DEF IInv, TypeOK
<1> QED
  BY <1>1, <1>2, <1>4, <1>5, <1>6, TeardownStep

\* mDNS stops.
LEMMA StopMdnsIInv ==
  ASSUME IInv, StopMdns PROVE IInv'
<1>1. Do("stop", "mdns") /\ Done /\ "stop" \in {"stop", "save", "destroy"}
  BY DEF StopMdns
<1>2. /\ ptr' = ptr /\ listening' = listening /\ mdns' = FALSE /\ book' = book
      /\ workers' = workers /\ mem' = mem /\ disk' = disk
      /\ intended' = intended /\ unread' = unread
  BY DEF StopMdns, peers
<1>3. Stepped("stop", "mdns")
  BY <1>1, Advance
<1>4. TypeOK'
  BY <1>1, <1>2, <1>3 DEF Done, Stepped, IInv, TypeOK
<1>5. "mdns" \notin listening'
  BY <1>2 DEF IInv, TypeOK, Optional
<1>6. workers' = (workers /\ <<"stop", "mdns">> # <<"stop", "pool">>)
  BY <1>2 DEF IInv, TypeOK
<1> QED
  BY <1>1, <1>2, <1>4, <1>5, <1>6, TeardownStep

\* The peer-book actor closes, before the peers are saved.
LEMMA StopBookIInv ==
  ASSUME IInv, StopBook PROVE IInv'
<1>1. Do("stop", "book") /\ Done /\ "stop" \in {"stop", "save", "destroy"}
  BY DEF StopBook
<1>2. /\ ptr' = ptr /\ listening' = listening /\ mdns' = mdns /\ book' \in {"none", "closed"}
      /\ workers' = workers /\ mem' = mem /\ disk' = disk
      /\ intended' = intended /\ unread' = unread
  BY DEF StopBook, peers
<1>3. Stepped("stop", "book")
  BY <1>1, Advance
<1>4. TypeOK'
  BY <1>1, <1>2, <1>3 DEF Done, Stepped, IInv, TypeOK
<1>5. "book" \notin listening'
  BY <1>2 DEF IInv, TypeOK, Optional
<1>6. workers' = (workers /\ <<"stop", "book">> # <<"stop", "pool">>)
  BY <1>2 DEF IInv, TypeOK
<1> QED
  BY <1>1, <1>2, <1>4, <1>5, <1>6, TeardownStep

\* The outgoing connections stop.
LEMMA StopConnectionsIInv ==
  ASSUME IInv, StopConnections PROVE IInv'
<1>1. Do("stop", "connections") /\ Done /\ "stop" \in {"stop", "save", "destroy"}
  BY DEF StopConnections
<1>2. /\ ptr' = ptr /\ listening' = listening /\ mdns' = mdns /\ book' = book
      /\ workers' = workers /\ mem' = mem /\ disk' = disk
      /\ intended' = intended /\ unread' = unread
  BY DEF StopConnections, runtime, peers
<1>3. Stepped("stop", "connections")
  BY <1>1, Advance
<1>4. TypeOK'
  BY <1>1, <1>2, <1>3 DEF Done, Stepped, IInv, TypeOK
<1>5. "connections" \notin listening'
  BY <1>2 DEF IInv, TypeOK, Optional
<1>6. workers' = (workers /\ <<"stop", "connections">> # <<"stop", "pool">>)
  BY <1>2 DEF IInv, TypeOK
<1> QED
  BY <1>1, <1>2, <1>4, <1>5, <1>6, TeardownStep

\* The pool stops, when nothing listens.
LEMMA StopPoolIInv ==
  ASSUME IInv, StopPool PROVE IInv'
<1>1. Do("stop", "pool") /\ Done /\ "stop" \in {"stop", "save", "destroy"}
  BY DEF StopPool
<1>2. /\ ptr' = ptr /\ listening' = listening /\ mdns' = mdns /\ book' = book
      /\ workers' = FALSE /\ mem' = mem /\ disk' = disk /\ intended' = intended /\ unread' = unread
  BY DEF StopPool, peers
<1>3. Stepped("stop", "pool")
  BY <1>1, Advance
<1>4. TypeOK'
  BY <1>1, <1>2, <1>3 DEF Done, Stepped, IInv, TypeOK
<1>5. "pool" \notin listening'
  BY <1>2 DEF IInv, TypeOK, Optional
<1>6. workers' = (workers /\ <<"stop", "pool">> # <<"stop", "pool">>)
  BY <1>2
<1> QED
  BY <1>1, <1>2, <1>4, <1>5, <1>6, TeardownStep

\* The store gets what is in memory.
LEMMA SavePeersIInv ==
  ASSUME IInv, SavePeers PROVE IInv'
<1>1. Do("save", "peers") /\ Done /\ "save" \in {"stop", "save", "destroy"}
  BY DEF SavePeers
<1>2. /\ ptr' = ptr /\ listening' = listening /\ mdns' = mdns /\ book' = book
      /\ workers' = workers /\ mem' = mem
      /\ \/ disk' = mem /\ intended' = intended /\ unread' = unread
         \/ disk' = disk /\ intended' = disk /\ unread' = {}
  BY DEF SavePeers, runtime
<1>3. Stepped("save", "peers")
  BY <1>1, Advance
<1>4. TypeOK'
  BY <1>1, <1>2, <1>3 DEF Done, Stepped, IInv, TypeOK
<1>5. workers' = (workers /\ <<"save", "peers">> # <<"stop", "pool">>)
  BY <1>2 DEF IInv, TypeOK
<1> QED
  BY <1>1, <1>2, <1>4, <1>5, TeardownStep

\* A component is destroyed, if it is there.
LEMMA DestroyIInv ==
  ASSUME IInv, NEW c \in Components, Destroy(c) PROVE IInv'
<1>1. Do("destroy", c) /\ Done /\ "destroy" \in {"stop", "save", "destroy"}
  BY DEF Destroy
<1>2. /\ listening' = listening /\ mdns' = mdns /\ book' = book
      /\ workers' = workers /\ mem' = mem /\ disk' = disk
      /\ intended' = intended /\ unread' = unread
      /\ ptr' = IF ptr[c] = "null" THEN ptr ELSE [ptr EXCEPT ![c] = "freed"]
  BY DEF Destroy, runtime, peers
<1>3. Stepped("destroy", c)
  BY <1>1, Advance
<1>4. ptr' \in [Components -> {"null", "live", "freed"}]
  BY <1>2 DEF IInv, TypeOK
<1>5. TypeOK'
  BY <1>1, <1>2, <1>3, <1>4 DEF Done, Stepped, IInv, TypeOK
<1>6. ASSUME NEW d \in Components
      PROVE  \/ ptr'[d] = ptr[d] /\ (<<"destroy", c>> = <<"destroy", d>> => ptr[d] # "live")
             \/ ptr'[d] = "freed" /\ <<"destroy", c>> = <<"destroy", d>>
  BY <1>2 DEF IInv, TypeOK
<1>7. workers' = (workers /\ <<"destroy", c>> # <<"stop", "pool">>)
  BY <1>2 DEF IInv, TypeOK
<1> QED
  BY <1>1, <1>2, <1>5, <1>6, <1>7, TeardownStep

\* A teardown at the end of its list has destroyed everything.
LEMMA FinishIInv ==
  ASSUME IInv, Finish PROVE IInv'
<1>1. /\ todo = <<>> /\ mode \in {"unwinding", "stopping"}
      /\ mode' = (IF mode = "stopping" THEN "stopped" ELSE "failed")
      /\ enabled' = enabled /\ todo' = todo
      /\ ptr' = ptr /\ workers' = workers /\ mem' = mem /\ disk' = disk
      /\ intended' = intended /\ unread' = unread
      /\ listening' = listening /\ mdns' = mdns /\ book' = book
  BY DEF Finish, runtime, peers
<1>2. Rest = {}
  BY <1>1 DEF Rest, Elements
<1>3. TypeOK'
  BY <1>1 DEF IInv, TypeOK
<1>4. Program'
  BY <1>1 DEF IInv, Program, Busy
<1>5. Ended'
  <2>1. CASE mode = "stopping"
    BY <1>1, <1>2, <2>1 DEF IInv, Stopping, Ended
  <2>2. CASE mode = "unwinding"
    BY <1>1, <1>2, <2>2 DEF IInv, Unwinding, Ended
  <2> QED
    BY <1>1, <2>1, <2>2
<1>6. Starting' /\ Serving' /\ Unwinding' /\ Stopping'
  BY <1>1 DEF Starting, Serving, Unwinding, Stopping
<1> QED
  BY <1>3, <1>4, <1>5, <1>6 DEF IInv

\* A request is served only while the peer-book actor is open: after the peers were
\* loaded, and before they are saved.
LEMMA ServePeerRequestIInv ==
  ASSUME IInv, NEW p \in Peers, ServePeerRequest(p) PROVE IInv'
<1>1. /\ book = "open" /\ mode' = mode /\ todo' = todo /\ enabled' = enabled
      /\ ptr' = ptr /\ workers' = workers /\ disk' = disk
      /\ listening' = listening /\ mdns' = mdns /\ book' = book
  BY DEF ServePeerRequest, machine, runtime
<1>2. /\ mem' \in SUBSET Peers /\ intended' \in SUBSET Peers /\ unread' \in SUBSET Peers
      /\ mem = intended \ unread => mem' = intended' \ unread'
  BY DEF ServePeerRequest, IInv, TypeOK
<1>3. TypeOK'
  BY <1>1, <1>2 DEF IInv, TypeOK
<1>4. Rest' = Rest /\ \A o : Past(o)' <=> Past(o)
  BY <1>1 DEF Rest, Past
<1>5. Program'
  BY <1>1, <1>4 DEF IInv, Program
<1>6. Starting'
  <2>1. SUFFICES ASSUME mode = "starting" PROVE Starting'
    BY <1>1 DEF Starting
  <2>2. Past(<<"start", "book">>)
    BY <1>1, <2>1 DEF IInv, Starting
  <2>3. <<"load", "peers">> \in Rest =>
          Rank("starting", <<"start", "book">>) < Rank("starting", <<"load", "peers">>)
    BY <2>1, <2>2 DEF Past
  <2>4. <<"load", "peers">> \notin Rest
    BY <2>3, StartRanks
  <2>5. mem' = intended' \ unread'
    BY <1>2, <2>1, <2>4 DEF IInv, Starting
  <2> QED
    BY <1>1, <1>4, <2>1, <2>4, <2>5 DEF IInv, Starting
<1>7. Serving'
  BY <1>1, <1>2 DEF IInv, Serving
<1>8. Unwinding'
  BY <1>1, <1>4 DEF IInv, Unwinding
<1>9. Stopping'
  <2>1. SUFFICES ASSUME mode = "stopping" PROVE Stopping'
    BY <1>1 DEF Stopping
  <2>2. <<"save", "peers">> \in Rest /\ mem' = intended' \ unread'
    BY <1>1, <1>2, <2>1 DEF IInv, Stopping
  <2> QED
    BY <1>1, <1>4, <2>1, <2>2 DEF IInv, Stopping
<1>10. Ended'
  BY <1>1 DEF IInv, Ended
<1> QED
  BY <1>3, <1>5, <1>6, <1>7, <1>8, <1>9, <1>10 DEF IInv

\* The process ends, and its memory with it.
LEMMA DieIInv ==
  ASSUME IInv, Die PROVE IInv'
<1>1. mode' = "dead" /\ todo' = <<>>
  BY DEF Die
<1>2. TypeOK'
  <2>1. \A i \in DOMAIN todo' : FALSE
    BY <1>1
  <2> QED
    BY <1>1, <2>1 DEF Die, IInv, TypeOK
<1>3. Program'
  BY <1>1 DEF Program, Busy
<1>4. Ended'
  BY <1>1 DEF Die, Ended
<1>5. Starting' /\ Serving' /\ Unwinding' /\ Stopping'
  BY <1>1 DEF Starting, Serving, Unwinding, Stopping
<1> QED
  BY <1>2, <1>3, <1>4, <1>5 DEF IInv

\* A process starts with nothing created.
LEMMA InitIInv == Init => IInv
<1> SUFFICES ASSUME Init PROVE IInv
  OBVIOUS
<1>1. TypeOK
  <2>1. \A i \in DOMAIN todo : FALSE
    BY DEF Init
  <2> QED
    BY <2>1 DEF Init, TypeOK
<1>2. Program
  BY DEF Init, Program, Busy
<1>3. Starting /\ Serving /\ Unwinding /\ Stopping /\ Ended
  BY DEF Init, Starting, Serving, Unwinding, Stopping, Ended
<1> QED
  BY <1>1, <1>2, <1>3 DEF IInv

\* Every step of the main thread and beside it keeps the invariant.
LEMMA NextIInv == IInv /\ [Next]_vars => IInv'
<1> SUFFICES ASSUME IInv, [Next]_vars PROVE IInv'
  OBVIOUS
<1>1. CASE Begin
  BY <1>1, BeginIInv
<1>2. CASE LeavePoll
  BY <1>2, LeavePollIInv
<1>3. CASE Finish
  BY <1>3, FinishIInv
<1>4. ASSUME NEW c \in Components \cup Checks, CreateSucceeds(c) PROVE IInv'
  BY <1>4, CreateSucceedsIInv
<1>5. ASSUME NEW c \in Components \cup Checks, CreateFails(c) PROVE IInv'
  BY <1>5, CreateFailsIInv
<1>6. ASSUME NEW c \in Optional, Listen(c) PROVE IInv'
  BY <1>6, ListenIInv
<1>7. ASSUME NEW c \in Optional, StopFrontEnd(c) PROVE IInv'
  BY <1>7, StopFrontEndIInv
<1>8. ASSUME NEW c \in Components, Destroy(c) PROVE IInv'
  BY <1>8, DestroyIInv
<1>9. CASE StartMdns \/ LoadPeers \/ StartBook \/ StartConnections
  BY <1>9, StartMdnsIInv, LoadPeersIInv, StartBookIInv, StartConnectionsIInv
<1>10. CASE StopMdns \/ StopBook \/ SavePeers \/ StopConnections \/ StopPool
  BY <1>10, StopMdnsIInv, StopBookIInv, SavePeersIInv, StopConnectionsIInv, StopPoolIInv
<1>11. ASSUME NEW p \in Peers, ServePeerRequest(p) PROVE IInv'
  BY <1>11, ServePeerRequestIInv
<1>12. CASE Die
  BY <1>12, DieIInv
<1>13. CASE UNCHANGED vars
  <2>1. /\ mode' = mode /\ todo' = todo /\ enabled' = enabled
        /\ ptr' = ptr /\ workers' = workers /\ mem' = mem /\ disk' = disk
        /\ intended' = intended /\ unread' = unread
        /\ listening' = listening /\ mdns' = mdns /\ book' = book
    BY <1>13 DEF vars, machine, runtime, peers
  <2>2. Rest' = Rest /\ \A o : Past(o)' <=> Past(o)
    BY <2>1 DEF Rest, Past
  <2>3. TypeOK' /\ Program'
    BY <2>1, <2>2 DEF IInv, TypeOK, Program
  <2>4. Starting' /\ Serving'
    BY <2>1, <2>2 DEF IInv, Starting, Serving
  <2>5. Unwinding' /\ Stopping' /\ Ended'
    BY <2>1, <2>2 DEF IInv, Unwinding, Stopping, Ended
  <2> QED
    BY <2>3, <2>4, <2>5 DEF IInv
<1> QED
  BY <1>1, <1>2, <1>3, <1>4, <1>5, <1>6, <1>7, <1>8, <1>9, <1>10, <1>11, <1>12, <1>13 DEF Next

\* Hence it always holds.
LEMMA SpecIInv == Spec => []IInv
  BY InitIInv, NextIInv, PTL DEF Spec

-----------------------------------------------------------------------------

\* What a component points to is destroyed after it: in _shutdown, and, the
\* authority and the network apart, in every unwinding.
LEMMA NeedsOrdered ==
  ASSUME NEW c \in Components, NEW d \in Needs(c)
  PROVE  /\ d \in Components /\ DestroyRank(c) < DestroyRank(d)
         /\ d \notin {"authority", "network"} => UndoRank(c) < UndoRank(d)
<1>1. d \in Components
  BY DEF Needs, Storage, Components, Optional, Unchecked
<1>2. DestroyRank(c) < DestroyRank(d)
  BY DEF Needs, Storage, Components, Optional, Unchecked, DestroyRank
<1>3. d \notin {"authority", "network"} => UndoRank(c) < UndoRank(d)
  BY DEF Needs, Storage, Components, Optional, Unchecked, UndoRank
<1> QED
  BY <1>1, <1>2, <1>3

\* A freed component is behind the main thread, a live one ahead of it.
LEMMA IInvNothingDangles == IInv => NothingDangles
<1> SUFFICES ASSUME IInv, NEW c \in Components, ptr[c] = "live",
                    NEW d \in Needs(c) \ (IF mode = "unwinding" THEN {"authority", "network"} ELSE {}),
                    ptr[d] = "freed"
             PROVE  FALSE
  BY DEF NothingDangles
<1>1. /\ d \in Components /\ DestroyRank(c) < DestroyRank(d)
      /\ d \notin {"authority", "network"} => UndoRank(c) < UndoRank(d)
  BY NeedsOrdered
<1>2. CASE mode = "stopping"
  <2>1. <<"destroy", c>> \in Rest /\ Past(<<"destroy", d>>)
    BY <1>1, <1>2 DEF IInv, Stopping
  <2>2. DestroyRank(d) < DestroyRank(c)
    BY <1>2, <2>1, Ranks DEF Past
  <2> QED
    BY <1>1, <2>2, Ranks
<1>3. CASE mode = "unwinding"
  <2>1. c # "authority"
    BY DEF Needs
  <2>2. <<"destroy", c>> \in Rest /\ Past(<<"destroy", d>>)
    BY <1>1, <1>3, <2>1 DEF IInv, Unwinding
  <2>3. UndoRank(d) < UndoRank(c)
    BY <1>3, <2>2, Ranks DEF Past
  <2>4. UndoRank(c) < UndoRank(d)
    BY <1>1, <1>3
  <2> QED
    BY <2>3, <2>4, Ranks
<1>4. CASE mode \in {"starting", "serving"}
  BY <1>1, <1>4 DEF IInv, Starting, Serving
<1>5. CASE mode \in {"stopped", "failed", "dead"}
  <2>1. c # "authority"
    BY DEF Needs
  <2> QED
    BY <1>5, <2>1 DEF IInv, Ended
<1> QED
  BY <1>2, <1>3, <1>4, <1>5 DEF IInv, TypeOK

\* What is at the head of the list is not behind the main thread, and at the end of
\* the list nothing is ahead of it.
LEMMA IInvDestroyedOnce == IInv => DestroyedOnce
<1> SUFFICES ASSUME IInv PROVE DestroyedOnce
  OBVIOUS
<1>1. ASSUME NEW c \in Components, Do("destroy", c) PROVE ptr[c] # "freed"
  <2>1. mode \in Busy /\ todo \in Seq(Ops) /\ Sorted(mode, todo)
        /\ (\A r \in Rest : r[1] \in Verbs(mode)) /\ todo # <<>> /\ Head(todo) = <<"destroy", c>>
    BY <1>1 DEF IInv, Program, Do
  <2>2. <<"destroy", c>> \in Rest
    BY <2>1, TakeFirst DEF Rest
  <2>3. mode \in {"stopping", "unwinding"}
    <3>1. <<"destroy", c>>[1] = "destroy"
      OBVIOUS
    <3>2. "destroy" \in Verbs(mode)
      BY <2>1, <2>2, <3>1
    <3> QED
      BY <2>1, <3>2 DEF Verbs, Busy
  <2>4. ptr[c] = "freed" => Past(<<"destroy", c>>)
    BY <2>3 DEF IInv, Stopping, Unwinding
  <2>5. ~Past(<<"destroy", c>>)
    <3>1. Past(<<"destroy", c>>) =>
            Rank(mode, <<"destroy", c>>) < Rank(mode, <<"destroy", c>>)
      BY <2>2 DEF Past
    <3>2. Rank(mode, <<"destroy", c>>) \in Nat
      BY <2>3, Ranks
    <3> QED
      BY <3>1, <3>2
  <2> QED
    BY <2>4, <2>5
<1>2. NothingLeaks
  BY DEF IInv, Ended, NothingLeaks
<1> QED
  BY <1>1, <1>2 DEF DestroyedOnce, NoDoubleDestroy

\* The ranks of the front ends, of the pool and of the destructions in _shutdown.
LEMMA IInvQuiet == IInv => QuietBeforeDestroy
<1> SUFFICES ASSUME IInv, mode = "stopping"
             PROVE  /\ ~workers => listening = {}
                    /\ workers => \A c \in Components : ptr[c] # "freed"
  BY DEF QuietBeforeDestroy
<1>1. ASSUME ~workers, NEW c \in listening PROVE FALSE
  <2>1. c \in Optional /\ <<"stop", c>> \in Rest /\ Past(<<"stop", "pool">>)
    BY <1>1 DEF IInv, TypeOK, Stopping
  <2>2. Rank("stopping", <<"stop", "pool">>) < Rank("stopping", <<"stop", c>>)
    BY <2>1 DEF Past
  <2> QED
    BY <2>1, <2>2, StopRanks
<1>2. ASSUME workers, NEW c \in Components, ptr[c] = "freed" PROVE FALSE
  <2>1. <<"stop", "pool">> \in Rest /\ Past(<<"destroy", c>>)
    BY <1>2 DEF IInv, Stopping
  <2>2. DestroyRank(c) < 10
    BY <2>1, Ranks, StopRanks DEF Past
  <2> QED
    BY <2>2, Ranks
<1> QED
  BY <1>1, <1>2

\* The ranks of what starts and stops the actor and mDNS, around loading and saving.
LEMMA IInvPeerLists == IInv => PeerListsExclusive
<1> SUFFICES ASSUME IInv PROVE PeerListsExclusive
  OBVIOUS
<1>1. ASSUME NEW op, NEW c, Do(op, c)
      PROVE  /\ mode \in Busy /\ op \in Verbs(mode) /\ <<op, c>> \in Rest
             /\ \A r \in Rest : r = <<op, c>> \/ Rank(mode, <<op, c>>) < Rank(mode, r)
  <2>1. mode \in Busy /\ todo \in Seq(Ops) /\ Sorted(mode, todo)
        /\ (\A r \in Rest : r[1] \in Verbs(mode)) /\ todo # <<>> /\ Head(todo) = <<op, c>>
    BY <1>1 DEF IInv, Program, Do
  <2>2. <<op, c>> \in Rest
        /\ \A r \in Rest : r = <<op, c>> \/ Rank(mode, <<op, c>>) < Rank(mode, r)
    BY <2>1, TakeFirst DEF Rest
  <2>3. <<op, c>>[1] = op
    OBVIOUS
  <2> QED
    BY <2>1, <2>2, <2>3
<1>2. ASSUME Do("load", "peers"), book = "open" PROVE FALSE
  <2>1. mode = "starting" /\ <<"load", "peers">> \in Rest
    BY <1>1, <1>2 DEF Verbs, Busy
  <2>2. Rank("starting", <<"start", "book">>) < Rank("starting", <<"load", "peers">>)
    BY <1>2, <2>1 DEF IInv, Starting, Past
  <2> QED
    BY <2>2, StartRanks
<1>3. ASSUME Do("save", "peers"), book = "open" \/ mdns PROVE FALSE
  <2>1. mode \in {"stopping", "unwinding"} /\ <<"save", "peers">> \in Rest
        /\ \A r \in Rest : r = <<"save", "peers">>
                             \/ Rank(mode, <<"save", "peers">>) < Rank(mode, r)
    BY <1>1, <1>3 DEF Verbs, Busy
  <2>2. mode = "stopping"
    BY <1>3, <2>1 DEF IInv, Unwinding
  <2>3. <<"stop", "book">> \in Rest \/ <<"stop", "mdns">> \in Rest
    BY <1>3, <2>2 DEF IInv, Stopping
  <2>4. \/ Rank("stopping", <<"save", "peers">>) < Rank("stopping", <<"stop", "book">>)
        \/ Rank("stopping", <<"save", "peers">>) < Rank("stopping", <<"stop", "mdns">>)
    BY <2>1, <2>2, <2>3
  <2> QED
    BY <2>4, StopRanks
<1> QED
  BY <1>2, <1>3 DEF PeerListsExclusive

\* The variables keep their types.
THEOREM ResourceTypes == Spec => []TypeOK
<1>1. IInv => TypeOK
  BY DEF IInv
<1> QED
  BY <1>1, SpecIInv, PTL

\* For every choice of transports, every failure of _startup and every set of peers: no
\* component outlives one it points to, but for the authority and the network while a
\* failed start is unwound.
THEOREM NoDanglingComponent == Spec => []NothingDangles
  BY SpecIInv, IInvNothingDangles, PTL

\* What _startup creates is never destroyed twice, by _shutdown or by an unwinding, and
\* is not left behind, the authority of a failed start excepted.
THEOREM ComponentsDestroyedOnce == Spec => []DestroyedOnce
  BY SpecIInv, IInvDestroyedOnce, PTL

\* _shutdown stops every front end before the pool and destroys nothing before that.
THEOREM ShutdownQuiesces == Spec => []QuietBeforeDestroy
  BY SpecIInv, IInvQuiet, PTL

\* The main thread loads and saves the peer lists only while the peer-book actor is
\* closed, and saves them only once mDNS has stopped.
THEOREM PeerListsSafe == Spec => []PeerListsExclusive
  BY SpecIInv, IInvPeerLists, PTL

\* No stored peer that was read and no accepted peer request is lost by a _shutdown
\* that ran to its end.
THEOREM NoPeerLost == Spec => []PeersSurviveStop
<1>1. IInv => PeersSurviveStop
  BY DEF IInv, Ended, PeersSurviveStop
<1> QED
  BY <1>1, SpecIInv, PTL
=============================================================================

---------------------------- MODULE MetricsServer ----------------------------
(***************************************************************************)
(* offs-metrics (src/offs-metrics/metrics_server.c): a table of the latest *)
(* topology report of every node, filled by POST /report, read by GET      *)
(* /status and GET /metrics, and freed when the process ends.              *)
(*                                                                         *)
(* The handlers run on the workers of the scheduler pool and share the     *)
(* table without a lock.  A report owns one allocation (its peer snapshots *)
(* and ring entries, which live and die together); the allocation of the   *)
(* i-th decoded report is i, and 0 is NULL.                                *)
(***************************************************************************)
EXTENDS Naturals, FiniteSets

CONSTANTS
  Nodes,        \* nodes that report
  MAX_NODES,    \* slots of g_nodes
  Workers,      \* workers of the scheduler pool
  MaxReports    \* bound: reports decoded in one behaviour

ASSUME MetricsAssumption ==
  MAX_NODES \in Nat \ {0} /\ MaxReports \in Nat /\ Workers # {} /\ Nodes # {}

VARIABLES
  g_nodes,        \* slot -> [id, latest]
  g_node_count,
  worker,         \* worker -> the handler it runs
  heap,           \* allocations that are live
  reports,        \* reports decoded so far
  main,           \* control of main()
  fault,          \* freed memory or memory past the table has been touched
  acked,          \* node -> its last report answered with 200, or NULL
  refused,        \* [nodes, reports] answered with "node table full"
  raced           \* two handlers have touched one slot at a time, one to write

vars == <<g_nodes, g_node_count, worker, heap, reports, main, fault, acked, refused, raced>>

NULL == 0
NoNode == "none"
Slots == 1..MAX_NODES
Allocations == 1..MaxReports
Idle == [pc |-> "idle", node |-> NoNode, buffer |-> NULL, slot |-> 0]

TypeOK ==
  /\ g_nodes \in [Slots -> [id : Nodes \cup {NoNode}, latest : {NULL} \cup Allocations]]
  /\ g_node_count \in 0..(MAX_NODES + Cardinality(Workers))
  /\ worker \in [Workers -> [pc : {"idle", "scan", "fill", "bump", "free", "assign",
                                    "load", "use"},
                             node : Nodes \cup {NoNode},
                             buffer : {NULL} \cup Allocations,
                             slot : 0..(MAX_NODES + Cardinality(Workers) + 1)]]
  /\ heap \subseteq Allocations /\ reports \in 0..MaxReports
  /\ main \in {"start", "serving", "deaf", "stop", "destroy", "join", "free", "exited",
               "killed"}
  /\ fault \in BOOLEAN /\ raced \in BOOLEAN
  /\ acked \in [Nodes -> {NULL} \cup Allocations]
  /\ refused \in [nodes : SUBSET Nodes, reports : SUBSET Allocations]

Init ==
  /\ g_nodes = [s \in Slots |-> [id |-> NoNode, latest |-> NULL]]
  /\ g_node_count = 0 /\ worker = [w \in Workers |-> Idle]
  /\ heap = {} /\ reports = 0 /\ main = "start" /\ fault = FALSE
  /\ acked = [n \in Nodes |-> NULL] /\ refused = [nodes |-> {}, reports |-> {}]
  /\ raced = FALSE

Goto(w, pc) == worker' = [worker EXCEPT ![w].pc = pc]
Finish(w) == worker' = [worker EXCEPT ![w] = Idle]

-----------------------------------------------------------------------------
(* POST /report *)

\* _handle_report decodes the body into a fresh allocation.  (An empty or
\* malformed body is answered with 400 and changes nothing.)
Report(w, n) ==
  /\ main = "serving" /\ worker[w].pc = "idle" /\ reports < MaxReports
  /\ reports' = reports + 1 /\ heap' = heap \cup {reports + 1}
  /\ worker' = [worker EXCEPT ![w] = [Idle EXCEPT !.pc = "scan", !.node = n,
                                                  !.buffer = reports + 1]]
  /\ UNCHANGED <<g_nodes, g_node_count, main, fault, acked, refused>>

\* _find_or_create_node: the slot of the node, else the next free one, else
\* NULL, which is answered with 500; the decoded report is then not freed.
Scan(w) ==
  LET n == worker[w].node
      found == {s \in Slots : s <= g_node_count /\ g_nodes[s].id = n}
  IN
  /\ worker[w].pc = "scan"
  /\ \/ /\ \E s \in found :
             /\ \A other \in found : s <= other
             /\ worker' = [worker EXCEPT ![w].pc = "free", ![w].slot = s]
        /\ UNCHANGED <<refused, fault>>
     \/ /\ found = {} /\ g_node_count < MAX_NODES
        /\ worker' = [worker EXCEPT ![w].pc = "fill", ![w].slot = g_node_count + 1]
        /\ UNCHANGED <<refused, fault>>
     \/ /\ found = {} /\ g_node_count >= MAX_NODES
        /\ fault' = (fault \/ g_node_count > MAX_NODES)
        /\ refused' = [nodes |-> refused.nodes \cup {n},
                       reports |-> refused.reports \cup {worker[w].buffer}]
        /\ Finish(w)
  /\ UNCHANGED <<g_nodes, g_node_count, heap, reports, main, acked>>

\* The new entry is cleared and gets its node ...
Fill(w) ==
  /\ worker[w].pc = "fill"
  /\ g_nodes' = [g_nodes EXCEPT ![worker[w].slot] =
                   [id |-> worker[w].node, latest |-> NULL]]
  /\ Goto(w, "bump")
  /\ UNCHANGED <<g_node_count, heap, reports, main, fault, acked, refused>>

\* A plausible bug: the new entry is not counted.
BumpMissing(w) ==
  /\ worker[w].pc = "bump"
  /\ Goto(w, "free")
  /\ UNCHANGED <<g_nodes, g_node_count, heap, reports, main, fault, acked, refused>>

\* ... and g_node_count++ publishes it.  Of two increments at once one may be lost.
Bump(w) ==
  /\ worker[w].pc = "bump"
  /\ g_node_count' \in {g_node_count + 1, worker[w].slot}
  /\ Goto(w, "free")
  /\ UNCHANGED <<g_nodes, heap, reports, main, fault, acked, refused>>

\* A plausible bug: the previous report is overwritten and not freed.
FreeMissing(w) ==
  /\ worker[w].pc = "free"
  /\ Goto(w, "assign")
  /\ UNCHANGED <<g_nodes, g_node_count, heap, reports, main, fault, acked, refused>>

\* A plausible bug: the struct is copied into the entry, and its arrays are freed.
FreeNew(w) ==
  /\ worker[w].pc = "free"
  /\ heap' = heap \ {worker[w].buffer}
  /\ Goto(w, "assign")
  /\ UNCHANGED <<g_nodes, g_node_count, reports, main, fault, acked, refused>>

\* The previous report is freed; the entry still points to it.
Free(w) ==
  LET old == g_nodes[worker[w].slot].latest IN
  /\ worker[w].pc = "free"
  /\ fault' = (fault \/ (old # NULL /\ old \notin heap))
  /\ heap' = heap \ {old}
  /\ Goto(w, "assign")
  /\ UNCHANGED <<g_nodes, g_node_count, reports, main, acked, refused>>

\* The entry takes the new report over, and 200 is answered.
Assign(w) ==
  /\ worker[w].pc = "assign"
  /\ g_nodes' = [g_nodes EXCEPT ![worker[w].slot].latest = worker[w].buffer]
  /\ acked' = [acked EXCEPT ![worker[w].node] = worker[w].buffer]
  /\ Finish(w)
  /\ UNCHANGED <<g_node_count, heap, reports, main, fault, refused>>

-----------------------------------------------------------------------------
(* GET /status and GET /metrics: the loop over the entries. *)

\* The loop reads g_node_count again before every entry and ends past the last.
Enter(w, s) ==
  IF s <= g_node_count
    THEN worker' = [worker EXCEPT ![w] = [Idle EXCEPT !.pc = "load", !.slot = s]]
    ELSE Finish(w)

Read(w) ==
  /\ main = "serving" /\ worker[w].pc = "idle" /\ g_node_count > 0
  /\ Enter(w, 1)
  /\ UNCHANGED <<g_nodes, g_node_count, heap, reports, main, fault, acked, refused>>

\* entry->latest.peer_snapshots is loaded ...
Load(w) ==
  /\ worker[w].pc = "load"
  /\ IF worker[w].slot \in Slots
       THEN /\ worker' = [worker EXCEPT ![w].pc = "use",
                                        ![w].buffer = g_nodes[worker[w].slot].latest]
            /\ UNCHANGED fault
       ELSE fault' = TRUE /\ Finish(w)
  /\ UNCHANGED <<g_nodes, g_node_count, heap, reports, main, acked, refused>>

\* A plausible bug: the loop never advances.
UseForever(w) ==
  /\ worker[w].pc = "use"
  /\ Enter(w, worker[w].slot) /\ UNCHANGED fault
  /\ UNCHANGED <<g_nodes, g_node_count, heap, reports, main, acked, refused>>

\* ... and its snapshots are summed up or listed.
Use(w) ==
  LET buffer == worker[w].buffer IN
  /\ worker[w].pc = "use"
  /\ fault' = (fault \/ (buffer # NULL /\ buffer \notin heap))
  /\ Enter(w, worker[w].slot + 1)
  /\ UNCHANGED <<g_nodes, g_node_count, heap, reports, main, acked, refused>>

Handler(w) ==
  Scan(w) \/ Fill(w) \/ Bump(w) \/ Free(w) \/ Assign(w) \/ Load(w) \/ Use(w)

-----------------------------------------------------------------------------
(* main *)

Stored == {g_nodes[s].latest : s \in {s \in Slots : s <= g_node_count}} \ {NULL}

\* The pool or the HTTP server cannot be created and main returns 1; or main
\* waits, whether http_server_listen has worked or not.
Start ==
  /\ main = "start" /\ main' \in {"exited", "serving", "deaf"}
  /\ UNCHANGED <<g_nodes, g_node_count, worker, heap, reports, fault, acked, refused>>

\* SIGINT, SIGTERM or a console event.  The POSIX build calls sigwait with the
\* signals unblocked, and their default action may end the process instead.
Terminate ==
  /\ main \in {"serving", "deaf"} /\ main' \in {"stop", "killed"}
  /\ UNCHANGED <<g_nodes, g_node_count, worker, heap, reports, fault, acked, refused>>

\* http_server_stop: no request is accepted any more.  http_server_destroy.
StopServer ==
  /\ \/ main = "stop" /\ main' = "destroy"
     \/ main = "destroy" /\ main' = "join"
  /\ UNCHANGED <<g_nodes, g_node_count, worker, heap, reports, fault, acked, refused>>

\* scheduler_pool_stop returns once every worker is through.
Join ==
  /\ main = "join" /\ \A w \in Workers : worker[w].pc = "idle"
  /\ main' = "free"
  /\ UNCHANGED <<g_nodes, g_node_count, worker, heap, reports, fault, acked, refused>>

\* The stored reports are freed, one free per entry, and main returns.
FreeReports ==
  /\ main = "free"
  /\ fault' = \/ fault \/ g_node_count > MAX_NODES \/ ~(Stored \subseteq heap)
              \/ \E s, t \in Slots : /\ s < t /\ t <= g_node_count
                                     /\ g_nodes[s].latest = g_nodes[t].latest
                                     /\ g_nodes[s].latest # NULL
  /\ heap' = heap \ Stored /\ main' = "exited"
  /\ UNCHANGED <<g_nodes, g_node_count, worker, reports, acked, refused>>

\* Once main has returned or the process is killed nothing runs.
Ended == main \in {"exited", "killed"}

Registering(w) == worker[w].pc \in {"fill", "bump"}
Updates(w, s) == worker[w].pc \in {"fill", "bump", "free", "assign"} /\ worker[w].slot = s
Touches(w, s) == Updates(w, s) \/ (worker[w].pc \in {"load", "use"} /\ worker[w].slot = s)

\* Two handlers register at a time, or one updates an entry another one uses.
Overlap ==
  \E v, w \in Workers :
    /\ v # w
    /\ (Registering(v) /\ Registering(w)) \/ \E s \in Slots : Updates(v, s) /\ Touches(w, s)

Step(A) == ~Ended /\ A /\ raced' = (raced \/ Overlap')

Request == \E w \in Workers : Read(w) \/ \E n \in Nodes : Report(w, n)
Run == Step(StopServer \/ Join \/ FreeReports \/ \E w \in Workers : Handler(w))

Next == Step(Start) \/ Step(Terminate) \/ Step(Request) \/ Run \/ (Ended /\ UNCHANGED vars)

\* The operating system runs the workers and main; nobody has to send a request
\* or a signal.
Spec == Init /\ [][Next]_vars /\ WF_vars(Run)

-----------------------------------------------------------------------------
(* Properties *)

\* As long as no two handlers have met in an entry, none has touched a freed
\* report or memory past the table, and neither has the freeing at the end of
\* main, which waits for the workers first.
MemorySafe == ~raced => ~fault

\* As long as no two handlers have met, a node whose report was answered with
\* 200 has one entry, which holds that report (or its next one, while that is
\* being stored), and is never told that the table is full.
LastReportKept ==
  ~raced =>
    \A n \in Nodes : acked[n] # NULL =>
      LET mine == {s \in Slots : s <= g_node_count /\ g_nodes[s].id = n} IN
      /\ Cardinality(mine) = 1
      /\ \A s \in mine : g_nodes[s].latest = acked[n]
      /\ n \notin refused.nodes

\* When main returns, every report has been freed but the ones that found the
\* table full.
NoReportLeaks == main = "exited" /\ ~raced => heap \subseteq refused.reports

\* A shutdown that has begun comes to its end, whatever the handlers were doing.
ShutdownEnds == main = "stop" ~> main = "exited"

-----------------------------------------------------------------------------
(* What a reader of the code would expect and it does not do; the README names *)
(* the circumstances.                                                        *)

\* Handlers that run at the same time do not corrupt memory.
ConcurrentlySafe == ~fault

\* The HTTP server outlives its handlers.
ServerOutlivesHandlers == main = "join" => \A w \in Workers : worker[w].pc = "idle"

\* Every report is freed when main returns.
AllReportsFreed == main = "exited" => heap = {}
=============================================================================

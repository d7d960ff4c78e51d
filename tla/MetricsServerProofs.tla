------------------------- MODULE MetricsServerProofs -------------------------
(***************************************************************************)
(* The table of offs-metrics is sound for any number of nodes, entries,    *)
(* workers and reports as long as no two handlers have met in an entry.    *)
(***************************************************************************)
EXTENDS MetricsServer, TLAPS, FiniteSetTheorems

-----------------------------------------------------------------------------
(* The invariant. *)

Storing == {"scan", "fill", "bump", "free", "assign"}
Used(s) == s \in Slots /\ s <= g_node_count

Shape ==
  /\ g_nodes \in [Slots -> [id : Nodes \cup {NoNode}, latest : 0..reports]]
  /\ g_node_count \in 0..MAX_NODES
  /\ worker \in [Workers -> [pc : {"idle", "load", "use"} \cup Storing,
                             node : Nodes \cup {NoNode}, buffer : 0..reports, slot : Nat]]
  /\ heap \subseteq 1..reports /\ reports \in Nat
  /\ acked \in [Nodes -> Nat] /\ refused \in [nodes : SUBSET Nodes, reports : SUBSET Nat]

\* The entries in use are of different nodes and own different reports.
Table ==
  \A s, t \in Slots : Used(s) /\ Used(t) /\ s # t =>
    /\ g_nodes[s].id # g_nodes[t].id
    /\ g_nodes[s].latest # NULL => g_nodes[s].latest # g_nodes[t].latest

\* An entry's report is live, but between its being freed and the next one.
Live ==
  main # "exited" =>
    \A s \in Slots : Used(s) =>
      \/ g_nodes[s].latest \in heap \cup {NULL}
      \/ \E w \in Workers : worker[w].pc = "assign" /\ worker[w].slot = s

\* A handler that stores a report owns it alone.
Owners ==
  \A w \in Workers : worker[w].pc \in Storing =>
    /\ worker[w].node \in Nodes /\ worker[w].buffer \in heap
    /\ \A s \in Slots : Used(s) => g_nodes[s].latest # worker[w].buffer
    /\ \A v \in Workers : v # w /\ worker[v].pc \in Storing =>
                            worker[v].buffer # worker[w].buffer

\* Where the handlers are in the table.
Placed(w) ==
  LET s == worker[w].slot IN
  /\ worker[w].pc \in {"fill", "bump"} =>
       /\ s = g_node_count + 1 /\ s \in Slots
       /\ \A t \in Slots : Used(t) => g_nodes[t].id # worker[w].node
  /\ worker[w].pc = "bump" => g_nodes[s].id = worker[w].node /\ g_nodes[s].latest = NULL
  /\ worker[w].pc \in {"free", "assign"} => Used(s) /\ g_nodes[s].id = worker[w].node
  /\ worker[w].pc = "assign" => g_nodes[s].latest \notin heap
  /\ worker[w].pc \in {"load", "use"} => Used(s)
  /\ worker[w].pc = "use" => worker[w].buffer = g_nodes[s].latest
Handlers == \A w \in Workers : Placed(w)

\* Every live report has an owner.
Covered ==
  \A b \in heap :
    \/ b \in refused.reports
    \/ main # "exited" /\ \E s \in Slots : Used(s) /\ g_nodes[s].latest = b
    \/ main # "exited" /\ \E w \in Workers : worker[w].pc \in Storing /\ worker[w].buffer = b

Kept ==
  \A n \in Nodes : acked[n] # NULL =>
    \E s \in Slots : Used(s) /\ g_nodes[s].id = n /\ g_nodes[s].latest = acked[n]

\* A node is refused by a full table that has no entry of it.
Full ==
  \A n \in refused.nodes :
    g_node_count = MAX_NODES /\ \A s \in Slots : g_nodes[s].id # n

Phases ==
  /\ main \in {"start", "free", "exited"} => \A w \in Workers : worker[w].pc = "idle"
  /\ main = "start" => g_node_count = 0

Safe ==
  /\ Shape /\ ~Overlap /\ Table /\ Live /\ Owners /\ Handlers /\ Covered /\ Kept /\ Full
  /\ Phases /\ fault = FALSE

IInv == raced \in BOOLEAN /\ (~raced => Safe)

-----------------------------------------------------------------------------
(* POST /report *)

\* Handlers that have not met do not write where another one is.
LEMMA Apart ==
  ASSUME Safe, NEW v \in Workers, NEW w \in Workers, v # w
  PROVE  /\ worker[v].pc \in {"fill", "bump"} => worker[w].pc \notin {"fill", "bump"}
         /\ worker[v].pc \in {"free", "assign"} /\ worker[v].slot \in Slots
              /\ worker[w].slot = worker[v].slot =>
              worker[w].pc \notin {"free", "assign", "load", "use"}
  BY DEF Safe, Overlap, Registering, Updates, Touches

\* The table is empty at the start.
LEMMA InitIInv == Init => IInv
<1> SUFFICES ASSUME Init PROVE IInv
  OBVIOUS
<1>1. \A w \in Workers : worker[w] = Idle
  BY DEF Init
<1>2. \A w \in Workers : worker[w].pc = "idle"
  BY <1>1 DEF Idle
<1>3. \A s \in Slots : ~Used(s)
  BY DEF Init, Used, Slots
<1>4. Shape
  <2>1. 0 \in 0..0 /\ 0 \in 0..MAX_NODES
    BY MetricsAssumption DEF MetricsAssumption
  <2> QED
    BY <2>1 DEF Init, Shape, Idle, NULL
<1>5. ~Overlap
  BY <1>2 DEF Overlap, Registering, Updates, Touches
<1>6. Table /\ Live /\ Full
  BY <1>3 DEF Init, Table, Live, Full
<1>7. Owners /\ Handlers /\ Covered /\ Kept /\ Phases
  BY <1>2, <1>3 DEF Init, Owners, Storing, Handlers, Placed, Covered, Kept, Phases
<1> QED
  BY <1>4, <1>5, <1>6, <1>7 DEF Init, IInv, Safe

\* The handler's state once it has decoded a report.
LEMMA DecodedReport ==
  ASSUME NEW n \in Nodes, NEW b \in Nat
  PROVE  [Idle EXCEPT !.pc = "scan", !.node = n, !.buffer = b] \in
           [pc : {"idle", "load", "use"} \cup Storing, node : Nodes \cup {NoNode},
            buffer : 0..b, slot : Nat]
<1>1. Idle \in [pc : {"idle", "load", "use"} \cup Storing, node : Nodes \cup {NoNode},
                buffer : 0..b, slot : Nat]
  BY DEF Idle, NULL
<1>2. b \in 0..b /\ "scan" \in {"idle", "load", "use"} \cup Storing
  BY DEF Storing
<1> QED
  BY <1>1, <1>2

\* A report is decoded into an allocation that nothing refers to.
LEMMA ReportKeepsSafe ==
  ASSUME Safe, NEW w \in Workers, NEW n \in Nodes, Report(w, n), ~Overlap'
  PROVE  Safe'
<1> DEFINE b == reports + 1
<1>1. /\ main = "serving" /\ worker[w].pc = "idle" /\ reports' = b
      /\ heap' = heap \cup {b}
      /\ worker' = [worker EXCEPT ![w] = [Idle EXCEPT !.pc = "scan", !.node = n, !.buffer = b]]
      /\ UNCHANGED <<g_nodes, g_node_count, main, fault, acked, refused>>
  BY DEF Report
<1>2. /\ g_nodes \in [Slots -> [id : Nodes \cup {NoNode}, latest : 0..reports]]
      /\ worker \in [Workers -> [pc : {"idle", "load", "use"} \cup Storing,
                                 node : Nodes \cup {NoNode}, buffer : 0..reports, slot : Nat]]
      /\ heap \subseteq 1..reports /\ reports \in Nat
  BY DEF Safe, Shape
<1>3. /\ worker'[w].pc = "scan" /\ worker'[w].node = n /\ worker'[w].buffer = b
      /\ worker'[w].slot = 0
      /\ \A v \in Workers : v # w => worker'[v] = worker[v]
  BY <1>1, <1>2 DEF Idle
<1>4. b \notin heap /\ b # NULL /\ b \in Nat /\ 0..reports \subseteq 0..b /\ 1..reports \subseteq 1..b
  BY <1>2 DEF NULL
<1>5. /\ \A s \in Slots : g_nodes[s].latest # b
      /\ \A v \in Workers : worker[v].buffer # b
  BY <1>2
<1>6. \A s : Used(s)' <=> Used(s)
  BY <1>1 DEF Used
<1>7. Shape'
  <2>1. g_nodes \in [Slots -> [id : Nodes \cup {NoNode}, latest : 0..b]]
    BY <1>2, <1>4
  <2>2. worker' \in [Workers -> [pc : {"idle", "load", "use"} \cup Storing,
                                 node : Nodes \cup {NoNode}, buffer : 0..b, slot : Nat]]
    <3>1. [Idle EXCEPT !.pc = "scan", !.node = n, !.buffer = b] \in
             [pc : {"idle", "load", "use"} \cup Storing, node : Nodes \cup {NoNode},
              buffer : 0..b, slot : Nat]
      BY <1>4, DecodedReport
    <3>2. worker \in [Workers -> [pc : {"idle", "load", "use"} \cup Storing,
                                  node : Nodes \cup {NoNode}, buffer : 0..b, slot : Nat]]
      <4> DEFINE R(B) == [pc : {"idle", "load", "use"} \cup Storing,
                          node : Nodes \cup {NoNode}, buffer : B, slot : Nat]
      <4>1. R(0..reports) \subseteq R(0..b)
        BY <1>4
      <4> QED
        BY <1>2, <4>1
    <3> QED
      BY <1>1, <3>1, <3>2
  <2>3. heap' \subseteq 1..b
    BY <1>1, <1>2, <1>4
  <2> QED
    BY <1>1, <1>4, <2>1, <2>2, <2>3 DEF Safe, Shape
<1> HIDE DEF b
<1>8. Table' /\ Kept' /\ Full'
  BY <1>1, <1>6 DEF Safe, Table, Kept, Full
<1>9. Live'
  BY <1>1, <1>3, <1>6 DEF Safe, Live
<1>10. Owners'
  BY <1>1, <1>3, <1>5, <1>6 DEF Safe, Owners, Storing
<1>11. Handlers'
  <2>1. \A s \in Slots : g_nodes[s].latest \notin heap => g_nodes[s].latest \notin heap'
    BY <1>1, <1>5
  <2> QED
    BY <1>1, <1>3, <1>6, <2>1 DEF Safe, Handlers, Placed, Used
<1>12. Covered'
  BY <1>1, <1>3, <1>6 DEF Safe, Covered, Storing
<1>13. Phases' /\ fault' = FALSE
  BY <1>1 DEF Safe, Phases
<1> QED
  BY <1>7, <1>8, <1>9, <1>10, <1>11, <1>12, <1>13 DEF Safe

\* What a step of the worker w leaves alone.
Moves(w, pc, slot) ==
  /\ worker'[w].pc = pc /\ worker'[w].slot = slot
  /\ worker'[w].node = worker[w].node /\ worker'[w].buffer = worker[w].buffer
  /\ \A v \in Workers : v # w => worker'[v] = worker[v]
Idles(w) ==
  /\ worker'[w].pc = "idle" /\ \A v \in Workers : v # w => worker'[v] = worker[v]
WorkerShape == worker \in [Workers -> [pc : {"idle", "load", "use"} \cup Storing,
                                       node : Nodes \cup {NoNode}, buffer : 0..reports,
                                       slot : Nat]]

\* What Goto and Finish do.
LEMMA GotoMoves ==
  ASSUME Shape, UNCHANGED reports, NEW w \in Workers, NEW pc \in Storing, Goto(w, pc)
  PROVE  Moves(w, pc, worker[w].slot) /\ WorkerShape'
  BY DEF Shape, Goto, Moves, WorkerShape

\* ... Finish leaves an idle worker.
LEMMA FinishIdles ==
  ASSUME Shape, UNCHANGED reports, NEW w \in Workers, Finish(w)
  PROVE  Idles(w) /\ WorkerShape'
<1>1. Idle \in [pc : {"idle", "load", "use"} \cup Storing, node : Nodes \cup {NoNode},
                buffer : 0..reports, slot : Nat] /\ Idle.pc = "idle"
  BY DEF Shape, Idle, NULL
<1> QED
  BY <1>1 DEF Shape, Finish, Idles, WorkerShape

\* The node has an entry; or it gets the next one; or the table is full.
LEMMA ScanKeepsSafe ==
  ASSUME Safe, NEW w \in Workers, Scan(w), ~Overlap'
  PROVE  Safe'
<1> DEFINE n == worker[w].node
           found == {s \in Slots : s <= g_node_count /\ g_nodes[s].id = n}
<1>1. worker[w].pc = "scan" /\ UNCHANGED <<g_nodes, g_node_count, heap, reports, main, acked>>
  BY DEF Scan
<1>2. n \in Nodes /\ worker[w].buffer \in heap
  BY <1>1 DEF Safe, Owners, Storing
<1>3. \A s : Used(s)' <=> Used(s)
  BY <1>1 DEF Used
<1>4. /\ g_node_count \in 0..MAX_NODES /\ MAX_NODES \in Nat
      /\ worker \in [Workers -> [pc : {"idle", "load", "use"} \cup Storing,
                                 node : Nodes \cup {NoNode}, buffer : 0..reports, slot : Nat]]
  BY MetricsAssumption DEF Safe, Shape, MetricsAssumption
<1>5. ASSUME NEW pc \in {"free", "fill"}, NEW s \in Slots,
             worker' = [worker EXCEPT ![w].pc = pc, ![w].slot = s],
             pc = "free" => Used(s) /\ g_nodes[s].id = n,
             pc = "fill" => /\ s = g_node_count + 1
                            /\ \A t \in Slots : Used(t) => g_nodes[t].id # n,
             UNCHANGED <<refused, fault>>
      PROVE  Safe'
  <2>1. Moves(w, pc, s) /\ worker' \in [Workers -> [pc : {"idle", "load", "use"} \cup Storing,
                              node : Nodes \cup {NoNode}, buffer : 0..reports, slot : Nat]]
    <3>1. s \in Nat
      BY <1>4 DEF Slots
    <3> DEFINE rec == [worker[w] EXCEPT !.pc = pc, !.slot = s]
    <3>2. /\ rec \in [pc : {"idle", "load", "use"} \cup Storing, node : Nodes \cup {NoNode},
                      buffer : 0..reports, slot : Nat]
          /\ rec.pc = pc /\ rec.slot = s /\ rec.node = worker[w].node
          /\ rec.buffer = worker[w].buffer
      BY <1>4, <3>1 DEF Storing
    <3>3. worker' = [worker EXCEPT ![w] = rec]
      BY <1>4, <1>5
    <3> HIDE DEF rec
    <3> QED
      BY <1>4, <3>2, <3>3 DEF Moves
  <2>2. Shape' /\ Table' /\ Kept' /\ Full'
    BY <1>1, <1>3, <1>5, <2>1 DEF Safe, Shape, Table, Kept, Full
  <2>3. Live' /\ Owners' /\ Covered'
    BY <1>1, <1>3, <1>5, <2>1 DEF Safe, Live, Owners, Covered, Moves, Storing
  <2>4. Handlers'
    BY <1>1, <1>3, <1>5, <2>1 DEF Safe, Handlers, Placed, Moves
  <2>5. Phases' /\ fault' = FALSE
    BY <1>1, <1>5 DEF Safe, Phases
  <2> QED
    BY <2>2, <2>3, <2>4, <2>5 DEF Safe
<1>6. CASE /\ found = {} /\ g_node_count >= MAX_NODES
           /\ fault' = (fault \/ g_node_count > MAX_NODES)
           /\ refused' = [nodes |-> refused.nodes \cup {n},
                          reports |-> refused.reports \cup {worker[w].buffer}]
           /\ Finish(w)
  <2>1. Idles(w) /\ WorkerShape'
    BY <1>1, <1>6, FinishIdles DEF Safe
  <2>2. g_node_count = MAX_NODES /\ \A s \in Slots : g_nodes[s].id # n
    BY <1>4, <1>6 DEF Slots
  <2>3. refused' \in [nodes : SUBSET Nodes, reports : SUBSET Nat]
    BY <1>2, <1>4, <1>6 DEF Safe, Shape
  <2>4. Shape' /\ Table' /\ Kept'
    BY <1>1, <1>3, <2>1, <2>3 DEF Safe, Shape, Table, Kept, WorkerShape
  <2>5. Full'
    BY <1>1, <1>6, <2>2 DEF Safe, Full
  <2>6. Live' /\ Owners'
    BY <1>1, <1>3, <2>1 DEF Safe, Live, Owners, Idles, Storing
  <2>7. Handlers'
    BY <1>1, <1>3, <2>1 DEF Safe, Handlers, Placed, Idles
  <2>8. Covered'
    BY <1>1, <1>3, <1>6, <2>1 DEF Safe, Covered, Idles
  <2>9. Phases'
    BY <1>1 DEF Safe, Phases
  <2>10. fault' = FALSE
    <3>1. ~(g_node_count > MAX_NODES)
      BY <1>4, <2>2
    <3> QED
      BY <1>6, <3>1, Zenon DEF Safe
  <2> QED
    BY <2>4, <2>5, <2>6, <2>7, <2>8, <2>9, <2>10 DEF Safe
<1>7. CASE /\ \E s \in found : worker' = [worker EXCEPT ![w].pc = "free", ![w].slot = s]
           /\ UNCHANGED <<refused, fault>>
  BY <1>5, <1>7 DEF Used
<1>8. CASE /\ found = {} /\ g_node_count < MAX_NODES
           /\ worker' = [worker EXCEPT ![w].pc = "fill", ![w].slot = g_node_count + 1]
           /\ UNCHANGED <<refused, fault>>
  <2>1. g_node_count + 1 \in Slots
    BY <1>4, <1>8 DEF Slots
  <2>2. \A t \in Slots : Used(t) => g_nodes[t].id # n
    BY <1>8 DEF Used
  <2> QED
    BY <1>5, <1>8, <2>1, <2>2
<1> QED
  BY <1>6, <1>7, <1>8 DEF Scan

\* The entry after the last one is filled.
LEMMA FillKeepsSafe ==
  ASSUME Safe, NEW w \in Workers, Fill(w), ~Overlap'
  PROVE  Safe'
<1> DEFINE e == worker[w].slot
<1>1. /\ worker[w].pc = "fill"
      /\ g_nodes' = [g_nodes EXCEPT ![e] = [id |-> worker[w].node, latest |-> NULL]]
      /\ Goto(w, "bump")
      /\ UNCHANGED <<g_node_count, heap, reports, main, fault, acked, refused>>
  BY DEF Fill
<1>2. /\ e = g_node_count + 1 /\ e \in Slots /\ worker[w].node \in Nodes
      /\ \A t \in Slots : Used(t) => g_nodes[t].id # worker[w].node
  BY <1>1 DEF Safe, Handlers, Placed, Owners, Storing
<1>3. g_node_count \in Nat /\ MAX_NODES \in Nat /\ reports \in Nat
  BY MetricsAssumption DEF Safe, Shape, MetricsAssumption
<1>4. Moves(w, "bump", e) /\ WorkerShape'
  BY <1>1, GotoMoves DEF Safe, Storing
<1>5. /\ \A s : Used(s)' <=> Used(s)
      /\ ~Used(e)
  BY <1>1, <1>2, <1>3 DEF Used
<1>6. g_nodes' \in [Slots -> [id : Nodes \cup {NoNode}, latest : 0..reports]]
  BY <1>1, <1>2, <1>3 DEF Safe, Shape, NULL
<1>7. /\ \A s \in Slots : s # e => g_nodes'[s] = g_nodes[s]
      /\ g_nodes'[e].id = worker[w].node /\ g_nodes'[e].latest = NULL
  BY <1>1, <1>2 DEF Safe, Shape
<1>8. \A v \in Workers : v # w => worker[v].pc \notin {"fill", "bump"}
  BY <1>1, Apart
<1> HIDE DEF e
<1>9. \A s \in Slots : Used(s) => g_nodes'[s] = g_nodes[s]
  BY <1>5, <1>7
<1>10. Shape'
  BY <1>1, <1>4, <1>6 DEF Safe, Shape, WorkerShape
<1>11. Table' /\ Kept'
  BY <1>1, <1>5, <1>9 DEF Safe, Table, Kept
<1>12. Full'
  BY <1>1, <1>2, <1>3 DEF Safe, Full, Slots
<1>13. Live'
  BY <1>1, <1>4, <1>5, <1>9 DEF Safe, Live, Moves
<1>14. Owners'
  BY <1>1, <1>4, <1>5, <1>9 DEF Safe, Owners, Moves, Storing
<1>15. Handlers'
  <2> SUFFICES ASSUME NEW v \in Workers
               PROVE  LET s == worker'[v].slot IN
                 /\ worker'[v].pc \in {"fill", "bump"} =>
                      /\ s = g_node_count + 1 /\ s \in Slots
                      /\ \A t \in Slots : Used(t) => g_nodes'[t].id # worker'[v].node
                 /\ worker'[v].pc = "bump" =>
                      g_nodes'[s].id = worker'[v].node /\ g_nodes'[s].latest = NULL
                 /\ worker'[v].pc \in {"free", "assign"} =>
                      Used(s) /\ g_nodes'[s].id = worker'[v].node
                 /\ worker'[v].pc = "assign" => g_nodes'[s].latest \notin heap
                 /\ worker'[v].pc \in {"load", "use"} => Used(s)
                 /\ worker'[v].pc = "use" => worker'[v].buffer = g_nodes'[s].latest
    BY <1>1, <1>5 DEF Handlers, Placed
  <2>1. CASE v = w
    BY <1>2, <1>4, <1>7, <1>9, <2>1 DEF Moves
  <2>2. CASE v # w
    <3>1. worker'[v] = worker[v] /\ worker[v].pc \notin {"fill", "bump"}
      BY <1>4, <1>8, <2>2 DEF Moves
    <3> QED
      BY <1>9, <3>1 DEF Safe, Handlers, Placed, Used
  <2> QED
    BY <2>1, <2>2
<1>16. Covered'
  BY <1>1, <1>4, <1>5, <1>9 DEF Safe, Covered, Moves, Storing
<1>17. Phases' /\ fault' = FALSE
  BY <1>1 DEF Safe, Phases
<1> QED
  BY <1>10, <1>11, <1>12, <1>13, <1>14, <1>15, <1>16, <1>17 DEF Safe

\* The new entry is counted.
LEMMA BumpKeepsSafe ==
  ASSUME Safe, NEW w \in Workers, Bump(w), ~Overlap'
  PROVE  Safe'
<1> DEFINE e == worker[w].slot
<1>1. /\ worker[w].pc = "bump" /\ g_node_count' \in {g_node_count + 1, e} /\ Goto(w, "free")
      /\ UNCHANGED <<g_nodes, heap, reports, main, fault, acked, refused>>
  BY DEF Bump
<1>2. /\ e = g_node_count + 1 /\ e \in Slots
      /\ g_nodes[e].id = worker[w].node /\ g_nodes[e].latest = NULL
      /\ \A t \in Slots : Used(t) => g_nodes[t].id # worker[w].node
  BY <1>1 DEF Safe, Handlers, Placed
<1>3. g_node_count \in Nat /\ MAX_NODES \in Nat
  BY MetricsAssumption DEF Safe, Shape, MetricsAssumption
<1>4. Moves(w, "free", e) /\ WorkerShape'
  BY <1>1, GotoMoves DEF Safe, Storing
<1>5. /\ \A s \in Slots : Used(s)' <=> (Used(s) \/ s = e)
      /\ g_node_count' \in 0..MAX_NODES
  BY <1>1, <1>2, <1>3 DEF Used, Slots
<1>6. \A v \in Workers : v # w => worker[v].pc \notin {"fill", "bump"}
  BY <1>1, Apart
<1>7. \A v \in Workers : worker[v].pc \in Storing => worker[v].buffer # NULL
  BY DEF Safe, Owners, Shape, NULL
<1>8. Full'
  BY <1>1, <1>2, <1>3 DEF Safe, Full, Slots
<1>9. Phases' /\ fault' = FALSE
  BY <1>1 DEF Safe, Phases
<1> HIDE DEF e
<1>10. Shape'
  BY <1>1, <1>4, <1>5 DEF Safe, Shape, WorkerShape
<1>11. Table'
  BY <1>1, <1>2, <1>5 DEF Safe, Table
<1>12. Kept' /\ Covered'
  BY <1>1, <1>4, <1>5 DEF Safe, Kept, Covered, Moves, Storing
<1>13. Live'
  BY <1>1, <1>2, <1>4, <1>5 DEF Safe, Live, Moves
<1>14. Owners'
  BY <1>1, <1>2, <1>4, <1>5, <1>7 DEF Safe, Owners, Moves, Storing
<1>15. Handlers'
  <2>1. \A s : Used(s) \/ s = e => s \in Slots /\ s <= g_node_count'
    BY <1>2, <1>5 DEF Used
  <2>2. /\ worker'[w].pc = "free" /\ worker'[w].slot = e
        /\ g_nodes'[e].id = worker'[w].node
    BY <1>1, <1>2, <1>4 DEF Moves
  <2>3. ASSUME NEW v \in Workers, v # w
        PROVE  worker'[v] = worker[v] /\ worker'[v].pc \notin {"fill", "bump"}
    BY <1>4, <1>6, <2>3 DEF Moves
  <2> QED
    BY <1>1, <2>1, <2>2, <2>3 DEF Safe, Handlers, Placed, Used, Slots
<1> QED
  BY <1>8, <1>9, <1>10, <1>11, <1>12, <1>13, <1>14, <1>15 DEF Safe

\* The previous report is freed while no other handler uses the entry.
LEMMA FreeKeepsSafe ==
  ASSUME Safe, ~Ended, NEW w \in Workers, Free(w), ~Overlap'
  PROVE  Safe'
<1> DEFINE e == worker[w].slot
           old == g_nodes[e].latest
<1>1. /\ worker[w].pc = "free" /\ fault' = (fault \/ (old # NULL /\ old \notin heap))
      /\ heap' = heap \ {old} /\ Goto(w, "assign")
      /\ UNCHANGED <<g_nodes, g_node_count, reports, main, acked, refused>>
  BY DEF Free
<1>2. Used(e) /\ e \in Slots /\ g_nodes[e].id = worker[w].node
  BY <1>1 DEF Safe, Handlers, Placed, Used
<1>3. \A v \in Workers : v # w /\ worker[v].slot = e =>
                           worker[v].pc \notin {"free", "assign", "load", "use"}
  BY <1>1, <1>2, Apart
<1>4. old \in heap \cup {NULL}
  BY <1>1, <1>2, <1>3 DEF Safe, Live, Ended
<1>5. Moves(w, "assign", e) /\ WorkerShape'
  BY <1>1, GotoMoves DEF Safe, Storing
<1>6. \A s : Used(s)' <=> Used(s)
  BY <1>1 DEF Used
<1>7. fault' = FALSE
  BY <1>1, <1>4, Zenon DEF Safe
<1>8. \A s \in Slots : Used(s) /\ s # e /\ g_nodes[s].latest \in heap \cup {NULL} =>
        g_nodes[s].latest \in heap' \cup {NULL}
  BY <1>1, <1>2 DEF Safe, Table
<1>9. Shape'
  BY <1>1, <1>5 DEF Safe, Shape, WorkerShape
<1>10. \A v \in Workers : worker[v].pc \in Storing => worker[v].buffer \in heap'
  BY <1>1, <1>2 DEF Safe, Owners
<1>11. Covered'
  <2>1. \A v \in Workers : worker[v].pc \in Storing =>
          worker'[v].pc \in Storing /\ worker'[v].buffer = worker[v].buffer
    BY <1>5 DEF Moves, Storing
  <2>2. heap' \subseteq heap
    BY <1>1
  <2> QED
    BY <1>1, <1>6, <2>1, <2>2 DEF Safe, Covered
<1>12. old \notin heap'
  BY <1>1
<1> HIDE DEF e, old
<1>13. Table' /\ Kept' /\ Full'
  BY <1>1, <1>6 DEF Safe, Table, Kept, Full
<1>14. Live'
  BY <1>1, <1>5, <1>6, <1>8 DEF Safe, Live, Moves
<1>15. Owners'
  BY <1>1, <1>5, <1>6, <1>10 DEF Safe, Owners, Moves, Storing
<1>16. Handlers'
  <2>1. heap' \subseteq heap
    BY <1>1
  <2> SUFFICES ASSUME NEW v \in Workers
               PROVE  LET s == worker'[v].slot IN
                 /\ worker'[v].pc \in {"fill", "bump"} =>
                      /\ s = g_node_count + 1 /\ s \in Slots
                      /\ \A t \in Slots : Used(t) => g_nodes[t].id # worker'[v].node
                 /\ worker'[v].pc = "bump" =>
                      g_nodes[s].id = worker'[v].node /\ g_nodes[s].latest = NULL
                 /\ worker'[v].pc \in {"free", "assign"} =>
                      Used(s) /\ g_nodes[s].id = worker'[v].node
                 /\ worker'[v].pc = "assign" => g_nodes[s].latest \notin heap'
                 /\ worker'[v].pc \in {"load", "use"} => Used(s)
                 /\ worker'[v].pc = "use" => worker'[v].buffer = g_nodes[s].latest
    BY <1>1, <1>6 DEF Handlers, Placed
  <2>2. CASE v = w
    BY <1>2, <1>5, <1>12, <2>2 DEF Moves, old
  <2>3. CASE v # w
    BY <1>5, <2>1, <2>3 DEF Safe, Handlers, Placed, Moves
  <2> QED
    BY <2>2, <2>3
<1>17. Phases'
  BY <1>1 DEF Safe, Phases
<1> QED
  BY <1>7, <1>9, <1>11, <1>13, <1>14, <1>15, <1>16, <1>17 DEF Safe

\* The entry takes the new report over.
LEMMA AssignKeepsSafe ==
  ASSUME Safe, ~Ended, NEW w \in Workers, Assign(w), ~Overlap'
  PROVE  Safe'
<1> DEFINE e == worker[w].slot
           b == worker[w].buffer
           n == worker[w].node
<1>1. /\ worker[w].pc = "assign" /\ g_nodes' = [g_nodes EXCEPT ![e].latest = b]
      /\ acked' = [acked EXCEPT ![n] = b] /\ Finish(w)
      /\ UNCHANGED <<g_node_count, heap, reports, main, fault, refused>>
  BY DEF Assign
<1>2. Used(e) /\ e \in Slots /\ g_nodes[e].id = n /\ g_nodes[e].latest \notin heap
  BY <1>1 DEF Safe, Handlers, Placed, Used
<1>3. /\ n \in Nodes /\ b \in heap
      /\ \A s \in Slots : Used(s) => g_nodes[s].latest # b
      /\ \A v \in Workers : v # w /\ worker[v].pc \in Storing => worker[v].buffer # b
  BY <1>1 DEF Safe, Owners, Storing
<1>4. \A v \in Workers : v # w /\ worker[v].slot = e =>
                           worker[v].pc \notin {"free", "assign", "load", "use"}
  BY <1>1, <1>2, Apart
<1>5. Idles(w) /\ WorkerShape'
  BY <1>1, FinishIdles DEF Safe
<1>6. b \in 0..reports /\ b \in Nat /\ b # NULL
  BY <1>3 DEF Safe, Shape, NULL
<1>7. /\ g_nodes' \in [Slots -> [id : Nodes \cup {NoNode}, latest : 0..reports]]
      /\ acked' \in [Nodes -> Nat]
  BY <1>1, <1>2, <1>3, <1>6 DEF Safe, Shape
<1>8. /\ g_nodes'[e].id = n /\ g_nodes'[e].latest = b
      /\ \A s \in Slots : s # e => g_nodes'[s] = g_nodes[s]
      /\ \A s \in Slots : g_nodes'[s].id = g_nodes[s].id
      /\ acked'[n] = b /\ \A m \in Nodes : m # n => acked'[m] = acked[m]
  BY <1>1, <1>2, <1>3 DEF Safe, Shape
<1>9. \A s : Used(s)' <=> Used(s)
  BY <1>1 DEF Used
<1>10. \A v \in Workers : worker[v].pc \in {"fill", "bump"} => worker[v].slot # e
  BY <1>2 DEF Safe, Handlers, Placed, Used, Shape
<1>11. Shape'
  BY <1>1, <1>5, <1>7 DEF Safe, Shape, WorkerShape
<1>12. Phases' /\ fault' = FALSE
  BY <1>1 DEF Safe, Phases
<1> HIDE DEF e, b, n
<1>13. Table'
  BY <1>2, <1>3, <1>8, <1>9 DEF Safe, Table
<1>14. Live'
  BY <1>1, <1>3, <1>5, <1>8, <1>9 DEF Safe, Live, Idles, e
<1>15. Owners'
  BY <1>1, <1>3, <1>5, <1>8, <1>9 DEF Safe, Owners, Idles, Storing
<1>16. Handlers'
  <2> SUFFICES ASSUME NEW v \in Workers, v # w
               PROVE  LET s == worker[v].slot IN
                 /\ worker[v].pc \in {"fill", "bump"} =>
                      /\ s = g_node_count + 1 /\ s \in Slots
                      /\ \A t \in Slots : Used(t) => g_nodes'[t].id # worker[v].node
                 /\ worker[v].pc = "bump" =>
                      g_nodes'[s].id = worker[v].node /\ g_nodes'[s].latest = NULL
                 /\ worker[v].pc \in {"free", "assign"} =>
                      Used(s) /\ g_nodes'[s].id = worker[v].node
                 /\ worker[v].pc = "assign" => g_nodes'[s].latest \notin heap
                 /\ worker[v].pc \in {"load", "use"} => Used(s)
                 /\ worker[v].pc = "use" => worker[v].buffer = g_nodes'[s].latest
    BY <1>1, <1>5, <1>9 DEF Handlers, Placed, Idles
  <2>1. worker[v].pc \in {"fill", "bump", "free", "assign", "load", "use"} =>
          worker[v].slot \in Slots /\ worker[v].slot # e
    BY <1>4, <1>10 DEF Safe, Handlers, Placed, Used
  <2>2. worker[v].slot \in Slots /\ worker[v].slot # e =>
          g_nodes'[worker[v].slot] = g_nodes[worker[v].slot]
    BY <1>8
  <2>3. Placed(v)
    BY DEF Safe, Handlers
  <2>4. /\ worker[v].pc \in {"fill", "bump"} =>
             /\ worker[v].slot = g_node_count + 1 /\ worker[v].slot \in Slots
             /\ \A t \in Slots : Used(t) => g_nodes'[t].id # worker[v].node
        /\ worker[v].pc \in {"load", "use"} => Used(worker[v].slot)
    BY <1>8, <2>3 DEF Placed
  <2>5. CASE worker[v].pc \in {"fill", "bump", "free", "assign", "load", "use"}
    <3>1. g_nodes'[worker[v].slot] = g_nodes[worker[v].slot]
      BY <2>1, <2>2, <2>5
    <3> QED
      BY <2>3, <2>4, <3>1 DEF Placed
  <2>6. CASE worker[v].pc \notin {"fill", "bump", "free", "assign", "load", "use"}
    BY <2>6
  <2> QED
    BY <2>5, <2>6
<1>17. Covered'
  BY <1>1, <1>2, <1>5, <1>8, <1>9 DEF Safe, Covered, Idles, Ended, b
<1>18. Kept'
  BY <1>2, <1>8, <1>9 DEF Safe, Kept
<1>19. Full'
  BY <1>1, <1>8 DEF Safe, Full
<1> QED
  BY <1>11, <1>12, <1>13, <1>14, <1>15, <1>16, <1>17, <1>18, <1>19 DEF Safe

-----------------------------------------------------------------------------
(* GET /status and GET /metrics *)

\* A handler stays where it is while another one reads.
LEMMA PlacedStays ==
  ASSUME NEW v \in Workers, Placed(v), worker'[v] = worker[v],
         UNCHANGED <<g_nodes, g_node_count, heap>>
  PROVE  Placed(v)'
<1>1. \A t : Used(t)' <=> Used(t)
  BY DEF Used
<1> QED
  BY <1>1 DEF Placed

\* A reader goes on to an entry in use, or is through.
LEMMA EnterKeepsSafe ==
  ASSUME Safe, NEW w \in Workers, worker[w].pc \in {"idle", "use"}, main \notin {"start", "free", "exited"},
         NEW s \in Nat \ {0}, Enter(w, s), ~Overlap',
         UNCHANGED <<g_nodes, g_node_count, heap, reports, main, fault, acked, refused>>
  PROVE  Safe'
<1>1. g_node_count \in 0..MAX_NODES /\ MAX_NODES \in Nat
  BY MetricsAssumption DEF Safe, Shape, MetricsAssumption
<1>2. /\ worker'[w].pc \in {"idle", "load"} /\ (worker'[w].pc = "load" => Used(worker'[w].slot))
      /\ \A v \in Workers : v # w => worker'[v] = worker[v]
      /\ WorkerShape'
  <2>1. CASE s <= g_node_count
    <3> DEFINE r == [Idle EXCEPT !.pc = "load", !.slot = s]
    <3>1. Idle \in [pc : {"idle", "load", "use"} \cup Storing, node : Nodes \cup {NoNode},
                    buffer : 0..reports, slot : Nat]
      BY DEF Idle, NULL, Safe, Shape
    <3>2. r \in [pc : {"idle", "load", "use"} \cup Storing, node : Nodes \cup {NoNode},
                 buffer : 0..reports, slot : Nat] /\ r.pc = "load" /\ r.slot = s
      BY <3>1
    <3>3. Used(s)
      BY <1>1, <2>1 DEF Used, Slots
    <3>4. worker' = [worker EXCEPT ![w] = r]
      BY <2>1 DEF Enter
    <3> HIDE DEF r
    <3> QED
      BY <3>2, <3>3, <3>4 DEF Safe, Shape, WorkerShape
  <2>2. CASE ~(s <= g_node_count)
    <3>1. Idles(w) /\ WorkerShape'
      BY <2>2, FinishIdles DEF Enter, Safe
    <3> QED
      BY <3>1 DEF Idles
  <2> QED
    BY <2>1, <2>2
<1>3. \A t : Used(t)' <=> Used(t)
  BY DEF Used
<1>4. Shape' /\ Table' /\ Kept' /\ Full'
  BY <1>2, <1>3 DEF Safe, Shape, Table, Kept, Full, WorkerShape
<1>5. Live' /\ Owners' /\ Covered'
  <2>1. \A v \in Workers : worker'[v].pc \in Storing \/ worker[v].pc \in Storing =>
                            worker'[v] = worker[v]
    BY <1>2 DEF Storing
  <2>2. Live'
    BY <1>3, <2>1 DEF Safe, Live, Storing
  <2>3. Owners'
    BY <1>3, <2>1 DEF Safe, Owners
  <2>4. Covered'
    BY <1>3, <2>1 DEF Safe, Covered
  <2> QED
    BY <2>2, <2>3, <2>4
<1>6. Handlers'
  <2>1. ASSUME NEW v \in Workers, v # w PROVE Placed(v)'
    <3>1. Placed(v) /\ worker'[v] = worker[v]
      BY <1>2, <2>1 DEF Safe, Handlers
    <3> QED
      BY <3>1, PlacedStays
  <2>2. Placed(w)'
    BY <1>2, <1>3 DEF Placed
  <2> QED
    BY <2>1, <2>2 DEF Handlers
<1>7. Phases' /\ fault' = FALSE
  BY DEF Safe, Phases
<1> QED
  BY <1>4, <1>5, <1>6, <1>7 DEF Safe

\* A reader loads the pointer of an entry, which is within the table.
LEMMA LoadKeepsSafe ==
  ASSUME Safe, NEW w \in Workers, Load(w), ~Overlap'
  PROVE  Safe'
<1> DEFINE s == worker[w].slot
           r == [worker[w] EXCEPT !.pc = "use", !.buffer = g_nodes[s].latest]
<1>1. /\ worker[w].pc = "load"
      /\ UNCHANGED <<g_nodes, g_node_count, heap, reports, main, acked, refused>>
  BY DEF Load
<1>2. Used(s) /\ s \in Slots
  BY <1>1 DEF Safe, Handlers, Placed, Used
<1>3. /\ worker \in [Workers -> [pc : {"idle", "load", "use"} \cup Storing,
                                 node : Nodes \cup {NoNode}, buffer : 0..reports, slot : Nat]]
      /\ g_nodes[s].latest \in 0..reports
  BY <1>2 DEF Safe, Shape
<1>4. worker' = [worker EXCEPT ![w] = r] /\ fault' = fault
  BY <1>2, <1>3 DEF Load
<1>5. /\ r \in [pc : {"idle", "load", "use"} \cup Storing, node : Nodes \cup {NoNode},
                buffer : 0..reports, slot : Nat]
      /\ r.pc = "use" /\ r.slot = s /\ r.buffer = g_nodes[s].latest
  BY <1>3
<1> HIDE DEF r
<1>6. /\ worker'[w].pc = "use" /\ worker'[w].slot = s
      /\ worker'[w].buffer = g_nodes[s].latest
      /\ \A v \in Workers : v # w => worker'[v] = worker[v]
      /\ WorkerShape'
  BY <1>1, <1>3, <1>4, <1>5 DEF WorkerShape
<1>7. \A t : Used(t)' <=> Used(t)
  BY <1>1 DEF Used
<1> HIDE DEF s
<1>8. Shape' /\ Table' /\ Kept' /\ Full'
  BY <1>1, <1>6, <1>7 DEF Safe, Shape, Table, Kept, Full, WorkerShape
<1>9. Live' /\ Owners' /\ Covered'
  <2>1. \A v \in Workers : worker'[v].pc \in Storing \/ worker[v].pc \in Storing =>
                            worker'[v] = worker[v]
    BY <1>1, <1>6 DEF Storing
  <2>2. Live'
    BY <1>1, <1>7, <2>1 DEF Safe, Live, Storing
  <2>3. Owners'
    BY <1>1, <1>7, <2>1 DEF Safe, Owners
  <2>4. Covered'
    BY <1>1, <1>7, <2>1 DEF Safe, Covered
  <2> QED
    BY <2>2, <2>3, <2>4
<1>10. Handlers'
  <2>1. ASSUME NEW v \in Workers, v # w PROVE Placed(v)'
    <3>1. Placed(v) /\ worker'[v] = worker[v]
      BY <1>6, <2>1 DEF Safe, Handlers
    <3> QED
      BY <1>1, <3>1, PlacedStays
  <2>2. worker'[w].pc = "use" /\ Used(worker'[w].slot)
          /\ worker'[w].buffer = g_nodes[worker'[w].slot].latest
    BY <1>2, <1>6
  <2>3. Placed(w)'
    BY <1>1, <1>7, <2>2 DEF Placed
  <2> QED
    BY <2>1, <2>3 DEF Handlers
<1>11. Phases' /\ fault' = FALSE
  BY <1>1, <1>4 DEF Safe, Phases
<1> QED
  BY <1>8, <1>9, <1>10, <1>11 DEF Safe

\* A reader uses the report, which nobody has freed since the pointer was loaded.
LEMMA UseKeepsSafe ==
  ASSUME Safe, ~Ended, NEW w \in Workers, Use(w), ~Overlap'
  PROVE  Safe'
<1> DEFINE s == worker[w].slot
           buffer == worker[w].buffer
<1>1. /\ worker[w].pc = "use" /\ fault' = (fault \/ (buffer # NULL /\ buffer \notin heap))
      /\ Enter(w, s + 1)
      /\ UNCHANGED <<g_nodes, g_node_count, heap, reports, main, acked, refused>>
  BY DEF Use
<1>2. Used(s) /\ s \in Slots /\ buffer = g_nodes[s].latest
  BY <1>1 DEF Safe, Handlers, Placed, Used
<1>3. \A v \in Workers : ~(worker[v].pc = "assign" /\ worker[v].slot = s)
  <2> SUFFICES ASSUME NEW v \in Workers, worker[v].pc = "assign", worker[v].slot = s
               PROVE  FALSE
    OBVIOUS
  <2>1. v # w
    BY <1>1
  <2> QED
    BY <1>1, <1>2, <2>1, Apart
<1>4. buffer \in heap \cup {NULL}
  BY <1>2, <1>3 DEF Safe, Live, Ended
<1>5. fault' = FALSE /\ fault' = fault
  BY <1>1, <1>4 DEF Safe
<1>6. main \notin {"start", "free", "exited"}
  BY <1>1 DEF Safe, Phases
<1>7. s + 1 \in Nat \ {0}
  BY <1>2 DEF Slots
<1> QED
  BY <1>1, <1>5, <1>6, <1>7, EnterKeepsSafe

\* A reader starts with the first entry.
LEMMA ReadKeepsSafe ==
  ASSUME Safe, NEW w \in Workers, Read(w), ~Overlap'
  PROVE  Safe'
<1>1. 1 \in Nat \ {0}
  OBVIOUS
<1> QED
  BY <1>1, EnterKeepsSafe DEF Read

-----------------------------------------------------------------------------
(* main *)

\* The end of main frees what the table owns, once, and nothing else is left.
LEMMA FreeReportsKeepsSafe ==
  ASSUME Safe, FreeReports, ~Overlap'
  PROVE  Safe'
<1>1. /\ main = "free" /\ heap' = heap \ Stored /\ main' = "exited"
      /\ UNCHANGED <<g_nodes, g_node_count, worker, reports, acked, refused>>
  BY DEF FreeReports
<1>2. \A w \in Workers : worker[w].pc = "idle"
  BY <1>1 DEF Safe, Phases
<1>3. g_node_count \in 0..MAX_NODES /\ MAX_NODES \in Nat
  BY MetricsAssumption DEF Safe, Shape, MetricsAssumption
<1>4. Stored \subseteq heap
  <2>1. \A s \in Slots : Used(s) => g_nodes[s].latest \in heap \cup {NULL}
    BY <1>1, <1>2 DEF Safe, Live
  <2> QED
    BY <2>1 DEF Stored, Used
<1>5. \A s, t \in Slots : s < t /\ t <= g_node_count =>
        ~(g_nodes[s].latest = g_nodes[t].latest /\ g_nodes[s].latest # NULL)
  <2> SUFFICES ASSUME NEW s \in Slots, NEW t \in Slots, s < t, t <= g_node_count
               PROVE  ~(g_nodes[s].latest = g_nodes[t].latest /\ g_nodes[s].latest # NULL)
    OBVIOUS
  <2>1. Used(s) /\ Used(t) /\ s # t
    BY <1>3 DEF Used, Slots
  <2> QED
    BY <2>1 DEF Safe, Table
<1>6. ~(g_node_count > MAX_NODES)
  BY <1>3
<1>7. fault' = FALSE
  BY <1>4, <1>5, <1>6, Zenon DEF FreeReports, Safe
<1>8. \A s : Used(s)' <=> Used(s)
  BY <1>1 DEF Used
<1>9. Shape' /\ Table' /\ Kept' /\ Full'
  BY <1>1, <1>8 DEF Safe, Shape, Table, Kept, Full
<1>10. Live' /\ Phases' /\ Owners' /\ Handlers'
  BY <1>1, <1>2 DEF Live, Phases, Owners, Storing, Handlers, Placed
<1>11. Covered'
  <2> SUFFICES ASSUME NEW b \in heap' PROVE b \in refused.reports
    BY <1>1 DEF Covered
  <2>1. b \in heap /\ b \notin Stored
    BY <1>1
  <2>2. b # NULL
    BY <2>1 DEF Safe, Shape, NULL
  <2>3. ~\E s \in Slots : Used(s) /\ g_nodes[s].latest = b
    BY <2>1, <2>2 DEF Stored, Used
  <2> QED
    BY <1>2, <2>1, <2>3 DEF Safe, Covered, Storing
<1> QED
  BY <1>7, <1>9, <1>10, <1>11 DEF Safe

\* The other steps of main change nothing but its place.
LEMMA MainKeepsSafe ==
  ASSUME Safe, Start \/ Terminate \/ StopServer \/ Join, ~Overlap'
  PROVE  Safe'
<1>1. /\ UNCHANGED <<g_nodes, g_node_count, worker, heap, reports, fault, acked, refused>>
      /\ main # "exited"
      /\ main' \in {"start", "free"} => \A w \in Workers : worker[w].pc = "idle"
      /\ main' # "start"
      /\ main' = "exited" => main = "start"
  BY DEF Start, Terminate, StopServer, Join
<1>2. \A s : Used(s)' <=> Used(s)
  BY <1>1 DEF Used
<1>3. Shape' /\ Table' /\ Kept' /\ Full'
  BY <1>1, <1>2 DEF Safe, Shape, Table, Kept, Full
<1>4. Live' /\ Owners'
  BY <1>1, <1>2 DEF Safe, Live, Owners
<1>7. Handlers'
  BY <1>1, <1>2 DEF Safe, Handlers, Placed
<1>5. Phases' /\ fault' = FALSE
  BY <1>1 DEF Safe, Phases
<1>6. Covered'
  <2>1. CASE main' # "exited"
    BY <1>1, <1>2, <2>1 DEF Safe, Covered
  <2>2. CASE main' = "exited"
    <3>1. (\A w \in Workers : worker[w].pc \notin Storing) /\ \A s \in Slots : ~Used(s)
      BY <1>1, <2>2 DEF Safe, Phases, Storing, Used, Slots
    <3> QED
      BY <1>1, <3>1 DEF Safe, Covered
  <2> QED
    BY <2>1, <2>2
<1> QED
  BY <1>3, <1>4, <1>5, <1>6, <1>7 DEF Safe

-----------------------------------------------------------------------------
(* The results. *)

\* As long as no handlers meet, every step keeps the table sound.
LEMMA NextIInv == IInv /\ [Next]_vars => IInv'
<1> SUFFICES ASSUME IInv, [Next]_vars PROVE IInv'
  OBVIOUS
<1>1. CASE UNCHANGED vars
  <2>1. UNCHANGED <<g_nodes, g_node_count, worker, heap, reports, main, fault, acked,
                    refused, raced>>
    BY <1>1 DEF vars
  <2>2. \A s : Used(s)' <=> Used(s)
    BY <2>1 DEF Used
  <2>3. Shape' = Shape /\ Overlap' = Overlap /\ Phases' = Phases
    BY <2>1 DEF Shape, Overlap, Registering, Updates, Touches, Phases
  <2>4. Table => Table'
    BY <2>1, <2>2 DEF Table
  <2>5. Live => Live'
    BY <2>1, <2>2 DEF Live
  <2>6. Owners => Owners'
    BY <2>1, <2>2 DEF Owners
  <2>7. Handlers => Handlers'
    BY <2>1, <2>2 DEF Handlers, Placed
  <2>8. Covered => Covered'
    BY <2>1, <2>2 DEF Covered
  <2>9. (Kept => Kept') /\ (Full => Full')
    BY <2>1, <2>2 DEF Kept, Full
  <2> QED
    BY <2>1, <2>3, <2>4, <2>5, <2>6, <2>7, <2>8, <2>9 DEF IInv, Safe
<1>2. ASSUME raced' = (raced \/ Overlap'), Safe /\ ~Overlap' => Safe'
      PROVE  IInv'
  <2>1. raced' \in BOOLEAN /\ (~raced' => ~raced /\ ~Overlap')
    BY <1>2 DEF IInv
  <2> QED
    BY <1>2, <2>1 DEF IInv
<1>3. CASE Step(Start) \/ Step(Terminate)
  <2>1. (Start \/ Terminate) /\ raced' = (raced \/ Overlap')
    BY <1>3 DEF Step
  <2>2. Safe /\ ~Overlap' => Safe'
    BY <2>1, MainKeepsSafe
  <2> QED
    BY <1>2, <2>1, <2>2
<1>4. CASE Step(Request)
  <2>1. Request /\ raced' = (raced \/ Overlap')
    BY <1>4 DEF Step
  <2>2. Safe /\ ~Overlap' => Safe'
    BY <2>1, ReadKeepsSafe, ReportKeepsSafe DEF Request
  <2> QED
    BY <1>2, <2>1, <2>2
<1>5. CASE Run
  <2>1. ~Ended /\ raced' = (raced \/ Overlap')
    BY <1>5 DEF Run, Step
  <2>2. CASE StopServer \/ Join \/ FreeReports
    BY <1>2, <2>1, <2>2, MainKeepsSafe, FreeReportsKeepsSafe
  <2>3. CASE \E w \in Workers : Handler(w)
    <3>1. PICK w \in Workers : Handler(w)
      BY <2>3
    <3>2. Safe /\ ~Overlap' => Safe'
      BY <2>1, <3>1, ScanKeepsSafe, FillKeepsSafe, BumpKeepsSafe, FreeKeepsSafe,
         AssignKeepsSafe, LoadKeepsSafe, UseKeepsSafe DEF Handler
    <3> QED
      BY <1>2, <2>1, <3>2
  <2> QED
    BY <1>5, <2>2, <2>3 DEF Run, Step
<1> QED
  BY <1>1, <1>3, <1>4, <1>5 DEF Next

\* The invariant holds in every behaviour.
LEMMA AlwaysIInv == Spec => []IInv
  BY InitIInv, NextIInv, PTL DEF Spec

\* Handlers that do not meet in an entry never touch freed memory or memory past
\* the table, and the freeing at the end of main frees nothing twice.
THEOREM TableIsMemorySafe == Spec => []MemorySafe
<1>1. IInv => MemorySafe
  BY DEF IInv, Safe, MemorySafe
<1> QED
  BY <1>1, AlwaysIInv, PTL

\* A node whose report was answered with 200 keeps one entry, with that report, and
\* is never refused.
THEOREM AcknowledgedReportsStay == Spec => []LastReportKept
<1>1. IInv => LastReportKept
  <2> SUFFICES ASSUME Safe, NEW n \in Nodes, acked[n] # NULL
               PROVE  LET mine == {s \in Slots : s <= g_node_count /\ g_nodes[s].id = n} IN
                      /\ Cardinality(mine) = 1
                      /\ \A s \in mine : g_nodes[s].latest = acked[n]
                      /\ n \notin refused.nodes
    BY DEF IInv, LastReportKept
  <2> DEFINE mine == {s \in Slots : s <= g_node_count /\ g_nodes[s].id = n}
  <2>1. PICK s \in Slots : Used(s) /\ g_nodes[s].id = n /\ g_nodes[s].latest = acked[n]
    BY DEF Safe, Kept
  <2>2. mine = {s}
    BY <2>1 DEF Safe, Table, Used
  <2>3. Cardinality({s}) = 1
    BY FS_Singleton
  <2>4. n \notin refused.nodes
    BY <2>1 DEF Safe, Full
  <2> QED
    BY <2>1, <2>2, <2>3, <2>4
<1> QED
  BY <1>1, AlwaysIInv, PTL

\* When main returns, no report is left but the refused ones.
THEOREM ReportsAreFreed == Spec => []NoReportLeaks
<1>1. IInv => NoReportLeaks
  BY DEF IInv, Safe, Covered, NoReportLeaks
<1> QED
  BY <1>1, AlwaysIInv, PTL
=============================================================================

-------------------------------- MODULE MGeo --------------------------------
(***************************************************************************)
(* The searches of MGeoLoader (behavior_planner/src/map/mgeo_loader.cpp)    *)
(* over the graph of road links.                                            *)
(*                                                                         *)
(* A map is a record: its links, the nodes each one leads from and to, its  *)
(* length in metres, and the nodes that carry a stop line.  Links are       *)
(* naturals: the priority queue breaks ties between equal costs by the id.  *)
(***************************************************************************)
EXTENDS Integers, FiniteSets

NotFound == -1
Far == 1000000                    \* best_stop_distance before any stop line
NoStopLine == [node |-> 0, distance |-> Far]

Outgoing(m, node) == {l \in m.links : m.from[l] = node}

\* What is left of a link for a vehicle at s; the projection may lie past its end.
Remaining(m, link, s) == IF s < m.length[link] THEN m.length[link] - s ELSE 0

\* Seeded fault: the cost of the way so far is lost at every node.
EntriesRestart(m, node, cost) == {<<0, l>> : l \in Outgoing(m, node)}

\* Queue entries are <<cost to the start of the link, link>>.
Entries(m, node, cost) == {<<cost, l>> : l \in Outgoing(m, node)}
Top(queue) ==
  CHOOSE e \in queue : \A f \in queue : e[1] < f[1] \/ (e[1] = f[1] /\ e[2] <= f[2])

\* What a search knows: the queue, and the links expanded, by whose best_cost
\* later entries are refused.  Costs are popped in ascending order, so best_cost
\* refuses exactly the links expanded before.
Searches(m) == [queue : SUBSET (Nat \X m.links), done : SUBSET m.links]
Popped(st) == [st EXCEPT !.queue = @ \ {Top(@)}]
Expanded(m, st, entries) ==
  [queue |-> Popped(st).queue \cup entries, done |-> st.done \cup {Top(st.queue)[2]}]

(***************************************************************************)
(* findForwardDistance(): the way from one place to another along the       *)
(* links, or NotFound.  It returns at the first expanded link that leads to *)
(* the goal.                                                                *)
(***************************************************************************)
Leads(m, node, cost, to, to_s, max) == to \in Outgoing(m, node) /\ cost + to_s <= max

ForwardSearch(m, to, to_s, max) ==
  LET Search[st \in Searches(m)] ==
        IF st.queue = {} THEN NotFound
        ELSE LET top == Top(st.queue)
                 end == top[1] + m.length[top[2]]
                 node == m.to[top[2]]
             IN IF top[1] > max \/ top[2] \in st.done THEN Search[Popped(st)]
                ELSE IF end > max THEN Search[Expanded(m, st, {})]
                ELSE IF Leads(m, node, end, to, to_s, max) THEN end + to_s
                ELSE Search[Expanded(m, st, Entries(m, node, end))]
  IN  Search

FindForwardDistance(m, from, from_s, to, to_s, max) ==
  LET left == Remaining(m, from, from_s)
      node == m.to[from]
  IN IF from \notin m.links \/ to \notin m.links THEN NotFound
     ELSE IF from = to THEN (IF to_s - from_s \in 0..max THEN to_s - from_s ELSE NotFound)
     ELSE IF left > max THEN NotFound
     ELSE IF Leads(m, node, left, to, to_s, max) THEN left + to_s
     ELSE ForwardSearch(m, to, to_s, max)[[queue |-> Entries(m, node, left), done |-> {}]]

(***************************************************************************)
(* findNextStopLine(): a stop line on the ways ahead, or NoStopLine.  Every *)
(* expanded link that ends at one replaces the stop line found before,      *)
(* nearer or not; only links that START at or beyond it are skipped.        *)
(***************************************************************************)
StopSearch(m, max) ==
  LET Search[sb \in Searches(m) \X [node : Nat, distance : Nat]] ==
        LET st == sb[1]
            best == sb[2]
        IN IF st.queue = {} THEN best
           ELSE LET top == Top(st.queue)
                    end == top[1] + m.length[top[2]]
                    node == m.to[top[2]]
                IN IF top[1] > max \/ top[1] >= best.distance \/ top[2] \in st.done
                     THEN Search[<<Popped(st), best>>]
                   ELSE IF end > max THEN Search[<<Expanded(m, st, {}), best>>]
                   ELSE IF node \in m.stops
                     THEN Search[<<Expanded(m, st, {}), [node |-> node, distance |-> end]>>]
                   ELSE Search[<<Expanded(m, st, Entries(m, node, end)), best>>]
  IN  Search

FindNextStopLine(m, link, s, max) ==
  LET left == Remaining(m, link, s)
      node == m.to[link]
  IN IF link \notin m.links THEN NoStopLine
     ELSE IF node \in m.stops /\ left <= max THEN [node |-> node, distance |-> left]
     ELSE StopSearch(m, max)[<<[queue |-> Entries(m, node, left), done |-> {}], NoStopLine>>]

(***************************************************************************)
(* Reference definitions, over every walk of at most |links| links.         *)
(***************************************************************************)
\* The stop line each walk of at most k links from a node meets first, with the
\* way to it.
StopsAhead(m) ==
  LET Ahead[k \in 0..Cardinality(m.links)] ==
        [node \in Nat |->
          IF node \in m.stops THEN {[node |-> node, distance |-> 0]}
          ELSE IF k = 0 THEN {}
          ELSE UNION {{[w EXCEPT !.distance = @ + m.length[l]] : w \in Ahead[k - 1][m.to[l]]} :
                        l \in Outgoing(m, node)}]
  IN  Ahead

FirstStopLines(m, link, s) ==
  IF link \notin m.links THEN {}
  ELSE {[w EXCEPT !.distance = @ + Remaining(m, link, s)] :
          w \in StopsAhead(m)[Cardinality(m.links)][m.to[link]]}

\* The lengths of the walks of at most k links from a node to the start of link
\* `to', and to_s along it.
Ways(m, to, to_s) ==
  LET Walks[k \in 0..Cardinality(m.links)] ==
        [node \in Nat |->
          {s \in {to_s} : to \in Outgoing(m, node)}
          \cup (IF k = 0 THEN {}
                ELSE UNION {{w + m.length[l] : w \in Walks[k - 1][m.to[l]]} :
                              l \in Outgoing(m, node)})]
  IN  Walks

\* The lengths of the walks from one place to another on a different link.
WalkLengths(m, from, from_s, to, to_s) ==
  {w + Remaining(m, from, from_s) : w \in Ways(m, to, to_s)[Cardinality(m.links)][m.to[from]]}
=============================================================================

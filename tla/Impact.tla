-------------------------------- MODULE Impact --------------------------------
(***************************************************************************)
(* analyze_impact of ppa/engines/impact.py: what a change of one entity    *)
(* may touch (a breadth-first walk of the provenance links, either way),   *)
(* how far away it is, and whether the links form a cycle (a depth-first   *)
(* walk along them).                                                       *)
(*                                                                         *)
(* The entities and their links are any: a link may go to an id that is no *)
(* entity, to the entity itself, and in a circle.  The code takes          *)
(* neighbours in the order of their ids; ids are numbers here.             *)
(***************************************************************************)
EXTENDS Naturals, Sequences, FiniteSets

CONSTANTS
  Nodes,     \* ids: of entities, and others that a link may name
  Entities   \* the ids that are entities

ASSUME ImpactAssumption ==
  /\ Nodes \subseteq Nat /\ IsFiniteSet(Nodes)
  /\ Entities \subseteq Nodes

VARIABLES
  links,    \* entity -> ids its link fields name
  source,   \* the entity that changes
  pc,       \* "bfs", "dfs", "climb" or "done"
  visited,  \* ids reached
  hops,     \* their distance
  path,     \* the way they were reached
  queue,    \* ids whose neighbours are not looked at yet
  current,  \* the id whose neighbours are looked at
  rest,     \* those of them that are left
  color,    \* of the depth-first walk
  parent,   \* in the depth-first walk
  stack,    \* its nodes, each with the links that are left
  cycle     \* the cycle found, <<>> while there is none

graph == <<links, source>>
bfs == <<visited, hops, path, queue, current, rest>>
dfs == <<color, parent, stack, cycle>>
vars == <<graph, pc, bfs, dfs>>

(* _build_directed_graph; graph.get(n, ()) for what is no entity.           *)
Links(n) == IF n \in Entities THEN links[n] ELSE {}

(* A bug: links are followed forwards only. *)
AdjacentForward(n) == Links(n)

(* _build_undirected_adjacency *)
Adjacent(n) == Links(n) \cup {m \in Entities : n \in links[m]}

Least(S) == CHOOSE n \in S : \A m \in S : n <= m

Init ==
  /\ links \in [Entities -> SUBSET Nodes] /\ source \in Entities
  /\ pc = "bfs"
  /\ visited = {source}
  /\ hops = [n \in Nodes |-> 0]
  /\ path = [n \in Nodes |-> IF n = source THEN <<source>> ELSE <<>>]
  /\ queue = <<source>>
  /\ current = source /\ rest = {}
  /\ color = [n \in Nodes |-> "white"]
  /\ parent = [n \in Nodes |-> n]
  /\ stack = <<>>
  /\ cycle = <<>>

-----------------------------------------------------------------------------
(* Breadth first.                                                           *)

(* A bug: the queue is read and not taken from. *)
PopKept ==
  /\ pc = "bfs" /\ rest = {} /\ queue # <<>>
  /\ current' = Head(queue)
  /\ rest' = Adjacent(Head(queue))
  /\ UNCHANGED <<graph, pc, visited, hops, path, queue, dfs>>

Pop ==
  /\ pc = "bfs" /\ rest = {} /\ queue # <<>>
  /\ current' = Head(queue)
  /\ rest' = Adjacent(Head(queue))
  /\ queue' = Tail(queue)
  /\ UNCHANGED <<graph, pc, visited, hops, path, dfs>>

(* A bug: only the way back is recognised. *)
KnownBack(n) == n = current \/ n = source

Known(n) == n \in visited

(* A bug: the path is extended in place, for the current node too. *)
DiscoverInPlace == LET n == Least(rest) IN
  /\ pc = "bfs" /\ rest # {} /\ ~Known(n)
  /\ rest' = rest \ {n}
  /\ visited' = visited \cup {n}
  /\ hops' = [hops EXCEPT ![n] = hops[current] + 1]
  /\ path' = [path EXCEPT ![n] = Append(path[current], n), ![current] = Append(path[current], n)]
  /\ queue' = Append(queue, n)
  /\ UNCHANGED <<graph, pc, current, dfs>>

(* The next neighbour is new. *)
Discover == LET n == Least(rest) IN
  /\ pc = "bfs" /\ rest # {} /\ ~Known(n)
  /\ rest' = rest \ {n}
  /\ visited' = visited \cup {n}
  /\ hops' = [hops EXCEPT ![n] = hops[current] + 1]
  /\ path' = [path EXCEPT ![n] = Append(path[current], n)]
  /\ queue' = Append(queue, n)
  /\ UNCHANGED <<graph, pc, current, dfs>>

(* The next neighbour was reached before. *)
PassOver ==
  /\ pc = "bfs" /\ rest # {} /\ Known(Least(rest))
  /\ rest' = rest \ {Least(rest)}
  /\ UNCHANGED <<graph, pc, visited, hops, path, queue, current, dfs>>

ReachedAll ==
  /\ pc = "bfs" /\ rest = {} /\ queue = <<>>
  /\ pc' = "dfs"
  /\ UNCHANGED <<graph, bfs, dfs>>

-----------------------------------------------------------------------------
(* Depth first: _find_cycle.                                                *)

Top == stack[Len(stack)]
TopLess(n) == [stack EXCEPT ![Len(stack)].rest = @ \ {n}]

(* A bug: only what the source leads to is searched. *)
StartsSource == {n \in {source} : color[n] = "white"}

(* The walk starts anew from each entity that it has not met.               *)
Starts == {n \in Entities : color[n] = "white"}

Enter(n, below) ==
  /\ color' = [color EXCEPT ![n] = "gray"]
  /\ stack' = Append(below, [node |-> n, rest |-> Links(n)])

Start ==
  /\ pc = "dfs" /\ stack = <<>> /\ Starts # {}
  /\ Enter(Least(Starts), stack)
  /\ UNCHANGED <<graph, pc, bfs, parent, cycle>>

(* The next link of the top of the stack leads to a node of this color.     *)
At(c) == /\ pc = "dfs" /\ stack # <<>>
         /\ Top.rest # {} /\ color[Least(Top.rest)] = c

Descend == LET n == Least(Top.rest) IN
  /\ At("white")
  /\ Enter(n, TopLess(n))
  /\ parent' = [parent EXCEPT ![n] = Top.node]
  /\ UNCHANGED <<graph, pc, bfs, cycle>>

(* A link back to the stack closes a cycle: its nodes are collected from    *)
(* the top of the stack upwards.                                            *)
CloseCycle ==
  /\ At("gray")
  /\ cycle' = <<Top.node>>
  /\ pc' = "climb"
  /\ UNCHANGED <<graph, bfs, color, parent, stack>>

Closing == Least(Top.rest)

(* The code appends the parent, and reverses the list in the end.           *)
Climb ==
  /\ pc = "climb" /\ cycle[1] # Closing
  /\ cycle' = <<parent[cycle[1]]>> \o cycle
  /\ UNCHANGED <<graph, pc, bfs, color, parent, stack>>

(* A bug: the list is not closed. *)
FoundCycleOpen ==
  /\ pc = "climb" /\ cycle[1] = Closing
  /\ pc' = "done"
  /\ UNCHANGED <<graph, bfs, dfs>>

FoundCycle ==
  /\ pc = "climb" /\ cycle[1] = Closing
  /\ cycle' = Append(cycle, Closing)
  /\ pc' = "done"
  /\ UNCHANGED <<graph, bfs, color, parent, stack>>

Skip ==
  /\ At("black")
  /\ stack' = TopLess(Least(Top.rest))
  /\ UNCHANGED <<graph, pc, bfs, color, parent, cycle>>

Retreat ==
  /\ pc = "dfs" /\ stack # <<>> /\ Top.rest = {}
  /\ color' = [color EXCEPT ![Top.node] = "black"]
  /\ stack' = SubSeq(stack, 1, Len(stack) - 1)
  /\ UNCHANGED <<graph, pc, bfs, parent, cycle>>

NoCycle ==
  /\ pc = "dfs" /\ stack = <<>> /\ Starts = {}
  /\ pc' = "done"
  /\ UNCHANGED <<graph, bfs, dfs>>

Next == \/ Pop \/ Discover \/ PassOver \/ ReachedAll
        \/ Start \/ Descend \/ CloseCycle \/ Climb \/ FoundCycle \/ Skip \/ Retreat \/ NoCycle

Spec == Init /\ [][Next]_vars

FairSpec == Spec /\ WF_vars(Next)

-----------------------------------------------------------------------------
(* Properties.  The links are read from the entities, not from the helpers. *)

Linked(m, n) == \/ m \in Entities /\ n \in links[m]
                \/ n \in Entities /\ m \in links[n]
Closed(S) == \A m \in S, n \in Nodes : Linked(m, n) => n \in S

(* Every variable keeps its shape; nothing is farther away than there are   *)
(* other nodes.                                                             *)
TypeOK ==
  /\ links \in [Entities -> SUBSET Nodes] /\ source \in Entities
  /\ pc \in {"bfs", "dfs", "climb", "done"}
  /\ visited \subseteq Nodes /\ rest \subseteq Nodes /\ current \in Nodes
  /\ hops \in [Nodes -> 0..(Cardinality(Nodes) - 1)]
  /\ path \in [Nodes -> Seq(Nodes)] /\ queue \in Seq(Nodes)
  /\ color \in [Nodes -> {"white", "gray", "black"}] /\ parent \in [Nodes -> Nodes]
  /\ stack \in Seq([node : Nodes, rest : SUBSET Nodes])
  /\ cycle \in Seq(Nodes)

(* The report is complete and has nothing beside: what is reached is the    *)
(* smallest set with the source that no link, either way, leads out of.     *)
AffectedIsComponent == pc # "bfs" =>
  /\ source \in visited /\ Closed(visited)
  /\ \A S \in SUBSET Nodes : source \in S /\ Closed(S) => visited \subseteq S

(* A reported path is one: it leads from the source over links, in as many  *)
(* steps as the distance says; and none is shorter, for the distance is 0   *)
(* at the source and grows by one at most along a link.                     *)
PathsAreShortest ==
  /\ hops[source] = 0
  /\ \A n \in visited :
       /\ Len(path[n]) = hops[n] + 1
       /\ path[n][1] = source /\ path[n][Len(path[n])] = n
       /\ \A i \in 1..(Len(path[n]) - 1) : Linked(path[n][i], path[n][i + 1])
  /\ pc # "bfs" => \A m \in visited, n \in Nodes : Linked(m, n) => hops[n] <= hops[m] + 1

(* Links lead along c and back to its start.                                *)
IsCycle(c) ==
  /\ Len(c) >= 2 /\ c[1] = c[Len(c)]
  /\ \A i \in 1..(Len(c) - 1) : c[i] \in Entities /\ c[i + 1] \in links[c[i]]

(* Every set of entities has one that links to no other of them.            *)
Acyclic == \A S \in SUBSET Entities : S # {} => \E n \in S : links[n] \cap S = {}

(* The cycle of the report is one of the links, and if it has none there    *)
(* is none, from wherever the walk has to start to meet it.                 *)
CycleIsReported == pc = "done" => IF cycle = <<>> THEN Acyclic ELSE IsCycle(cycle)

(* The analysis ends, on any links.                                         *)
AnalysisEnds == <>(pc = "done")

-----------------------------------------------------------------------------
(* The strengthening that makes the properties inductive.  The walk stays   *)
(* in the component of the source, and what is off the queue has all its    *)
(* neighbours reached, but for those left of the current one.               *)
Queued == {queue[i] : i \in DOMAIN queue}

FrontierInv ==
  /\ source \in visited /\ current \in visited /\ Queued \subseteq visited
  /\ rest \subseteq Adjacent(current)
  /\ \A S \in SUBSET Nodes : source \in S /\ Closed(S) => visited \subseteq S
  /\ \A m \in visited \ Queued, n \in Nodes :
       Linked(m, n) => n \in visited \/ (m = current /\ n \in rest)
  /\ pc # "bfs" => rest = {} /\ queue = <<>>

(* The queue is in the order of the distance, and holds two distances at    *)
(* most: that of the current id and the next.                               *)
DistanceInv ==
  /\ \A n \in Nodes : IF n \in visited THEN hops[n] < Cardinality(visited)
                      ELSE hops[n] = 0
  /\ \A n \in visited : hops[n] <= hops[current] + 1
  /\ \A i \in DOMAIN queue : hops[current] <= hops[queue[i]]
  /\ \A i, j \in DOMAIN queue : i <= j => hops[queue[i]] <= hops[queue[j]]
  /\ \A m \in visited \ Queued, n \in visited : Linked(m, n) => hops[n] <= hops[m] + 1

(* The gray ids are those of the stack, once each; each is linked from the  *)
(* one below it, which is its parent.                                       *)
Node(i) == stack[i].node

StackInv ==
  /\ pc = "bfs" => stack = <<>> /\ \A n \in Nodes : color[n] = "white"
  /\ \A n \in Nodes : color[n] = "gray" <=> \E i \in DOMAIN stack : Node(i) = n
  /\ \A i, j \in DOMAIN stack : Node(i) = Node(j) => i = j
  /\ \A i \in DOMAIN stack : stack[i].rest \subseteq Links(Node(i))
  /\ \A i, j \in DOMAIN stack : j = i + 1 =>
       Node(j) \in Links(Node(i)) /\ parent[Node(j)] = Node(i)

(* No link leads out of the black ids and none of them is on a cycle; what  *)
(* a node of the stack has looked at is black, or next on the stack.        *)
Black == {n \in Nodes : color[n] = "black"}

BlackInv ==
  /\ \A n \in Black : Links(n) \subseteq Black
  /\ \A S \in SUBSET (Black \cap Entities) : S # {} => \E n \in S : links[n] \cap S = {}
  /\ \A i \in DOMAIN stack : \A n \in Links(Node(i)) \ stack[i].rest :
       n \in Black \/ (i + 1 \in DOMAIN stack /\ n = Node(i + 1))

(* What is collected of a cycle is the top of the stack, and its closing    *)
(* node is no higher.                                                       *)
ClimbInv ==
  /\ pc \in {"bfs", "dfs"} => cycle = <<>>
  /\ pc = "climb" =>
       /\ stack # <<>> /\ Top.rest # {} /\ cycle # <<>> /\ Len(cycle) <= Len(stack)
       /\ \A x \in DOMAIN cycle : cycle[x] = Node(Len(stack) - Len(cycle) + x)
       /\ \E i \in 1..(Len(stack) - Len(cycle) + 1) : Node(i) = Closing

ImpactInv ==
  /\ TypeOK /\ FrontierInv /\ DistanceInv /\ PathsAreShortest
  /\ StackInv /\ BlackInv /\ ClimbInv /\ CycleIsReported

=============================================================================

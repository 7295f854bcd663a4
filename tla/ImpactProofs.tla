----------------------------- MODULE ImpactProofs -----------------------------
(***************************************************************************)
(* analyze_impact, for any finite set of ids, any entities among them and   *)
(* any links: what it reports as affected, how far away and over which      *)
(* path, and the cycle.                                                     *)
(***************************************************************************)
EXTENDS Impact, FiniteSetTheorems, SequenceTheorems, WellFoundedInduction, TLAPS

-----------------------------------------------------------------------------
(* The operators of the model.                                              *)

(* sorted() gives the neighbours an order, so there is a next one.          *)
LEMMA LeastIsIn ==
  ASSUME NEW S \in SUBSET Nodes, S # {}
  PROVE  Least(S) \in S /\ Least(S) \in Nodes
  <1>1. PICK n \in S : \A m \in S : <<m, n>> \notin OpToRel(<, Nat)
    <2>1. S \subseteq Nat
      BY ImpactAssumption
    <2> QED
      BY <2>1, WFMin, NatLessThanWellFounded, Zenon
  <1>2. \A m \in S : m \in Nat /\ n \in Nat
    BY ImpactAssumption
  <1>3. \A m \in S : ~(m < n)
    BY <1>1, <1>2, Zenon DEF OpToRel
  <1>4. \A m \in S : n <= m
    BY <1>2, <1>3
  <1> QED
    BY <1>4 DEF Least

(* The adjacency is the links, either way.                                  *)
LEMMA AdjacentIsLinked ==
  ASSUME TypeOK, NEW m \in Nodes
  PROVE  /\ Links(m) \in SUBSET Nodes /\ Adjacent(m) \in SUBSET Nodes
         /\ \A n \in Links(m) : m \in Entities /\ n \in links[m]
         /\ \A n \in Nodes : n \in Adjacent(m) <=> Linked(m, n)
  BY ImpactAssumption DEF TypeOK, Adjacent, Links, Linked

(* There are as many distances below the number of ids reached as ids, and  *)
(* one more with a new id.                                                  *)
LEMMA ReachedSize ==
  ASSUME TypeOK
  PROVE  /\ Cardinality(visited) \in Nat /\ Cardinality(Nodes) \in Nat
         /\ Cardinality(visited) <= Cardinality(Nodes)
         /\ \A n \in Nodes \ visited :
              /\ Cardinality(visited \cup {n}) = Cardinality(visited) + 1
              /\ Cardinality(visited) + 1 <= Cardinality(Nodes)
  <1>1. IsFiniteSet(Nodes) /\ visited \in SUBSET Nodes
    BY ImpactAssumption DEF TypeOK
  <1>2. /\ IsFiniteSet(visited) /\ Cardinality(visited) <= Cardinality(Nodes)
        /\ Cardinality(visited) \in Nat /\ Cardinality(Nodes) \in Nat
    BY <1>1, FS_Subset, FS_CardinalityType
  <1>3. ASSUME NEW n \in Nodes \ visited
        PROVE  /\ Cardinality(visited \cup {n}) = Cardinality(visited) + 1
               /\ Cardinality(visited \cup {n}) <= Cardinality(Nodes)
    <2>1. visited \cup {n} \in SUBSET Nodes
      BY <1>1
    <2>2. Cardinality(visited \cup {n}) <= Cardinality(Nodes)
      BY <1>1, <2>1, FS_Subset
    <2>3. Cardinality(visited \cup {n}) = IF n \in visited THEN Cardinality(visited)
                                          ELSE Cardinality(visited) + 1
      BY <1>2, FS_AddElement
    <2> QED
      BY <2>2, <2>3
  <1> QED
    BY <1>2, <1>3

(* A list that grows at the end.                                            *)
LEMMA AppendFacts ==
  ASSUME NEW S, NEW s \in Seq(S), NEW e \in S
  PROVE  /\ Append(s, e) \in Seq(S) /\ Len(Append(s, e)) = Len(s) + 1 /\ Len(s) \in Nat
         /\ DOMAIN Append(s, e) = 1..(Len(s) + 1) /\ DOMAIN s = 1..Len(s)
         /\ \A i \in DOMAIN s : i \in DOMAIN Append(s, e) /\ Append(s, e)[i] = s[i]
         /\ Append(s, e)[Len(s) + 1] = e
  OBVIOUS

(* A list that loses its first element.                                     *)
LEMMA TailFacts ==
  ASSUME NEW S, NEW s \in Seq(S), s # <<>>
  PROVE  /\ Head(s) \in S /\ Head(s) = s[1] /\ 1 \in DOMAIN s
         /\ Tail(s) \in Seq(S) /\ Len(s) \in Nat \ {0}
         /\ DOMAIN s = 1..Len(s) /\ DOMAIN Tail(s) = 1..(Len(s) - 1)
         /\ \A i \in DOMAIN Tail(s) : i + 1 \in DOMAIN s /\ Tail(s)[i] = s[i + 1]
  OBVIOUS

-----------------------------------------------------------------------------
(* The stack of the depth-first walk.                                       *)
Frame == [node : Nodes, rest : SUBSET Nodes]

(* Its elements, and the top of one that is not empty.                      *)
LEMMA StackType ==
  ASSUME TypeOK
  PROVE  /\ stack \in Seq(Frame) /\ Len(stack) \in Nat /\ DOMAIN stack = 1..Len(stack)
         /\ \A i \in DOMAIN stack :
              stack[i] \in Frame /\ Node(i) \in Nodes /\ stack[i].rest \in SUBSET Nodes
         /\ stack # <<>> => /\ Len(stack) \in DOMAIN stack /\ Len(stack) > 0
                            /\ Top \in Frame /\ Top.node = Node(Len(stack))
                            /\ Top.node \in Nodes /\ Top.rest \in SUBSET Nodes
  <1>1. stack \in Seq(Frame)
    BY DEF TypeOK, Frame
  <1>2. Len(stack) \in Nat /\ DOMAIN stack = 1..Len(stack)
    BY <1>1
  <1>3. \A i \in DOMAIN stack : stack[i] \in Frame
    BY <1>1, <1>2
  <1>4. stack # <<>> => Len(stack) \in DOMAIN stack /\ Len(stack) > 0
    BY <1>1, <1>2
  <1> QED
    BY <1>1, <1>2, <1>3, <1>4 DEF Frame, Node, Top

(* Taking a link from the top leaves the nodes and the other links.         *)
LEMMA TopLessFacts ==
  ASSUME TypeOK, stack # <<>>, NEW n
  PROVE  /\ TopLess(n) \in Seq(Frame) /\ Len(TopLess(n)) = Len(stack)
         /\ DOMAIN TopLess(n) = DOMAIN stack
         /\ \A i \in DOMAIN stack :
              /\ TopLess(n)[i].node = Node(i)
              /\ TopLess(n)[i].rest = IF i = Len(stack) THEN stack[i].rest \ {n}
                                      ELSE stack[i].rest
  <1>1. /\ stack \in Seq(Frame) /\ Len(stack) \in DOMAIN stack
        /\ DOMAIN stack = 1..Len(stack) /\ Len(stack) \in Nat
        /\ \A i \in DOMAIN stack : stack[i] \in Frame
    BY StackType
  <1> DEFINE top == [stack[Len(stack)] EXCEPT !.rest = @ \ {n}]
  <1>2. /\ top \in Frame /\ top.node = Node(Len(stack))
        /\ top.rest = stack[Len(stack)].rest \ {n}
    BY <1>1 DEF Frame, Node
  <1>3. TopLess(n) = [stack EXCEPT ![Len(stack)] = top]
    BY <1>1 DEF TopLess
  <1> HIDE DEF top
  <1>4. /\ TopLess(n) \in Seq(Frame) /\ Len(TopLess(n)) = Len(stack)
        /\ \A i \in 1..Len(stack) :
             TopLess(n)[i] = IF i = Len(stack) THEN top ELSE stack[i]
    BY <1>1, <1>2, <1>3, ExceptSeq
  <1>5. DOMAIN TopLess(n) = 1..Len(stack)
    BY <1>4, LenProperties
  <1> QED
    BY <1>1, <1>2, <1>4, <1>5 DEF Node

(* Leaving the top drops it and nothing else.                               *)
LEMMA PoppedFacts ==
  ASSUME TypeOK, stack # <<>>, NEW popped, popped = SubSeq(stack, 1, Len(stack) - 1)
  PROVE  /\ popped \in Seq(Frame) /\ DOMAIN popped = 1..(Len(stack) - 1)
         /\ Len(popped) = Len(stack) - 1
         /\ \A i \in DOMAIN popped : i \in DOMAIN stack /\ popped[i] = stack[i]
  <1>1. stack \in Seq(Frame) /\ Len(stack) \in Nat /\ Len(stack) > 0 /\ DOMAIN stack = 1..Len(stack)
    BY StackType
  <1> QED
    BY <1>1

-----------------------------------------------------------------------------
(* Types.                                                                   *)
LEMMA InitTypeOK == Init => TypeOK
  <1> SUFFICES ASSUME Init PROVE TypeOK
    OBVIOUS
  <1>1. source \in Nodes /\ visited \subseteq Nodes
    BY ImpactAssumption DEF Init
  <1>2. hops \in [Nodes -> 0..(Cardinality(Nodes) - 1)]
    <2>1. Cardinality(Nodes) \in Nat /\ Cardinality(Nodes) # 0
      BY <1>1, ImpactAssumption, FS_CardinalityType, FS_EmptySet
    <2> QED
      BY <2>1 DEF Init
  <1>3. path \in [Nodes -> Seq(Nodes)] /\ queue \in Seq(Nodes)
    <2>1. <<source>> \in Seq(Nodes) /\ <<>> \in Seq(Nodes)
      BY <1>1
    <2> QED
      BY <2>1 DEF Init
  <1>4. stack \in Seq([node : Nodes, rest : SUBSET Nodes]) /\ cycle \in Seq(Nodes)
    BY DEF Init
  <1> QED
    BY <1>1, <1>2, <1>3, <1>4 DEF Init, TypeOK

(* The next id to look at is an id.                                         *)
LEMMA NextIsNode ==
  ASSUME TypeOK
  PROVE  /\ rest # {} => Least(rest) \in rest /\ Least(rest) \in Nodes
         /\ stack # <<>> /\ Top.rest # {} =>
              Least(Top.rest) \in Top.rest /\ Least(Top.rest) \in Nodes
         /\ Starts # {} => Least(Starts) \in Starts /\ Least(Starts) \in Nodes
  <1>1. rest \in SUBSET Nodes /\ Starts \in SUBSET Nodes
    BY ImpactAssumption DEF TypeOK, Starts
  <1>2. stack # <<>> => Top.rest \in SUBSET Nodes
    BY StackType
  <1> QED
    BY <1>1, <1>2, LeastIsIn

(* Entering a node puts it on top, with all its links left.                 *)
LEMMA EnterFacts ==
  ASSUME TypeOK, NEW n \in Nodes, NEW below \in Seq(Frame), Enter(n, below)
  PROVE  /\ stack' \in Seq(Frame) /\ Len(stack') = Len(below) + 1 /\ Len(below) \in Nat
         /\ DOMAIN below = 1..Len(below) /\ DOMAIN stack' = 1..(Len(below) + 1)
         /\ \A i \in DOMAIN below : i \in DOMAIN stack' /\ stack'[i] = below[i]
         /\ stack'[Len(below) + 1].node = n /\ stack'[Len(below) + 1].rest = Links(n)
         /\ color' \in [Nodes -> {"white", "gray", "black"}]
         /\ \A m \in Nodes : color'[m] = IF m = n THEN "gray" ELSE color[m]
  <1> DEFINE e == [node |-> n, rest |-> Links(n)]
  <1>1. e \in Frame /\ e.node = n /\ e.rest = Links(n)
    BY AdjacentIsLinked DEF Frame
  <1>2. stack' = Append(below, e)
    BY DEF Enter
  <1> HIDE DEF e
  <1>3. /\ stack' \in Seq(Frame) /\ Len(stack') = Len(below) + 1 /\ Len(below) \in Nat
        /\ DOMAIN below = 1..Len(below) /\ DOMAIN stack' = 1..(Len(below) + 1)
        /\ \A i \in DOMAIN below : i \in DOMAIN stack' /\ stack'[i] = below[i]
        /\ stack'[Len(below) + 1] = e
    BY <1>1, <1>2, AppendFacts
  <1> QED
    BY <1>1, <1>3 DEF Enter, TypeOK

(* Every step keeps the types.                                              *)
LEMMA StepTypeOK ==
  ASSUME TypeOK, FrontierInv, DistanceInv, ClimbInv, [Next]_vars
  PROVE  TypeOK'
  <1> USE DEF TypeOK, graph, bfs, dfs
  <1>1. CASE Pop
    <2>1. Head(queue) \in Nodes /\ Tail(queue) \in Seq(Nodes)
      BY <1>1, TailFacts DEF Pop
    <2>2. Adjacent(Head(queue)) \in SUBSET Nodes
      BY <2>1, AdjacentIsLinked
    <2> QED
      BY <1>1, <2>1, <2>2 DEF Pop
  <1>2. CASE Discover
    <2> DEFINE n == Least(rest)
    <2>1. n \in Nodes /\ n \notin visited
      BY <1>2, NextIsNode DEF Discover, Known
    <2>2. hops[current] \in Nat /\ hops[current] < Cardinality(visited)
      BY DEF FrontierInv, DistanceInv
    <2>3. hops[current] + 1 \in 0..(Cardinality(Nodes) - 1)
      <3>1. /\ Cardinality(visited) \in Nat /\ Cardinality(Nodes) \in Nat
            /\ Cardinality(visited) + 1 <= Cardinality(Nodes)
        BY <2>1, ReachedSize
      <3> QED
        BY <2>2, <3>1
    <2>4. Append(path[current], n) \in Seq(Nodes) /\ Append(queue, n) \in Seq(Nodes)
      BY <2>1
    <2> HIDE DEF n
    <2>5. /\ visited' = visited \cup {n} /\ rest' \subseteq rest
          /\ hops' = [hops EXCEPT ![n] = hops[current] + 1]
          /\ path' = [path EXCEPT ![n] = Append(path[current], n)]
          /\ queue' = Append(queue, n) /\ UNCHANGED <<graph, pc, current, dfs>>
      BY <1>2 DEF Discover, n
    <2>6. hops' \in [Nodes -> 0..(Cardinality(Nodes) - 1)] /\ path' \in [Nodes -> Seq(Nodes)]
      BY <2>1, <2>3, <2>4, <2>5
    <2> QED
      BY <2>1, <2>4, <2>5, <2>6
  <1>3. CASE PassOver
    BY <1>3 DEF PassOver
  <1>4. CASE ReachedAll
    BY <1>4 DEF ReachedAll
  <1>5. CASE Start
    <2>1. Least(Starts) \in Nodes /\ stack \in Seq(Frame)
      BY <1>5, NextIsNode, StackType DEF Start
    <2>2. /\ stack' \in Seq(Frame)
          /\ color' \in [Nodes -> {"white", "gray", "black"}]
      BY <1>5, <2>1, EnterFacts DEF Start
    <2> QED
      BY <1>5, <2>2 DEF Start, Frame
  <1>6. CASE Descend
    <2>1. /\ stack # <<>> /\ Least(Top.rest) \in Nodes /\ Top.node \in Nodes
          /\ TopLess(Least(Top.rest)) \in Seq(Frame)
      BY <1>6, NextIsNode, StackType, TopLessFacts DEF Descend, At
    <2>2. /\ stack' \in Seq(Frame)
          /\ color' \in [Nodes -> {"white", "gray", "black"}]
      BY <1>6, <2>1, EnterFacts DEF Descend
    <2>3. parent' \in [Nodes -> Nodes]
      BY <1>6, <2>1 DEF Descend
    <2> QED
      BY <1>6, <2>2, <2>3 DEF Descend, Frame
  <1>7. CASE CloseCycle
    <2>1. <<Top.node>> \in Seq(Nodes)
      BY <1>7, StackType DEF CloseCycle, At
    <2> QED
      BY <1>7, <2>1 DEF CloseCycle
  <1>8. CASE Climb
    <2>1. cycle # <<>> /\ cycle \in Seq(Nodes)
      BY <1>8 DEF Climb, ClimbInv
    <2>2. cycle[1] \in Nodes
      BY <2>1
    <2>3. <<parent[cycle[1]]>> \in Seq(Nodes)
      BY <2>2
    <2>4. <<parent[cycle[1]]>> \o cycle \in Seq(Nodes)
      BY <2>1, <2>3, ConcatProperties
    <2> QED
      BY <1>8, <2>4 DEF Climb
  <1>9. CASE FoundCycle
    <2>1. Closing \in Nodes
      BY <1>9, NextIsNode DEF FoundCycle, ClimbInv, Closing
    <2>2. Append(cycle, Closing) \in Seq(Nodes)
      BY <2>1
    <2> QED
      BY <1>9, <2>2 DEF FoundCycle
  <1>10. CASE Skip
    <2>1. TopLess(Least(Top.rest)) \in Seq(Frame)
      BY <1>10, TopLessFacts DEF Skip, At
    <2> QED
      BY <1>10, <2>1 DEF Skip, Frame
  <1>11. CASE Retreat
    <2>1. stack' \in Seq(Frame)
      BY <1>11, PoppedFacts DEF Retreat
    <2> QED
      BY <1>11, <2>1 DEF Retreat, Frame
  <1>12. CASE NoCycle
    BY <1>12 DEF NoCycle
  <1>13. CASE UNCHANGED vars
    BY <1>13 DEF vars
  <1> QED
    BY <1>1, <1>2, <1>3, <1>4, <1>5, <1>6, <1>7, <1>8, <1>9, <1>10, <1>11,
       <1>12, <1>13 DEF Next

-----------------------------------------------------------------------------
(* The breadth-first walk.  The depth-first one leaves it as it ended.      *)
LEMMA WalkRests ==
  ASSUME [Next]_vars, ~Pop, ~Discover, ~PassOver
  PROVE  /\ UNCHANGED <<links, source, visited, hops, path, queue, current, rest>>
         /\ pc # "bfs" => pc' # "bfs"
         /\ pc = "bfs" /\ pc' # "bfs" => rest = {} /\ queue = <<>>
  BY DEF Next, ReachedAll, Start, Descend, CloseCycle, Climb, FoundCycle, Skip,
     Retreat, NoCycle, At, vars, graph, bfs, dfs

(* What the steps of the walk do: taking the next id from the queue,        *)
LEMMA PopFacts ==
  ASSUME TypeOK, FrontierInv, Pop
  PROVE  /\ pc = "bfs" /\ rest = {} /\ UNCHANGED <<links, source, pc, visited, hops, path>>
         /\ queue \in Seq(Nodes) /\ queue # <<>> /\ 1 \in DOMAIN queue /\ current' = queue[1]
         /\ current' \in visited /\ current' \in Nodes /\ rest' = Adjacent(current')
         /\ \A i \in DOMAIN queue' :
              i \in Nat /\ i + 1 \in DOMAIN queue /\ queue'[i] = queue[i + 1]
         /\ \A i \in DOMAIN queue : i = 1 \/ \E j \in DOMAIN queue' : queue[i] = queue'[j]
  <1>1. /\ pc = "bfs" /\ rest = {} /\ UNCHANGED <<links, source, pc, visited, hops, path>>
        /\ queue # <<>> /\ current' = Head(queue) /\ queue' = Tail(queue)
        /\ rest' = Adjacent(current')
    BY DEF Pop, graph
  <1>2. /\ queue \in Seq(Nodes)
    BY DEF TypeOK
  <1>3. /\ Head(queue) = queue[1] /\ Head(queue) \in Nodes /\ 1 \in DOMAIN queue
        /\ Len(queue) \in Nat \ {0}
        /\ DOMAIN queue = 1..Len(queue) /\ DOMAIN queue' = 1..(Len(queue) - 1)
        /\ \A i \in DOMAIN queue' : i + 1 \in DOMAIN queue /\ queue'[i] = queue[i + 1]
    BY <1>1, <1>2, TailFacts
  <1>4. current' \in visited
    BY <1>1, <1>3 DEF FrontierInv, Queued
  <1>5. ASSUME NEW i \in DOMAIN queue, i # 1 PROVE \E j \in DOMAIN queue' : queue[i] = queue'[j]
    <2>1. i - 1 \in DOMAIN queue' /\ (i - 1) + 1 = i
      BY <1>3, <1>5
    <2> QED
      BY <1>3, <2>1
  <1> QED
    BY <1>1, <1>2, <1>3, <1>4, <1>5

(* The same for a neighbour that is new ...                                 *)
LEMMA DiscoverFacts ==
  ASSUME TypeOK, FrontierInv, Discover, NEW n, n = Least(rest)
  PROVE  /\ pc = "bfs" /\ n \in rest /\ n \in Nodes /\ n \notin visited /\ current \in Nodes
         /\ rest' = rest \ {n} /\ visited' = visited \cup {n}
         /\ UNCHANGED <<links, source, pc, current>>
         /\ hops' \in [Nodes -> Nat] /\ hops \in [Nodes -> Nat]
         /\ \A m \in Nodes : hops'[m] = IF m = n THEN hops[current] + 1 ELSE hops[m]
         /\ \A m \in Nodes : path'[m] = IF m = n THEN Append(path[current], n) ELSE path[m]
         /\ Len(queue) \in Nat /\ DOMAIN queue = 1..Len(queue)
         /\ DOMAIN queue' = 1..(Len(queue) + 1)
         /\ \A i \in DOMAIN queue : i \in DOMAIN queue' /\ queue'[i] = queue[i]
         /\ queue'[Len(queue) + 1] = n
  <1>1. /\ pc = "bfs" /\ rest # {} /\ n \notin visited /\ rest' = rest \ {n}
        /\ visited' = visited \cup {n} /\ UNCHANGED <<links, source, pc, current>>
        /\ hops' = [hops EXCEPT ![n] = hops[current] + 1]
        /\ path' = [path EXCEPT ![n] = Append(path[current], n)]
        /\ queue' = Append(queue, n)
    BY DEF Discover, Known, graph
  <1>2. n \in rest /\ n \in Nodes
    BY <1>1, NextIsNode
  <1>3. /\ hops \in [Nodes -> 0..(Cardinality(Nodes) - 1)] /\ current \in Nodes
        /\ path \in [Nodes -> Seq(Nodes)]
    BY DEF TypeOK
  <1>4. hops \in [Nodes -> Nat]
    BY <1>3, ReachedSize
  <1>5. queue \in Seq(Nodes)
    BY DEF TypeOK
  <1>6. /\ Len(queue) \in Nat /\ DOMAIN queue = 1..Len(queue)
        /\ DOMAIN queue' = 1..(Len(queue) + 1)
        /\ \A i \in DOMAIN queue : i \in DOMAIN queue' /\ queue'[i] = queue[i]
        /\ queue'[Len(queue) + 1] = n
    BY <1>1, <1>2, <1>5, AppendFacts
  <1>7. hops' \in [Nodes -> Nat]
    BY <1>1, <1>2, <1>3, <1>4
  <1> QED
    BY <1>1, <1>2, <1>3, <1>4, <1>6, <1>7

(* ... and for one that was reached before.                                 *)
LEMMA PassOverFacts ==
  ASSUME TypeOK, PassOver, NEW n, n = Least(rest)
  PROVE  /\ n \in rest /\ n \in Nodes /\ n \in visited /\ rest' = rest \ {n} /\ pc = "bfs"
         /\ UNCHANGED <<links, source, pc, visited, hops, path, queue, current>>
  BY NextIsNode DEF PassOver, Known, graph

(* The links do not change, so what is linked and closed does not.          *)
LEMMA GraphStays ==
  ASSUME [Next]_vars
  PROVE  /\ links' = links /\ source' = source
         /\ \A m, n : Linked(m, n)' = Linked(m, n)
         /\ \A n : Links(n)' = Links(n)
         /\ \A n : Adjacent(n)' = Adjacent(n)
         /\ \A S : Closed(S)' = Closed(S)
  <1>1. links' = links /\ source' = source
    BY DEF Next, Pop, Discover, PassOver, ReachedAll, Start, Descend, CloseCycle,
       Climb, FoundCycle, Skip, Retreat, NoCycle, vars, graph
  <1> QED
    BY <1>1 DEF Linked, Links, Adjacent, Closed

(* The queue loses the id that is looked at, and gains the one found.       *)
LEMMA QueuedStep ==
  ASSUME TypeOK, FrontierInv
  PROVE  /\ Pop => Queued' \subseteq Queued /\ Queued \subseteq Queued' \cup {current'}
         /\ Discover => Queued' = Queued \cup {Least(rest)}
         /\ queue' = queue => Queued' = Queued
  <1>1. ASSUME Pop PROVE Queued' \subseteq Queued /\ Queued \subseteq Queued' \cup {current'}
    BY <1>1, PopFacts DEF Queued
  <1>2. ASSUME Discover PROVE Queued' = Queued \cup {Least(rest)}
    <2> DEFINE n == Least(rest)
    <2>1. n = Least(rest)
      OBVIOUS
    <2> HIDE DEF n
    <2>2. /\ Len(queue) \in Nat /\ DOMAIN queue = 1..Len(queue)
          /\ DOMAIN queue' = 1..(Len(queue) + 1)
          /\ \A i \in DOMAIN queue : i \in DOMAIN queue' /\ queue'[i] = queue[i]
          /\ queue'[Len(queue) + 1] = n
      BY <1>2, <2>1, DiscoverFacts
    <2>3. DOMAIN queue' = DOMAIN queue \cup {Len(queue) + 1}
      BY <2>2
    <2> QED
      BY <2>1, <2>2, <2>3 DEF Queued
  <1>3. ASSUME queue' = queue PROVE Queued' = Queued
    BY <1>3 DEF Queued
  <1> QED
    BY <1>1, <1>2, <1>3

(* What is reached stays within every closed set around the source, and     *)
(* nothing next to an id that was looked at is forgotten.                   *)
LEMMA StepFrontierInv ==
  ASSUME TypeOK, FrontierInv, [Next]_vars
  PROVE  FrontierInv'
  <1>0. current \in Nodes /\ visited \subseteq Nodes
    BY DEF TypeOK
  <1>1. CASE Pop
    <2>1. /\ pc = "bfs" /\ pc' = pc /\ rest = {} /\ UNCHANGED <<source, visited>>
          /\ current' \in visited /\ current' \in Nodes /\ rest' = Adjacent(current')
      BY <1>1, PopFacts
    <2>2. Queued' \subseteq visited'
      BY <1>1, <2>1, QueuedStep DEF FrontierInv
    <2>3. rest' \subseteq Adjacent(current)'
      BY <2>1, GraphStays DEF Adjacent, Links
    <2>4. ASSUME NEW m \in visited' \ Queued', NEW k \in Nodes, Linked(m, k)
          PROVE  k \in visited' \/ (m = current' /\ k \in rest')
      <3>1. CASE m = current'
        BY <2>1, <2>4, <3>1, AdjacentIsLinked
      <3>2. CASE m # current'
        <4>1. m \in visited \ Queued
          BY <1>1, <2>1, <2>4, <3>2, QueuedStep
        <4> QED
          BY <2>1, <2>4, <4>1 DEF FrontierInv
      <3> QED
        BY <3>1, <3>2
    <2> QED
      BY <2>1, <2>2, <2>3, <2>4, GraphStays DEF FrontierInv
  <1>2. CASE Discover
    <2>0. PICK n : n = Least(rest)
      OBVIOUS
    <2>1. /\ pc = "bfs" /\ pc' = pc /\ n \in rest /\ n \in Nodes /\ rest' = rest \ {n}
          /\ visited' = visited \cup {n} /\ UNCHANGED <<source, current>>
      BY <1>2, <2>0, DiscoverFacts
    <2>2. Queued' = Queued \cup {n}
      BY <1>2, <2>0, QueuedStep
    <2>3. Linked(current, n)
      BY <1>0, <2>1, AdjacentIsLinked DEF FrontierInv
    <2>4. ASSUME NEW S \in SUBSET Nodes, source \in S, Closed(S) PROVE visited' \subseteq S
      BY <2>1, <2>3, <2>4 DEF FrontierInv, Closed
    <2>5. ASSUME NEW m \in visited' \ Queued', NEW k \in Nodes, Linked(m, k)
          PROVE  k \in visited' \/ (m = current' /\ k \in rest')
      BY <2>1, <2>2, <2>5 DEF FrontierInv
    <2>6. source' \in visited' /\ current' \in visited' /\ Queued' \subseteq visited'
      BY <2>1, <2>2 DEF FrontierInv
    <2>7. rest' \subseteq Adjacent(current)'
      <3>1. rest' \subseteq Adjacent(current)
        BY <2>1 DEF FrontierInv
      <3> QED
        BY <2>1, <3>1, GraphStays DEF Adjacent, Links
    <2> QED
      BY <2>1, <2>4, <2>5, <2>6, <2>7, GraphStays DEF FrontierInv
  <1>3. CASE PassOver
    <2>0. PICK n : n = Least(rest)
      OBVIOUS
    <2>1. /\ n \in visited /\ rest' = rest \ {n} /\ pc = "bfs"
          /\ UNCHANGED <<links, source, pc, visited, queue, current>>
      BY <1>3, <2>0, PassOverFacts
    <2>2. Queued' = Queued
      BY <2>1 DEF Queued
    <2>3. Adjacent(current)' = Adjacent(current)
      BY <2>1 DEF Adjacent, Links
    <2> QED
      BY <2>1, <2>2, <2>3, GraphStays DEF FrontierInv
  <1>4. CASE ~Pop /\ ~Discover /\ ~PassOver
    <2>1. /\ UNCHANGED <<links, source, visited, queue, current, rest>>
          /\ pc # "bfs" => pc' # "bfs"
          /\ pc = "bfs" /\ pc' # "bfs" => rest = {} /\ queue = <<>>
      BY <1>4, WalkRests
    <2>2. Queued' = Queued /\ Adjacent(current)' = Adjacent(current)
      BY <2>1 DEF Queued, Adjacent, Links
    <2> QED
      BY <2>1, <2>2, GraphStays DEF FrontierInv
  <1> QED
    BY <1>1, <1>2, <1>3, <1>4

(* Distances: the queue is in order, and all that is reached is at most one *)
(* hop beyond the current id.                                               *)
LEMMA StepDistanceInv ==
  ASSUME TypeOK, FrontierInv, DistanceInv, [Next]_vars
  PROVE  DistanceInv'
  <1>0. /\ current \in Nodes /\ visited \subseteq Nodes /\ current \in visited
        /\ hops \in [Nodes -> Nat] /\ Cardinality(visited) \in Nat
    <2>1. hops \in [Nodes -> Nat]
      BY ReachedSize DEF TypeOK
    <2> QED
      BY <2>1, ReachedSize DEF TypeOK, FrontierInv
  <1>1. CASE Pop
    <2>1. /\ UNCHANGED <<visited, hops>> /\ queue \in Seq(Nodes)
          /\ 1 \in DOMAIN queue /\ current' = queue[1] /\ current' \in visited
          /\ \A i \in DOMAIN queue' :
               i \in Nat /\ i + 1 \in DOMAIN queue /\ queue'[i] = queue[i + 1]
      BY <1>1, PopFacts
    <2>2. hops[current] <= hops[current']
      BY <2>1 DEF DistanceInv
    <2>3. ASSUME NEW m \in visited PROVE hops[m] <= hops[current'] + 1
      <3>1. hops[m] <= hops[current] + 1
        BY <2>3 DEF DistanceInv
      <3>2. hops[m] \in Nat /\ hops[current] \in Nat /\ hops[current'] \in Nat
        BY <1>0, <2>1, <2>3
      <3> QED
        BY <2>2, <3>1, <3>2
    <2>4. ASSUME NEW i \in DOMAIN queue' PROVE hops[current'] <= hops[queue'[i]]
      <3>1. 1 <= i + 1 /\ i + 1 \in DOMAIN queue
        BY <2>1, <2>4
      <3> QED
        BY <2>1, <2>4, <3>1 DEF DistanceInv
    <2>5. ASSUME NEW i \in DOMAIN queue', NEW j \in DOMAIN queue', i <= j
          PROVE  hops[queue'[i]] <= hops[queue'[j]]
      <3>1. i + 1 <= j + 1 /\ i + 1 \in DOMAIN queue /\ j + 1 \in DOMAIN queue
        BY <2>1, <2>5
      <3> QED
        BY <2>1, <2>5, <3>1 DEF DistanceInv
    <2>6. ASSUME NEW m \in visited \ Queued', NEW k \in visited, Linked(m, k)
          PROVE  hops[k] <= hops[m] + 1
      <3>1. CASE m = current'
        BY <2>3, <3>1
      <3>2. CASE m # current'
        <4>1. m \in visited \ Queued
          BY <1>1, <2>6, <3>2, QueuedStep
        <4> QED
          BY <2>6, <4>1 DEF DistanceInv
      <3> QED
        BY <3>1, <3>2
    <2> QED
      BY <2>1, <2>3, <2>4, <2>5, <2>6, GraphStays DEF DistanceInv
  <1>2. CASE Discover
    <2>0. PICK n : n = Least(rest)
      OBVIOUS
    <2>1. /\ n \in Nodes /\ n \notin visited /\ visited' = visited \cup {n} /\ current' = current
          /\ hops' \in [Nodes -> Nat]
          /\ \A m \in Nodes : hops'[m] = IF m = n THEN hops[current] + 1 ELSE hops[m]
      BY <1>2, <2>0, DiscoverFacts
    <2>2. /\ Len(queue) \in Nat /\ DOMAIN queue = 1..Len(queue)
          /\ DOMAIN queue' = 1..(Len(queue) + 1)
          /\ \A i \in DOMAIN queue : i \in DOMAIN queue' /\ queue'[i] = queue[i]
          /\ queue'[Len(queue) + 1] = n
      BY <1>2, <2>0, DiscoverFacts
    <2>3. /\ hops'[n] = hops[current] + 1 /\ hops[current] \in Nat
          /\ \A m \in visited : m \in Nodes /\ m # n /\ hops'[m] = hops[m] /\ hops[m] \in Nat
                                /\ hops[m] <= hops[current] + 1
      BY <1>0, <2>1 DEF DistanceInv
    <2>4. /\ DOMAIN queue' = DOMAIN queue \cup {Len(queue) + 1}
          /\ \A i \in DOMAIN queue : queue'[i] = queue[i] /\ queue[i] \in visited
                                     /\ i \in Nat /\ i < Len(queue) + 1
      BY <2>2 DEF FrontierInv, Queued
    <2>5. \A m \in Nodes : IF m \in visited' THEN hops'[m] < Cardinality(visited')
                           ELSE hops'[m] = 0
      <3>1. Cardinality(visited') = Cardinality(visited) + 1
        BY <2>1, ReachedSize
      <3>2. \A m \in visited : hops[m] < Cardinality(visited)
        BY <1>0 DEF DistanceInv
      <3>3. \A m \in Nodes \ visited' : hops'[m] = 0
        BY <2>1 DEF DistanceInv
      <3>4. hops'[n] < Cardinality(visited')
        BY <1>0, <2>3, <3>1, <3>2
      <3>5. \A m \in visited : hops'[m] < Cardinality(visited')
        BY <1>0, <2>3, <3>1, <3>2
      <3> QED
        BY <2>1, <3>3, <3>4, <3>5
    <2>6. \A m \in visited' : hops'[m] <= hops'[current'] + 1
      BY <1>0, <2>1, <2>3
    <2>7. \A i \in DOMAIN queue' : hops'[current'] <= hops'[queue'[i]]
      BY <1>0, <2>1, <2>2, <2>3, <2>4 DEF DistanceInv
    <2>8. ASSUME NEW i \in DOMAIN queue', NEW j \in DOMAIN queue', i <= j
          PROVE  hops'[queue'[i]] <= hops'[queue'[j]]
      <3>1. CASE j \in DOMAIN queue
        <4>1. i \in DOMAIN queue
          BY <2>2, <2>8, <3>1
        <4> QED
          BY <2>3, <2>4, <2>8, <3>1, <4>1 DEF DistanceInv
      <3>2. CASE j = Len(queue) + 1
        BY <2>2, <2>3, <2>4, <3>2
      <3> QED
        BY <2>4, <3>1, <3>2
    <2>9. ASSUME NEW m \in visited' \ Queued', NEW k \in visited', Linked(m, k)
          PROVE  hops'[k] <= hops'[m] + 1
      <3>1. m \in visited \ Queued
        BY <1>2, <2>0, <2>1, <2>9, QueuedStep
      <3>2. CASE k \in visited
        BY <2>3, <2>9, <3>1, <3>2 DEF DistanceInv
      <3>3. CASE k = n
        <4>1. m = current
          BY <2>1, <2>9, <3>1, <3>3 DEF FrontierInv
        <4> QED
          BY <2>3, <3>1, <3>3, <4>1
      <3> QED
        BY <2>1, <3>2, <3>3
    <2> QED
      BY <2>5, <2>6, <2>7, <2>8, <2>9, GraphStays DEF DistanceInv
  <1>3. CASE ~Pop /\ ~Discover
    <2>1. UNCHANGED <<visited, hops, queue, current>>
      BY <1>3, WalkRests, PassOverFacts
    <2>2. Queued' = Queued
      BY <2>1 DEF Queued
    <2> QED
      BY <2>1, <2>2, GraphStays DEF DistanceInv
  <1> QED
    BY <1>1, <1>2, <1>3

(* A path of the report: one id per hop, from the source, over links.       *)
LeadsTo(p, n) ==
  /\ Len(p) = hops[n] + 1 /\ p[1] = source /\ p[Len(p)] = n
  /\ \A i \in 1..(Len(p) - 1) : Linked(p[i], p[i + 1])

(* One more link makes a path one hop longer.                               *)
LEMMA LongerPath ==
  ASSUME NEW p \in Seq(Nodes), p # <<>>, NEW n \in Nodes, Linked(p[Len(p)], n)
  PROVE  LET q == Append(p, n)
         IN  /\ Len(q) = Len(p) + 1 /\ q[1] = p[1] /\ q[Len(q)] = n
             /\ (\A i \in 1..(Len(p) - 1) : Linked(p[i], p[i + 1]))
                  => \A i \in 1..(Len(q) - 1) : Linked(q[i], q[i + 1])
  <1> DEFINE q == Append(p, n)
  <1>1. /\ Len(p) \in Nat /\ Len(p) > 0 /\ Len(q) = Len(p) + 1
        /\ \A i \in 1..Len(p) : q[i] = p[i]
        /\ q[Len(p) + 1] = n
    OBVIOUS
  <1> HIDE DEF q
  <1>2. ASSUME \A i \in 1..(Len(p) - 1) : Linked(p[i], p[i + 1]), NEW i \in 1..(Len(q) - 1)
        PROVE  Linked(q[i], q[i + 1])
    <2>1. CASE i = Len(p)
      BY <1>1, <2>1
    <2>2. CASE i # Len(p)
      <3>1. i \in 1..(Len(p) - 1) /\ i \in 1..Len(p) /\ i + 1 \in 1..Len(p)
        BY <1>1, <1>2, <2>2
      <3>2. q[i] = p[i] /\ q[i + 1] = p[i + 1]
        BY <1>1, <3>1
      <3> QED
        BY <1>2, <3>1, <3>2
    <2> QED
      BY <2>1, <2>2
  <1>3. q[1] = p[1] /\ q[Len(q)] = n
    BY <1>1
  <1> QED
    BY <1>1, <1>2, <1>3 DEF q

(* The paths stay paths, of the length of the distance; when the walk is    *)
(* over, no link goes further than one hop.                                 *)
LEMMA StepPaths ==
  ASSUME TypeOK, TypeOK', FrontierInv, FrontierInv', DistanceInv', PathsAreShortest, [Next]_vars
  PROVE  PathsAreShortest'
  <1>0. /\ current \in Nodes /\ visited \subseteq Nodes /\ current \in visited
        /\ path \in [Nodes -> Seq(Nodes)]
    BY DEF TypeOK, FrontierInv
  <1>1. \A m \in visited : LeadsTo(path[m], m)
    BY DEF PathsAreShortest, LeadsTo
  <1>2. \A m \in visited' : LeadsTo(path[m], m)'
    <2>1. CASE Discover
      <3>0. PICK n : n = Least(rest)
        OBVIOUS
      <3>1. /\ n \in rest /\ n \in Nodes /\ n \notin visited /\ visited' = visited \cup {n}
            /\ links' = links /\ source' = source
            /\ hops' \in [Nodes -> Nat] /\ hops \in [Nodes -> Nat]
            /\ \A m \in Nodes : hops'[m] = IF m = n THEN hops[current] + 1 ELSE hops[m]
            /\ \A m \in Nodes : path'[m] = IF m = n THEN Append(path[current], n) ELSE path[m]
        BY <2>1, <3>0, DiscoverFacts
      <3>2. ASSUME NEW m \in visited PROVE LeadsTo(path[m], m)'
        <4>1. m \in Nodes /\ m # n /\ hops'[m] = hops[m] /\ path'[m] = path[m]
          BY <1>0, <3>1, <3>2
        <4>2. LeadsTo(path[m], m)
          BY <1>1, <3>2
        <4> QED
          BY <3>1, <4>1, <4>2 DEF LeadsTo, Linked
      <3>3. LeadsTo(path[n], n)'
        <4> DEFINE p == path[current]
        <4>1. /\ p \in Seq(Nodes) /\ Len(p) = hops[current] + 1 /\ hops[current] \in Nat
              /\ p[1] = source /\ p[Len(p)] = current
              /\ \A i \in 1..(Len(p) - 1) : Linked(p[i], p[i + 1])
          BY <1>0, <1>1, <3>1 DEF LeadsTo
        <4>2. p # <<>> /\ Linked(p[Len(p)], n)
          <5>1. Linked(current, n)
            BY <1>0, <3>1, AdjacentIsLinked DEF FrontierInv
          <5>2. Len(<<>>) = 0
            OBVIOUS
          <5> QED
            BY <4>1, <5>1, <5>2
        <4> HIDE DEF p
        <4> DEFINE q == Append(p, n)
        <4>3. /\ Len(q) = Len(p) + 1 /\ q[1] = source /\ q[Len(q)] = n
              /\ \A i \in 1..(Len(q) - 1) : Linked(q[i], q[i + 1])
          BY <3>1, <4>1, <4>2, LongerPath
        <4>4. path'[n] = q /\ hops'[n] = hops[current] + 1
          BY <3>1 DEF p
        <4> HIDE DEF q
        <4> QED
          BY <3>1, <4>1, <4>3, <4>4 DEF LeadsTo, Linked
      <3> QED
        BY <3>1, <3>2, <3>3
    <2>2. CASE ~Discover
      <3>1. UNCHANGED <<links, source, visited, hops, path>>
        BY <2>2, WalkRests, PassOverFacts, PopFacts
      <3> QED
        BY <1>1, <3>1 DEF LeadsTo, Linked
    <2> QED
      BY <2>1, <2>2
  <1>3. ASSUME pc' # "bfs", NEW m \in visited', NEW n \in Nodes, Linked(m, n)'
        PROVE  hops'[n] <= hops'[m] + 1
    <2>1. queue' = <<>> /\ rest' = {}
      BY <1>3 DEF FrontierInv
    <2>2. Queued' = {}
      BY <2>1 DEF Queued
    <2>3. n \in visited'
      BY <1>3, <2>1, <2>2 DEF FrontierInv
    <2> QED
      BY <1>3, <2>2, <2>3 DEF DistanceInv
  <1>4. hops'[source'] = 0
    <2>1. source \in visited /\ source \in Nodes /\ hops[source] = 0
      BY <1>0 DEF FrontierInv, PathsAreShortest
    <2>2. CASE Discover
      <3>1. PICK n : n = Least(rest)
        OBVIOUS
      <3>2. /\ n \notin visited /\ source' = source
            /\ \A m \in Nodes : hops'[m] = IF m = n THEN hops[current] + 1 ELSE hops[m]
        BY <2>2, <3>1, DiscoverFacts
      <3> QED
        BY <2>1, <3>2
    <2>3. CASE ~Discover
      BY <2>1, <2>3, WalkRests, PassOverFacts, PopFacts
    <2> QED
      BY <2>2, <2>3
  <1> QED
    BY <1>2, <1>3, <1>4 DEF PathsAreShortest, LeadsTo

-----------------------------------------------------------------------------
(* The depth-first walk.  The other steps leave the stack and the colors.   *)
LEMMA StackRests ==
  ASSUME [Next]_vars, ~Start, ~Descend, ~Skip, ~Retreat
  PROVE  UNCHANGED <<color, parent, stack>> /\ (pc' = "bfs" => pc = "bfs")
  BY DEF Next, Pop, Discover, PassOver, ReachedAll, CloseCycle, Climb, FoundCycle,
     NoCycle, vars, graph, bfs, dfs

(* A walk starts at an entity that is not met yet, with an empty stack.     *)
LEMMA StartFacts ==
  ASSUME TypeOK, Start, NEW n, n = Least(Starts)
  PROVE  /\ pc = "dfs" /\ UNCHANGED <<links, pc, parent, cycle>> /\ stack = <<>>
         /\ n \in Entities /\ n \in Nodes /\ color[n] = "white"
         /\ stack' \in Seq(Frame) /\ DOMAIN stack' = {1} /\ Len(stack') = 1
         /\ Node(1)' = n /\ stack'[1].rest = Links(n)
         /\ \A m \in Nodes : color'[m] = IF m = n THEN "gray" ELSE color[m]
  <1>1. /\ pc = "dfs" /\ UNCHANGED <<links, pc, parent, cycle>> /\ stack = <<>>
        /\ Starts # {} /\ Enter(n, stack)
    BY DEF Start, graph
  <1>2. n \in Starts /\ n \in Nodes /\ stack \in Seq(Frame)
    BY <1>1, NextIsNode, StackType
  <1>3. n \in Entities /\ color[n] = "white"
    BY <1>2 DEF Starts
  <1>4. /\ stack' \in Seq(Frame) /\ DOMAIN stack' = 1..(Len(stack) + 1)
        /\ Len(stack') = Len(stack) + 1
        /\ stack'[Len(stack) + 1].node = n /\ stack'[Len(stack) + 1].rest = Links(n)
        /\ \A m \in Nodes : color'[m] = IF m = n THEN "gray" ELSE color[m]
    BY <1>1, <1>2, EnterFacts
  <1>5. Len(stack) = 0
    BY <1>1
  <1> QED
    BY <1>1, <1>2, <1>3, <1>4, <1>5 DEF Node

(* A white link of the top is taken from it and goes on top.                *)
LEMMA DescendFacts ==
  ASSUME TypeOK, Descend, NEW n, n = Least(Top.rest)
  PROVE  /\ pc = "dfs" /\ UNCHANGED <<links, pc, cycle>> /\ stack # <<>>
         /\ n \in Nodes /\ color[n] = "white" /\ n \in stack[Len(stack)].rest
         /\ Len(stack) \in Nat \ {0} /\ DOMAIN stack = 1..Len(stack)
         /\ stack' \in Seq(Frame) /\ Len(stack') = Len(stack) + 1
         /\ DOMAIN stack' = 1..(Len(stack) + 1)
         /\ \A i \in DOMAIN stack :
              /\ stack'[i].node = Node(i) /\ Node(i) \in Nodes
              /\ i # Len(stack) => stack'[i].rest = stack[i].rest
              /\ i = Len(stack) => stack'[i].rest = stack[i].rest \ {n}
         /\ stack'[Len(stack) + 1].node = n /\ stack'[Len(stack) + 1].rest = Links(n)
         /\ \A m \in Nodes : color'[m] = IF m = n THEN "gray" ELSE color[m]
         /\ \A m \in Nodes : parent'[m] = IF m = n THEN Node(Len(stack)) ELSE parent[m]
  <1>1. /\ pc = "dfs" /\ UNCHANGED <<links, pc, cycle>> /\ stack # <<>>
        /\ Top.rest # {} /\ color[n] = "white" /\ Enter(n, TopLess(n))
        /\ parent' = [parent EXCEPT ![n] = Top.node]
    BY DEF Descend, At, graph
  <1>2. /\ n \in Top.rest /\ n \in Nodes
    BY <1>1, NextIsNode
  <1>3. /\ Len(stack) \in Nat \ {0} /\ DOMAIN stack = 1..Len(stack)
        /\ Top.node = Node(Len(stack)) /\ \A i \in DOMAIN stack : Node(i) \in Nodes
    BY <1>1, StackType
  <1>4. /\ TopLess(n) \in Seq(Frame) /\ Len(TopLess(n)) = Len(stack)
        /\ DOMAIN TopLess(n) = DOMAIN stack
        /\ \A i \in DOMAIN stack :
              /\ TopLess(n)[i].node = Node(i)
              /\ TopLess(n)[i].rest = IF i = Len(stack) THEN stack[i].rest \ {n}
                                      ELSE stack[i].rest
    BY <1>1, TopLessFacts
  <1>5. /\ stack' \in Seq(Frame) /\ DOMAIN stack' = 1..(Len(stack) + 1)
        /\ Len(stack') = Len(stack) + 1
        /\ \A i \in DOMAIN stack : stack'[i] = TopLess(n)[i]
        /\ stack'[Len(stack) + 1].node = n /\ stack'[Len(stack) + 1].rest = Links(n)
        /\ \A m \in Nodes : color'[m] = IF m = n THEN "gray" ELSE color[m]
    <2> DEFINE below == TopLess(n)
    <2>1. below \in Seq(Frame) /\ Len(below) = Len(stack) /\ DOMAIN below = DOMAIN stack
      BY <1>4
    <2>2. Enter(n, below)
      BY <1>1
    <2> HIDE DEF below
    <2>3. /\ stack' \in Seq(Frame) /\ DOMAIN stack' = 1..(Len(below) + 1)
          /\ Len(stack') = Len(below) + 1
          /\ \A i \in DOMAIN below : stack'[i] = below[i]
          /\ stack'[Len(below) + 1].node = n /\ stack'[Len(below) + 1].rest = Links(n)
          /\ \A m \in Nodes : color'[m] = IF m = n THEN "gray" ELSE color[m]
      BY <1>2, <2>1, <2>2, EnterFacts
    <2> QED
      BY <2>1, <2>3 DEF below
  <1>6. \A m \in Nodes : parent'[m] = IF m = n THEN Node(Len(stack)) ELSE parent[m]
    BY <1>1, <1>2, <1>3 DEF TypeOK
  <1>7. n \in stack[Len(stack)].rest
    BY <1>2 DEF Top
  <1>8. \A i \in DOMAIN stack : stack'[i].node = Node(i)
    BY <1>4, <1>5
  <1> QED
    BY <1>1, <1>2, <1>3, <1>4, <1>5, <1>6, <1>7, <1>8

(* A black link of the top is taken from it.                                *)
LEMMA SkipFacts ==
  ASSUME TypeOK, Skip, NEW n, n = Least(Top.rest)
  PROVE  /\ pc = "dfs" /\ UNCHANGED <<links, pc, color, parent, cycle>>
         /\ n \in Nodes /\ color[n] = "black"
         /\ Len(stack) \in Nat \ {0} /\ DOMAIN stack = 1..Len(stack)
         /\ stack' \in Seq(Frame) /\ DOMAIN stack' = DOMAIN stack
         /\ \A i \in DOMAIN stack :
              /\ Node(i)' = Node(i)
              /\ i # Len(stack) => stack'[i].rest = stack[i].rest
              /\ i = Len(stack) => stack'[i].rest = stack[i].rest \ {n}
  <1>1. /\ pc = "dfs" /\ UNCHANGED <<links, pc, color, parent, cycle>> /\ stack # <<>>
        /\ Top.rest # {} /\ color[n] = "black" /\ stack' = TopLess(n)
    BY DEF Skip, At, graph
  <1>2. n \in Nodes
    BY <1>1, NextIsNode
  <1>3. Len(stack) \in Nat \ {0} /\ DOMAIN stack = 1..Len(stack)
    BY <1>1, StackType
  <1> QED
    BY <1>1, <1>2, <1>3, TopLessFacts DEF Node

(* A top with no link left is black and off the stack.                      *)
LEMMA RetreatFacts ==
  ASSUME TypeOK, Retreat, NEW t, t = Top.node
  PROVE  /\ pc = "dfs" /\ UNCHANGED <<links, pc, parent, cycle>>
         /\ t \in Nodes /\ t = Node(Len(stack)) /\ stack[Len(stack)].rest = {}
         /\ Len(stack) \in Nat \ {0} /\ DOMAIN stack = 1..Len(stack)
         /\ stack' \in Seq(Frame) /\ DOMAIN stack' = 1..(Len(stack) - 1)
         /\ \A i \in DOMAIN stack' : Node(i)' = Node(i) /\ stack'[i].rest = stack[i].rest
         /\ \A m \in Nodes : color'[m] = IF m = t THEN "black" ELSE color[m]
  <1>1. /\ pc = "dfs" /\ UNCHANGED <<links, pc, parent, cycle>> /\ stack # <<>>
        /\ Top.rest = {} /\ color' = [color EXCEPT ![t] = "black"]
        /\ stack' = SubSeq(stack, 1, Len(stack) - 1)
    BY DEF Retreat, graph
  <1>2. /\ Len(stack) \in Nat \ {0} /\ DOMAIN stack = 1..Len(stack)
        /\ t = Node(Len(stack)) /\ t \in Nodes /\ stack[Len(stack)].rest = {}
    BY <1>1, StackType DEF Top
  <1>3. /\ stack' \in Seq(Frame) /\ DOMAIN stack' = 1..(Len(stack) - 1)
        /\ \A i \in DOMAIN stack' : stack'[i] = stack[i]
    BY <1>1, PoppedFacts
  <1>4. \A m \in Nodes : color'[m] = IF m = t THEN "black" ELSE color[m]
    BY <1>1, <1>2 DEF TypeOK
  <1> QED
    BY <1>1, <1>2, <1>3, <1>4 DEF Node

(* The stack is the way from a start to the top, its ids the gray ones.     *)
LEMMA StepStackInv ==
  ASSUME TypeOK, StackInv, [Next]_vars
  PROVE  StackInv'
  <1>0. links' = links /\ \A n : Links(n)' = Links(n)
    BY GraphStays
  <1>1. CASE Start
    <2>1. PICK n : n = Least(Starts)
      OBVIOUS
    <2>2. /\ pc' = "dfs" /\ stack = <<>> /\ n \in Nodes /\ DOMAIN stack' = {1}
          /\ Node(1)' = n /\ stack'[1].rest = Links(n)
          /\ \A m \in Nodes : color'[m] = IF m = n THEN "gray" ELSE color[m]
      BY <1>1, <2>1, StartFacts
    <2>3. \A m \in Nodes : color[m] # "gray"
      BY <2>2 DEF StackInv
    <2>4. \A m \in Nodes : color'[m] = "gray" <=> m = n
      BY <2>2, <2>3
    <2>5. \A i \in DOMAIN stack' : i = 1 /\ Node(i)' = n
      BY <2>2 DEF Node
    <2>6. stack'[1].rest \subseteq Links(n)'
      BY <1>0, <2>2
    <2> QED
      BY <1>0, <2>2, <2>4, <2>5, <2>6 DEF StackInv
  <1>2. CASE Descend
    <2>1. PICK n : n = Least(Top.rest)
      OBVIOUS
    <2>2. /\ pc = "dfs" /\ pc' = pc /\ n \in Nodes /\ color[n] = "white" /\ n \in stack[Len(stack)].rest
          /\ Len(stack) \in Nat \ {0} /\ DOMAIN stack = 1..Len(stack) /\ DOMAIN stack' = 1..(Len(stack) + 1)
          /\ \A i \in DOMAIN stack :
               /\ stack'[i].node = Node(i) /\ Node(i) \in Nodes
               /\ i # Len(stack) => stack'[i].rest = stack[i].rest
               /\ i = Len(stack) => stack'[i].rest = stack[i].rest \ {n}
          /\ stack'[Len(stack) + 1].node = n /\ stack'[Len(stack) + 1].rest = Links(n)
          /\ \A m \in Nodes : color'[m] = IF m = n THEN "gray" ELSE color[m]
          /\ \A m \in Nodes : parent'[m] = IF m = n THEN Node(Len(stack)) ELSE parent[m]
      BY <1>2, <2>1, DescendFacts
    <2>3. \A i \in DOMAIN stack : Node(i) # n /\ color[Node(i)] = "gray"
      BY <2>2 DEF StackInv
    <2>4. DOMAIN stack' = DOMAIN stack \cup {Len(stack) + 1} /\ Len(stack) \in DOMAIN stack /\ Len(stack) + 1 \notin DOMAIN stack
      BY <2>2
    <2>5. ASSUME NEW m \in Nodes
          PROVE  color'[m] = "gray" <=> \E i \in DOMAIN stack' : stack'[i].node = m
      BY <2>2, <2>4, <2>5 DEF StackInv, Node
    <2>6. \A i, j \in DOMAIN stack' : stack'[i].node = stack'[j].node => i = j
      BY <2>2, <2>3, <2>4 DEF StackInv, Node
    <2>7. \A i \in DOMAIN stack' : stack'[i].rest \subseteq Links(stack'[i].node)
      BY <2>2, <2>4 DEF StackInv, Node
    <2>8. ASSUME NEW i \in DOMAIN stack', NEW j \in DOMAIN stack', j = i + 1
          PROVE  stack'[j].node \in Links(stack'[i].node) /\ parent'[stack'[j].node] = stack'[i].node
      <3>1. CASE j = Len(stack) + 1
        <4>1. i = Len(stack)
          BY <2>2, <2>8, <3>1
        <4>2. n \in Links(Node(Len(stack)))
          BY <2>2, <2>4 DEF StackInv
        <4> QED
          BY <2>2, <2>4, <3>1, <4>1, <4>2 DEF Node
      <3>2. CASE j # Len(stack) + 1
        <4>1. i \in DOMAIN stack /\ j \in DOMAIN stack
          BY <2>2, <2>8, <3>2
        <4>2. Node(j) \in Links(Node(i)) /\ parent[Node(j)] = Node(i)
          BY <2>8, <4>1 DEF StackInv
        <4>3. parent'[Node(j)] = parent[Node(j)]
          BY <2>2, <2>3, <4>1
        <4> QED
          BY <2>2, <4>1, <4>2, <4>3 DEF Node
      <3> QED
        BY <3>1, <3>2
    <2>9. \A i \in DOMAIN stack' : Links(stack'[i].node) = Links(Node(i))'
      BY <1>0 DEF Node, Links
    <2> QED
      BY <2>2, <2>5, <2>6, <2>7, <2>8, <2>9 DEF StackInv, Node
  <1>3. CASE Skip
    <2>1. PICK n : n = Least(Top.rest)
      OBVIOUS
    <2>2. /\ pc' = "dfs" /\ UNCHANGED <<color, parent>> /\ DOMAIN stack' = DOMAIN stack
          /\ \A i \in DOMAIN stack :
               /\ Node(i)' = Node(i)
               /\ i # Len(stack) => stack'[i].rest = stack[i].rest
               /\ i = Len(stack) => stack'[i].rest = stack[i].rest \ {n}
      BY <1>3, <2>1, SkipFacts
    <2>3. \A i \in DOMAIN stack' : stack'[i].rest \subseteq Links(Node(i))'
      <3>1. \A i \in DOMAIN stack' : stack'[i].rest \subseteq Links(Node(i))
        BY <2>2 DEF StackInv
      <3> QED
        BY <1>0, <2>2, <3>1 DEF Links
    <2>4. \A i \in DOMAIN stack : Links(Node(i))' = Links(Node(i))
      BY <1>0, <2>2 DEF Links
    <2> QED
      BY <2>2, <2>3, <2>4 DEF StackInv
  <1>4. CASE Retreat
    <2>1. PICK t : t = Top.node
      OBVIOUS
    <2>2. /\ pc' = "dfs" /\ parent' = parent /\ t \in Nodes /\ t = Node(Len(stack))
          /\ Len(stack) \in Nat \ {0} /\ DOMAIN stack = 1..Len(stack)
          /\ DOMAIN stack' = 1..(Len(stack) - 1)
          /\ \A i \in DOMAIN stack' : Node(i)' = Node(i) /\ stack'[i].rest = stack[i].rest
          /\ \A m \in Nodes : color'[m] = IF m = t THEN "black" ELSE color[m]
      BY <1>4, <2>1, RetreatFacts
    <2>3. /\ DOMAIN stack' \subseteq DOMAIN stack /\ Len(stack) \in DOMAIN stack
          /\ \A i \in DOMAIN stack : i = Len(stack) \/ i \in DOMAIN stack'
          /\ Len(stack) \notin DOMAIN stack'
      BY <2>2
    <2>4. ASSUME NEW m \in Nodes
          PROVE  color'[m] = "gray" <=> \E i \in DOMAIN stack' : Node(i)' = m
      <3>1. CASE m = t
        BY <2>2, <2>3, <3>1 DEF StackInv
      <3>2. CASE m # t
        BY <2>2, <2>3, <3>2 DEF StackInv
      <3> QED
        BY <3>1, <3>2
    <2>5. \A i \in DOMAIN stack' : Links(Node(i))' = Links(Node(i))
      BY <1>0, <2>2 DEF Links
    <2> QED
      BY <2>2, <2>3, <2>4, <2>5 DEF StackInv
  <1>5. CASE ~Start /\ ~Descend /\ ~Skip /\ ~Retreat
    <2>1. UNCHANGED <<color, parent, stack>> /\ (pc' = "bfs" => pc = "bfs")
      BY <1>5, StackRests
    <2>2. \A i : Node(i)' = Node(i) /\ Links(Node(i))' = Links(Node(i))
      BY <1>0, <2>1 DEF Node, Links
    <2> QED
      BY <2>1, <2>2 DEF StackInv
  <1> QED
    BY <1>1, <1>2, <1>3, <1>4, <1>5

(* An id that turns black links to black ids only, so it is on no cycle.    *)
LEMMA StepBlackInv ==
  ASSUME TypeOK, StackInv, BlackInv, [Next]_vars
  PROVE  BlackInv'
  <1>0. /\ links' = links /\ \A n : Links(n)' = Links(n)
        /\ color \in [Nodes -> {"white", "gray", "black"}]
    BY GraphStays DEF TypeOK
  <1>1. CASE Start
    <2>1. PICK n : n = Least(Starts)
      OBVIOUS
    <2>2. /\ n \in Nodes /\ color[n] = "white" /\ DOMAIN stack' = {1}
          /\ stack'[1].node = n /\ stack'[1].rest = Links(n)
          /\ \A m \in Nodes : color'[m] = IF m = n THEN "gray" ELSE color[m]
      BY <1>1, <2>1, StartFacts DEF Node
    <2>3. Black' = Black
      BY <2>2 DEF Black
    <2>4. \A i \in DOMAIN stack' : Links(stack'[i].node) \ stack'[i].rest = {}
      BY <2>2
    <2> QED
      BY <1>0, <2>3, <2>4 DEF BlackInv, Node
  <1>2. CASE Descend
    <2>1. PICK n : n = Least(Top.rest)
      OBVIOUS
    <2>2. /\ n \in Nodes /\ color[n] = "white"
          /\ Len(stack) \in Nat \ {0} /\ DOMAIN stack = 1..Len(stack) /\ DOMAIN stack' = 1..(Len(stack) + 1)
          /\ \A i \in DOMAIN stack :
               /\ stack'[i].node = Node(i)
               /\ i # Len(stack) => stack'[i].rest = stack[i].rest
               /\ i = Len(stack) => stack'[i].rest = stack[i].rest \ {n}
          /\ stack'[Len(stack) + 1].node = n /\ stack'[Len(stack) + 1].rest = Links(n)
          /\ \A m \in Nodes : color'[m] = IF m = n THEN "gray" ELSE color[m]
      BY <1>2, <2>1, DescendFacts
    <2>3. Black' = Black
      BY <2>2 DEF Black
    <2>4. ASSUME NEW i \in DOMAIN stack', NEW m \in Links(stack'[i].node) \ stack'[i].rest
          PROVE  m \in Black \/ (i + 1 \in DOMAIN stack' /\ m = stack'[i + 1].node)
      <3>1. CASE i = Len(stack) + 1
        BY <2>2, <2>4, <3>1
      <3>2. CASE i = Len(stack)
        <4>1. Len(stack) \in DOMAIN stack /\ Len(stack) + 1 \notin DOMAIN stack /\ Len(stack) + 1 \in DOMAIN stack'
          BY <2>2
        <4>2. CASE m = n
          BY <2>2, <3>2, <4>1, <4>2
        <4>3. CASE m # n
          BY <2>2, <2>4, <3>2, <4>1, <4>3 DEF BlackInv, Node
        <4> QED
          BY <4>2, <4>3
      <3>3. CASE i # Len(stack) /\ i # Len(stack) + 1
        <4>1. i \in DOMAIN stack /\ i + 1 \in DOMAIN stack /\ i + 1 \in DOMAIN stack'
          BY <2>2, <2>4, <3>3
        <4>2. m \in Links(Node(i)) \ stack[i].rest
          BY <2>2, <2>4, <3>3, <4>1 DEF Node
        <4>3. m \in Black \/ m = Node(i + 1)
          BY <4>1, <4>2 DEF BlackInv
        <4> QED
          BY <2>2, <4>1, <4>3 DEF Node
      <3> QED
        BY <3>1, <3>2, <3>3
    <2> QED
      BY <1>0, <2>3, <2>4 DEF BlackInv, Node
  <1>3. CASE Skip
    <2>1. PICK n : n = Least(Top.rest)
      OBVIOUS
    <2>2. /\ n \in Nodes /\ color[n] = "black" /\ color' = color
          /\ DOMAIN stack' = DOMAIN stack
          /\ \A i \in DOMAIN stack :
               /\ Node(i)' = Node(i)
               /\ i # Len(stack) => stack'[i].rest = stack[i].rest
               /\ i = Len(stack) => stack'[i].rest = stack[i].rest \ {n}
      BY <1>3, <2>1, SkipFacts
    <2>3. Black' = Black /\ n \in Black
      BY <2>2 DEF Black
    <2>4. \A i \in DOMAIN stack : Links(Node(i))' = Links(Node(i))
      BY <1>0, <2>2 DEF Links
    <2>5. ASSUME NEW i \in DOMAIN stack, NEW m \in Links(Node(i)) \ stack'[i].rest
          PROVE  m \in Black \/ (i + 1 \in DOMAIN stack /\ m = Node(i + 1))
      BY <2>2, <2>3, <2>5 DEF BlackInv
    <2> QED
      BY <1>0, <2>2, <2>3, <2>4, <2>5 DEF BlackInv
  <1>4. CASE Retreat
    <2>1. PICK t : t = Top.node
      OBVIOUS
    <2>2. /\ t \in Nodes /\ t = Node(Len(stack)) /\ stack[Len(stack)].rest = {}
          /\ Len(stack) \in Nat \ {0} /\ DOMAIN stack = 1..Len(stack)
          /\ DOMAIN stack' = 1..(Len(stack) - 1)
          /\ \A i \in DOMAIN stack' : Node(i)' = Node(i) /\ stack'[i].rest = stack[i].rest
          /\ \A m \in Nodes : color'[m] = IF m = t THEN "black" ELSE color[m]
      BY <1>4, <2>1, RetreatFacts
    <2>3. Len(stack) \in DOMAIN stack /\ Len(stack) + 1 \notin DOMAIN stack
      BY <2>2
    <2>4. t \notin Black
      BY <2>2, <2>3 DEF StackInv, Black
    <2>5. Links(t) \subseteq Black
      BY <2>2, <2>3 DEF BlackInv
    <2>6. Black' = Black \cup {t}
      BY <2>2 DEF Black
    <2>7. \A n \in Black' : Links(n) \subseteq Black'
      BY <2>5, <2>6 DEF BlackInv
    <2>8. ASSUME NEW S \in SUBSET (Black' \cap Entities), S # {}
          PROVE  \E n \in S : links[n] \cap S = {}
      <3>1. CASE S \ {t} = {}
        <4>1. t \in S /\ S = {t} /\ t \in Entities
          BY <2>8, <3>1
        <4>2. links[t] \subseteq Black
          BY <2>5, <4>1 DEF Links
        <4> QED
          BY <2>4, <4>1, <4>2
      <3>2. CASE S \ {t} # {}
        <4>1. S \ {t} \in SUBSET (Black \cap Entities)
          BY <2>6, <2>8
        <4>2. PICK n \in S \ {t} : links[n] \cap (S \ {t}) = {}
          BY <3>2, <4>1 DEF BlackInv
        <4>3. links[n] \subseteq Black
          BY <4>1, <4>2 DEF BlackInv, Links
        <4> QED
          BY <2>4, <4>2, <4>3
      <3> QED
        BY <3>1, <3>2
    <2>9. ASSUME NEW i \in DOMAIN stack', NEW m \in Links(Node(i)) \ stack'[i].rest
          PROVE  m \in Black' \/ (i + 1 \in DOMAIN stack' /\ m = Node(i + 1)')
      <3>1. i \in DOMAIN stack /\ i + 1 \in DOMAIN stack /\ m \in Links(Node(i)) \ stack[i].rest
        BY <2>2, <2>9
      <3>2. m \in Black \/ m = Node(i + 1)
        BY <3>1 DEF BlackInv
      <3>3. i + 1 = Len(stack) \/ i + 1 \in DOMAIN stack'
        BY <2>2, <2>9
      <3> QED
        BY <2>2, <2>6, <3>2, <3>3
    <2>10. \A i \in DOMAIN stack' : Links(Node(i))' = Links(Node(i))
      BY <1>0, <2>2 DEF Links
    <2> QED
      BY <1>0, <2>7, <2>8, <2>9, <2>10 DEF BlackInv
  <1>5. CASE ~Start /\ ~Descend /\ ~Skip /\ ~Retreat
    <2>1. UNCHANGED <<color, stack>>
      BY <1>5, StackRests
    <2>2. /\ \A i : Node(i)' = Node(i) /\ Links(Node(i))' = Links(Node(i))
          /\ Black' = Black
      BY <1>0, <2>1 DEF Node, Links, Black
    <2> QED
      BY <1>0, <2>1, <2>2 DEF BlackInv
  <1> QED
    BY <1>1, <1>2, <1>3, <1>4, <1>5

(* What is collected of the cycle is the top of the stack ...               *)
LEMMA StepClimbInv ==
  ASSUME TypeOK, StackInv, ClimbInv, [Next]_vars
  PROVE  ClimbInv'
  <1>1. CASE CloseCycle
    <2>1. /\ pc' = "climb" /\ stack' = stack /\ stack # <<>> /\ Top.rest # {}
          /\ color[Closing] = "gray" /\ cycle' = <<Top.node>>
      BY <1>1 DEF CloseCycle, At, Closing
    <2>2. Closing \in Nodes
      BY <2>1, NextIsNode DEF Closing
    <2>3. /\ Len(stack) \in Nat /\ Len(stack) > 0 /\ DOMAIN stack = 1..Len(stack)
          /\ Top.node = Node(Len(stack))
      BY <2>1, StackType
    <2>4. PICK i \in DOMAIN stack : Node(i) = Closing
      BY <2>1, <2>2 DEF StackInv
    <2>5. Top' = Top /\ Closing' = Closing /\ \A j : Node(j)' = Node(j)
      BY <2>1 DEF Top, Closing, Node
    <2>6. Len(cycle') = 1 /\ DOMAIN cycle' = {1} /\ cycle'[1] = Node(Len(stack)) /\ cycle' # <<>>
      BY <2>1, <2>3
    <2>7. i \in 1..(Len(stack) - 1 + 1)
      BY <2>3, <2>4
    <2>8. \A x \in DOMAIN cycle' : cycle'[x] = Node(Len(stack) - 1 + x)
      BY <2>3, <2>6
    <2> QED
      BY <2>1, <2>3, <2>4, <2>5, <2>6, <2>7, <2>8 DEF ClimbInv
  <1>2. CASE Climb
    <2>1. /\ pc = "climb" /\ pc' = "climb" /\ cycle[1] # Closing
          /\ cycle' = <<parent[cycle[1]]>> \o cycle /\ UNCHANGED <<parent, stack>>
      BY <1>2 DEF Climb
    <2>2. /\ stack # <<>> /\ Top.rest # {} /\ cycle # <<>> /\ Len(cycle) <= Len(stack)
          /\ \A x \in DOMAIN cycle : cycle[x] = Node(Len(stack) - Len(cycle) + x)
          /\ cycle \in Seq(Nodes)
      BY <2>1 DEF ClimbInv, TypeOK
    <2>3. PICK i \in 1..(Len(stack) - Len(cycle) + 1) : Node(i) = Closing
      BY <2>1 DEF ClimbInv
    <2>4. /\ Len(cycle) \in Nat \ {0} /\ DOMAIN cycle = 1..Len(cycle) /\ Len(stack) \in Nat
          /\ DOMAIN stack = 1..Len(stack)
      BY <2>2, StackType
    <2> DEFINE j == Len(stack) - Len(cycle) + 1
    <2>5. cycle[1] = Node(j) /\ i # j /\ j \in DOMAIN stack
      <3>1. 1 \in DOMAIN cycle /\ j \in DOMAIN stack
        BY <2>2, <2>4
      <3>2. cycle[1] = Node(j)
        BY <2>2, <3>1
      <3> QED
        BY <2>1, <2>3, <3>1, <3>2
    <2>6. i \in 1..(j - 1) /\ j - 1 \in DOMAIN stack /\ (j - 1) + 1 = j
      BY <2>3, <2>4, <2>5
    <2>7. parent[cycle[1]] = Node(j - 1)
      BY <2>5, <2>6 DEF StackInv
    <2>8. cycle[1] \in Nodes /\ parent[cycle[1]] \in Nodes
      BY <2>2, <2>4 DEF TypeOK
    <2>9. /\ Len(cycle') = Len(cycle) + 1 /\ DOMAIN cycle' = 1..(Len(cycle) + 1)
          /\ cycle' # <<>>
          /\ \A x \in 1..(Len(cycle) + 1) : cycle'[x] = IF x = 1 THEN Node(j - 1) ELSE cycle[x - 1]
      BY <2>1, <2>2, <2>4, <2>7, <2>8
    <2>10. ASSUME NEW x \in DOMAIN cycle'
           PROVE  cycle'[x] = Node(Len(stack) - Len(cycle') + x)
      <3>1. CASE x = 1
        <4>1. Len(stack) - Len(cycle') + 1 = j - 1
          BY <2>4, <2>9
        <4> QED
          BY <2>9, <3>1, <4>1
      <3>2. CASE x # 1
        <4>1. x - 1 \in DOMAIN cycle /\ Len(stack) - Len(cycle) + (x - 1) = Len(stack) - Len(cycle') + x
          BY <2>4, <2>9, <2>10, <3>2
        <4>2. cycle'[x] = cycle[x - 1]
          BY <2>9, <2>10, <3>2
        <4> QED
          BY <2>2, <4>1, <4>2
      <3> QED
        BY <3>1, <3>2
    <2>11. Top' = Top /\ Closing' = Closing /\ \A y : Node(y)' = Node(y)
      BY <2>1 DEF Top, Closing, Node
    <2>12. i \in 1..(Len(stack) - Len(cycle') + 1) /\ Len(cycle') <= Len(stack)
      BY <2>4, <2>5, <2>6, <2>9
    <2> QED
      BY <2>1, <2>2, <2>3, <2>9, <2>10, <2>11, <2>12 DEF ClimbInv
  <1>3. CASE FoundCycle
    BY <1>3 DEF FoundCycle, ClimbInv
  <1>4. CASE NoCycle
    BY <1>4 DEF NoCycle, ClimbInv
  <1>5. CASE \/ Pop \/ Discover \/ PassOver \/ ReachedAll \/ Start \/ Descend
             \/ Skip \/ Retreat
    <2>1. cycle' = cycle /\ pc \in {"bfs", "dfs"} /\ pc' \in {"bfs", "dfs"}
      BY <1>5 DEF Pop, Discover, PassOver, ReachedAll, Start, Descend, Skip, Retreat,
         At, dfs
    <2> QED
      BY <2>1 DEF ClimbInv
  <1>6. CASE UNCHANGED vars
    <2>1. UNCHANGED <<pc, cycle, stack>>
      BY <1>6 DEF vars, dfs
    <2>2. Top' = Top /\ Closing' = Closing /\ \A j : Node(j)' = Node(j)
      BY <2>1 DEF Top, Closing, Node
    <2> QED
      BY <2>1, <2>2 DEF ClimbInv
  <1> QED
    BY <1>1, <1>2, <1>3, <1>4, <1>5, <1>6 DEF Next

(* ... so that, closed, it is a cycle of the links.                         *)
LEMMA FoundIsCycle ==
  ASSUME TypeOK, StackInv, ClimbInv, FoundCycle
  PROVE  cycle' # <<>> /\ IsCycle(cycle')
  <1>1. /\ pc = "climb" /\ cycle[1] = Closing /\ cycle' = Append(cycle, Closing)
    BY DEF FoundCycle
  <1>2. /\ stack # <<>> /\ Top.rest # {} /\ cycle # <<>> /\ Len(cycle) <= Len(stack)
        /\ \A x \in DOMAIN cycle : cycle[x] = Node(Len(stack) - Len(cycle) + x)
        /\ cycle \in Seq(Nodes)
    BY <1>1 DEF ClimbInv, TypeOK
  <1>3. /\ Len(cycle) \in Nat \ {0} /\ DOMAIN cycle = 1..Len(cycle) /\ Len(stack) \in Nat
        /\ Len(stack) \in DOMAIN stack /\ DOMAIN stack = 1..Len(stack)
    BY <1>2, StackType
  <1>4. Closing \in Nodes /\ Closing \in stack[Len(stack)].rest
    BY <1>2, NextIsNode DEF Closing, Top
  <1>5. /\ Len(cycle') = Len(cycle) + 1 /\ cycle'[Len(cycle) + 1] = Closing
        /\ \A x \in 1..Len(cycle) : cycle'[x] = cycle[x]
    BY <1>1, <1>2, <1>4, AppendFacts
  <1>6. \A i \in DOMAIN stack : \A m \in Links(Node(i)) : Node(i) \in Entities /\ m \in links[Node(i)]
    BY DEF Links
  <1>7. ASSUME NEW x \in 1..Len(cycle)
        PROVE  cycle'[x] \in Entities /\ cycle'[x + 1] \in links[cycle'[x]]
    <2> DEFINE i == Len(stack) - Len(cycle) + x
    <2>0. Len(cycle) <= Len(stack)
      BY <1>2
    <2>1. i \in DOMAIN stack /\ cycle'[x] = Node(i)
      <3>1. i \in DOMAIN stack /\ x \in DOMAIN cycle
        BY <1>3, <1>7, <2>0
      <3>2. cycle[x] = Node(i)
        BY <1>2, <3>1
      <3> QED
        BY <1>5, <1>7, <3>1, <3>2
    <2>2. CASE x = Len(cycle)
      <3>1. i = Len(stack) /\ cycle'[x + 1] = Closing
        BY <1>3, <1>5, <2>2
      <3>2. Closing \in Links(Node(i))
        BY <1>3, <1>4, <3>1 DEF StackInv
      <3> QED
        BY <1>6, <2>1, <3>1, <3>2
    <2>3. CASE x # Len(cycle)
      <3>1. /\ x + 1 \in 1..Len(cycle) /\ i + 1 \in DOMAIN stack
            /\ Len(stack) - Len(cycle) + (x + 1) = i + 1
        <4>1. x \in Nat \ {0} /\ x < Len(cycle)
          <5>1. Len(cycle) \in Nat
            BY <1>3
          <5> QED
            BY <2>3, <5>1
        <4>2. i + 1 \in 1..Len(stack)
          BY <1>3, <2>0, <4>1
        <4> QED
          BY <1>3, <4>1, <4>2
      <3>2. cycle'[x + 1] = Node(i + 1)
        BY <1>2, <1>3, <1>5, <3>1
      <3>3. Node(i + 1) \in Links(Node(i))
        BY <2>1, <3>1 DEF StackInv
      <3> QED
        BY <1>6, <2>1, <3>2, <3>3
    <2> QED
      BY <2>2, <2>3
  <1>8. cycle'[1] = cycle'[Len(cycle')]
    BY <1>1, <1>3, <1>5
  <1>9. cycle' # <<>>
    <2>1. cycle' \in Seq(Nodes) /\ Len(cycle') # 0
      BY <1>1, <1>2, <1>3, <1>4, <1>5
    <2> QED
      BY <2>1
  <1> QED
    BY <1>3, <1>5, <1>7, <1>8, <1>9 DEF IsCycle

(* The report on cycles is right when it is made, and stays.                *)
LEMMA StepCycleIsReported ==
  ASSUME TypeOK, StackInv, BlackInv, ClimbInv, CycleIsReported, [Next]_vars
  PROVE  CycleIsReported'
  <1>0. links' = links
    BY GraphStays
  <1>1. CASE FoundCycle
    <2>1. IsCycle(cycle') /\ cycle' # <<>>
      BY <1>1, FoundIsCycle
    <2> QED
      BY <1>0, <2>1 DEF CycleIsReported, IsCycle
  <1>2. CASE NoCycle
    <2>1. pc = "dfs" /\ stack = <<>> /\ Starts = {} /\ cycle' = cycle
      BY <1>2 DEF NoCycle, dfs
    <2>2. cycle' = <<>>
      BY <2>1 DEF ClimbInv
    <2>3. DOMAIN stack = {}
      BY <2>1
    <2>4. \A n \in Entities : color[n] = "black"
      BY <2>1, <2>3, ImpactAssumption DEF Starts, StackInv, TypeOK
    <2>5. Black \cap Entities = Entities
      BY <2>4, ImpactAssumption DEF Black
    <2>6. Acyclic
      BY <2>5 DEF BlackInv, Acyclic
    <2> QED
      BY <1>0, <2>2, <2>6 DEF CycleIsReported, Acyclic
  <1>3. CASE ~FoundCycle /\ ~NoCycle
    <2>1. pc' = "done" => pc = "done" /\ cycle' = cycle
      BY <1>3 DEF Next, Pop, Discover, PassOver, ReachedAll, Start, Descend, CloseCycle,
         Climb, Skip, Retreat, At, vars, dfs
    <2> QED
      BY <1>0, <2>1 DEF CycleIsReported, IsCycle, Acyclic
  <1> QED
    BY <1>1, <1>2, <1>3

-----------------------------------------------------------------------------
(* When the analysis starts, nothing is reached but the source.             *)
LEMMA InitInv == Init => ImpactInv
  <1> SUFFICES ASSUME Init PROVE ImpactInv
    OBVIOUS
  <1>0. /\ pc = "bfs" /\ visited = {source} /\ queue = <<source>> /\ current = source
        /\ rest = {} /\ stack = <<>> /\ cycle = <<>> /\ source \in Nodes
        /\ \A n \in Nodes : hops[n] = 0 /\ color[n] = "white"
        /\ path[source] = <<source>>
    BY ImpactAssumption DEF Init
  <1>1. TypeOK
    BY InitTypeOK
  <1>2. Queued = {source}
    BY <1>0 DEF Queued
  <1>3. FrontierInv
    BY <1>0, <1>2 DEF FrontierInv
  <1>4. DistanceInv
    <2>1. Cardinality(visited) = 1
      BY <1>0, FS_Singleton
    <2>2. \A i \in DOMAIN queue : queue[i] = source
      BY <1>0
    <2> QED
      BY <1>0, <1>2, <2>1, <2>2 DEF DistanceInv
  <1>5. PathsAreShortest
    <2>1. Len(path[source]) = 1 /\ path[source][1] = source
      BY <1>0
    <2>2. ASSUME NEW n \in visited
          PROVE  /\ Len(path[n]) = hops[n] + 1
                 /\ path[n][1] = source /\ path[n][Len(path[n])] = n
                 /\ 1..(Len(path[n]) - 1) = {}
      <3>1. n = source /\ hops[n] = 0
        BY <1>0
      <3> QED
        BY <2>1, <3>1
    <2>3. pc = "bfs" /\ hops[source] = 0
      BY <1>0
    <2> QED
      BY <2>2, <2>3 DEF PathsAreShortest
  <1>6. DOMAIN stack = {}
    BY <1>0
  <1>7. StackInv
    BY <1>0, <1>6 DEF StackInv
  <1>8. BlackInv
    <2>1. Black = {}
      BY <1>0 DEF Black
    <2> QED
      BY <1>6, <2>1 DEF BlackInv
  <1>9. ClimbInv /\ CycleIsReported
    BY <1>0 DEF ClimbInv, CycleIsReported
  <1> QED
    BY <1>1, <1>3, <1>4, <1>5, <1>7, <1>8, <1>9 DEF ImpactInv

(* Every step of the analysis keeps the invariant.                          *)
LEMMA StepInv == ImpactInv /\ [Next]_vars => ImpactInv'
  <1> SUFFICES ASSUME ImpactInv, [Next]_vars PROVE ImpactInv'
    OBVIOUS
  <1>1. /\ TypeOK /\ FrontierInv /\ DistanceInv /\ PathsAreShortest
        /\ StackInv /\ BlackInv /\ ClimbInv /\ CycleIsReported
    BY DEF ImpactInv
  <1>2. TypeOK' /\ FrontierInv' /\ DistanceInv'
    BY <1>1, StepTypeOK, StepFrontierInv, StepDistanceInv
  <1>3. PathsAreShortest'
    BY <1>1, <1>2, StepPaths
  <1>4. StackInv' /\ BlackInv' /\ ClimbInv' /\ CycleIsReported'
    BY <1>1, StepStackInv, StepBlackInv, StepClimbInv, StepCycleIsReported
  <1> QED
    BY <1>2, <1>3, <1>4 DEF ImpactInv

(* The inductive invariant of the two walks.                                *)
THEOREM ImpactInvariant == Spec => []ImpactInv
  BY InitInv, StepInv, PTL DEF Spec

(* Every variable keeps its shape, and no distance reaches the number of    *)
(* ids, so the walk of analyze_impact counts no id twice.                   *)
THEOREM TypeCorrect == Spec => []TypeOK
  <1>1. ImpactInv => TypeOK
    BY DEF ImpactInv
  <1> QED
    BY <1>1, ImpactInvariant, PTL

(* What analyze_impact reports as affected is the component of the source:  *)
(* all of it, on any links, and nothing beside.                             *)
THEOREM ReportIsComponent == Spec => []AffectedIsComponent
  <1>1. ASSUME TypeOK, FrontierInv PROVE AffectedIsComponent
    <2>1. ASSUME pc # "bfs" PROVE Closed(visited)
      <3>1. rest = {} /\ queue = <<>>
        BY <1>1, <2>1 DEF FrontierInv
      <3>2. Queued = {}
        BY <3>1 DEF Queued
      <3> QED
        BY <1>1, <3>1, <3>2 DEF FrontierInv, Closed
    <2> QED
      BY <1>1, <2>1 DEF FrontierInv, AffectedIsComponent
  <1>2. ImpactInv => TypeOK /\ FrontierInv
    BY DEF ImpactInv
  <1> QED
    BY <1>1, <1>2, ImpactInvariant, PTL

(* The path and the distance of the report agree, and no link leads         *)
(* farther than one hop.                                                    *)
THEOREM ReportedPathsAreShortest == Spec => []PathsAreShortest
  <1>1. ImpactInv => PathsAreShortest
    BY DEF ImpactInv
  <1> QED
    BY <1>1, ImpactInvariant, PTL

(* _find_cycle returns a cycle of the links if there is one, and None       *)
(* otherwise.                                                               *)
THEOREM CyclesAreReported == Spec => []CycleIsReported
  <1>1. ImpactInv => CycleIsReported
    BY DEF ImpactInv
  <1> QED
    BY <1>1, ImpactInvariant, PTL

(* Any way over links from the source, of any length.                       *)
Way(w) ==
  /\ w \in Seq(Nodes) /\ w # <<>> /\ w[1] = source
  /\ \A i \in 1..(Len(w) - 1) : Linked(w[i], w[i + 1])

(* Where it ends is reported, and the reported path is not longer.          *)
NoWayIsShorter ==
  pc # "bfs" => \A w : Way(w) => /\ w[Len(w)] \in visited
                                 /\ Len(path[w[Len(w)]]) <= Len(w)

(* Of all ways over links to an id, analyze_impact reports a shortest: the  *)
(* first step of a way that is ahead of its distance would be over a link   *)
(* that leads farther than one hop.                                         *)
THEOREM ReportedPathsBeatAll == Spec => []NoWayIsShorter
  <1>1. ASSUME ImpactInv, pc # "bfs", NEW w, Way(w)
        PROVE  w[Len(w)] \in visited /\ Len(path[w[Len(w)]]) <= Len(w)
    <2>1. /\ w \in Seq(Nodes) /\ Len(w) \in Nat \ {0} /\ w[1] = source
          /\ \A i \in 1..Len(w) : w[i] \in Nodes
      BY <1>1 DEF Way
    <2>2. /\ source \in visited /\ hops[source] = 0
          /\ \A m \in visited, n \in Nodes : Linked(m, n) => n \in visited /\ hops[n] <= hops[m] + 1
          /\ \A n \in Nodes : hops[n] \in Nat
      <3>1. TypeOK /\ FrontierInv /\ PathsAreShortest
        BY <1>1 DEF ImpactInv
      <3>2. rest = {} /\ queue = <<>>
        BY <1>1, <3>1 DEF FrontierInv
      <3>3. Queued = {}
        BY <3>2 DEF Queued
      <3>4. \A n \in Nodes : hops[n] \in Nat
        BY <3>1, ReachedSize DEF TypeOK
      <3> QED
        BY <1>1, <3>1, <3>2, <3>3, <3>4 DEF FrontierInv, PathsAreShortest
    <2> DEFINE Ahead == {i \in 1..Len(w) : ~(w[i] \in visited /\ hops[w[i]] + 1 <= i)}
    <2>3. Ahead = {}
      <3>1. SUFFICES ASSUME Ahead # {} PROVE FALSE
        OBVIOUS
      <3>2. PICK i \in Ahead : \A j \in Ahead : <<j, i>> \notin OpToRel(<, Nat)
        <4>1. Ahead \subseteq Nat
          BY <2>1
        <4> HIDE DEF Ahead
        <4> QED
          BY <3>1, <4>1, WFMin, NatLessThanWellFounded, Zenon
      <3>3. /\ i \in 1..Len(w) /\ i \in Nat
            /\ ~(w[i] \in visited /\ hops[w[i]] + 1 <= i)
        BY <2>1
      <3>4. CASE i = 1
        BY <2>1, <2>2, <3>3, <3>4
      <3>5. CASE i # 1
        <4>1. i - 1 \in 1..(Len(w) - 1) /\ i - 1 \in 1..Len(w) /\ (i - 1) + 1 = i
              /\ i - 1 < i /\ i - 1 \in Nat
          BY <2>1, <3>3, <3>5
        <4>2. <<i - 1, i>> \in OpToRel(<, Nat)
          <5>1. <<i - 1, i>> \in Nat \X Nat /\ <<i - 1, i>>[1] < <<i - 1, i>>[2]
            BY <3>3, <4>1
          <5> QED
            BY <5>1, Zenon DEF OpToRel
        <4>3. i - 1 \notin Ahead
          BY <3>2, <4>2
        <4>4. w[i - 1] \in visited /\ hops[w[i - 1]] + 1 <= i - 1
          BY <4>1, <4>3
        <4>5. Linked(w[i - 1], w[i])
          BY <1>1, <4>1 DEF Way
        <4>6. w[i] \in visited /\ hops[w[i]] <= hops[w[i - 1]] + 1
          BY <2>1, <2>2, <3>3, <4>4, <4>5
        <4>7. hops[w[i]] \in Nat /\ hops[w[i - 1]] \in Nat
          BY <2>1, <2>2, <3>3, <4>1
        <4>8. hops[w[i]] + 1 <= i
          BY <3>3, <4>4, <4>6, <4>7
        <4> QED
          BY <3>3, <4>6, <4>8
      <3> QED
        BY <3>4, <3>5
    <2>4. w[Len(w)] \in visited /\ hops[w[Len(w)]] + 1 <= Len(w)
      BY <2>1, <2>3
    <2> QED
      BY <1>1, <2>4 DEF ImpactInv, PathsAreShortest
  <1>2. ImpactInv => NoWayIsShorter
    BY <1>1 DEF NoWayIsShorter
  <1> QED
    BY <1>2, ImpactInvariant, PTL

=============================================================================

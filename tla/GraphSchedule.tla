---------------------------- MODULE GraphSchedule ----------------------------
(***************************************************************************)
(* graph::Graph (src/graph/graph.cpp) and the schedule                     *)
(* GraphExecutor::build() makes of it (src/graph/graph_executor.cpp).      *)
(*                                                                         *)
(* The state is the graph and the actions are its edits.  What validate()  *)
(* and build() compute from it, Kahn's order, channel widths, latencies    *)
(* and the delays that compensate them, are operators that follow the      *)
(* code's loops, a loop being the function of what is known after k rounds *)
(* of it, and a search that calls itself the function of how deep its      *)
(* calls may nest; the properties compare them with what they are          *)
(* documented to be.  Ids and slots count from 1, ports from 0 as in the   *)
(* code.                                                                   *)
(***************************************************************************)
EXTENDS Integers, FiniteSets, SequencesExt

CONSTANTS
  Ins, Outs,       \* kind of node -> its number of input and output ports
  Latency,         \* kind -> latencyFrames()
  FixedWidth,      \* kind -> width channelLayout() gives its outputs, 0: inherited
  Host,            \* numChannels of compile()
  Script,          \* bound: the kinds of the nodes that are added, in order
  Wirings(_),      \* bound: the edges of the graphs edits begin with, given their nodes
  Connects,        \* bound: edges that edits of a wired graph may add
  MaxEdges         \* bound: edges after such an edit

Kinds == DOMAIN Ins
Removed == "removed"
Ids == 1 .. Len(Script)
Edges == [src : Ids, srcPort : Nat, dst : Ids, dstPort : Nat]

ASSUME KindsAssumption ==
  /\ Outs \in [Kinds -> Nat] /\ Ins \in [Kinds -> Nat] /\ Removed \notin Kinds
  /\ Latency \in [Kinds -> Nat] /\ FixedWidth \in [Kinds -> Nat]
  /\ Host \in Nat \ {0}
ASSUME ScriptAssumption ==
  /\ Script \in Seq(Kinds) /\ MaxEdges \in Nat /\ Connects \subseteq Edges
ASSUME WiringsAssumption ==
  \A n \in 0 .. Len(Script) : \A es \in Wirings(SubSeq(Script, 1, n)) :
    es \in Seq(Edges) /\ \A k \in DOMAIN es : {es[k].src, es[k].dst} \subseteq 1 .. n

VARIABLES nodes,   \* nodes_: the kind in each slot, Removed for a tombstone
          edges    \* edges_
vars == <<nodes, edges>>

Slots == 1 .. Len(nodes)
Live(id) == id \in Slots /\ nodes[id] # Removed
\* What build() takes for a tombstoned slot.
InsOf(id) == IF Live(id) THEN Ins[nodes[id]] ELSE 0
OutsOf(id) == IF Live(id) THEN Outs[nodes[id]] ELSE 0

-----------------------------------------------------------------------------
(* Edits.                                                                  *)

Init ==
  \E n \in 0 .. Len(Script) :
    /\ nodes = SubSeq(Script, 1, n)
    /\ edges \in Wirings(nodes)

\* A sequence without some elements.
Without(seq, out) ==
  LET kept[k \in 0 .. Len(seq)] ==
        IF k = 0 THEN <<>>
        ELSE IF seq[k] \in out THEN kept[k - 1] ELSE Append(kept[k - 1], seq[k])
  IN kept[Len(seq)]

AddNode ==
  /\ Len(nodes) < Len(Script)
  /\ nodes' = Append(nodes, Script[Len(nodes) + 1])
  /\ UNCHANGED edges

\* An edge that validate() will refuse is recorded all the same; one at a node
\* that does not exist or was removed is not.
Connect(e) ==
  /\ Live(e.src) /\ Live(e.dst) /\ Len(edges) < MaxEdges
  /\ edges' = Append(edges, e)
  /\ UNCHANGED nodes

Disconnect(e) ==
  /\ Contains(edges, e)
  /\ edges' = Without(edges, {e})
  /\ UNCHANGED nodes

RemoveNode(id) ==
  /\ Live(id)
  /\ nodes' = [nodes EXCEPT ![id] = Removed]
  /\ edges' = Without(edges, {e \in Range(edges) : id \in {e.src, e.dst}})

Next ==
  \/ AddNode
  \/ \E e \in Connects : Connect(e)
  \/ \E e \in Range(edges) : Disconnect(e)
  \/ \E id \in Ids : RemoveNode(id)

Spec == Init /\ [][Next]_vars

-----------------------------------------------------------------------------
(* validate().                                                             *)

PortsInRange ==
  \A e \in Range(edges) : e.srcPort < OutsOf(e.src) /\ e.dstPort < InsOf(e.dst)

SingleDriver ==
  \A i, j \in DOMAIN edges :
    i < j => edges[i].dst # edges[j].dst \/ edges[i].dstPort # edges[j].dstPort

Colourings == [Slots -> {"white", "gray", "black"}]
Unseen == [cycle |-> FALSE, colour |-> [id \in Slots |-> "white"]]

\* The loop over adj[n], which has the edges of n in order, goes on to m.
Look(search, found, m) ==
  IF found.cycle \/ found.colour[m] = "black" THEN found
  ELSE IF found.colour[m] = "gray" THEN [found EXCEPT !.cycle = TRUE]
  ELSE search[<<m, found.colour>>]

\* hasCycleFrom(), given the search that it calls: "gray" nodes are on the stack.
HasCycleFrom(search, n, colour) ==
  LET found[k \in 0 .. Len(edges)] ==
        IF k = 0 THEN [cycle |-> FALSE, colour |-> [colour EXCEPT ![n] = "gray"]]
        ELSE IF edges[k].src = n THEN Look(search, found[k - 1], edges[k].dst)
        ELSE found[k - 1]
      all == found[Len(edges)]
  IN IF all.cycle THEN all ELSE [all EXCEPT !.colour[n] = "black"]

\* A call is for a white node and makes it gray, so no more calls nest than there are slots.
Search ==
  LET search[depth \in 0 .. Len(nodes)] ==
        IF depth = 0 THEN [call \in Slots \X Colourings |-> Unseen]
        ELSE [call \in Slots \X Colourings |-> HasCycleFrom(search[depth - 1], call[1], call[2])]
  IN search[Len(nodes)]

\* Mutant: one search, from the first slot.
BugOneRoot == Len(nodes) > 0 /\ Search[<<1, Unseen.colour>>].cycle

HasCycle ==
  LET found[v \in 0 .. Len(nodes)] ==
        IF v = 0 THEN Unseen
        ELSE IF found[v - 1].cycle \/ found[v - 1].colour[v] # "white" THEN found[v - 1]
        ELSE Search[<<v, found[v - 1].colour>>]
  IN found[Len(nodes)].cycle

Valid == PortsInRange /\ SingleDriver /\ ~HasCycle

-----------------------------------------------------------------------------
(* build() of a graph that is valid.                                       *)

InDegree(n) == Cardinality({k \in DOMAIN edges : edges[k].dst = n})

\* Mutant: a successor is ready when the first of its edges is used up.
BugReadyEarly(st, v, e) ==
  IF e.src # v THEN st
  ELSE LET m == e.dst
       IN [order |-> st.order, indeg |-> [st.indeg EXCEPT ![m] = @ - 1],
           ready |-> IF Contains(st.ready, m) \/ Contains(st.order, m) THEN st.ready
                     ELSE Append(st.ready, m)]

\* An edge of v is used up; what it leads to becomes ready with its last.
UseUp(st, v, e) ==
  LET left == [st.indeg EXCEPT ![e.dst] = @ - 1]
  IN IF e.src # v THEN st
     ELSE [order |-> st.order, indeg |-> left,
           ready |-> IF left[e.dst] = 0 THEN Append(st.ready, e.dst) ELSE st.ready]

UseAll(st, v) ==
  LET used[k \in 0 .. Len(edges)] == IF k = 0 THEN st ELSE UseUp(used[k - 1], v, edges[k])
  IN used[Len(edges)]

\* The ready nodes are on a stack.
Take(st) ==
  LET v == Last(st.ready)
  IN IF st.ready = <<>> THEN st
     ELSE UseAll([order |-> Append(st.order, v), indeg |-> st.indeg, ready |-> Front(st.ready)], v)

\* Kahn's algorithm.  No node is ready twice, so the stack is empty after a round per slot.
Kahn ==
  LET start == [order |-> <<>>, indeg |-> [id \in Slots |-> InDegree(id)],
                ready |-> Without([id \in Slots |-> id], {id \in Slots : InDegree(id) > 0})]
      after[k \in 0 .. Len(nodes)] == IF k = 0 THEN start ELSE Take(after[k - 1])
  IN after[Len(nodes)]
Order == Kahn.order

\* The node that drives an input port, by the first edge that does; 0 if none.
Driver(v, p) ==
  LET ks == {k \in DOMAIN edges : edges[k].dst = v /\ edges[k].dstPort = p}
  IN IF ks = {} THEN 0 ELSE edges[CHOOSE k \in ks : \A i \in ks : k <= i].src

InPorts(v) == 0 .. InsOf(v) - 1
Drivers(v) == {Driver(v, p) : p \in InPorts(v)} \ {0}
MaxOf(S) == IF S = {} THEN 0 ELSE CHOOSE m \in S : \A n \in S : n <= m

\* Width of a node's outputs; the widths of its inputs come from the widths
\* found so far, the host's where nothing is connected.
LayOut(width, v) ==
  LET inW == {IF Driver(v, p) = 0 THEN Host ELSE width[Driver(v, p)] : p \in InPorts(v)}
      out == IF FixedWidth[nodes[v]] > 0 THEN FixedWidth[nodes[v]]
             ELSE IF MaxOf(inW) = 0 THEN Host ELSE MaxOf(inW)
  IN IF Live(v) THEN [width EXCEPT ![v] = out] ELSE width

OutWidth ==
  LET order == Order
      width[k \in 0 .. Len(order)] ==
        IF k = 0 THEN [id \in Slots |-> 0] ELSE LayOut(width[k - 1], order[k])
  IN width[Len(order)]

\* Mutant: a node reports its own latency only.
BugOwnLatency(lat, v) ==
  IF Live(v) THEN [lat EXCEPT ![v] = Latency[nodes[v]]] ELSE lat

\* Latency of a node's outputs: its own after the latest of its inputs.
Propagate(lat, v) ==
  IF Live(v) THEN [lat EXCEPT ![v] = MaxOf({lat[d] : d \in Drivers(v)}) + Latency[nodes[v]]]
  ELSE lat

OutLat ==
  LET order == Order
      lat[k \in 0 .. Len(order)] ==
        IF k = 0 THEN [id \in Slots |-> 0] ELSE Propagate(lat[k - 1], order[k])
  IN lat[Len(order)]
InMax(v) == MaxOf({OutLat[d] : d \in Drivers(v)})

\* Mutant: the early input is not delayed.
BugNoComp(v, p) == 0

\* compFrames: the delay in front of a connected input port.
CompFrames(v, p) == IF Driver(v, p) = 0 THEN 0 ELSE InMax(v) - OutLat[Driver(v, p)]

\* latency of the compiled graph
TotalLatency == MaxOf({InMax(v) : v \in {u \in Slots : Live(u) /\ OutsOf(u) = 0}})

-----------------------------------------------------------------------------
(* Properties.                                                             *)

\* Slots hold kinds or tombstones, and however edits follow each other no edge
\* touches a removed node, so validate() and build() never follow a null pointer.
TypeOK ==
  /\ nodes \in Seq(Kinds \union {Removed}) /\ Len(nodes) <= Len(Script)
  /\ edges \in Seq(Edges)
  /\ \A e \in Range(edges) : Live(e.src) /\ Live(e.dst)

\* Reference: in a graph without a cycle every set of nodes has one that no edge leads to
\* from the set.
Acyclic ==
  \A S \in (SUBSET Slots) \ {{}} :
    \E v \in S : \A e \in Range(edges) : e.dst = v => e.src \notin S

\* However edits follow each other, no edge touches a removed node, and the depth-first
\* search finds a cycle exactly when there is one, so what validate() lets through is
\* what build() can put in order.
GraphSound == TypeOK /\ (HasCycle <=> ~Acyclic)

\* build() puts all nodes in order unless there is a cycle, which it then refuses on its
\* own account.  The schedule of a valid graph runs every node once and after the nodes
\* it reads from, so no buffer is read before it is written in a block, and no width is
\* taken from a node that has none yet: a node's outputs are never without a channel
\* nor, unless their width is fixed, narrower than what drives it.
ScheduleInOrder ==
  /\ Kahn.ready = <<>> /\ (Len(Order) = Len(nodes) <=> Acyclic)
  /\ Valid =>
    /\ Range(Order) = Slots
    /\ \A i, j \in DOMAIN Order :
         (\E e \in Range(edges) : e.src = Order[i] /\ e.dst = Order[j]) => i < j
    /\ \A v \in Slots : Live(v) =>
         /\ OutWidth[v] > 0
         /\ FixedWidth[nodes[v]] = 0 => \A d \in Drivers(v) : OutWidth[d] <= OutWidth[v]

\* Reference: every way from a node without a driver to v, with the delay on it.
Delays[k \in 0 .. Len(nodes)] ==
  [v \in Slots |->
    IF Drivers(v) = {} \/ k = 0 THEN {[lat |-> 0, comp |-> 0]}
    ELSE UNION {{[lat |-> d.lat + Latency[nodes[Driver(v, p)]], comp |-> d.comp + CompFrames(v, p)] :
                   d \in Delays[k - 1][Driver(v, p)]} : p \in {q \in InPorts(v) : Driver(v, q) # 0}}]
WaysTo(v) == Delays[Len(nodes)][v]

\* Whatever way a signal takes to a node, it arrives with the same delay, node
\* latencies and compensation together: branches recombine in phase.
BranchesInPhase ==
  Valid => \A v \in Slots : Live(v) =>
    \A a, b \in WaysTo(v) : a.lat + a.comp = b.lat + b.comp

\* The latency reported is the largest sum of node latencies on any way to a sink.
LatencyIsLongest ==
  Valid => TotalLatency =
    MaxOf({w.lat : w \in UNION {WaysTo(v) : v \in {u \in Slots : Live(u) /\ OutsOf(u) = 0}}})
=============================================================================

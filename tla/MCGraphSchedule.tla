--------------------------- MODULE MCGraphSchedule ---------------------------
(* A source, a node with latency, a down-mixer, two two-input mixers and a    *)
(* sink: enough for one fan-in behind another.  Connects adds what validate() *)
(* must refuse: a second driver, ports out of range, a loop of one node.      *)
EXTENDS GraphSchedule

Table(s, l, m, k) == [source |-> s, latency |-> l, mix |-> m, sink |-> k]
MCIns == Table(0, 1, 2, 1)
MCOuts == Table(1, 1, 1, 0)
MCLatency == Table(0, 3, 0, 0)
MCFixedWidth == Table(0, 1, 0, 0)
MCScript == <<"source", "latency", "mix", "mix", "sink">>
MCConnects ==
  {[src |-> 1, srcPort |-> 0, dst |-> 3, dstPort |-> 0],
   [src |-> 3, srcPort |-> 0, dst |-> 3, dstPort |-> 1],
   [src |-> 5, srcPort |-> 0, dst |-> 2, dstPort |-> 0],
   [src |-> 2, srcPort |-> 0, dst |-> 5, dstPort |-> 1]}

\* The graphs that addNode() calls and one connect() call at most per input port have built.
InputPorts(ns) ==
  FoldLeft(LAMBDA ports, id : ports \o [p \in 1 .. Ins[ns[id]] |-> <<id, p - 1>>],
           <<>>, [id \in DOMAIN ns |-> id])
MCWirings(ns) ==
  LET ports == InputPorts(ns)
      edge(w, k) == [src |-> w[k], srcPort |-> 0, dst |-> ports[k][1], dstPort |-> ports[k][2]]
      wired(w) == SelectSeq([k \in DOMAIN ports |-> edge(w, k)], LAMBDA e : e.src # 0)
  IN {wired(w) : w \in [DOMAIN ports -> {0} \union {id \in DOMAIN ns : Outs[ns[id]] > 0}]}
=============================================================================

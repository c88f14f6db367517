---------------------------- MODULE GraphSession ----------------------------
(***************************************************************************)
(* GraphSession (src/python/aiudio/workbench/session.py): a graph edited   *)
(* by actions, the log of the actions that built it, undo and redo by      *)
(* replaying a shorter log, and the document it is saved and loaded as.    *)
(*                                                                         *)
(* A node id is the node's place among the slots, from 1 (from 0 in the    *)
(* code).  Constructor arguments, canvas positions and the parameters of a *)
(* node are one value of its record, ports are left out.  A stamp tells    *)
(* one "add" from every other: it names the node whatever its id.          *)
(***************************************************************************)
EXTENDS Integers, SequencesExt, FiniteSetsExt

CONSTANTS
  Unset,
  Kinds   \* node kinds the graph has a factory for

Params == {Unset} \union Int
Actions == [op : {"add", "remove", "connect", "disconnect", "set"}, kind : Kinds \union {""},
            id : Nat, dst : Nat, value : Params, stamp : Nat]
Documents == [nodes : Seq([id : Nat, kind : Kinds \union {""}, param : Params]), edges : Seq(Nat \X Nat)]

NoAction == [op |-> "none", kind |-> "", id |-> 0, dst |-> 0, value |-> 0, stamp |-> 0]
AddNode(k) == [NoAction EXCEPT !.op = "add", !.kind = k]
RemoveNode(i) == [NoAction EXCEPT !.op = "remove", !.id = i]
Connect(i, j) == [NoAction EXCEPT !.op = "connect", !.id = i, !.dst = j]
Disconnect(i, j) == [NoAction EXCEPT !.op = "disconnect", !.id = i, !.dst = j]
SetParam(i, v) == [NoAction EXCEPT !.op = "set", !.id = i, !.value = v]

\* A session: slots and edges are the C++ Graph's, records is _nodes.
Blank == [slots |-> <<>>, edges |-> <<>>, records |-> <<>>, log |-> <<>>, redo |-> <<>>]

Live(s) == {i \in DOMAIN s.slots : s.slots[i].live}

\* A sequence without some of its elements, in order.
Without(seq, out) ==
  FoldLeft(LAMBDA kept, x : IF x \in out THEN kept ELSE Append(kept, x), <<>>, seq)

\* The calls of _exec() that do not raise.
Accepts(s, a) ==
  CASE a.op = "add" -> a.kind \in Kinds
    [] a.op = "remove" -> a.id \in Live(s)
    [] a.op = "connect" -> {a.id, a.dst} \subseteq Live(s)
    [] a.op = "disconnect" -> TRUE
    [] a.op = "set" -> a.id \in DOMAIN s.records

\* _exec(): the action on the graph and the records.
Exec(s, a) ==
  CASE a.op = "add" ->
         LET id == Len(s.slots) + 1
         IN [s EXCEPT !.slots = Append(@, [kind |-> a.kind, stamp |-> a.stamp, live |-> TRUE]),
                      !.records = [i \in DOMAIN @ \union {id} |->
                                     IF i = id THEN [kind |-> a.kind, param |-> Unset] ELSE @[i]]]
    [] a.op = "remove" ->
         [s EXCEPT !.slots[a.id].live = FALSE,
                   !.edges = Without(@, {e \in ToSet(@) : a.id \in {e[1], e[2]}}),
                   !.records = [i \in DOMAIN @ \ {a.id} |-> @[i]]]
    [] a.op = "connect" -> [s EXCEPT !.edges = Append(@, <<a.id, a.dst>>)]
    [] a.op = "disconnect" -> [s EXCEPT !.edges = Without(@, {<<a.id, a.dst>>})]
    [] a.op = "set" -> [s EXCEPT !.records[a.id].param = a.value]

\* Mutant: an action leaves what was undone on the redo stack.
BugApply(s, a) == [Exec(s, a) EXCEPT !.log = Append(@, a)]
Apply(s, a) == [Exec(s, a) EXCEPT !.log = Append(@, a), !.redo = <<>>]

\* _rebuild(): the log on an empty graph, up to the first action that raises.
Replay(log) ==
  FoldLeft(LAMBDA r, a : IF r.ok /\ Accepts(r.s, a) THEN [r EXCEPT !.s = Exec(@, a)]
                         ELSE [r EXCEPT !.ok = FALSE],
           [ok |-> TRUE, s |-> Blank], log)

\* undo() and redo() return FALSE on an empty log or stack; redo() drops an action that raises.
CanUndo(s) == s.log # <<>>
Undo(s) ==
  LET r == Replay(Front(s.log))
  IN [r.s EXCEPT !.log = Front(s.log), !.redo = Append(s.redo, Last(s.log))]
CanRedo(s) == s.redo # <<>>
Redo(s) ==
  LET a == Last(s.redo)
  IN IF Accepts(s, a) THEN [Exec(s, a) EXCEPT !.log = Append(@, a), !.redo = Front(@)]
     ELSE [s EXCEPT !.redo = Front(@)]

\* to_document(), in the two parts it is read in: the records of live nodes, which are in the
\* order they were added in, then the edges.
DocNodes(s) ==
  LET ids == Without([i \in DOMAIN s.slots |-> i],
                     DOMAIN s.slots \ (DOMAIN s.records \intersect Live(s)))
  IN [n \in DOMAIN ids |-> [id |-> ids[n], kind |-> s.records[ids[n]].kind,
                            param |-> s.records[ids[n]].param]]
ToDocument(s) == [nodes |-> DocNodes(s), edges |-> s.edges]

\* Mutant: the ids of a document are taken for those of the new graph.
BugIdMap(doc, id) == id
\* idmap: the n-th node of a document becomes node n.
IdMap(doc, id) == CHOOSE n \in DOMAIN doc.nodes : doc.nodes[n].id = id

\* A node of an unknown kind and an edge to a node the document does not have raise an error, and no
\* session comes out.
Loads(doc) ==
  /\ \A n \in DOMAIN doc.nodes : doc.nodes[n].kind \in Kinds
  /\ \A k \in DOMAIN doc.edges : {doc.edges[k][1], doc.edges[k][2]} \subseteq
                                    {doc.nodes[n].id : n \in DOMAIN doc.nodes}

\* from_document(): a node and its parameters, then an edge.  "stamp" numbers the adds.
LoadNode(s, node, stamp) ==
  LET id == Len(s.slots) + 1
      added == Apply(s, [AddNode(node.kind) EXCEPT !.stamp = stamp + id])
  IN IF node.param = Unset THEN added ELSE Apply(added, SetParam(id, node.param))
LoadEdge(s, doc, edge) == Apply(s, Connect(IdMap(doc, edge[1]), IdMap(doc, edge[2])))
FromDocument(doc, stamp) ==
  FoldLeft(LAMBDA s, edge : LoadEdge(s, doc, edge),
           FoldLeft(LAMBDA s, node : LoadNode(s, node, stamp), Blank, doc.nodes), doc.edges)
=============================================================================

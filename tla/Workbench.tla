------------------------------ MODULE Workbench ------------------------------
(***************************************************************************)
(* The workbench server (src/python/aiudio/server/app.py): one session,    *)
(* edited by the clients of a WebSocket, by the agent and by the tuner.    *)
(*                                                                         *)
(* Every client has a coroutine that serves its messages one by one.       *)
(* Coroutines run on one event loop and change place only where they       *)
(* await: the lock, a worker thread, and a send, which waits until the     *)
(* transport of that client has taken what was sent to it before.  Agent   *)
(* and tuner run in a worker thread, at any time, the reading of a         *)
(* document on the loop included.                                          *)
(***************************************************************************)
EXTENDS GraphSession

CONSTANTS
  Clients,
  None,
  Slow,         \* bound: clients whose transport may be full
  Order,        \* the order in which the set of up to four clients is iterated (external)
  FirstLog,     \* bound: actions that built the session the server is given, the last one undone
  Saved,        \* bound: documents on the clients' disks
  HandEdits,    \* bound: actions the clients send
  Sends,        \* bound: types of message each client sends
  Online,       \* bound: clients connected at the start
  MaxMessages,  \* bound: messages of each client
  Leavers,      \* bound: clients whose tab is closed
  MaxWork       \* bound: edits of a worker

ASSUME WorkbenchAssumption ==
  /\ Order \in Seq(Clients) /\ IsInjective(Order) /\ ToSet(Order) = Clients
  /\ Online \union Slow \union Leavers \subseteq Clients
  /\ None \notin Clients
  /\ MaxMessages \in [Clients -> Nat] /\ MaxWork \in Nat
  /\ "sink" \in Kinds /\ HandEdits \subseteq Actions /\ Saved \subseteq Documents
  /\ FirstLog \in Seq(Actions) /\ FirstLog # <<>> /\ Replay(FirstLog).ok
  /\ \A i \in DOMAIN FirstLog : FirstLog[i].op = "add" => FirstLog[i].stamp = i

\* The set is one of CPython: what is in it keeps its place until the fifth element ever added moves the
\* table, so up to four sockets are iterated in one order, and broadcasts go round in step (app.py:40).
ASSUME SocketsAssumption == IsFiniteSet(Clients) /\ Cardinality(Clients) <= 4

VARIABLES
  sessions,  \* the sessions there have been
  cur,       \* app.state.session
  lock,      \* app.state.lock: the holder and those who wait, in the order they asked
  loop,      \* the coroutine that goes on next, as it has not come to an await; or None
  conn,      \* the coroutine of each client
  members,   \* manager._clients
  outbox,    \* what the transport of a client has yet to take: who sent it, and a document
  online,    \* clients whose socket is open
  shown,     \* the document a client shows
  stamp,     \* ghost: adds so far
  idOf,      \* ghost: the session and id of the node each add made
  dirty,     \* ghost: coroutines that changed the session since a broadcast read it
  overtake,  \* ghost: a client was forgotten while a broadcast waited for it
  sent
vars == <<sessions, cur, lock, loop, conn, members, outbox, online, shown, stamp, idOf, dirty,
          overtake, sent>>

Session == sessions[cur]
NoDoc == [nodes |-> <<>>, edges |-> <<>>]
NoMessage == [type |-> "none", action |-> NoAction, doc |-> NoDoc]
NoNode == [id |-> 0, stamp |-> 0]

\* pc: "new", "hello" (sending the manifest), "greet" (the document), "idle", "wait" (for the lock),
\* "work" (in a thread), "ack", "error" (sending a reply), "read", "edges" (reading the document),
\* "send" (broadcasting), "off".  bound: the session a worker edits; doc, todo: what it is sending, to
\* whom; mine: the last node the agent added; work: edits of the worker; known: it has its first document.
Fresh == [pc |-> "new", msg |-> NoMessage, bound |-> 1, doc |-> NoDoc, todo |-> <<>>,
          mine |-> NoNode, work |-> 0, known |-> FALSE]
Served(pc) == [Fresh EXCEPT !.pc = pc, !.known = TRUE]

First == Undo([Replay(FirstLog).s EXCEPT !.log = FirstLog])
Born(s, n) == [t \in {s.slots[i].stamp : i \in DOMAIN s.slots} |->
                 [session |-> n, id |-> CHOOSE i \in DOMAIN s.slots : s.slots[i].stamp = t]]

Init ==
  /\ sessions = <<First>> /\ cur = 1 /\ lock = <<>> /\ loop = None
  /\ conn = [c \in Clients |-> IF c \in Online THEN Served("idle") ELSE Fresh]
  /\ members = Online /\ online = Online
  /\ outbox = [c \in Clients |-> <<>>]
  /\ shown = [c \in Clients |-> IF c \in Online THEN ToDocument(First) ELSE NoDoc]
  /\ stamp = Len(FirstLog) /\ idOf = Born(Replay(FirstLog).s, 1)
  /\ dirty = {} /\ overtake = FALSE /\ sent = [c \in Clients |-> 0]

\* A transport that is not full takes what it is sent at once, a socket that is closed raises at once,
\* and the sender goes on before anything else does.
Message(c, to, doc) == [from |-> c, doc |-> doc, waits |-> to \in Slow \intersect online]
Settled == \A d \in Clients : \A k \in DOMAIN outbox[d] : outbox[d][k].waits
Turn(c) == loop \in {None, c} /\ Settled
\* The coroutine awaits, having come to pc; or it goes on from there.
Await(c, at) == conn' = [conn EXCEPT ![c] = at] /\ loop' = None
Goto(c, pc) == Await(c, [Fresh EXCEPT !.pc = pc, !.known = conn[c].known])
GoOn(c, at) == conn' = [conn EXCEPT ![c] = at] /\ loop' = c
Send(c, to, doc) == outbox' = [outbox EXCEPT ![to] = Append(@, Message(c, to, doc))]
Reply(c) == Send(c, c, NoDoc)
Holds(c) == lock # <<>> /\ Head(lock) = c

(***************************************************************************)
(* Connecting and receiving.                                               *)
(***************************************************************************)
Join(c) ==
  /\ Turn(c) /\ conn[c].pc = "new"
  /\ Goto(c, "hello") /\ Reply(c)
  /\ members' = members \union {c} /\ online' = online \union {c}
  /\ UNCHANGED <<sessions, cur, lock, shown, stamp, idOf, dirty, sent, overtake>>

Messages(c) ==
  {[NoMessage EXCEPT !.type = t] : t \in Sends[c] \intersect {"undo", "redo", "sync", "chat", "tune"}}
  \union {[NoMessage EXCEPT !.type = "action", !.action = a] : a \in IF "action" \in Sends[c] THEN HandEdits ELSE {}}
  \union {[NoMessage EXCEPT !.type = "load", !.doc = d] : d \in IF "load" \in Sends[c] THEN Saved \union {shown[c]} ELSE {}}

Receiving(c) ==
  /\ Turn(c) /\ conn[c].pc = "idle" /\ c \in online /\ sent[c] < MaxMessages[c]
  /\ sent' = [sent EXCEPT ![c] = @ + 1]
  /\ UNCHANGED <<sessions, cur, members, online, shown, stamp, idOf, dirty, overtake>>

\* The agent of a chat is bound to the session there is now, not to the one there is under the lock.
\* A lock that is free is taken without an await.
Receive(c, m) ==
  /\ Receiving(c)
  /\ LET at == [Served("wait") EXCEPT !.msg = m, !.bound = cur]
     IN IF lock = <<>> THEN GoOn(c, at) ELSE Await(c, at)
  /\ lock' = Append(lock, c)
  /\ UNCHANGED outbox

\* A chat without an agent to answer it.
NoAgent(c) ==
  /\ Receiving(c) /\ "chat" \in Sends[c]
  /\ Goto(c, "error") /\ Reply(c)
  /\ UNCHANGED lock

\* The client goes away; its coroutine finds out when it receives or sends.
Close(c) ==
  /\ c \in online \intersect Leavers
  /\ online' = online \ {c}
  /\ UNCHANGED <<sessions, cur, lock, loop, conn, members, outbox, shown, stamp, idOf, dirty, sent, overtake>>

\* manager.disconnect(c), or the discard of a broadcast that failed.
Forget(c) ==
  /\ members' = members \ {c}
  /\ overtake' = (overtake \/ \E k \in DOMAIN outbox'[c] : conn[outbox'[c][k].from].pc = "send")

Depart(c) ==
  /\ Turn(c) /\ conn[c].pc = "idle" /\ c \notin online
  /\ Await(c, Served("off")) /\ UNCHANGED outbox /\ Forget(c)
  /\ UNCHANGED <<sessions, cur, lock, online, shown, stamp, idOf, dirty, sent>>

(***************************************************************************)
(* _handle(), under the lock and without an await.                         *)
(***************************************************************************)
Stamped(a) == IF a.op = "add" THEN [a EXCEPT !.stamp = stamp + 1] ELSE a

Noting(new) ==
  [t \in DOMAIN idOf \union DOMAIN new |-> IF t \in DOMAIN new THEN new[t] ELSE idOf[t]]

\* Session n takes the action; a new node is noted.
Edit(n, a) ==
  LET b == Stamped(a)
      after == Apply(sessions[n], b)
  IN /\ Accepts(sessions[n], b)
     /\ sessions' = [sessions EXCEPT ![n] = after]
     /\ IF a.op = "add"
        THEN /\ stamp' = stamp + 1
             /\ idOf' = Noting([t \in {stamp + 1} |-> [session |-> n, id |-> Len(after.slots)]])
        ELSE UNCHANGED <<stamp, idOf>>

Handling(c, type) ==
  /\ Turn(c) /\ conn[c].pc = "wait" /\ Holds(c) /\ conn[c].msg.type = type
  /\ lock' = Tail(lock)
  /\ UNCHANGED <<members, online, shown, sent, overtake>>

\* The reply of an action is the result, of what raised an error; a broadcast follows the first.
Changed(c) == Goto(c, "ack") /\ Reply(c) /\ dirty' = dirty \union {c}

HandleAction(c) ==
  /\ Handling(c, "action")
  /\ Edit(cur, conn[c].msg.action)
  /\ Changed(c)
  /\ UNCHANGED cur

Refuse(c) ==
  /\ \/ Handling(c, "action") /\ ~Accepts(Session, conn[c].msg.action)
     \/ Handling(c, "load") /\ ~Loads(conn[c].msg.doc)
  /\ Goto(c, "error") /\ Reply(c)
  /\ UNCHANGED <<sessions, cur, stamp, idOf, dirty>>

\* undo() and redo() of a session without a log or a redo stack answer FALSE.
HandleUndo(c) ==
  /\ Handling(c, "undo")
  /\ sessions' = IF CanUndo(Session) THEN [sessions EXCEPT ![cur] = Undo(@)] ELSE sessions
  /\ Changed(c)
  /\ UNCHANGED <<cur, stamp, idOf>>

HandleRedo(c) ==
  /\ Handling(c, "redo")
  /\ sessions' = IF CanRedo(Session) THEN [sessions EXCEPT ![cur] = Redo(@)] ELSE sessions
  /\ Changed(c)
  /\ UNCHANGED <<cur, stamp, idOf>>

\* load and sync have no reply: the coroutine goes straight on to the document.
HandleLoad(c) ==
  /\ Handling(c, "load") /\ Loads(conn[c].msg.doc)
  /\ LET loaded == FromDocument(conn[c].msg.doc, stamp)
     IN /\ sessions' = Append(sessions, loaded) /\ cur' = Len(sessions) + 1
        /\ stamp' = stamp + Len(loaded.slots)
        /\ idOf' = Noting(Born(loaded, Len(sessions) + 1))
  /\ GoOn(c, [conn[c] EXCEPT !.pc = "read"]) /\ dirty' = dirty \union {c}
  /\ UNCHANGED outbox

HandleSync(c) ==
  /\ Handling(c, "sync")
  /\ GoOn(c, [conn[c] EXCEPT !.pc = "read"])
  /\ UNCHANGED <<sessions, cur, outbox, stamp, idOf, dirty>>

(***************************************************************************)
(* _handle_chat() and _handle_tune(): a worker under the lock.             *)
(***************************************************************************)
Starting(c) ==
  /\ Turn(c) /\ conn[c].pc = "wait" /\ Holds(c) /\ conn[c].msg.type \in {"chat", "tune"}
  /\ Await(c, [conn[c] EXCEPT !.pc = "work", !.bound = IF conn[c].msg.type = "tune" THEN cur ELSE @])
  /\ UNCHANGED <<sessions, cur, members, outbox, online, shown, stamp, idOf, dirty, sent, overtake>>

\* Mutant: the lock is given back while the worker runs.
BugStartWork(c) == Starting(c) /\ lock' = Tail(lock)
\* The tuner is given the session there is under the lock.
StartWork(c) == Starting(c) /\ UNCHANGED lock

Works(c, type) == conn[c].pc = "work" /\ conn[c].msg.type = type

\* The agent goes by the ids its own calls returned.
AgentEdits(c) ==
  LET mine == conn[c].mine
  IN {AddNode("sink")}
     \union IF mine = NoNode THEN {} ELSE {Connect(Len(First.slots), mine.id), RemoveNode(mine.id)}

\* One call of a tool by the agent, one parameter the tuner writes back.
WorkEdit(c) ==
  /\ conn[c].work < MaxWork
  /\ \/ /\ Works(c, "chat")
        /\ \E a \in AgentEdits(c) :
             /\ Edit(conn[c].bound, a)
             /\ conn' = [conn EXCEPT
                  ![c].work = @ + 1,
                  ![c].mine = CASE a.op = "add" -> [id |-> Len(sessions'[conn[c].bound].slots),
                                                    stamp |-> stamp']
                                [] a.op = "remove" -> NoNode
                                [] OTHER -> @]
     \/ /\ Works(c, "tune")
        /\ LET nodes == DocNodes(sessions[conn[c].bound])
               n == conn[c].work + 1
           IN n \in DOMAIN nodes /\ Edit(conn[c].bound, SetParam(nodes[n].id, 2))
        /\ conn' = [conn EXCEPT ![c].work = @ + 1]
  /\ dirty' = IF conn[c].bound = cur THEN dirty \union {c} ELSE dirty
  /\ UNCHANGED <<cur, lock, loop, members, outbox, online, shown, sent, overtake>>

\* The coroutine goes on after the worker has returned or raised, and gives the lock back.
Resuming(c) ==
  /\ Turn(c) /\ conn[c].pc = "work"
  /\ lock' = IF Holds(c) THEN Tail(lock) ELSE lock
  /\ UNCHANGED <<sessions, cur, members, shown, stamp, idOf, dirty, sent, overtake>>

FinishWork(c) ==
  /\ Resuming(c)
  /\ Goto(c, "ack") /\ Reply(c)
  /\ UNCHANGED online

\* The tuner raises before it writes what is caught: the graph does not compile (app.py:137-143).
TuneRaises(c) ==
  /\ Resuming(c) /\ Works(c, "tune") /\ conn[c].work = 0
  /\ Goto(c, "error") /\ Reply(c)
  /\ UNCHANGED online

\* Nothing catches what the model's client raises, nor what else the tuner does, a node it has no
\* counterpart of among it (diff/nodes.py:60): the connection ends.
WorkRaises(c) ==
  /\ Resuming(c) /\ (Works(c, "chat") \/ (Works(c, "tune") /\ conn[c].work = 0))
  /\ Await(c, Served("off")) /\ online' = online \ {c}
  /\ UNCHANGED outbox

(***************************************************************************)
(* Reading the document and sending it, outside the lock.                  *)
(***************************************************************************)
\* Mutant: the client that asked comes first.
BugAudience(c) == <<c>> \o Without(Order, (Clients \ members) \union {c})
\* list(self._clients).
Audience(c) == Without(Order, Clients \ members)

\* The document a client is sent when it connects.
Greeting(c) == ~conn[c].known

ReadNodes(c) ==
  /\ Turn(c) /\ conn[c].pc = "read"
  /\ GoOn(c, [conn[c] EXCEPT !.pc = "edges", !.doc.nodes = DocNodes(Session)])
  /\ dirty' = IF Greeting(c) THEN dirty ELSE {}
  /\ UNCHANGED <<sessions, cur, lock, members, outbox, online, shown, stamp, idOf, sent, overtake>>

\* A new client's document goes to it alone; any other to whoever is connected.
ReadEdges(c) ==
  LET doc == [conn[c].doc EXCEPT !.edges = Session.edges]
      to == Audience(c)
  IN /\ conn[c].pc = "edges"
     /\ \/ Greeting(c) /\ Goto(c, "greet") /\ Send(c, c, doc)
        \/ ~Greeting(c) /\ to = <<>> /\ Await(c, Served("idle")) /\ UNCHANGED outbox
        \/ /\ ~Greeting(c) /\ to # <<>>
           /\ Await(c, [Served("send") EXCEPT !.doc = doc, !.todo = Tail(to)])
           /\ Send(c, Head(to), doc)
     /\ UNCHANGED <<sessions, cur, lock, members, online, shown, stamp, idOf, dirty, sent, overtake>>

\* A worker changed the size of a dictionary while the loop went over it, the records by adding or
\* removing a node or a node's parameters by setting one for the first time: RuntimeError, uncaught.
Resized(doc, records) ==
  \/ Len(doc.nodes) # Cardinality(DOMAIN records)
  \/ \E k \in DOMAIN doc.nodes : LET id == doc.nodes[k].id IN
       id \in DOMAIN records /\ doc.nodes[k].param = Unset /\ records[id].param # Unset
ReadRaises(c) ==
  /\ conn[c].pc = "edges" /\ Resized(conn[c].doc, Session.records)
  /\ Await(c, Served("off")) /\ online' = online \ {c}
  /\ dirty' = IF Greeting(c) THEN dirty ELSE dirty \union {c}
  /\ UNCHANGED <<sessions, cur, lock, members, outbox, shown, stamp, idOf, sent, overtake>>

\* A send is over, with "rest" left to send: its sender turns to the next client, or to what follows the
\* reply, at once if the send did not wait.
Proceed(f, rest, waited) ==
  \/ /\ conn[f].pc = "send" /\ conn[f].todo # <<>>
     /\ Await(f, [conn[f] EXCEPT !.todo = Tail(@)])
     /\ LET to == Head(conn[f].todo)
        IN outbox' = [rest EXCEPT ![to] = Append(@, Message(f, to, conn[f].doc))]
  \/ /\ conn[f].pc \in {"ack", "hello"}
     /\ LET at == [conn[f] EXCEPT !.pc = "read"]
        IN IF waited THEN Await(f, at) ELSE GoOn(f, at)
     /\ outbox' = rest
  \/ /\ conn[f].pc \in {"error", "greet", "send"} /\ conn[f].todo = <<>>
     /\ Await(f, Served("idle"))
     /\ outbox' = rest

Deliver(c) ==
  LET m == Head(outbox[c])
  IN /\ loop = None /\ c \in online /\ outbox[c] # <<>> /\ (m.waits => Settled)
     /\ shown' = IF conn[m.from].pc \in {"send", "greet"} THEN [shown EXCEPT ![c] = m.doc] ELSE shown
     /\ Proceed(m.from, [outbox EXCEPT ![c] = Tail(@)], m.waits)
     /\ UNCHANGED <<sessions, cur, lock, members, online, stamp, idOf, dirty, sent, overtake>>

\* A send to a socket that is closed raises, those that wait in turn and one that is made now at once:
\* a broadcast forgets the client and goes on; any other sender is that client's own coroutine and ends,
\* which forgets the client unless it was sending the first two messages, before the "try".
SendRaises(c) ==
  \E k \in DOMAIN outbox[c] :
  LET m == outbox[c][k]
      rest == [outbox EXCEPT ![c] = RemoveAt(@, k)]
  IN /\ loop = None /\ c \notin online /\ (m.waits => k = 1 /\ Settled)
     /\ IF conn[m.from].pc = "send" THEN Proceed(m.from, rest, m.waits)
        ELSE Await(c, Served("off")) /\ outbox' = rest
     /\ IF conn[m.from].pc \in {"hello", "greet"} THEN UNCHANGED <<members, overtake>> ELSE Forget(c)
     /\ UNCHANGED <<sessions, cur, lock, online, shown, stamp, idOf, dirty, sent>>

Next ==
  \E c \in Clients :
    \/ Join(c) \/ \E m \in Messages(c) : Receive(c, m)
    \/ NoAgent(c) \/ Close(c) \/ Depart(c)
    \/ HandleAction(c) \/ Refuse(c) \/ HandleUndo(c) \/ HandleRedo(c) \/ HandleLoad(c) \/ HandleSync(c)
    \/ StartWork(c) \/ WorkEdit(c) \/ FinishWork(c) \/ TuneRaises(c) \/ WorkRaises(c)
    \/ ReadNodes(c) \/ ReadEdges(c) \/ ReadRaises(c) \/ Deliver(c) \/ SendRaises(c)

Spec == Init /\ [][Next]_vars

(***************************************************************************)
(* Properties.                                                             *)
(***************************************************************************)
\* Every piece of the state has its type.
TypeOK ==
  /\ cur \in DOMAIN sessions /\ IsInjective(lock) /\ ToSet(lock) \subseteq Clients
  /\ DOMAIN conn = Clients /\ members \subseteq Clients /\ online \subseteq Clients
  /\ \A c \in Clients : conn[c].bound \in DOMAIN sessions /\ conn[c].work \in 0..MaxWork
  /\ dirty \subseteq Clients /\ sent \in [Clients -> Nat]

\* undo() rebuilds the graph from its log, so the log must make the same graph, the ids every client
\* goes by included; and what was undone must be there to redo, every action of it accepted
\* (session.py:136).  An add keeps its id through whatever is undone and redone.
LogRebuildsGraph ==
  /\ TypeOK
  /\ \A n \in DOMAIN sessions :
       LET s == sessions[n]
           again == Replay(s.log)
       IN /\ again.ok
          /\ <<again.s.slots, again.s.edges, again.s.records>> = <<s.slots, s.edges, s.records>>
          /\ Replay(s.log \o Reverse(s.redo)).ok
          /\ \A i \in DOMAIN s.slots : idOf[s.slots[i].stamp] = [session |-> n, id |-> i]

\* A document that is saved and loaded shows the same nodes and edges under ids without gaps, for every
\* graph clients can make, removed nodes and parallel edges included (session.py:173).
SavedIsLoaded ==
  \A n \in DOMAIN sessions :
    LET doc == ToDocument(sessions[n])
        new == ToDocument(FromDocument(doc, stamp))
        Rank(id) == Cardinality({k \in DOMAIN doc.nodes : doc.nodes[k].id <= id})
    IN /\ new.nodes = [k \in DOMAIN doc.nodes |-> [doc.nodes[k] EXCEPT !.id = Rank(@)]]
       /\ new.edges = [k \in DOMAIN doc.edges |-> <<Rank(doc.edges[k][1]), Rank(doc.edges[k][2])>>]

\* When nothing is under way every client that is connected shows the session's document (app.py:170),
\* although documents are read and sent outside the lock, by several coroutines at once, and one client
\* may take them much later than another.  Two things the code does not stand up to are let off: a change
\* whose coroutine ended before it broadcast it, the author having left or the agent raised; and a client
\* forgotten while a broadcast waited for it, which a newer one then overtakes.
Quiet == \A c \in Clients : conn[c].pc \in {"new", "idle", "off"} /\ outbox[c] = <<>>
ClientsConverge ==
  Quiet => \/ \A c \in Clients : conn[c].pc = "idle" /\ c \in online => shown[c] = ToDocument(Session)
           \/ \E c \in dirty : conn[c].pc = "off"
           \/ overtake

\* The ids the agent's calls returned are those of its nodes for as long as it runs: no client's undo or
\* load comes between two of its calls (app.py:123).
AgentIdsHold ==
  \A c \in Clients :
    conn[c].pc = "work" /\ conn[c].mine # NoNode =>
      LET s == sessions[conn[c].bound]
      IN conn[c].mine.id \in Live(s) /\ s.slots[conn[c].mine.id].stamp = conn[c].mine.stamp
=============================================================================

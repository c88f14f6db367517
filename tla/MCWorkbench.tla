----------------------------- MODULE MCWorkbench -----------------------------
(* Instances of Workbench for TLC. *)
EXTENDS Workbench

CONSTANTS ann, bob, cyd

MCClients == {ann, bob, cyd}
MCOrder == <<ann, bob, cyd>>
\* A source feeds a gain twice, a node is gone, and another is undone.
MCFirstLog ==
  <<[AddNode("gain") EXCEPT !.stamp = 1], [AddNode("source") EXCEPT !.stamp = 2],
    [AddNode("gain") EXCEPT !.stamp = 3], RemoveNode(1), Connect(2, 3), Connect(2, 3),
    [AddNode("mixer") EXCEPT !.stamp = 7]>>
\* Node 1 is there to remove only once a load has numbered the nodes anew.
MCHandEdits == {AddNode("gain"), RemoveNode(1)}
MCSends == ann :> {"action", "undo", "redo"} @@ bob :> {"load", "tune", "sync"}
           @@ cyd :> {"chat"}
MCMaxMessages == [c \in MCClients |-> 1]
=============================================================================

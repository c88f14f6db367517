---------------------------- MODULE GraphExecutor ----------------------------
(***************************************************************************)
(* graph::GraphExecutor (include/aiudio/graph/graph_executor.hpp,          *)
(* src/graph/graph_executor.cpp): the audio thread renders the installed   *)
(* schedule block by block while the control thread edits the graph,       *)
(* compiles it into a new schedule, swaps that in, and frees old schedules *)
(* once the audio thread has moved past them.  Parameter commands cross    *)
(* from the control thread to the audio thread through a RingBuffer,       *)
(* abstracted here to the bounded FIFO it implements (SpscQueue).          *)
(*                                                                         *)
(* A schedule is the number of the compile() that built it; 0 is nullptr.  *)
(* A node instance is a pair <<graph, id>>: ids are only unique within one *)
(* Graph, and a rebuilt Graph has instances of its own.  What a schedule   *)
(* computes (order, widths, latencies) does not matter here.  compile() of a *)
(* graph that validate() rejects returns before it changes anything, and   *)
(* edges only reach the audio thread through the next schedule: both are   *)
(* stuttering steps, so neither edges nor their validity are kept.         *)
(* The counters of xruns and of refused commands, which only observers     *)
(* read, are left out.                                                     *)
(***************************************************************************)
EXTENDS Integers, Sequences, FiniteSets

CONSTANTS
  NodeIds,         \* the ids a Graph may hold
  Resets,          \* ids of nodes whose prepare() sets their parameters back
  QueueRoom,       \* capacity of commands_
  MaxGraphs,       \* bound: Graph objects in a run
  MaxSchedules,    \* bound: successful compile() calls
  MaxPosts,        \* bound: commands accepted
  MaxBlocks        \* bound: process() calls that render

ASSUME ResetsAssumption == Resets \subseteq NodeIds
ASSUME BoundsAssumption ==
  /\ QueueRoom \in Nat /\ MaxPosts \in Nat /\ MaxBlocks \in Nat
  /\ MaxGraphs \in Nat \ {0} /\ MaxSchedules \in Nat \ {0}

VARIABLES
  graph,           \* the Graph being edited; the earlier ones are kept or destroyed
  nodes,           \* graph -> ids of its live nodes
  destroyed,       \* Graphs whose owner has let them go
  active,          \* active_
  uses,            \* schedule -> the node instances it points at
  built,           \* how many schedules were ever built
  freed,           \* schedules deleted
  retired,         \* retired_: <<[sched, stamp], ...>>
  renderCount,     \* renderCount_
  commands,        \* commands_, oldest first
  posts,           \* ghost: commands accepted so far; a command's number is its value
  log,             \* ghost: what was posted when, and which block took it
  setting,         \* instance -> number of the command it last applied, 0 as built
  cleared,         \* ghost: commands taken when prepare() last set an instance back
  cpc, todo, old, done, i,   \* control thread in compile()
  apc, held, due             \* audio thread in process(); due is a ghost

graphVars == <<graph, nodes, destroyed>>
schedVars == <<active, uses, built, freed, retired, renderCount>>
cmdVars == <<commands, posts, log>>
nodeVars == <<setting, cleared>>
ctlVars == <<cpc, todo, old, done, i>>
audioVars == <<apc, held, due>>
vars == <<graphVars, schedVars, cmdVars, ctlVars, audioVars, nodeVars>>

Graphs == 1 .. MaxGraphs
Schedules == 1 .. MaxSchedules
Instances == Graphs \X NodeIds
Commands == [node : NodeIds, number : 1 .. MaxPosts]
\* A command's id, the schedule a block would have loaded when it was accepted (the
\* first, if none was installed), and that of the block which took it, or 0.
Entries == [node : NodeIds, under : Schedules, by : Schedules \union {0}]
Retirements == [sched : Schedules, stamp : 0 .. MaxBlocks]

Init ==
  /\ graph = 1 /\ nodes = [g \in Graphs |-> {}] /\ destroyed = {}
  /\ active = 0 /\ uses = [s \in Schedules |-> {}] /\ built = 0 /\ freed = {}
  /\ retired = <<>> /\ renderCount = 0
  /\ commands = <<>> /\ posts = 0 /\ log = <<>>
  /\ setting = [x \in Instances |-> 0] /\ cleared = [x \in Instances |-> 0]
  /\ cpc = "idle" /\ todo = {} /\ old = 0 /\ done = 0 /\ i = 0
  /\ apc = "idle" /\ held = 0 /\ due = 0

-----------------------------------------------------------------------------
(* The control thread between compiles: editing graphs, posting commands.  *)

\* Graph::addNode: in place, on the graph a running schedule may point into.
AddNode(n) ==
  /\ cpc = "idle" /\ n \notin nodes[graph]
  /\ nodes' = [nodes EXCEPT ![graph] = @ \union {n}]
  /\ UNCHANGED <<graph, destroyed, schedVars, cmdVars, ctlVars, audioVars, nodeVars>>

\* The documented way to remove nodes: build the next topology as a new Graph.
NewGraph ==
  /\ cpc = "idle" /\ graph < MaxGraphs
  /\ graph' = graph + 1
  /\ UNCHANGED <<nodes, destroyed, schedVars, cmdVars, ctlVars, audioVars, nodeVars>>

\* Mutant: the owner looks at the Graph compiled last only.
BugDestroyRetired(g) ==
  /\ cpc = "idle" /\ g < graph /\ g \notin destroyed
  /\ \A x \in Instances : active # 0 /\ x \in uses[active] => x[1] # g
  /\ destroyed' = destroyed \union {g}
  /\ UNCHANGED <<graph, nodes, schedVars, cmdVars, ctlVars, audioVars, nodeVars>>

\* A Graph may go once no schedule points into it, which its owner can tell
\* from pendingRetired() and from what it compiled last.
DestroyGraph(g) ==
  /\ cpc = "idle" /\ g < graph /\ g \notin destroyed
  /\ retired = <<>>
  /\ \A x \in Instances : active # 0 /\ x \in uses[active] => x[1] # g
  /\ destroyed' = destroyed \union {g}
  /\ UNCHANGED <<graph, nodes, schedVars, cmdVars, ctlVars, audioVars, nodeVars>>

\* postParam(): no schedule is looked at, so an id may be unknown to the one
\* installed, or posted before the first compile().
PostParam(n) ==
  /\ cpc = "idle"
  /\ \/ /\ Len(commands) < QueueRoom /\ posts < MaxPosts
        /\ commands' = Append(commands, [node |-> n, number |-> posts + 1])
        /\ posts' = posts + 1
        /\ log' = Append(log, [node |-> n, under |-> IF active = 0 THEN 1 ELSE active, by |-> 0])
     \/ /\ Len(commands) = QueueRoom
        /\ UNCHANGED cmdVars
  /\ UNCHANGED <<graphVars, schedVars, ctlVars, audioVars, nodeVars>>

-----------------------------------------------------------------------------
(* The control thread in compile(): build, swap, retire, reclaim.          *)

\* build() of a graph validate() accepts; any other compile() returns false
\* before it changes anything.
CompileBegin ==
  /\ cpc = "idle" /\ built < MaxSchedules
  /\ built' = built + 1
  /\ uses' = [uses EXCEPT ![built + 1] = {graph} \X nodes[graph]]
  /\ todo' = {graph} \X nodes[graph]
  /\ cpc' = "prepare"
  /\ UNCHANGED <<graphVars, active, freed, retired, renderCount, cmdVars, old, done, i,
                 audioVars, nodeVars>>

\* node->prepare() on every live node of the graph, new or already running.
PrepareNode(x) ==
  /\ cpc = "prepare" /\ x \in todo
  /\ todo' = todo \ {x}
  /\ IF x[2] \in Resets
     THEN /\ setting' = [setting EXCEPT ![x] = 0]
          /\ cleared' = [cleared EXCEPT ![x] = posts - Len(commands)]
     ELSE UNCHANGED nodeVars
  /\ UNCHANGED <<graphVars, schedVars, cmdVars, cpc, old, done, i, audioVars>>

\* active_.exchange(next)
Install ==
  /\ cpc = "prepare" /\ todo = {}
  /\ old' = active
  /\ active' = built
  /\ cpc' = IF active # 0 THEN "retire" ELSE "reclaim"
  /\ UNCHANGED <<graphVars, uses, built, freed, retired, renderCount, cmdVars, todo, done, i,
                 audioVars, nodeVars>>

\* Mutant: the schedule is stamped one block too early.
BugRetireEarly ==
  /\ cpc = "retire"
  /\ retired' = Append(retired, [sched |-> old, stamp |-> renderCount - 1])
  /\ cpc' = "reclaim"
  /\ UNCHANGED <<graphVars, active, uses, built, freed, renderCount, cmdVars, todo, old, done, i,
                 audioVars, nodeVars>>

\* retired_.emplace_back(old, renderCount_.load())
Retire ==
  /\ cpc = "retire"
  /\ retired' = Append(retired, [sched |-> old, stamp |-> renderCount])
  /\ cpc' = "reclaim"
  /\ UNCHANGED <<graphVars, active, uses, built, freed, renderCount, cmdVars, todo, old, done, i,
                 audioVars, nodeVars>>

\* reclaim(): one load of renderCount_ for the whole sweep over retired_.
ReclaimBegin ==
  /\ cpc = "reclaim"
  /\ done' = renderCount /\ i' = 1
  /\ cpc' = "sweep"
  /\ UNCHANGED <<graphVars, schedVars, cmdVars, todo, old, audioVars, nodeVars>>

Reclaimable(e) == done > e.stamp

\* The k-th entry is dropped by moving the last one into its place.
SwapRemoved(s, k) == SubSeq([s EXCEPT ![k] = s[Len(s)]], 1, Len(s) - 1)

\* Mutant: the entry moved into the gap is skipped.
BugSweepSkips ==
  /\ cpc = "sweep" /\ i <= Len(retired) /\ Reclaimable(retired[i])
  /\ freed' = freed \union {retired[i].sched}
  /\ retired' = SwapRemoved(retired, i)
  /\ i' = i + 1
  /\ UNCHANGED <<graphVars, active, uses, built, renderCount, cmdVars, cpc, todo, old, done,
                 audioVars, nodeVars>>

\* Free the i-th entry; the one that takes its place is looked at next.
SweepFree ==
  /\ cpc = "sweep" /\ i <= Len(retired) /\ Reclaimable(retired[i])
  /\ freed' = freed \union {retired[i].sched}
  /\ retired' = SwapRemoved(retired, i)
  /\ UNCHANGED <<graphVars, active, uses, built, renderCount, cmdVars, ctlVars, audioVars,
                 nodeVars>>

SweepKeep ==
  /\ cpc = "sweep" /\ i <= Len(retired) /\ ~Reclaimable(retired[i])
  /\ i' = i + 1
  /\ UNCHANGED <<graphVars, schedVars, cmdVars, cpc, todo, old, done, audioVars, nodeVars>>

CompileEnd ==
  /\ cpc = "sweep" /\ i > Len(retired)
  /\ cpc' = "idle" /\ old' = 0 /\ done' = 0 /\ i' = 0
  /\ UNCHANGED <<graphVars, schedVars, cmdVars, todo, audioVars, nodeVars>>

-----------------------------------------------------------------------------
(* The audio thread in process().                                          *)

\* Nothing compiled yet: silence, and no block rendered.
SilentBlock ==
  /\ apc = "idle" /\ active = 0
  /\ UNCHANGED vars

BlockBegin ==
  /\ apc = "idle" /\ active # 0 /\ renderCount < MaxBlocks
  /\ held' = active
  /\ due' = posts
  /\ apc' = "drain"
  /\ UNCHANGED <<graphVars, schedVars, cmdVars, ctlVars, nodeVars>>

\* The instance byId[] of the held schedule finds for an id: at most one.
Targets(id) == {x \in uses[held] : x[2] = id}

\* setParam() on that instance; a command no instance answers to is discarded.
Apply(c) == [x \in Instances |-> IF x \in Targets(c.node) THEN c.number ELSE setting[x]]

\* Mutant: the newest command is taken first.
BugDrainNewest ==
  /\ apc = "drain" /\ commands # <<>>
  /\ setting' = Apply(commands[Len(commands)])
  /\ commands' = SubSeq(commands, 1, Len(commands) - 1)
  /\ log' = [log EXCEPT ![commands[Len(commands)].number].by = held]
  /\ UNCHANGED <<graphVars, schedVars, posts, ctlVars, audioVars, cleared>>

\* One turn of the loop that pops and applies commands.
Drain ==
  /\ apc = "drain" /\ commands # <<>>
  /\ setting' = Apply(Head(commands))
  /\ commands' = Tail(commands)
  /\ log' = [log EXCEPT ![Head(commands).number].by = held]
  /\ UNCHANGED <<graphVars, schedVars, posts, ctlVars, audioVars, cleared>>

\* Mutant: one command per block.
BugDrainOnce ==
  /\ apc = "drain"
  /\ apc' = "render"
  /\ UNCHANGED <<graphVars, schedVars, cmdVars, ctlVars, held, due, nodeVars>>

\* pop() fails: route the streams and run the schedule.
DrainEnd ==
  /\ apc = "drain" /\ commands = <<>>
  /\ apc' = "render"
  /\ UNCHANGED <<graphVars, schedVars, cmdVars, ctlVars, held, due, nodeVars>>

\* Every node has processed; what a block is longer than maxBlock is silent.
BlockEnd ==
  /\ apc = "render"
  /\ renderCount' = renderCount + 1
  /\ held' = 0 /\ due' = 0
  /\ apc' = "idle"
  /\ UNCHANGED <<graphVars, active, uses, built, freed, retired, cmdVars, ctlVars, nodeVars>>

-----------------------------------------------------------------------------
Compile ==
  \/ CompileBegin \/ (\E x \in Instances : PrepareNode(x)) \/ Install \/ Retire
  \/ ReclaimBegin \/ SweepFree \/ SweepKeep \/ CompileEnd
Control ==
  \/ (\E n \in NodeIds : AddNode(n)) \/ NewGraph
  \/ (\E g \in Graphs : DestroyGraph(g)) \/ (\E n \in NodeIds : PostParam(n))
  \/ Compile
Audio == SilentBlock \/ BlockBegin \/ Drain \/ DrainEnd \/ BlockEnd

Next == Control \/ Audio

Spec == Init /\ [][Next]_vars

-----------------------------------------------------------------------------
(* Properties.                                                             *)

\* Every variable has its type.
TypeOK ==
  /\ graph \in Graphs /\ nodes \in [Graphs -> SUBSET NodeIds]
  /\ destroyed \subseteq Graphs
  /\ active \in Schedules \union {0} /\ uses \in [Schedules -> SUBSET Instances]
  /\ built \in Schedules \union {0} /\ freed \subseteq Schedules
  /\ retired \in Seq(Retirements) /\ renderCount \in 0 .. MaxBlocks
  /\ commands \in Seq(Commands) /\ posts \in 0 .. MaxPosts /\ Len(commands) <= posts
  /\ log \in Seq(Entries) /\ Len(log) = posts
  /\ setting \in [Instances -> 0 .. MaxPosts] /\ cleared \in [Instances -> 0 .. MaxPosts]
  /\ cpc \in {"idle", "prepare", "retire", "reclaim", "sweep"}
  /\ todo \subseteq Instances /\ old \in Schedules \union {0}
  /\ done \in 0 .. MaxBlocks /\ i \in Nat
  /\ apc \in {"idle", "drain", "render"} /\ held \in Schedules \union {0}
  /\ due \in 0 .. MaxPosts

\* RCU: the schedule a block runs on is not deleted before the block ends.
NoUseAfterFree == held # 0 => held \notin freed

RetiredScheds == {retired[k].sched : k \in 1..Len(retired)}

\* Every schedule ever built is in exactly one place: deleted, installed, waiting
\* in retired_ (once), or in compile()'s hands. None leaks, none is freed twice, and
\* the sweep, which moves entries while it runs, leaves none in retired_ that a block
\* had outlived when it looked.
SchedulesAccounted ==
  LET inHand == IF cpc = "prepare" THEN {built} ELSE IF cpc = "retire" THEN {old} ELSE {}
      installed == {active} \ {0}
  IN /\ 1..built = freed \union RetiredScheds \union installed \union inHand
     /\ Cardinality(freed) + Len(retired) + Cardinality(installed) + Cardinality(inHand) = built
     /\ cpc = "sweep" /\ i > Len(retired) => \A k \in 1..Len(retired) : ~Reclaimable(retired[k])

\* The documented lifetime rule is enough: a Graph let go when pendingRetired() is
\* zero and another Graph is installed is not the one a block is running on.
NodesOutliveBlocks == held # 0 => \A x \in uses[held] : x[1] \notin destroyed

\* Command k missed node x: the block that took it was on a schedule without x.
\* This happens to a command posted before x was installed, and to one that
\* a block took which had begun before the schedule it was posted to was swapped in.
Missed(k, x) ==
  /\ log[k].by # 0 /\ x \notin uses[log[k].by]
  /\ x \notin uses[log[k].under] \/ log[k].by < log[k].under

\* A block renders with the newest command accepted for each of its nodes before it
\* began, whatever was swapped, edited and queued meanwhile: no command is lost but
\* those that Missed names, and none is undone but by a prepare() after it.
BlockReflectsCommands ==
  apc = "render" =>
    \A k \in 1..due : \A x \in uses[held] :
      log[k].node = x[2] => setting[x] >= k \/ k <= cleared[x] \/ Missed(k, x)

\* No node goes back to an older command; only prepare() takes it back, to 0.
CommandsApplyInOrder ==
  [][\A x \in Instances : setting'[x] < setting[x] => setting'[x] = 0]_vars

=============================================================================

------------------------- MODULE GraphExecutorProofs -------------------------
(***************************************************************************)
(* Theorems about GraphExecutor, for every set of node ids, every queue    *)
(* capacity and every bound on a run.                                      *)
(*                                                                         *)
(* The argument for schedules: the one a block holds is installed, or in   *)
(* compile()'s hands between the swap and the push, or in retired_ with a  *)
(* stamp that renderCount_ has not passed (Located, Stamped), so a sweep,  *)
(* which frees only below the renderCount_ it loaded, keeps it.  A new     *)
(* schedule and the installed one are nowhere else (Fresh, Installed), and *)
(* retired_, a set although a sequence, is apart from what is freed        *)
(* (Apart): so every schedule is in one place, and the places can be       *)
(* counted (Complete, Counted).                                            *)
(*                                                                         *)
(* The argument for commands: those taken are the oldest (Numbered), each  *)
(* of them holds at the nodes of the schedule it was taken on (Applied),   *)
(* and schedules are taken up in the order they were built (InTime).  A    *)
(* node of two schedules is in all that were built in between (History),   *)
(* so a command misses it only before the first or on an old schedule.     *)
(***************************************************************************)
EXTENDS GraphExecutor, FiniteSetTheorems, TLAPS

\* What the program counters say of the counters and of the pointers.
Positions ==
  /\ apc = "idle" <=> held = 0
  /\ apc # "idle" => renderCount < MaxBlocks
  /\ done <= renderCount
  /\ cpc = "sweep" => i >= 1
  /\ cpc = "retire" => old # 0

\* Schedules are numbered as they are built; one being prepared is nowhere yet.
Fresh ==
  /\ active <= built /\ old <= built
  /\ \A s \in freed : s <= built
  /\ \A k \in 1..Len(retired) : retired[k].sched <= built
  /\ cpc = "prepare" => /\ built # 0 /\ active # built /\ built \notin freed
                        /\ \A k \in 1..Len(retired) : retired[k].sched # built

\* The installed schedule is neither freed nor retired nor about to be.
Installed ==
  /\ active \notin freed
  /\ \A k \in 1..Len(retired) : retired[k].sched # active
  /\ cpc = "retire" => old # active

\* Where the schedule of the running block is.
Located ==
  held # 0 => \/ held = active
              \/ cpc = "retire" /\ held = old
              \/ \E k \in 1..Len(retired) : retired[k].sched = held

\* If it is retired, no block has ended since.
Stamped ==
  held # 0 => \A k \in 1..Len(retired) :
                retired[k].sched = held => retired[k].stamp >= renderCount

\* A Graph let go is not the one being edited, and nothing installed uses it.
Owners ==
  /\ \A g \in destroyed : g < graph
  /\ cpc = "prepare" => \A x \in uses[built] : x[1] = graph
  /\ active # 0 => \A x \in uses[active] : x[1] \notin destroyed

\* How many commands have been taken: the queue holds all that came after.
Taken == posts - Len(commands)
Numbered ==
  /\ due <= posts
  /\ \A k \in 1..Len(commands) : commands[k].number = Taken + k
  /\ \A k \in 1..Len(commands) : commands[k].node = log[Taken + k].node
  /\ \A x \in Instances : setting[x] <= Taken
  /\ apc = "render" => due <= Taken

\* Graphs are rebuilt in order and nodes only added, so a node two schedules share is
\* in every schedule between them.
History ==
  /\ \A s \in 1..built : \A x \in uses[s] : x[1] <= graph /\ x[2] \in nodes[x[1]]
  /\ \A s, t \in 1..built : \A x \in uses[s] : s <= t /\ x[1] = graph => x \in uses[t]
  /\ \A s, t, u \in 1..built : \A x \in uses[s] \cap uses[u] : s <= t /\ t <= u => x \in uses[t]

\* Schedules go to blocks, and blocks to commands, in the order they were built.
InTime ==
  /\ held <= active
  /\ \A k \in 1..posts : log[k].by <= active /\ (log[k].under <= active \/ log[k].under = 1)
  /\ held # 0 => \A k \in 1..posts : log[k].by <= held /\ (k <= due => log[k].under <= held)

\* A command that was taken holds at the nodes of the schedule it was taken on.
Applied ==
  \A k \in 1..Taken :
    /\ log[k].by # 0
    /\ \A x \in uses[log[k].by] : log[k].node = x[2] => setting[x] >= k \/ k <= cleared[x]

\* Where else a schedule can be.
InHand == IF cpc = "prepare" THEN {built} ELSE IF cpc = "retire" THEN {old} ELSE {}
InstalledScheds == {active} \ {0}

\* retired_ holds a schedule once, and none that is freed or about to be pushed.
Apart ==
  /\ \A k, l \in 1..Len(retired) : k # l => retired[k].sched # retired[l].sched
  /\ \A k \in 1..Len(retired) : retired[k].sched \notin freed
  /\ cpc = "retire" => /\ old \notin freed
                       /\ \A k \in 1..Len(retired) : retired[k].sched # old

\* No schedule is lost, and the places add up to the schedules built.
Complete == 1..built = freed \union RetiredScheds \union InstalledScheds \union InHand
Counted ==
  Cardinality(freed) + Len(retired) + Cardinality(InstalledScheds) + Cardinality(InHand) = built

\* What the sweep has passed it had to keep, though entries move while it runs.
Swept == cpc = "sweep" => \A k \in 1..Len(retired) : k < i => ~Reclaimable(retired[k])

SchedInv == TypeOK /\ Positions /\ Fresh /\ Installed /\ Located /\ Stamped /\ NoUseAfterFree
OwnerInv == Owners /\ NodesOutliveBlocks
CommandInv == Numbered /\ History /\ InTime /\ Applied
AccountInv == Apart /\ Complete /\ Counted /\ Swept
IInv == SchedInv /\ AccountInv /\ OwnerInv /\ CommandInv

-----------------------------------------------------------------------------
(* Sequences.                                                              *)

\* Dropping the k-th entry of retired_ by moving the last one into its place.
LEMMA SwapRemoval ==
  ASSUME NEW S, NEW s \in Seq(S), NEW k \in 1..Len(s)
  PROVE  /\ SwapRemoved(s, k) \in Seq(S)
         /\ Len(SwapRemoved(s, k)) = Len(s) - 1
         /\ \A j \in 1..(Len(s) - 1) :
              SwapRemoved(s, k)[j] = IF j = k THEN s[Len(s)] ELSE s[j]
<1> DEFINE t == [s EXCEPT ![k] = s[Len(s)]]
<1>1. t \in Seq(S) /\ Len(t) = Len(s)
  OBVIOUS
<1>2. \A j \in 1..Len(s) : t[j] = IF j = k THEN s[Len(s)] ELSE s[j]
  OBVIOUS
<1> HIDE DEF t
<1>3. /\ SubSeq(t, 1, Len(s) - 1) \in Seq(S) /\ Len(SubSeq(t, 1, Len(s) - 1)) = Len(s) - 1
      /\ \A j \in 1..(Len(s) - 1) : SubSeq(t, 1, Len(s) - 1)[j] = t[j]
  BY <1>1
<1> QED BY <1>2, <1>3 DEF SwapRemoved, t

\* Taking the head of a queue moves every other entry one place forward.
LEMMA TailIs ==
  ASSUME NEW S, NEW s \in Seq(S), s # <<>>
  PROVE  /\ Tail(s) \in Seq(S) /\ Len(Tail(s)) = Len(s) - 1
         /\ \A j \in 1..Len(Tail(s)) : Tail(s)[j] = s[j + 1]
         /\ Head(s) \in S /\ Head(s) = s[1] /\ Len(s) >= 1
  OBVIOUS

\* Appending leaves the entries where they are.
LEMMA AppendIs ==
  ASSUME NEW S, NEW s \in Seq(S), NEW e \in S
  PROVE  /\ Append(s, e) \in Seq(S) /\ Len(Append(s, e)) = Len(s) + 1
         /\ \A j \in 1..Len(s) : Append(s, e)[j] = s[j]
         /\ Append(s, e)[Len(s) + 1] = e
  OBVIOUS

-----------------------------------------------------------------------------
(* Schedules.                                                              *)

LEMMA InitSched == Init => SchedInv
  BY BoundsAssumption DEF Init, SchedInv, TypeOK, Positions, Fresh, Installed, Located, Stamped,
     NoUseAfterFree, Graphs, Schedules, Instances, Retirements, Commands

\* A step that leaves schedules, compile() and the block alone keeps SchedInv
\* if it keeps the types.
LEMMA SchedFrame ==
  ASSUME SchedInv, TypeOK',
         UNCHANGED <<active, built, freed, retired, renderCount, cpc, old, done, i, apc, held>>
  PROVE  SchedInv'
  BY DEF SchedInv, Positions, Fresh, Installed, Located, Stamped, NoUseAfterFree

LEMMA EditSched ==
  ASSUME SchedInv,
         \/ \E n \in NodeIds : AddNode(n)
         \/ NewGraph
         \/ \E g \in Graphs : DestroyGraph(g)
         \/ \E x \in Instances : PrepareNode(x)
         \/ SilentBlock
  PROVE  SchedInv'
<1>1. TypeOK
  BY DEF SchedInv
<1>2. ASSUME NEW n \in NodeIds, AddNode(n) PROVE SchedInv'
  <2>1. TypeOK'
    BY <1>1, <1>2 DEF TypeOK, AddNode, schedVars, cmdVars, nodeVars, ctlVars, audioVars
  <2> QED BY <2>1, <1>2, SchedFrame DEF AddNode, schedVars, ctlVars, audioVars
<1>3. CASE NewGraph
  <2>1. TypeOK'
    BY <1>1, <1>3, BoundsAssumption DEF TypeOK, NewGraph, Graphs, schedVars, cmdVars, nodeVars, ctlVars, audioVars
  <2> QED BY <2>1, <1>3, SchedFrame DEF NewGraph, schedVars, ctlVars, audioVars
<1>4. ASSUME NEW g \in Graphs, DestroyGraph(g) PROVE SchedInv'
  <2>1. TypeOK'
    BY <1>1, <1>4 DEF TypeOK, DestroyGraph, schedVars, cmdVars, nodeVars, ctlVars, audioVars
  <2> QED BY <2>1, <1>4, SchedFrame DEF DestroyGraph, schedVars, ctlVars, audioVars
<1>5. ASSUME NEW x \in Instances, PrepareNode(x) PROVE SchedInv'
  <2>0. posts - Len(commands) \in 0..MaxPosts
    <3>1. Len(commands) \in Nat /\ posts \in 0..MaxPosts /\ Len(commands) <= posts
      BY <1>1 DEF TypeOK
    <3> QED BY <3>1, BoundsAssumption
  <2>1. cleared' \in [Instances -> 0..MaxPosts] /\ setting' \in [Instances -> 0..MaxPosts]
    <3>1. 0 \in 0..MaxPosts
      BY BoundsAssumption
    <3>2. /\ setting \in [Instances -> 0..MaxPosts] /\ cleared \in [Instances -> 0..MaxPosts]
          /\ \/ UNCHANGED <<setting, cleared>>
             \/ /\ setting' = [setting EXCEPT ![x] = 0]
                /\ cleared' = [cleared EXCEPT ![x] = posts - Len(commands)]
      BY <1>1, <1>5 DEF TypeOK, PrepareNode, nodeVars
    <3> HIDE <1>5
    <3> QED BY <2>0, <3>1, <3>2
  <2>2. TypeOK'
    BY <1>1, <1>5, <2>1, BoundsAssumption
    DEF TypeOK, PrepareNode, graphVars, schedVars, cmdVars, nodeVars, audioVars
  <2> QED BY <2>2, <1>5, SchedFrame DEF PrepareNode, schedVars, audioVars
<1>6. CASE SilentBlock
  <2> USE DEF vars, graphVars, schedVars, cmdVars, nodeVars, ctlVars, audioVars
  <2>1. TypeOK'
    BY <1>1, <1>6 DEF TypeOK, SilentBlock
  <2> QED BY <2>1, <1>6, SchedFrame DEF SilentBlock
<1> QED BY <1>2, <1>3, <1>4, <1>5, <1>6

\* What postParam() does to the queue and to the log, if it accepts.
LEMMA PostIs ==
  ASSUME TypeOK, NEW n \in NodeIds, PostParam(n), ~UNCHANGED cmdVars
  PROVE  LET c == [node |-> n, number |-> posts + 1]
             e == [node |-> n, under |-> IF active = 0 THEN 1 ELSE active, by |-> 0]
         IN /\ commands' \in Seq(Commands) /\ Len(commands') = Len(commands) + 1
            /\ \A k \in 1..Len(commands) : commands'[k] = commands[k]
            /\ commands'[Len(commands) + 1] = c
            /\ log' \in Seq(Entries) /\ Len(log') = posts + 1
            /\ \A k \in 1..posts : log'[k] = log[k]
            /\ log'[posts + 1] = e
            /\ posts' = posts + 1 /\ posts < MaxPosts
<1> DEFINE c == [node |-> n, number |-> posts + 1]
           e == [node |-> n, under |-> IF active = 0 THEN 1 ELSE active, by |-> 0]
<1>1. /\ commands' = Append(commands, c) /\ log' = Append(log, e)
      /\ posts' = posts + 1 /\ posts < MaxPosts
  BY DEF PostParam
<1>2. posts \in Nat /\ commands \in Seq(Commands) /\ log \in Seq(Entries) /\ Len(log) = posts
  BY BoundsAssumption DEF TypeOK
<1>3. c \in Commands
  BY <1>1, <1>2, BoundsAssumption DEF Commands
<1>4. 1 \in Schedules
  BY BoundsAssumption DEF Schedules
<1>5. e \in Entries
  BY <1>4 DEF Entries, TypeOK
<1> HIDE DEF c, e
<1>6. /\ Append(commands, c) \in Seq(Commands) /\ Len(Append(commands, c)) = Len(commands) + 1
      /\ \A k \in 1..Len(commands) : Append(commands, c)[k] = commands[k]
      /\ Append(commands, c)[Len(commands) + 1] = c
  BY <1>2, <1>3, AppendIs
<1>7. /\ Append(log, e) \in Seq(Entries) /\ Len(Append(log, e)) = Len(log) + 1
      /\ \A k \in 1..Len(log) : Append(log, e)[k] = log[k]
      /\ Append(log, e)[Len(log) + 1] = e
  BY <1>2, <1>5, AppendIs
<1> QED BY <1>1, <1>2, <1>6, <1>7 DEF c, e

LEMMA PostSched ==
  ASSUME SchedInv, NEW n \in NodeIds, PostParam(n)
  PROVE  SchedInv'
<1>1. TypeOK
  BY DEF SchedInv
<1>2. TypeOK'
  <2>1. CASE UNCHANGED cmdVars
    BY <1>1, <2>1 DEF TypeOK, PostParam, cmdVars, nodeVars, graphVars, schedVars, ctlVars, audioVars
  <2>2. CASE ~UNCHANGED cmdVars
    <3>1. /\ commands' \in Seq(Commands) /\ Len(commands') = Len(commands) + 1
          /\ log' \in Seq(Entries) /\ Len(log') = posts + 1
          /\ posts' = posts + 1 /\ posts < MaxPosts
      BY <1>1, <2>2, PostIs
    <3>2. posts' \in 0..MaxPosts /\ Len(log') = posts' /\ Len(commands') <= posts'
      BY <1>1, <3>1, BoundsAssumption DEF TypeOK
    <3> QED BY <1>1, <3>1, <3>2 DEF TypeOK, PostParam, nodeVars, graphVars, schedVars, ctlVars, audioVars
  <2> QED BY <2>1, <2>2
<1> QED BY <1>2, SchedFrame DEF PostParam, schedVars, ctlVars, audioVars

\* Taking a command: the entry of the log is marked with the schedule of the block.
LEMMA DrainIs ==
  ASSUME TypeOK, Drain
  PROVE  /\ commands' \in Seq(Commands)
         /\ Len(commands') = Len(commands) - 1 /\ Len(commands) \in Nat \ {0}
         /\ \A k \in 1..Len(commands') : commands'[k] = commands[k + 1]
         /\ commands[1] \in Commands
         /\ setting' = Apply(commands[1])
         /\ log' = [log EXCEPT ![commands[1].number].by = held]
         /\ UNCHANGED <<posts, cleared>>
<1>1. commands \in Seq(Commands) /\ commands # <<>> /\ commands' = Tail(commands)
  BY DEF TypeOK, Drain
<1>2. /\ Tail(commands) \in Seq(Commands) /\ Len(Tail(commands)) = Len(commands) - 1
      /\ \A j \in 1..Len(Tail(commands)) : Tail(commands)[j] = commands[j + 1]
      /\ Head(commands) \in Commands /\ Head(commands) = commands[1] /\ Len(commands) >= 1
  BY <1>1, TailIs
<1>3. Len(commands) \in Nat
  BY <1>1
<1> QED BY <1>1, <1>2, <1>3 DEF Drain

LEMMA LogMarked ==
  ASSUME NEW l \in Seq(Entries), NEW k, NEW s \in Schedules \union {0}
  PROVE  LET m == [l EXCEPT ![k].by = s]
         IN /\ m \in Seq(Entries) /\ Len(m) = Len(l)
            /\ \A j \in 1..Len(l) : /\ m[j].node = l[j].node /\ m[j].under = l[j].under
                                    /\ m[j].by = IF j = k THEN s ELSE l[j].by
<1> DEFINE m == [l EXCEPT ![k].by = s]
<1>1. m = [j \in 1..Len(l) |-> IF j = k THEN [l[k] EXCEPT !.by = s] ELSE l[j]]
  OBVIOUS
<1>2. \A j \in 1..Len(l) : l[j] \in Entries
  OBVIOUS
<1>3. \A e \in Entries : /\ [e EXCEPT !.by = s] \in Entries /\ [e EXCEPT !.by = s].node = e.node
                         /\ [e EXCEPT !.by = s].under = e.under /\ [e EXCEPT !.by = s].by = s
  BY DEF Entries
<1> HIDE DEF m
<1>4. \A j \in 1..Len(l) : m[j] = IF j = k THEN [l[k] EXCEPT !.by = s] ELSE l[j]
  BY <1>1
<1>5. DOMAIN m = 1..Len(l)
  BY <1>1
<1>6. \A j \in 1..Len(l) : m[j] \in Entries
  BY <1>2, <1>3, <1>4
<1>7. m \in [1..Len(l) -> Entries]
  <2>1. m = [j \in 1..Len(l) |-> m[j]]
    BY <1>1
  <2> QED BY <2>1, <1>6
<1>8. Len(l) \in Nat
  OBVIOUS
<1>9. m \in Seq(Entries) /\ Len(m) = Len(l)
  BY <1>7, <1>8
<1>10. \A j \in 1..Len(l) : /\ m[j].node = l[j].node /\ m[j].under = l[j].under
                              /\ m[j].by = IF j = k THEN s ELSE l[j].by
  BY <1>2, <1>3, <1>4
<1> QED BY <1>9, <1>10 DEF m

LEMMA DrainSched ==
  ASSUME SchedInv, Drain
  PROVE  SchedInv'
<1>1. TypeOK /\ held \in Schedules \union {0}
  BY DEF SchedInv, TypeOK
<1>2. /\ commands' \in Seq(Commands) /\ Len(commands') = Len(commands) - 1 /\ Len(commands) \in Nat
      /\ commands[1] \in Commands /\ setting' = Apply(commands[1])
      /\ log' = [log EXCEPT ![commands[1].number].by = held] /\ UNCHANGED <<posts, cleared>>
  BY <1>1, DrainIs
<1>3. setting' \in [Instances -> 0..MaxPosts]
  BY <1>1, <1>2 DEF TypeOK, Apply, Commands
<1>4. log' \in Seq(Entries) /\ Len(log') = posts'
  <2>1. log \in Seq(Entries) /\ Len(log) = posts
    BY <1>1 DEF TypeOK
  <2> DEFINE j == commands[1].number
             m == [log EXCEPT ![j].by = held]
  <2>2. log' = m
    BY <1>2
  <2>3. m \in Seq(Entries) /\ Len(m) = Len(log)
    <3> HIDE DEF j
    <3> QED BY <1>1, <2>1, LogMarked
  <2> QED BY <1>2, <2>1, <2>2, <2>3
<1>5. Len(commands') <= posts'
  BY <1>1, <1>2, BoundsAssumption DEF TypeOK
<1>6. TypeOK'
  BY <1>1, <1>2, <1>3, <1>4, <1>5 DEF TypeOK, Drain, graphVars, schedVars, ctlVars, audioVars
<1> QED BY <1>6, SchedFrame DEF Drain, schedVars, ctlVars, audioVars

LEMMA CompileBeginSched ==
  ASSUME SchedInv, CompileBegin
  PROVE  SchedInv'
<1>1. TypeOK'
  BY BoundsAssumption
  DEF SchedInv, TypeOK, CompileBegin, graphVars, cmdVars, nodeVars, audioVars, Schedules, Graphs, Instances
<1>2. \A k \in 1..Len(retired) : retired[k].sched \in Nat
  <2> SUFFICES ASSUME NEW k \in 1..Len(retired) PROVE retired[k].sched \in Nat
    OBVIOUS
  <2>1. retired[k] \in Retirements
    BY DEF SchedInv, TypeOK
  <2> QED BY <2>1 DEF Retirements, Schedules
<1>3. active \in Nat /\ built \in Nat /\ old \in Nat /\ \A s \in freed : s \in Nat
  BY DEF SchedInv, TypeOK, Schedules
<1>4. Positions' /\ Installed' /\ Located' /\ Stamped' /\ NoUseAfterFree'
  BY DEF SchedInv, Positions, Installed, Located, Stamped, NoUseAfterFree, CompileBegin, audioVars
<1>5. Fresh'
  BY <1>2, <1>3 DEF SchedInv, Fresh, CompileBegin
<1> QED BY <1>1, <1>4, <1>5 DEF SchedInv

LEMMA InstallSched ==
  ASSUME SchedInv, Install
  PROVE  SchedInv'
<1>1. TypeOK'
  BY DEF SchedInv, TypeOK, Install, graphVars, cmdVars, nodeVars, audioVars
<1>2. active \in Nat /\ built \in Nat
  BY DEF SchedInv, TypeOK, Schedules
<1>3. Positions' /\ Stamped' /\ NoUseAfterFree'
  BY DEF SchedInv, Install, audioVars, Positions, Stamped, NoUseAfterFree
<1>4. Fresh'
  BY <1>2 DEF SchedInv, Install, Fresh
<1>5. Installed'
  BY <1>2 DEF SchedInv, Install, Fresh, Installed
<1>6. Located'
  BY <1>2 DEF SchedInv, Install, audioVars, Located
<1> QED BY <1>1, <1>3, <1>4, <1>5, <1>6 DEF SchedInv

LEMMA RetireSched ==
  ASSUME SchedInv, Retire
  PROVE  SchedInv'
<1> DEFINE e == [sched |-> old, stamp |-> renderCount]
<1>1. e \in Retirements /\ retired \in Seq(Retirements) /\ renderCount \in Nat
  BY BoundsAssumption DEF SchedInv, TypeOK, Positions, Retire, Retirements, Schedules
<1>2. /\ retired' \in Seq(Retirements) /\ Len(retired') = Len(retired) + 1
      /\ \A k \in 1..Len(retired) : retired'[k] = retired[k]
      /\ retired'[Len(retired) + 1] = e
  BY <1>1, AppendIs DEF Retire
<1>3. \A k \in 1..Len(retired') : \/ k \in 1..Len(retired) /\ retired'[k] = retired[k]
                                  \/ k = Len(retired) + 1 /\ retired'[k] = e
  BY <1>1, <1>2
<1>4. 1..Len(retired) \subseteq 1..Len(retired') /\ Len(retired) + 1 \in 1..Len(retired')
  BY <1>1, <1>2
<1> HIDE DEF e
<1>5. e.sched = old /\ e.stamp = renderCount
  BY DEF e
<1>6. TypeOK'
  BY <1>2 DEF SchedInv, TypeOK, Retire, graphVars, cmdVars, nodeVars, audioVars
<1>7. Positions' /\ NoUseAfterFree'
  BY DEF SchedInv, Retire, audioVars, Positions, NoUseAfterFree
<1>8. Fresh' /\ Installed'
  BY <1>3, <1>5 DEF SchedInv, Retire, Fresh, Installed
<1>9. Located'
  BY <1>2, <1>4, <1>5 DEF SchedInv, Retire, audioVars, Located
<1>10. Stamped'
  BY <1>1, <1>3, <1>5 DEF SchedInv, Retire, audioVars, Stamped
<1> QED BY <1>6, <1>7, <1>8, <1>9, <1>10 DEF SchedInv

LEMMA SweepFreeSched ==
  ASSUME SchedInv, SweepFree
  PROVE  SchedInv'
<1> DEFINE n == Len(retired)
<1>1. i \in 1..n /\ n \in Nat /\ retired \in Seq(Retirements)
  BY DEF SchedInv, TypeOK, Positions, SweepFree
<1>2. /\ retired' \in Seq(Retirements) /\ Len(retired') = n - 1
      /\ \A j \in 1..Len(retired') : retired'[j] = IF j = i THEN retired[n] ELSE retired[j]
  BY <1>1, SwapRemoval DEF SweepFree
<1>3. \A j \in 1..Len(retired') : \E k \in 1..n : retired'[j] = retired[k]
  BY <1>1, <1>2
<1>4. \A k \in 1..n : k # i => \E j \in 1..Len(retired') : retired'[j] = retired[k]
  <2> SUFFICES ASSUME NEW k \in 1..n, k # i
               PROVE  \E j \in 1..Len(retired') : retired'[j] = retired[k]
    OBVIOUS
  <2>1. CASE k = n
    <3>1. i \in 1..Len(retired') /\ retired'[i] = retired[k]
      BY <1>1, <1>2, <2>1
    <3> QED BY <3>1
  <2>2. CASE k # n
    <3>1. k \in 1..Len(retired') /\ retired'[k] = retired[k]
      BY <1>1, <1>2, <2>2
    <3> QED BY <3>1
  <2> QED BY <2>1, <2>2
<1>5. retired[i] \in Retirements
  BY <1>1
<1>6. held # 0 => retired[i].sched # held
  <2>1. done > retired[i].stamp /\ done <= renderCount
    BY DEF SchedInv, Positions, SweepFree, Reclaimable
  <2>2. done \in Nat /\ renderCount \in Nat /\ retired[i].stamp \in Nat
    BY <1>5, BoundsAssumption DEF SchedInv, TypeOK, Retirements
  <2> QED BY <1>1, <2>1, <2>2 DEF SchedInv, Stamped
<1> HIDE DEF n
<1>7. TypeOK'
  BY <1>2, <1>5
  DEF SchedInv, TypeOK, SweepFree, Retirements, graphVars, cmdVars, nodeVars, ctlVars, audioVars
<1>8. Positions'
  BY DEF SchedInv, Positions, SweepFree, ctlVars, audioVars
<1>9. Fresh' /\ Installed' /\ Stamped'
  <2>1. Fresh'
    BY <1>1, <1>3 DEF SchedInv, Fresh, SweepFree, ctlVars, n
  <2>2. Installed'
    BY <1>1, <1>3 DEF SchedInv, Installed, SweepFree, ctlVars, n
  <2>3. Stamped'
    BY <1>1, <1>3 DEF SchedInv, Stamped, SweepFree, audioVars, n
  <2> QED BY <2>1, <2>2, <2>3
<1>10. NoUseAfterFree'
  BY <1>6 DEF SchedInv, NoUseAfterFree, SweepFree, audioVars
<1>11. Located'
  <2> SUFFICES ASSUME held # 0, NEW k \in 1..n, retired[k].sched = held
               PROVE  \E j \in 1..Len(retired') : retired'[j].sched = held
    BY DEF SchedInv, Located, SweepFree, ctlVars, audioVars, n
  <2>1. k # i
    BY <1>6
  <2> QED BY <1>4, <2>1
<1> QED BY <1>7, <1>8, <1>9, <1>10, <1>11 DEF SchedInv

\* The other steps of compile() and of process() touch no schedule.
LEMMA LocalSched ==
  ASSUME SchedInv, ReclaimBegin \/ SweepKeep \/ CompileEnd \/ BlockBegin \/ DrainEnd \/ BlockEnd
  PROVE  SchedInv'
<1>1. renderCount \in Nat /\ MaxBlocks \in Nat
  BY BoundsAssumption DEF SchedInv, TypeOK
<1>2. CASE ReclaimBegin
  BY <1>1, <1>2 DEF SchedInv, TypeOK, ReclaimBegin, graphVars, schedVars, cmdVars, nodeVars, audioVars,
     Positions, Fresh, Installed, Located, Stamped, NoUseAfterFree
<1>3. CASE SweepKeep
  BY <1>1, <1>3 DEF SchedInv, TypeOK, SweepKeep, graphVars, schedVars, cmdVars, nodeVars, audioVars,
     Positions, Fresh, Installed, Located, Stamped, NoUseAfterFree
<1>4. CASE CompileEnd
  BY <1>1, <1>4 DEF SchedInv, TypeOK, CompileEnd, graphVars, schedVars, cmdVars, nodeVars, audioVars,
     Positions, Fresh, Installed, Located, Stamped, NoUseAfterFree, Schedules
<1>5. CASE BlockBegin
  BY <1>1, <1>5 DEF SchedInv, TypeOK, BlockBegin, graphVars, schedVars, cmdVars, nodeVars, ctlVars,
     Positions, Fresh, Installed, Located, Stamped, NoUseAfterFree
<1>6. CASE DrainEnd
  BY <1>1, <1>6 DEF SchedInv, TypeOK, DrainEnd, graphVars, schedVars, cmdVars, nodeVars, ctlVars,
     Positions, Fresh, Installed, Located, Stamped, NoUseAfterFree
<1>7. CASE BlockEnd
  <2>1. TypeOK'
    BY <1>1, <1>7, BoundsAssumption DEF SchedInv, TypeOK, Positions, BlockEnd, graphVars, cmdVars, nodeVars, ctlVars
  <2>2. Positions'
    BY <1>1, <1>7 DEF SchedInv, TypeOK, BlockEnd, ctlVars, Positions
  <2>3. Fresh' /\ Installed'
    BY <1>7 DEF SchedInv, BlockEnd, ctlVars, Fresh, Installed
  <2>4. held' = 0 /\ 0 \notin freed'
    BY <1>7 DEF SchedInv, TypeOK, BlockEnd, Schedules
  <2> QED BY <2>1, <2>2, <2>3, <2>4 DEF SchedInv, Located, Stamped, NoUseAfterFree
<1> QED BY <1>2, <1>3, <1>4, <1>5, <1>6, <1>7

LEMMA SchedStep == SchedInv /\ [Next]_vars => SchedInv'
<1> SUFFICES ASSUME SchedInv, [Next]_vars PROVE SchedInv'
  OBVIOUS
<1>1. CASE UNCHANGED vars
  BY <1>1 DEF vars, graphVars, schedVars, cmdVars, nodeVars, ctlVars, audioVars, SchedInv, TypeOK, Positions,
     Fresh, Installed, Located, Stamped, NoUseAfterFree
<1>2. CASE Next
  BY <1>2, EditSched, PostSched, DrainSched, CompileBeginSched, InstallSched, RetireSched,
     SweepFreeSched, LocalSched DEF Next, Control, Compile, Audio
<1> QED BY <1>1, <1>2

-----------------------------------------------------------------------------
(* Every schedule is in one place.                                         *)

\* What the counts are made of.
LEMMA Counts ==
  ASSUME SchedInv
  PROVE  /\ IsFiniteSet(freed) /\ Cardinality(freed) \in Nat
         /\ Len(retired) \in Nat /\ active \in Nat /\ built \in Nat /\ i \in Nat
         /\ active = 0 => Cardinality(InstalledScheds) = 0
         /\ active # 0 => Cardinality(InstalledScheds) = 1
         /\ cpc \in {"prepare", "retire"} => Cardinality(InHand) = 1
         /\ cpc \notin {"prepare", "retire"} => Cardinality(InHand) = 0
<1>1. TypeOK
  BY DEF SchedInv
<1>2. IsFiniteSet(freed)
  <2>1. freed \in SUBSET (1 .. MaxSchedules) /\ MaxSchedules \in Int
    BY <1>1, BoundsAssumption DEF TypeOK, Schedules
  <2>2. IsFiniteSet(1 .. MaxSchedules)
    BY <2>1, FS_Interval
  <2> QED BY <2>1, <2>2, FS_Subset
<1>3. Cardinality(freed) \in Nat
  BY <1>2, FS_CardinalityType
<1>4. active \in Nat /\ built \in Nat /\ i \in Nat /\ Len(retired) \in Nat
  BY <1>1 DEF TypeOK, Schedules
<1>5. active = 0 => InstalledScheds = {}
  BY DEF InstalledScheds
<1>6. active # 0 => InstalledScheds = {active}
  BY DEF InstalledScheds
<1>7. cpc \in {"prepare", "retire"} => InHand = {built} \/ InHand = {old}
  BY DEF InHand
<1>8. cpc \notin {"prepare", "retire"} => InHand = {}
  BY DEF InHand
<1>9. \A x : Cardinality({x}) = 1
  BY FS_Singleton
<1>10. Cardinality({}) = 0
  BY FS_EmptySet
<1> QED BY <1>2, <1>3, <1>4, <1>5, <1>6, <1>7, <1>8, <1>9, <1>10

LEMMA InitAccount == Init => AccountInv
<1> SUFFICES ASSUME Init PROVE AccountInv
  OBVIOUS
<1>1. /\ retired = <<>> /\ freed = {} /\ built = 0 /\ active = 0 /\ cpc = "idle"
  BY DEF Init
<1>2. InHand = {} /\ InstalledScheds = {} /\ RetiredScheds = {}
  BY <1>1 DEF InHand, InstalledScheds, RetiredScheds
<1>3. 1..built = {} /\ Len(retired) = 0
  BY <1>1
<1>4. Counted
  BY <1>1, <1>2, <1>3, FS_EmptySet DEF Counted
<1> QED BY <1>1, <1>2, <1>3, <1>4 DEF AccountInv, Apart, Complete, Swept

\* Most steps leave every place alone.
LEMMA AccountFrame ==
  ASSUME AccountInv, UNCHANGED <<active, built, freed, retired, cpc, old, done, i>>
  PROVE  AccountInv'
  BY DEF AccountInv, Apart, Complete, Counted, Swept, InHand, InstalledScheds, RetiredScheds, Reclaimable

\* A new schedule goes into compile()'s hands.
LEMMA CompileBeginAccount ==
  ASSUME SchedInv, AccountInv, CompileBegin
  PROVE  AccountInv'
<1>1. /\ cpc = "idle" /\ cpc' = "prepare" /\ built' = built + 1
      /\ UNCHANGED <<active, freed, retired, old, done, i>>
  BY DEF CompileBegin
<1>2. Apart' /\ Swept'
  BY <1>1 DEF AccountInv, Apart, Swept
<1>3. Complete'
  <2>1. InHand = {} /\ InHand' = {built + 1}
    BY <1>1 DEF InHand
  <2>2. UNCHANGED <<RetiredScheds, InstalledScheds>>
    BY <1>1 DEF RetiredScheds, InstalledScheds
  <2>3. 1..(built + 1) = 1..built \union {built + 1}
    BY Counts
  <2> QED BY <1>1, <2>1, <2>2, <2>3 DEF AccountInv, Complete
<1>4. Counted'
  <2>1. Cardinality(InHand) = 0 /\ Cardinality(InHand)' = 1
    <3>1. InHand' = {built + 1}
      BY <1>1 DEF InHand
    <3> QED BY <1>1, <3>1, Counts, FS_Singleton
  <2>2. Cardinality(InstalledScheds)' = Cardinality(InstalledScheds)
    BY <1>1 DEF InstalledScheds
  <2>3. Cardinality(InstalledScheds) \in Nat
    BY Counts
  <2> QED BY <1>1, <2>1, <2>2, <2>3, Counts DEF AccountInv, Counted
<1> QED BY <1>2, <1>3, <1>4 DEF AccountInv

\* The swap: the new schedule in, the old one, if there was one, in hand.
LEMMA InstallAccount ==
  ASSUME SchedInv, AccountInv, Install
  PROVE  AccountInv'
<1>1. /\ cpc = "prepare" /\ old' = active /\ active' = built
      /\ active = 0 => cpc' = "reclaim"
      /\ active # 0 => cpc' = "retire"
      /\ UNCHANGED <<built, freed, retired, done, i>>
  BY DEF Install
<1>2. built # 0
  BY <1>1 DEF SchedInv, Fresh
<1>3. Apart' /\ Swept'
  <2>1. active \notin freed /\ \A k \in 1..Len(retired) : retired[k].sched # active
    BY DEF SchedInv, Installed
  <2> QED BY <1>1, <2>1 DEF AccountInv, Apart, Swept
<1>4. Complete'
  <2>1. InHand = {built} /\ InstalledScheds' = {built}
    BY <1>1, <1>2 DEF InHand, InstalledScheds
  <2>2. InHand' = InstalledScheds
    BY <1>1 DEF InHand, InstalledScheds
  <2>3. UNCHANGED <<RetiredScheds, built, freed>>
    BY <1>1 DEF RetiredScheds
  <2> QED BY <2>1, <2>2, <2>3 DEF AccountInv, Complete
<1>5. Counted'
  <2>1. Cardinality(InHand) = 1 /\ Cardinality(InstalledScheds)' = 1
    <3>1. InstalledScheds' = {built}
      BY <1>1, <1>2 DEF InstalledScheds
    <3> QED BY <1>1, <3>1, Counts, FS_Singleton
  <2>2. Cardinality(InHand)' = Cardinality(InstalledScheds)
    <3>1. InHand' = InstalledScheds
      BY <1>1 DEF InHand, InstalledScheds
    <3> QED BY <3>1
  <2>3. Cardinality(InstalledScheds) \in Nat
    BY Counts
  <2> QED BY <1>1, <2>1, <2>2, <2>3, Counts DEF AccountInv, Counted
<1> QED BY <1>3, <1>4, <1>5 DEF AccountInv

\* The push of the old schedule.
LEMMA RetireAccount ==
  ASSUME SchedInv, AccountInv, Retire
  PROVE  AccountInv'
<1> DEFINE e == [sched |-> old, stamp |-> renderCount]
<1>1. e \in Retirements /\ retired \in Seq(Retirements)
  BY BoundsAssumption DEF SchedInv, TypeOK, Positions, Retire, Retirements, Schedules
<1>2. /\ Len(retired') = Len(retired) + 1
      /\ \A k \in 1..Len(retired) : retired'[k] = retired[k]
      /\ retired'[Len(retired) + 1] = e
  BY <1>1, AppendIs DEF Retire
<1>3. \A k \in 1..Len(retired') : \/ k \in 1..Len(retired) /\ retired'[k] = retired[k]
                                  \/ k = Len(retired) + 1 /\ retired'[k] = e
  BY <1>1, <1>2
<1>4. 1..Len(retired) \subseteq 1..Len(retired') /\ Len(retired) + 1 \in 1..Len(retired')
  BY <1>1, <1>2
<1>5. e.sched = old
  OBVIOUS
<1> HIDE DEF e
<1>6. /\ cpc = "retire" /\ cpc' = "reclaim"
      /\ UNCHANGED <<active, built, freed, old, done, i>>
  BY DEF Retire
<1>7. Apart' /\ Swept'
  <2>1. \A k \in 1..Len(retired') : retired'[k].sched \notin freed'
    BY <1>3, <1>5, <1>6 DEF AccountInv, Apart
  <2>2. \A k, l \in 1..Len(retired') : k # l => retired'[k].sched # retired'[l].sched
    BY <1>3, <1>5, <1>6 DEF AccountInv, Apart
  <2> QED BY <1>6, <2>1, <2>2 DEF Apart, Swept
<1>8. Complete'
  <2>1. RetiredScheds' = RetiredScheds \union {old}
    <3>1. \A k \in 1..Len(retired') : retired'[k].sched \in RetiredScheds \union {old}
      BY <1>3, <1>5 DEF RetiredScheds
    <3>2. old \in RetiredScheds'
      BY <1>2, <1>4, <1>5 DEF RetiredScheds
    <3>3. \A k \in 1..Len(retired) : retired[k].sched \in RetiredScheds'
      BY <1>2, <1>4 DEF RetiredScheds
    <3>4. /\ \A s \in RetiredScheds : \E k \in 1..Len(retired) : s = retired[k].sched
          /\ \A s \in RetiredScheds' : \E k \in 1..Len(retired') : s = retired'[k].sched
      BY DEF RetiredScheds
    <3> QED BY <3>1, <3>2, <3>3, <3>4
  <2>2. InHand = {old} /\ InHand' = {} /\ InstalledScheds' = InstalledScheds
    BY <1>6 DEF InHand, InstalledScheds
  <2> QED BY <1>6, <2>1, <2>2 DEF AccountInv, Complete
<1>9. Counted'
  <2>1. Cardinality(InHand) = 1 /\ Cardinality(InHand)' = 0
    <3>1. InHand' = {}
      BY <1>6 DEF InHand
    <3> QED BY <1>6, <3>1, Counts, FS_EmptySet
  <2>2. Cardinality(InstalledScheds)' = Cardinality(InstalledScheds)
    BY <1>6 DEF InstalledScheds
  <2>3. Cardinality(InstalledScheds) \in Nat
    BY Counts
  <2> QED BY <1>2, <1>6, <2>1, <2>2, <2>3, Counts DEF AccountInv, Counted
<1> QED BY <1>7, <1>8, <1>9 DEF AccountInv

\* The sweep frees an entry and moves the last one into its place: the entries
\* that stay are the old ones but one, each once.
LEMMA SweepFreeAccount ==
  ASSUME SchedInv, AccountInv, SweepFree
  PROVE  AccountInv'
<1> DEFINE n == Len(retired)
<1>1. i \in 1..n /\ n \in Nat /\ retired \in Seq(Retirements)
  BY DEF SchedInv, TypeOK, Positions, SweepFree
<1>2. /\ Len(retired') = n - 1
      /\ \A j \in 1..Len(retired') : retired'[j] = IF j = i THEN retired[n] ELSE retired[j]
  BY <1>1, SwapRemoval DEF SweepFree
<1>3. /\ cpc = "sweep" /\ freed' = freed \union {retired[i].sched}
      /\ UNCHANGED <<active, built, cpc, old, done, i>>
  BY DEF SweepFree, ctlVars
<1>4. \A j \in 1..Len(retired') : /\ j # i => j \in 1..n /\ j # n /\ retired'[j] = retired[j]
                                  /\ j = i => n # i /\ retired'[j] = retired[n]
  BY <1>1, <1>2
<1>5. n \in 1..n
  BY <1>1
<1>6. \A j \in 1..Len(retired') : \E k \in 1..n : k # i /\ retired'[j] = retired[k]
  BY <1>4, <1>5
<1>7. \A k \in 1..n : k # i => \E j \in 1..Len(retired') : retired'[j] = retired[k]
  <2> SUFFICES ASSUME NEW k \in 1..n, k # i
               PROVE  \E j \in 1..Len(retired') : retired'[j] = retired[k]
    OBVIOUS
  <2>1. CASE k = n
    <3>1. i \in 1..Len(retired') /\ retired'[i] = retired[k]
      BY <1>1, <1>2, <2>1
    <3> QED BY <3>1
  <2>2. CASE k # n
    <3>1. k \in 1..Len(retired') /\ retired'[k] = retired[k]
      BY <1>1, <1>2, <2>2
    <3> QED BY <3>1
  <2> QED BY <2>1, <2>2
<1> HIDE DEF n
<1>8. Apart'
  <2>1. \A j, l \in 1..Len(retired') : j # l => retired'[j].sched # retired'[l].sched
    BY <1>4, <1>5 DEF AccountInv, Apart, n
  <2>2. \A j \in 1..Len(retired') : retired'[j].sched \notin freed'
    BY <1>1, <1>3, <1>6 DEF AccountInv, Apart, n
  <2> QED BY <1>3, <2>1, <2>2 DEF Apart
<1>9. Swept'
  <2> SUFFICES ASSUME NEW j \in 1..Len(retired'), j < i
               PROVE  ~(done > retired'[j].stamp)
    BY <1>3 DEF Swept, Reclaimable
  <2>1. j \in 1..n /\ retired'[j] = retired[j]
    BY <1>1, <1>4
  <2> QED BY <1>3, <2>1 DEF AccountInv, Swept, Reclaimable, n
<1>10. Complete'
  <2>1. RetiredScheds' \union {retired[i].sched} = RetiredScheds
    <3>1. \A j \in 1..Len(retired') : retired'[j].sched \in RetiredScheds
      BY <1>6 DEF RetiredScheds, n
    <3>2. retired[i].sched \in RetiredScheds
      BY <1>1 DEF RetiredScheds, n
    <3>3. \A k \in 1..n : retired[k].sched \in RetiredScheds' \union {retired[i].sched}
      BY <1>7 DEF RetiredScheds
    <3>4. /\ \A s \in RetiredScheds : \E k \in 1..n : s = retired[k].sched
          /\ \A s \in RetiredScheds' : \E k \in 1..Len(retired') : s = retired'[k].sched
      BY DEF RetiredScheds, n
    <3> QED BY <3>1, <3>2, <3>3, <3>4
  <2>2. UNCHANGED <<InHand, InstalledScheds>>
    BY <1>3 DEF InHand, InstalledScheds
  <2> QED BY <1>3, <2>1, <2>2 DEF AccountInv, Complete
<1>11. Counted'
  <2>1. UNCHANGED <<InHand, InstalledScheds>>
    BY <1>3 DEF InHand, InstalledScheds
  <2>2. retired[i].sched \notin freed
    BY <1>1 DEF AccountInv, Apart, n
  <2>3. Cardinality(freed') = Cardinality(freed) + 1
    BY <1>3, <2>2, Counts, FS_AddElement
  <2>4. Cardinality(InHand) \in Nat /\ Cardinality(InstalledScheds) \in Nat
    BY Counts
  <2>5. Len(retired') = Len(retired) - 1
    BY <1>2 DEF n
  <2>6. /\ Cardinality(InHand)' = Cardinality(InHand)
        /\ Cardinality(InstalledScheds)' = Cardinality(InstalledScheds)
    BY <2>1
  <2>7. Cardinality(freed)' = Cardinality(freed) + 1
    BY <2>3
  <2> QED BY <1>3, <2>4, <2>5, <2>6, <2>7, Counts DEF AccountInv, Counted
<1> QED BY <1>8, <1>9, <1>10, <1>11 DEF AccountInv

\* The steps of the sweep that move no schedule.
LEMMA SweepAccount ==
  ASSUME SchedInv, AccountInv, ReclaimBegin \/ SweepKeep \/ CompileEnd
  PROVE  AccountInv'
<1>1. /\ UNCHANGED <<active, built, freed, retired, RetiredScheds, InstalledScheds>>
      /\ cpc \in {"reclaim", "sweep"} /\ cpc' \in {"idle", "sweep"}
  BY DEF ReclaimBegin, SweepKeep, CompileEnd, schedVars, RetiredScheds, InstalledScheds
<1>2. InHand = {} /\ InHand' = {}
  BY <1>1 DEF InHand
<1>3. Apart' /\ Complete' /\ Counted'
  BY <1>1, <1>2 DEF AccountInv, Apart, Complete, Counted
<1>4. Swept'
  <2>1. CASE ReclaimBegin
    BY <1>1, <2>1 DEF ReclaimBegin, Swept
  <2>2. CASE SweepKeep
    <3>1. i \in Nat /\ i' = i + 1 /\ cpc = "sweep" /\ done' = done /\ ~Reclaimable(retired[i])
      BY <2>2 DEF SweepKeep, SchedInv, TypeOK
    <3>2. \A k \in 1..Len(retired) : k < i + 1 => k < i \/ k = i
      BY <3>1
    <3> QED BY <1>1, <3>1, <3>2 DEF AccountInv, Swept, Reclaimable
  <2>3. CASE CompileEnd
    BY <2>3 DEF CompileEnd, Swept
  <2> QED BY <2>1, <2>2, <2>3
<1> QED BY <1>3, <1>4 DEF AccountInv

LEMMA AccountStep == SchedInv /\ AccountInv /\ [Next]_vars => AccountInv'
<1> SUFFICES ASSUME SchedInv, AccountInv, [Next]_vars PROVE AccountInv'
  OBVIOUS
<1> USE DEF schedVars, ctlVars
<1>1. CASE UNCHANGED vars
  BY <1>1, AccountFrame DEF vars
<1>2. ASSUME NEW n \in NodeIds, AddNode(n) PROVE AccountInv'
  BY <1>2, AccountFrame DEF AddNode
<1>3. ASSUME NEW g \in Graphs, DestroyGraph(g) PROVE AccountInv'
  BY <1>3, AccountFrame DEF DestroyGraph
<1>4. CASE (\E n \in NodeIds : PostParam(n)) \/ (\E x \in Instances : PrepareNode(x))
  BY <1>4, AccountFrame DEF PostParam, PrepareNode
<1>5. CASE NewGraph \/ Audio
  BY <1>5, AccountFrame
  DEF vars, NewGraph, Audio, SilentBlock, BlockBegin, Drain, DrainEnd, BlockEnd
<1>6. CASE CompileBegin \/ Install \/ Retire \/ SweepFree
  BY <1>6, CompileBeginAccount, InstallAccount, RetireAccount, SweepFreeAccount
<1>7. CASE ReclaimBegin \/ SweepKeep \/ CompileEnd
  BY <1>7, SweepAccount
<1> QED BY <1>1, <1>2, <1>3, <1>4, <1>5, <1>6, <1>7 DEF Next, Control, Compile

-----------------------------------------------------------------------------
(* Graphs that are let go.                                                 *)

LEMMA InitOwner == Init => OwnerInv
  BY DEF Init, OwnerInv, Owners, NodesOutliveBlocks

\* Most steps leave Graphs, installed schedule and block alone.
LEMMA OwnerFrame ==
  ASSUME OwnerInv, UNCHANGED <<graph, destroyed, active, uses, built>>,
         held' = held \/ held' = 0 \/ (held' = active /\ active # 0),
         cpc' = "prepare" => cpc = "prepare"
  PROVE  OwnerInv'
  BY DEF OwnerInv, Owners, NodesOutliveBlocks

LEMMA OwnerStep == SchedInv /\ OwnerInv /\ [Next]_vars => OwnerInv'
<1> SUFFICES ASSUME SchedInv, OwnerInv, [Next]_vars PROVE OwnerInv'
  OBVIOUS
<1> USE DEF graphVars, schedVars, cmdVars, nodeVars, ctlVars, audioVars
<1>1. CASE UNCHANGED vars
  BY <1>1, OwnerFrame DEF vars
<1>2. ASSUME NEW n \in NodeIds, AddNode(n) PROVE OwnerInv'
  BY <1>2, OwnerFrame DEF AddNode
<1>3. CASE NewGraph
  <2>1. graph \in Nat /\ \A g \in destroyed : g \in Nat
    BY DEF SchedInv, TypeOK, Graphs
  <2> QED BY <1>3, <2>1 DEF NewGraph, OwnerInv, Owners, NodesOutliveBlocks
<1>4. ASSUME NEW g \in Graphs, DestroyGraph(g) PROVE OwnerInv'
  <2>1. held # 0 => held = active
    BY <1>4 DEF DestroyGraph, SchedInv, Located
  <2>2. active # 0 => \A x \in uses[active] : x \in Instances
    BY DEF SchedInv, TypeOK
  <2>3. active # 0 => \A x \in uses[active] : x[1] # g
    BY <1>4, <2>2 DEF DestroyGraph
  <2> QED BY <1>4, <2>1, <2>3 DEF DestroyGraph, OwnerInv, Owners, NodesOutliveBlocks
<1>5. ASSUME NEW n \in NodeIds, PostParam(n) PROVE OwnerInv'
  BY <1>5, OwnerFrame DEF PostParam
<1>6. CASE CompileBegin
  <2>1. active \in Nat /\ built \in Nat /\ active <= built /\ active # built + 1
    BY DEF SchedInv, TypeOK, Fresh, Schedules
  <2>2. uses \in [Schedules -> SUBSET Instances] /\ built + 1 \in Schedules
    BY <1>6, BoundsAssumption DEF SchedInv, TypeOK, CompileBegin, Schedules
  <2>3. held # 0 => held # built + 1
    <3>1. old \in Nat /\ old <= built
      BY DEF SchedInv, TypeOK, Fresh, Schedules
    <3>2. \A k \in 1..Len(retired) : retired[k].sched <= built
      BY DEF SchedInv, Fresh
    <3> QED BY <2>1, <3>1, <3>2 DEF SchedInv, Located
  <2>4. uses'[built + 1] = {graph} \X nodes[graph]
    BY <1>6, <2>2 DEF CompileBegin
  <2>5. active # 0 => uses'[active] = uses[active]
    BY <1>6, <2>1, <2>2 DEF CompileBegin, SchedInv, TypeOK
  <2>6. held # 0 => uses'[held] = uses[held]
    BY <1>6, <2>2, <2>3 DEF CompileBegin, SchedInv, TypeOK
  <2>7. \A x \in {graph} \X nodes[graph] : x[1] = graph
    OBVIOUS
  <2> QED BY <1>6, <2>4, <2>5, <2>6, <2>7 DEF CompileBegin, OwnerInv, Owners, NodesOutliveBlocks
<1>7. ASSUME NEW x \in Instances, PrepareNode(x) PROVE OwnerInv'
  BY <1>7, OwnerFrame DEF PrepareNode
<1>8. CASE Install
  <2>1. graph \in Nat /\ \A g \in destroyed : g # graph
    BY DEF SchedInv, TypeOK, Graphs, OwnerInv, Owners
  <2> QED BY <1>8, <2>1 DEF Install, OwnerInv, Owners, NodesOutliveBlocks
<1>9. CASE Retire
  BY <1>9, OwnerFrame DEF Retire
<1>10. CASE ReclaimBegin \/ SweepKeep \/ CompileEnd
  BY <1>10, OwnerFrame DEF ReclaimBegin, SweepKeep, CompileEnd
<1>11. CASE SweepFree
  BY <1>11, OwnerFrame DEF SweepFree
<1>12. CASE SilentBlock \/ DrainEnd
  BY <1>12, OwnerFrame DEF vars, SilentBlock, DrainEnd
<1>13. CASE BlockBegin
  BY <1>13, OwnerFrame DEF BlockBegin
<1>14. CASE Drain
  BY <1>14, OwnerFrame DEF Drain
<1>15. CASE BlockEnd
  BY <1>15, OwnerFrame DEF BlockEnd
<1> QED BY <1>1, <1>2, <1>3, <1>4, <1>5, <1>6, <1>7, <1>8, <1>9, <1>10, <1>11, <1>12, <1>13,
           <1>14, <1>15 DEF Next, Control, Compile, Audio

-----------------------------------------------------------------------------
(* Commands.                                                               *)

\* What the types say of commands and of schedules, for the lemmas below.
LEMMA CommandTypes ==
  ASSUME TypeOK
  PROVE  /\ posts \in Nat /\ due \in Nat /\ Len(commands) \in Nat /\ Taken \in Nat
         /\ active \in Nat /\ held \in Nat /\ built \in Nat
         /\ \A k \in 1..posts : /\ log[k] \in Entries /\ log[k].by \in Nat /\ log[k].under \in Nat \ {0}
                                /\ log[k].node \in NodeIds
         /\ \A x \in Instances : setting[x] \in Nat /\ cleared[x] \in Nat
         /\ \A k \in 1..Len(commands) : commands[k] \in Commands
         /\ \A s \in 1..built : s \in Schedules /\ uses[s] \subseteq Instances
<1>1. log \in Seq(Entries) /\ Len(log) = posts /\ posts \in Nat /\ commands \in Seq(Commands)
  BY BoundsAssumption DEF TypeOK
<1>2. \A k \in 1..posts : log[k] \in Entries
  BY <1>1
<1>3. \A k \in 1..posts : log[k].by \in Nat /\ log[k].under \in Nat \ {0} /\ log[k].node \in NodeIds
  BY <1>2 DEF Entries, Schedules
<1>4. Len(commands) \in Nat /\ Taken \in Nat
  BY <1>1 DEF TypeOK, Taken
<1>5. \A k \in 1..Len(commands) : commands[k] \in Commands
  BY <1>1
<1> QED BY <1>1, <1>2, <1>3, <1>4, <1>5, BoundsAssumption DEF TypeOK, Schedules

LEMMA InitCommand == Init => CommandInv
<1> SUFFICES ASSUME Init PROVE CommandInv
  OBVIOUS
<1>1. /\ posts = 0 /\ due = 0 /\ commands = <<>> /\ built = 0 /\ held = 0 /\ active = 0 /\ apc = "idle"
      /\ \A x \in Instances : setting[x] = 0
  BY DEF Init
<1>2. Taken = 0 /\ Len(commands) = 0
  <2>1. <<>> \in Seq(Commands) /\ Len(<<>>) = 0
    OBVIOUS
  <2>2. Len(commands) = Len(<<>>)
    BY <1>1
  <2>3. Len(commands) = 0
    BY <2>1, <2>2
  <2>4. posts = 0
    BY <1>1
  <2> QED BY <2>3, <2>4 DEF Taken
<1> QED BY <1>1, <1>2 DEF CommandInv, Numbered, History, InTime, Applied

\* Most steps leave commands, nodes and the schedules of commands alone.
LEMMA CommandFrame ==
  ASSUME CommandInv, UNCHANGED <<graph, nodes, uses, built, active, commands, posts, log, setting,
                                 cleared, held, due, apc>>
  PROVE  CommandInv'
<1>1. Taken' = Taken
  BY DEF Taken
<1>2. Numbered'
  BY <1>1 DEF CommandInv, Numbered
<1>3. History'
  BY DEF CommandInv, History
<1>4. InTime'
  BY DEF CommandInv, InTime
<1>5. Applied'
  BY <1>1 DEF CommandInv, Applied
<1> QED BY <1>2, <1>3, <1>4, <1>5 DEF CommandInv

\* The same in parts, for the steps that change one of them.
LEMMA QueueFrame ==
  ASSUME Numbered, Applied, UNCHANGED <<commands, posts, log, setting, cleared>>,
         UNCHANGED uses \/ \A k \in 1..Taken : uses'[log[k].by] = uses[log[k].by],
         apc' = "render" => apc = "render", due' = due \/ (due' <= posts /\ apc' # "render")
  PROVE  Numbered' /\ Applied'
<1>1. Taken' = Taken
  BY DEF Taken
<1>2. Numbered'
  BY <1>1 DEF Numbered
<1>3. Applied'
  BY <1>1 DEF Applied
<1> QED BY <1>2, <1>3

LEMMA AddNodeCommand ==
  ASSUME SchedInv, CommandInv, NEW n \in NodeIds, AddNode(n)
  PROVE  CommandInv'
<1> USE DEF schedVars, cmdVars, nodeVars, audioVars
<1>1. Numbered' /\ Applied'
  BY QueueFrame DEF AddNode, CommandInv
<1>2. InTime'
  BY DEF AddNode, CommandInv, InTime
<1>3. graph \in Graphs /\ nodes \in [Graphs -> SUBSET NodeIds]
  BY DEF SchedInv, TypeOK
<1>4. \A g \in Graphs : nodes[g] \subseteq nodes'[g]
  BY <1>3 DEF AddNode
<1>5. \A s \in 1..built : \A x \in uses[s] : x[1] \in Graphs
  <2>1. \A s \in 1..built : uses[s] \subseteq Instances
    BY CommandTypes DEF SchedInv
  <2> QED BY <2>1 DEF Instances
<1>6. History'
  BY <1>4, <1>5 DEF AddNode, CommandInv, History
<1> QED BY <1>1, <1>2, <1>6 DEF CommandInv

LEMMA NewGraphCommand ==
  ASSUME SchedInv, CommandInv, NewGraph
  PROVE  CommandInv'
<1> USE DEF schedVars, cmdVars, nodeVars, audioVars
<1>1. Numbered' /\ Applied'
  BY QueueFrame DEF NewGraph, CommandInv
<1>2. InTime'
  BY DEF NewGraph, CommandInv, InTime
<1>3. graph \in Nat
  BY DEF SchedInv, TypeOK, Graphs
<1>4. \A s \in 1..built : \A x \in uses[s] : x[1] \in Nat
  <2>1. \A s \in 1..built : uses[s] \subseteq Instances
    BY CommandTypes DEF SchedInv
  <2> QED BY <2>1 DEF Instances, Graphs
<1>5. \A s \in 1..built : \A x \in uses[s] : x[1] <= graph' /\ x[1] # graph'
  BY <1>3, <1>4 DEF NewGraph, CommandInv, History
<1>6. History'
  BY <1>5 DEF NewGraph, CommandInv, History
<1> QED BY <1>1, <1>2, <1>6 DEF CommandInv

LEMMA CompileBeginCommand ==
  ASSUME SchedInv, CommandInv, CompileBegin
  PROVE  CommandInv'
<1> USE DEF graphVars, cmdVars, nodeVars, audioVars
<1>1. /\ built' = built + 1 /\ uses' = [uses EXCEPT ![built + 1] = {graph} \X nodes[graph]]
      /\ UNCHANGED <<graph, nodes, active>>
  BY DEF CompileBegin
<1>2. built \in Nat /\ built + 1 \in Schedules /\ uses \in [Schedules -> SUBSET Instances]
  BY BoundsAssumption DEF SchedInv, TypeOK, CompileBegin, Schedules
<1>3. /\ uses'[built + 1] = {graph} \X nodes[graph]
      /\ \A s : s # built + 1 => uses'[s] = uses[s]
  BY <1>1, <1>2
<1>4. \A k \in 1..Taken : uses'[log[k].by] = uses[log[k].by]
  <2> SUFFICES ASSUME NEW k \in 1..Taken PROVE log[k].by # built + 1
    BY <1>3
  <2>1. k \in 1..posts
    BY CommandTypes DEF SchedInv, Taken
  <2>2. log[k].by \in Nat /\ active \in Nat /\ log[k].by <= active /\ active <= built
    BY <2>1, CommandTypes DEF SchedInv, CommandInv, InTime, Fresh
  <2> QED BY <1>2, <2>2
<1>5. Numbered' /\ Applied'
  BY <1>4, QueueFrame DEF CompileBegin, CommandInv
<1>6. InTime'
  BY DEF CompileBegin, CommandInv, InTime
<1>7. History'
  <2>0. \A s \in 1..built' : s \in 1..built \/ s = built + 1
    BY <1>1, <1>2
  <2>1. ASSUME NEW s \in 1..built', NEW x \in uses'[s]
        PROVE  x[1] <= graph' /\ x[2] \in nodes'[x[1]]
    <3>1. CASE s \in 1..built
      BY <1>1, <1>2, <1>3, <2>1, <3>1 DEF CommandInv, History
    <3>2. CASE s = built + 1
      <4>1. graph \in Nat
        BY DEF SchedInv, TypeOK, Graphs
      <4> QED BY <1>1, <1>3, <2>1, <3>2, <4>1
    <3> QED BY <2>0, <3>1, <3>2
  <2>2. ASSUME NEW s \in 1..built', NEW t \in 1..built', NEW x \in uses'[s], s <= t, x[1] = graph'
        PROVE  x \in uses'[t]
    <3>1. CASE t \in 1..built
      <4>1. s \in 1..built
        BY <2>0, <2>2, <3>1, <1>2
      <4> QED BY <1>1, <1>2, <1>3, <2>2, <3>1, <4>1 DEF CommandInv, History
    <3>2. CASE t = built + 1 /\ s \in 1..built
      <4>1. x[1] = graph /\ x[2] \in nodes[graph] /\ x \in uses[s]
        BY <1>1, <1>2, <1>3, <2>2, <3>2 DEF CommandInv, History
      <4>2. x \in Instances
        BY <3>2, <4>1, CommandTypes DEF SchedInv
      <4>3. x = <<x[1], x[2]>>
        BY <4>2 DEF Instances
      <4> QED BY <1>3, <3>2, <4>1, <4>3
    <3>3. CASE s = built + 1 /\ t = built + 1
      BY <2>2, <3>3
    <3> QED BY <2>0, <3>1, <3>2, <3>3
  <2>3. ASSUME NEW s \in 1..built', NEW t \in 1..built', NEW u \in 1..built',
               NEW x \in uses'[s] \cap uses'[u], s <= t, t <= u
        PROVE  x \in uses'[t]
    <3>1. CASE u \in 1..built
      <4>1. s \in 1..built /\ t \in 1..built
        BY <2>0, <2>3, <3>1, <1>2
      <4> QED BY <1>2, <1>3, <2>3, <3>1, <4>1 DEF CommandInv, History
    <3>2. CASE u = built + 1
      <4>1. x[1] = graph'
        BY <1>1, <1>3, <2>3, <3>2
      <4> QED BY <2>2, <2>3, <4>1
    <3> QED BY <2>0, <3>1, <3>2
  <2> QED BY <2>1, <2>2, <2>3 DEF History
<1> QED BY <1>5, <1>6, <1>7 DEF CommandInv

LEMMA PrepareCommand ==
  ASSUME SchedInv, CommandInv, NEW x \in Instances, PrepareNode(x)
  PROVE  CommandInv'
<1> USE DEF graphVars, schedVars, cmdVars, audioVars
<1>1. Taken' = Taken /\ Taken \in Nat
  BY CommandTypes DEF PrepareNode, Taken, SchedInv
<1>2. ASSUME NEW y \in Instances
      PROVE  \/ setting'[y] = setting[y] /\ cleared'[y] = cleared[y]
             \/ setting'[y] = 0 /\ cleared'[y] = Taken
  BY DEF PrepareNode, nodeVars, Taken, SchedInv, TypeOK
<1>3. Numbered'
  BY <1>1, <1>2 DEF PrepareNode, CommandInv, Numbered
<1>4. Applied'
  <2> SUFFICES ASSUME NEW k \in 1..Taken, NEW y \in uses[log[k].by], log[k].node = y[2]
               PROVE  setting'[y] >= k \/ k <= cleared'[y]
    BY <1>1 DEF PrepareNode, CommandInv, Applied
  <2>1. setting[y] >= k \/ k <= cleared[y]
    BY DEF CommandInv, Applied
  <2>2. y \in Instances
    <3>1. k \in 1..posts /\ log[k].by \in 1..built
      BY CommandTypes DEF SchedInv, CommandInv, InTime, Fresh, Taken, Applied
    <3> QED BY <3>1, CommandTypes DEF SchedInv
  <2> QED BY <1>1, <1>2, <2>1, <2>2
<1>5. History' /\ InTime'
  BY DEF PrepareNode, CommandInv, History, InTime
<1> QED BY <1>3, <1>4, <1>5 DEF CommandInv

LEMMA InstallCommand ==
  ASSUME SchedInv, CommandInv, Install
  PROVE  CommandInv'
<1> USE DEF graphVars, cmdVars, nodeVars, audioVars
<1>1. Numbered' /\ Applied'
  BY QueueFrame DEF Install, CommandInv
<1>2. History'
  BY DEF Install, CommandInv, History
<1>3. active' = built /\ active <= built /\ UNCHANGED <<posts, log, held, due>>
  BY DEF Install, SchedInv, Fresh
<1>4. InTime'
  BY <1>3, CommandTypes DEF SchedInv, CommandInv, InTime
<1> QED BY <1>1, <1>2, <1>4 DEF CommandInv

LEMMA PostCommand ==
  ASSUME SchedInv, CommandInv, NEW n \in NodeIds, PostParam(n)
  PROVE  CommandInv'
<1> USE DEF graphVars, schedVars, audioVars
<1>1. CASE UNCHANGED cmdVars
  BY <1>1, CommandFrame DEF PostParam, cmdVars, nodeVars
<1>2. CASE ~UNCHANGED cmdVars
  <2> DEFINE c == [node |-> n, number |-> posts + 1]
             e == [node |-> n, under |-> IF active = 0 THEN 1 ELSE active, by |-> 0]
  <2>1. /\ Len(commands') = Len(commands) + 1
        /\ \A k \in 1..Len(commands) : commands'[k] = commands[k]
        /\ commands'[Len(commands) + 1] = c
        /\ \A k \in 1..posts : log'[k] = log[k]
        /\ log'[posts + 1] = e
        /\ posts' = posts + 1
    BY <1>2, PostIs DEF SchedInv
  <2>2. c.node = n /\ c.number = posts + 1 /\ e.node = n /\ e.by = 0 /\ e.under = IF active = 0 THEN 1 ELSE active
    OBVIOUS
  <2> HIDE DEF c, e
  <2>3. UNCHANGED <<uses, built, graph, nodes, active, setting, cleared, held, due, apc>>
    BY DEF PostParam, nodeVars
  <2>4. Taken' = Taken /\ Taken \in Nat /\ Len(commands) \in Nat /\ posts \in Nat /\ posts + 1 = Taken + Len(commands) + 1
    BY <2>1, CommandTypes DEF SchedInv, Taken
  <2>5. \A k \in 1..Len(commands') : \/ k \in 1..Len(commands) /\ commands'[k] = commands[k] /\ log'[Taken + k] = log[Taken + k]
                                     \/ k = Len(commands) + 1 /\ commands'[k] = c /\ log'[Taken + k] = e
    BY <2>1, <2>4
  <2>6. Numbered'
    <3>1. \A k \in 1..Len(commands') : /\ commands'[k].number = Taken + k
                                      /\ commands'[k].node = log'[Taken + k].node
      <4> SUFFICES ASSUME NEW k \in 1..Len(commands')
                   PROVE  commands'[k].number = Taken + k /\ commands'[k].node = log'[Taken + k].node
        OBVIOUS
      <4>1. CASE k \in 1..Len(commands) /\ commands'[k] = commands[k] /\ log'[Taken + k] = log[Taken + k]
        BY <4>1 DEF CommandInv, Numbered
      <4>2. CASE k = Len(commands) + 1 /\ commands'[k] = c /\ log'[Taken + k] = e
        BY <2>2, <2>4, <4>2
      <4> QED BY <2>5, <4>1, <4>2
    <3>2. due <= posts /\ due \in Nat
      BY CommandTypes DEF SchedInv, CommandInv, Numbered
    <3> QED BY <2>1, <2>3, <2>4, <3>1, <3>2 DEF CommandInv, Numbered
  <2>7. History'
    BY <2>3 DEF CommandInv, History
  <2>8. \A k \in 1..posts' : \/ k \in 1..posts /\ log'[k] = log[k]
                             \/ k = posts + 1 /\ log'[k] = e
    BY <2>1, <2>4
  <2>9. InTime'
    <3>1. e.by <= active /\ (e.under <= active \/ e.under = 1) /\ e.by <= held
      BY <2>2, CommandTypes DEF SchedInv
    <3>2. due <= posts /\ due \in Nat
      BY CommandTypes DEF SchedInv, CommandInv, Numbered
    <3> QED BY <2>3, <2>4, <2>8, <3>1, <3>2 DEF CommandInv, InTime
  <2>10. Applied'
    <3>1. \A k \in 1..Taken : k \in 1..posts /\ log'[k] = log[k]
      BY <2>1, <2>4
    <3> QED BY <2>3, <2>4, <3>1 DEF CommandInv, Applied
  <2> QED BY <2>6, <2>7, <2>9, <2>10 DEF CommandInv
<1> QED BY <1>1, <1>2

LEMMA BlockCommand ==
  ASSUME SchedInv, CommandInv, BlockBegin \/ DrainEnd \/ BlockEnd
  PROVE  CommandInv'
<1> USE DEF graphVars, schedVars, cmdVars, nodeVars, ctlVars
<1>1. History'
  BY DEF BlockBegin, DrainEnd, BlockEnd, CommandInv, History
<1>2. CASE BlockBegin
  <2>1. Numbered' /\ Applied'
    BY <1>2, QueueFrame, CommandTypes DEF SchedInv, BlockBegin, CommandInv
  <2>2. InTime'
    BY <1>2, CommandTypes DEF SchedInv, BlockBegin, CommandInv, InTime
  <2> QED BY <1>1, <2>1, <2>2 DEF CommandInv
<1>3. CASE DrainEnd
  <2>1. Taken = posts /\ Taken' = Taken
    BY <1>3, CommandTypes DEF SchedInv, DrainEnd, Taken
  <2>2. Numbered'
    BY <1>3, <2>1 DEF DrainEnd, CommandInv, Numbered
  <2>3. Applied' /\ InTime'
    BY <1>3, <2>1 DEF DrainEnd, CommandInv, Applied, InTime
  <2> QED BY <1>1, <2>2, <2>3 DEF CommandInv
<1>4. CASE BlockEnd
  <2>1. Numbered' /\ Applied'
    BY <1>4, QueueFrame, CommandTypes DEF SchedInv, BlockEnd, CommandInv
  <2>2. InTime'
    BY <1>4, CommandTypes DEF SchedInv, BlockEnd, CommandInv, InTime
  <2> QED BY <1>1, <2>1, <2>2 DEF CommandInv
<1> QED BY <1>2, <1>3, <1>4

LEMMA DrainCommand ==
  ASSUME SchedInv, CommandInv, Drain
  PROVE  CommandInv'
<1> USE DEF graphVars, schedVars, ctlVars, audioVars
<1> DEFINE m == Taken + 1
<1>1. TypeOK /\ held # 0 /\ apc = "drain"
  BY DEF SchedInv, Positions, Drain
<1>2. /\ Len(commands') = Len(commands) - 1 /\ Len(commands) \in Nat \ {0}
      /\ \A k \in 1..Len(commands') : commands'[k] = commands[k + 1]
      /\ setting' = Apply(commands[1]) /\ UNCHANGED <<posts, cleared>>
      /\ log' = [log EXCEPT ![commands[1].number].by = held]
  BY <1>1, DrainIs
<1>3. /\ Taken \in Nat /\ Taken' = m /\ m \in 1..posts /\ posts \in Nat
      /\ commands[1].number = m /\ commands[1].node = log[m].node
  BY <1>1, <1>2, CommandTypes DEF Taken, CommandInv, Numbered
<1>4. UNCHANGED <<uses, built, graph, nodes, active, held, due, apc>>
  BY DEF Drain
<1> HIDE DEF m
<1>5. \A k \in 1..posts : /\ log'[k].node = log[k].node /\ log'[k].under = log[k].under
                          /\ log'[k].by = IF k = m THEN held ELSE log[k].by
  <2>1. log \in Seq(Entries) /\ Len(log) = posts /\ held \in Schedules \union {0}
    BY <1>1 DEF TypeOK
  <2> QED BY <1>2, <1>3, <2>1, LogMarked
<1>6. \A x \in Instances : setting'[x] = IF x \in uses[held] /\ x[2] = log[m].node THEN m ELSE setting[x]
  BY <1>2, <1>3 DEF Apply, Targets
<1>7. \A x \in Instances : setting[x] \in Nat /\ setting[x] <= Taken
  BY <1>1, CommandTypes DEF CommandInv, Numbered
<1>8. Numbered'
  <2>1. ASSUME NEW k \in 1..Len(commands')
        PROVE  commands'[k].number = Taken' + k /\ commands'[k].node = log'[Taken' + k].node
    <3>0. posts = Taken + Len(commands)
      BY <1>2, <1>3 DEF Taken
    <3>1. k + 1 \in 1..Len(commands) /\ Taken + (k + 1) = m + k /\ m + k \in 1..posts
      <4>1. k \in Nat /\ k >= 1 /\ k <= Len(commands) - 1
        BY <1>2
      <4>2. Taken \in Nat /\ posts \in Nat /\ Len(commands) \in Nat /\ m = Taken + 1
        BY <1>2, <1>3 DEF m
      <4> QED BY <3>0, <4>1, <4>2
    <3>2. commands[k + 1].number = Taken + (k + 1) /\ commands[k + 1].node = log[Taken + (k + 1)].node
      BY <3>1 DEF CommandInv, Numbered
    <3> QED BY <1>2, <1>3, <1>5, <3>1, <3>2
  <2>2. \A x \in Instances : setting'[x] <= m
    BY <1>3, <1>6, <1>7 DEF m
  <2>3. due' <= posts' /\ apc' # "render"
    BY <1>1, <1>2, <1>4 DEF CommandInv, Numbered
  <2> QED BY <1>3, <2>1, <2>2, <2>3 DEF Numbered
<1>9. History'
  BY <1>4 DEF CommandInv, History
<1>10. InTime'
  BY <1>1, <1>2, <1>4, <1>5, CommandTypes DEF CommandInv, InTime
<1>11. Applied'
  <2> SUFFICES ASSUME NEW k \in 1..m
               PROVE  /\ log'[k].by # 0
                      /\ \A x \in uses[log'[k].by] : log'[k].node = x[2] => setting'[x] >= k \/ k <= cleared[x]
    BY <1>2, <1>3, <1>4 DEF Applied
  <2>0. k \in 1..posts
    BY <1>3
  <2>1. CASE k = m
    <3>1. uses[held] \subseteq Instances /\ m \in Nat
      BY <1>1, <1>3 DEF TypeOK
    <3> QED BY <1>1, <1>5, <1>6, <2>0, <2>1, <3>1
  <2>2. CASE k # m
    <3>1. k \in 1..Taken
      BY <1>3, <2>2 DEF m
    <3>2. log'[k].by = log[k].by /\ log'[k].node = log[k].node
      BY <1>5, <2>0, <2>2
    <3>3. log[k].by # 0 /\ \A x \in uses[log[k].by] : log[k].node = x[2] => setting[x] >= k \/ k <= cleared[x]
      BY <3>1 DEF CommandInv, Applied
    <3>4. uses[log[k].by] \subseteq Instances
      <4>1. log[k].by \in 1..built
        BY <1>1, <2>0, <3>3, CommandTypes DEF CommandInv, InTime, SchedInv, Fresh
      <4> QED BY <1>1, <4>1, CommandTypes
    <3>5. \A x \in Instances : setting'[x] >= setting[x]
      BY <1>3, <1>6, <1>7 DEF m
    <3>6. ASSUME NEW x \in uses[log[k].by], log[k].node = x[2]
          PROVE  setting'[x] >= k \/ k <= cleared[x]
      <4>1. setting'[x] >= setting[x] /\ setting[x] \in Nat /\ (setting'[x] = m \/ setting'[x] = setting[x])
        BY <1>6, <1>7, <3>4, <3>5, <3>6
      <4> QED BY <1>3, <3>1, <3>3, <3>6, <4>1 DEF m
    <3> QED BY <3>2, <3>3, <3>6
  <2> QED BY <2>1, <2>2
<1> QED BY <1>8, <1>9, <1>10, <1>11 DEF CommandInv

LEMMA CommandStep == SchedInv /\ CommandInv /\ [Next]_vars => CommandInv'
<1> SUFFICES ASSUME SchedInv, CommandInv, [Next]_vars PROVE CommandInv'
  OBVIOUS
<1> USE DEF graphVars, schedVars, cmdVars, nodeVars, ctlVars, audioVars
<1>1. CASE UNCHANGED vars
  BY <1>1, CommandFrame DEF vars
<1>2. CASE \E n \in NodeIds : AddNode(n) \/ PostParam(n)
  BY <1>2, AddNodeCommand, PostCommand
<1>3. CASE NewGraph \/ CompileBegin \/ Install \/ \E x \in Instances : PrepareNode(x)
  BY <1>3, NewGraphCommand, CompileBeginCommand, InstallCommand, PrepareCommand
<1>4. CASE \E g \in Graphs : DestroyGraph(g)
  BY <1>4, CommandFrame DEF DestroyGraph
<1>5. CASE Retire \/ ReclaimBegin \/ SweepFree \/ SweepKeep \/ CompileEnd
  BY <1>5, CommandFrame DEF Retire, ReclaimBegin, SweepFree, SweepKeep, CompileEnd
<1>6. CASE SilentBlock
  BY <1>6, CommandFrame DEF SilentBlock, vars
<1>7. CASE BlockBegin \/ DrainEnd \/ BlockEnd \/ Drain
  BY <1>7, BlockCommand, DrainCommand
<1> QED BY <1>1, <1>2, <1>3, <1>4, <1>5, <1>6, <1>7 DEF Next, Control, Compile, Audio

\* With schedules and commands in order, the stated property follows: a schedule between
\* the one a command was posted under and the block's has every node that both have.
LEMMA Reflects == SchedInv /\ CommandInv => BlockReflectsCommands
<1> SUFFICES ASSUME SchedInv, CommandInv, apc = "render", NEW k \in 1..due, NEW x \in uses[held],
                    log[k].node = x[2], ~(setting[x] >= k), ~(k <= cleared[x])
             PROVE  Missed(k, x)
  BY DEF BlockReflectsCommands
<1>1. held # 0 /\ held \in 1..built
  <2>1. held # 0 /\ held \in Nat /\ active \in Nat /\ built \in Nat /\ held <= active /\ active <= built
    BY CommandTypes DEF SchedInv, Positions, CommandInv, InTime, Fresh
  <2> QED BY <2>1
<1>2. k \in 1..Taken /\ k \in 1..posts
  BY CommandTypes DEF SchedInv, CommandInv, Numbered, Taken
<1>3. log[k].by # 0 /\ x \notin uses[log[k].by]
  BY <1>2 DEF CommandInv, Applied
<1>4. log[k].by <= held /\ log[k].under <= held /\ log[k].by \in Nat /\ log[k].under \in Nat \ {0}
  BY <1>1, <1>2, CommandTypes DEF SchedInv, CommandInv, InTime
<1>5. ASSUME x \in uses[log[k].under], log[k].under <= log[k].by
      PROVE  FALSE
  <2>1. log[k].under \in 1..built /\ log[k].by \in 1..built
    BY <1>1, <1>3, <1>4, CommandTypes DEF SchedInv
  <2>2. x \in uses[log[k].under] \cap uses[held]
    BY <1>5
  <2>3. x \in uses[log[k].by]
    BY <1>1, <1>4, <1>5, <2>1, <2>2 DEF CommandInv, History
  <2> QED BY <1>3, <2>3
<1> QED BY <1>3, <1>4, <1>5 DEF Missed

-----------------------------------------------------------------------------
(* The theorems.                                                           *)

\* Schedules are where the reclamation protocol of compile() and process() needs
\* them, Graphs outlive the blocks that run on them, commands keep their order.
THEOREM Invariance == Spec => []IInv
<1>1. Init => IInv
  BY InitSched, InitAccount, InitOwner, InitCommand DEF IInv
<1>2. IInv /\ [Next]_vars => IInv'
  BY SchedStep, AccountStep, OwnerStep, CommandStep DEF IInv
<1> QED BY <1>1, <1>2, PTL DEF Spec

\* Every variable keeps its type, whatever edits, compiles and blocks interleave.
THEOREM TypeCorrect == Spec => []TypeOK
  BY Invariance, PTL DEF IInv, SchedInv

\* process() never runs on a schedule that compile() has deleted.
THEOREM ScheduleOutlivesBlock == Spec => []NoUseAfterFree
  BY Invariance, PTL DEF IInv, SchedInv

\* No schedule that compile() built leaks or is freed twice, and a finished sweep of
\* retired_ leaves only schedules that a block may still be running on.
THEOREM SchedulesInOnePlace == Spec => []SchedulesAccounted
<1>1. IInv => SchedulesAccounted
  <2> SUFFICES ASSUME SchedInv, AccountInv PROVE SchedulesAccounted
    BY DEF IInv
  <2>1. ASSUME cpc = "sweep", i > Len(retired), NEW k \in 1..Len(retired)
        PROVE  ~Reclaimable(retired[k])
    <3>1. k < i
      BY <2>1, Counts
    <3> QED BY <2>1, <3>1 DEF AccountInv, Swept
  <2> QED BY <2>1 DEF AccountInv, Complete, Counted, InHand, InstalledScheds, SchedulesAccounted
<1> QED BY <1>1, Invariance, PTL

\* A Graph released by the documented rule is never one process() is running on.
THEOREM GraphOutlivesBlock == Spec => []NodesOutliveBlocks
  BY Invariance, PTL DEF IInv, OwnerInv

\* A block renders with the newest command that postParam() accepted for each of its nodes
\* before it began; only a block on a schedule without the node can have taken it away.
THEOREM NextBlockReflects == Spec => []BlockReflectsCommands
<1>1. IInv => BlockReflectsCommands
  BY Reflects DEF IInv
<1> QED BY <1>1, Invariance, PTL

\* No node is taken back to an older command, except to 0 by its own prepare().
THEOREM InOrder == Spec => CommandsApplyInOrder
<1>1. IInv /\ [Next]_vars =>
        [\A x \in Instances : setting'[x] < setting[x] => setting'[x] = 0]_vars
  <2> SUFFICES ASSUME IInv, Next, NEW x \in Instances, setting'[x] < setting[x]
               PROVE  setting'[x] = 0
    OBVIOUS
  <2> USE DEF graphVars, schedVars, cmdVars, nodeVars, ctlVars, audioVars
  <2>1. setting \in [Instances -> Nat]
    BY BoundsAssumption DEF IInv, SchedInv, TypeOK
  <2>2. CASE setting' = setting
    BY <2>1, <2>2
  <2>3. CASE Drain
    <3>1. setting' = Apply(commands[1]) /\ 1 \in 1..Len(commands)
      BY <2>3, DrainIs DEF IInv, SchedInv
    <3>2. setting'[x] = setting[x] \/ setting'[x] = commands[1].number
      BY <3>1 DEF Apply
    <3>3. setting[x] <= Taken /\ commands[1].number = Taken + 1 /\ Taken \in Nat
      BY <3>1, CommandTypes DEF IInv, SchedInv, CommandInv, Numbered
    <3> QED BY <2>1, <3>2, <3>3
  <2>4. ASSUME NEW y \in Instances, PrepareNode(y) PROVE setting'[x] = 0
    BY <2>1, <2>4 DEF PrepareNode
  <2>5. setting' = setting \/ Drain \/ \E y \in Instances : PrepareNode(y)
    BY DEF vars, Next, Control, Compile, Audio, AddNode, NewGraph, DestroyGraph, PostParam, CompileBegin,
       Install, Retire, ReclaimBegin, SweepFree, SweepKeep, CompileEnd, SilentBlock, BlockBegin,
       DrainEnd, BlockEnd
  <2> QED BY <2>2, <2>3, <2>4, <2>5
<1> QED BY <1>1, Invariance, PTL DEF Spec, CommandsApplyInOrder
=============================================================================

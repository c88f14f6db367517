------------------------- MODULE GraphScheduleProofs -------------------------
(***************************************************************************)
(* Theorems about GraphSchedule, for all kinds of nodes, every graph that  *)
(* edits lead to, and every bound on them.                                 *)
(*                                                                         *)
(* Every loop of the model is a function of the rounds done, so what it    *)
(* computes is proved by induction over its rounds (Rounds).               *)
(* The search for a cycle: by induction over how deep calls may nest.  A   *)
(* node is white when it is searched, so as many calls nest as there are   *)
(* slots (RightTo); what is gray has a way to it, so an edge back to that  *)
(* is a cycle (WayBack); what is black has no edge out of the black and no *)
(* cycle in it (Searched).                                                 *)
(* The order: at every round of Kahn's algorithm a node has an edge left   *)
(* that leads to it, or is on the stack, or in the order (Sound), and what *)
(* drives a node in the order is in front of it (InOrder).  After a round  *)
(* per slot the stack is empty; nodes left out then would all have edges   *)
(* from each other, which Acyclic excludes.                                *)
(* Widths and latencies: what drives a node is filled in before it and     *)
(* never after, so the tables satisfy their equations when the loop ends   *)
(* (Settles).  Delays: by induction along the order every way to a node is *)
(* as long as the latest of its inputs, and one of them without a delay    *)
(* (Phased).                                                               *)
(* The nodes that such a graph plays, SignalNodes, follow at the end, for  *)
(* all node classes, wirings, rates and block sizes.  Frames stay in their *)
(* rings, parameters in their bounds, and every channel that a node        *)
(* announces is written (NodesInv).  What a ring holds is as late as the   *)
(* way up to its node (RingsInStep), so that a block comes out of a branch *)
(* in step with it, and of the delay lines in step with the other branch.  *)
(***************************************************************************)
EXTENDS GraphSchedule, SignalNodes, SequenceTheorems, FiniteSetTheorems, WellFoundedInduction, TLAPS

-----------------------------------------------------------------------------
(* Induction and loops.                                                    *)

\* A set of naturals that is not empty has a least element.
LEMMA LeastNatural ==
  ASSUME NEW T \in SUBSET Nat, T # {}
  PROVE  \E m \in T : \A n \in T : m <= n
<1> DEFINE R == OpToRel(<, Nat)
<1>1. IsWellFoundedOn(R, Nat)
  BY NatLessThanWellFounded, Zenon
<1>2. \A n, m \in Nat : n < m => <<n, m>> \in R
  BY Zenon DEF OpToRel
<1> HIDE DEF R
<1>3. PICK m \in T : \A n \in T : ~(<<n, m>> \in R)
  BY <1>1, WFMin
<1>4. ASSUME NEW n \in T PROVE m <= n
  <2>1. ~(n < m)
    BY <1>2, <1>3
  <2> QED BY <2>1
<1> QED BY <1>4

\* Induction, over a set rather than a predicate.
LEMMA Induction ==
  ASSUME NEW T \in SUBSET Nat, 0 \in T, \A n \in T : n + 1 \in T
  PROVE  T = Nat
<1> SUFFICES ASSUME Nat \ T # {} PROVE FALSE
  OBVIOUS
<1>1. PICK m \in Nat \ T : \A n \in Nat \ T : m <= n
  BY LeastNatural
<1>2. m # 0 /\ m - 1 \in Nat /\ m - 1 \in T
  BY <1>1
<1> QED BY <1>1, <1>2

\* What a loop of n rounds knows after each, when a round is a function of that.
Rounds(U, F, base, n) ==
  {f \in [0 .. n -> U] : f[0] = base /\ \A k \in 1 .. n : f[k] = F[<<f[k - 1], k>>]}

LEMMA RoundsExist ==
  ASSUME NEW U, NEW F \in [U \X Nat -> U], NEW base \in U, NEW n \in Nat
  PROVE  \E f : f \in Rounds(U, F, base, n)
<1> DEFINE T == {m \in Nat : \E f : f \in Rounds(U, F, base, m)}
<1>1. 0 \in T
  <2> DEFINE f == [k \in 0 .. 0 |-> base]
  <2>1. f \in Rounds(U, F, base, 0)
    BY DEF Rounds
  <2> QED BY <2>1
<1>2. ASSUME NEW m \in T PROVE m + 1 \in T
  <2>1. PICK f : f \in Rounds(U, F, base, m)
    OBVIOUS
  <2>2. m \in Nat /\ f \in [0 .. m -> U] /\ f[0] = base /\ \A k \in 1 .. m : f[k] = F[<<f[k - 1], k>>]
    BY <2>1 DEF Rounds
  <2> DEFINE p == m + 1
             x == F[<<f[m], p>>]
             g == [k \in 0 .. p |-> IF k = p THEN x ELSE f[k]]
  <2>3. p \in Nat /\ m \in 0 .. m /\ f[m] \in U /\ x \in U
    BY <2>2
  <2> HIDE DEF x
  <2>4. g \in [0 .. p -> U] /\ g[0] = base
    BY <2>2, <2>3
  <2>5. \A k \in 1 .. p : g[k] = F[<<g[k - 1], k>>]
    <3> SUFFICES ASSUME NEW k \in 1 .. p PROVE g[k] = F[<<g[k - 1], k>>]
      OBVIOUS
    <3>1. k - 1 \in 0 .. m /\ g[k - 1] = f[k - 1]
      BY <2>2
    <3>2. CASE k = p
      <4>1. g[k] = x /\ f[k - 1] = f[m]
        BY <2>2, <3>2
      <4> QED BY <3>1, <3>2, <4>1 DEF x
    <3>3. CASE k # p
      <4>1. k \in 1 .. m /\ g[k] = f[k]
        BY <2>2, <3>3
      <4> QED BY <2>2, <3>1, <4>1
    <3> QED BY <3>2, <3>3
  <2> HIDE DEF g
  <2>6. g \in Rounds(U, F, base, p)
    BY <2>4, <2>5 DEF Rounds
  <2> QED BY <2>3, <2>6
<1> HIDE DEF T
<1>3. T = Nat
  <2>1. T \in SUBSET Nat
    BY DEF T
  <2> QED BY <1>1, <1>2, <2>1, Induction
<1> QED BY <1>3 DEF T

\* A function defined by such a loop is one of them.
LEMMA LoopIn ==
  ASSUME NEW U, NEW F \in [U \X Nat -> U], NEW base \in U, NEW n \in Nat, NEW f,
         f = [k \in 0 .. n |-> f[k]], f[0] = base,
         \A k \in 1 .. n : f[k - 1] \in U => f[k] = F[<<f[k - 1], k>>]
  PROVE  f \in Rounds(U, F, base, n)
<1> DEFINE T == {k \in Nat : k <= n => f[k] \in U}
<1>1. 0 \in T
  OBVIOUS
<1>2. ASSUME NEW k \in T PROVE k + 1 \in T
  <2> SUFFICES ASSUME k + 1 <= n PROVE f[k + 1] \in U
    OBVIOUS
  <2>1. k + 1 \in 1 .. n /\ (k + 1) - 1 = k /\ f[k] \in U
    OBVIOUS
  <2>2. f[k + 1] = F[<<f[k], k + 1>>]
    BY <2>1
  <2> QED BY <2>1, <2>2
<1> HIDE DEF T
<1>3. T = Nat
  <2>1. T \in SUBSET Nat
    BY DEF T
  <2> QED BY <1>1, <1>2, <2>1, Induction
<1>4. \A k \in 0 .. n : f[k] \in U
  <2>1. \A k \in 0 .. n : k \in T /\ k <= n
    BY <1>3
  <2> QED BY <2>1 DEF T
<1>5. \A k \in 1 .. n : f[k - 1] \in U
  BY <1>4
<1>6. f \in [0 .. n -> U]
  BY <1>4
<1> QED BY <1>5, <1>6 DEF Rounds

-----------------------------------------------------------------------------
(* A sequence without some elements.                                       *)

Left(q, x, gone) == IF x \in gone THEN q ELSE Append(q, x)

\* After k rounds of Without().
Kept(f, S, seq, gone) ==
  /\ f \in [0 .. Len(seq) -> Seq(S)]
  /\ f[0] = <<>>
  /\ \A k \in 1 .. Len(seq) : f[k] = Left(f[k - 1], seq[k], gone)

LEMMA WithoutIs ==
  ASSUME NEW S, NEW seq \in Seq(S), NEW gone
  PROVE  \E f : Kept(f, S, seq, gone) /\ Without(seq, gone) = f[Len(seq)]
<1> DEFINE n == Len(seq)
           F == [v \in Seq(S) \X Nat |-> IF v[2] \in 1 .. n THEN Left(v[1], seq[v[2]], gone) ELSE v[1]]
           Eq(f) == f = [k \in 0 .. n |-> IF k = 0 THEN <<>> ELSE Left(f[k - 1], seq[k], gone)]
           kept == CHOOSE f : Eq(f)
<1>1. n \in Nat /\ <<>> \in Seq(S) /\ \A k \in 1 .. n : seq[k] \in S
  OBVIOUS
<1>2. F \in [Seq(S) \X Nat -> Seq(S)]
  <2>1. \A q \in Seq(S), k \in 1 .. n : Left(q, seq[k], gone) \in Seq(S)
    BY <1>1 DEF Left
  <2> QED BY <2>1
<1>3. \A q \in Seq(S), k \in 1 .. n : F[<<q, k>>] = Left(q, seq[k], gone)
  BY <1>1
<1>4. Without(seq, gone) = kept[n]
  BY DEF Without, Left, n
<1> HIDE DEF F, n
<1>5. \A k \in 0 .. n : 0 \in 0 .. n /\ (k # 0 => k \in 1 .. n)
  BY <1>1
<1>6. \A k \in 1 .. n : k - 1 \in 0 .. n /\ k \in 0 .. n /\ k # 0
  BY <1>1
<1>7. PICK g : g \in Rounds(Seq(S), F, <<>>, n)
  BY <1>1, <1>2, RoundsExist
<1>8. Eq(g)
  <2>1. \A k \in 1 .. n : g[k] = Left(g[k - 1], seq[k], gone)
    BY <1>3, <1>6, <1>7 DEF Rounds
  <2> QED BY <1>5, <1>7, <2>1 DEF Rounds
<1>9. Eq(kept)
  BY <1>8
<1> HIDE DEF kept
<1>10. kept[0] = <<>> /\ \A k \in 1 .. n : kept[k] = Left(kept[k - 1], seq[k], gone)
  BY <1>1, <1>5, <1>6, <1>9
<1>11. kept \in Rounds(Seq(S), F, <<>>, n)
  <2>1. \A k \in 1 .. n : kept[k - 1] \in Seq(S) => kept[k] = F[<<kept[k - 1], k>>]
    BY <1>3, <1>10
  <2>2. kept = [k \in 0 .. n |-> kept[k]]
    BY <1>9
  <2> QED BY <1>1, <1>2, <1>10, <2>1, <2>2, LoopIn
<1> QED BY <1>4, <1>10, <1>11 DEF Rounds, Kept, n

\* What is left is the elements that are not out, none twice if none was before.
LEMMA WithoutHas ==
  ASSUME NEW S, NEW seq \in Seq(S), NEW gone
  PROVE  /\ Without(seq, gone) \in Seq(S)
         /\ Range(Without(seq, gone)) = Range(seq) \ gone
         /\ IsInjective(seq) => IsInjective(Without(seq, gone))
<1> DEFINE n == Len(seq)
           Upto(k) == {seq[i] : i \in 1 .. k}
<1>1. n \in Nat /\ \A k \in 1 .. n : seq[k] \in S
  OBVIOUS
<1>2. PICK f : Kept(f, S, seq, gone) /\ Without(seq, gone) = f[n]
  BY WithoutIs
<1>3. /\ f[0] = <<>> /\ \A k \in 0 .. n : f[k] \in Seq(S)
      /\ \A k \in 1 .. n : f[k] = Left(f[k - 1], seq[k], gone)
  BY <1>2 DEF Kept
<1> HIDE DEF n
<1> DEFINE T == {k \in Nat : k <= n => /\ Range(f[k]) = Upto(k) \ gone
                                       /\ IsInjective(seq) => IsInjective(f[k])}
<1>4. 0 \in T
  <2>1. Range(f[0]) = {} /\ Upto(0) = {} /\ IsInjective(f[0])
    BY <1>3 DEF Range, IsInjective
  <2> QED BY <2>1
<1>5. ASSUME NEW k \in T PROVE k + 1 \in T
  <2> SUFFICES ASSUME k + 1 <= n
               PROVE  /\ Range(f[k + 1]) = Upto(k + 1) \ gone
                      /\ IsInjective(seq) => IsInjective(f[k + 1])
    OBVIOUS
  <2> DEFINE x == seq[k + 1]
             q == f[k]
             r == f[k + 1]
  <2>1. /\ k \in 0 .. n /\ k + 1 \in 1 .. n /\ (k + 1) - 1 = k
        /\ Range(q) = Upto(k) \ gone /\ (IsInjective(seq) => IsInjective(q))
    BY <1>1
  <2>2. q \in Seq(S) /\ r = Left(q, x, gone)
    BY <1>3, <2>1
  <2>3. Upto(k + 1) = Upto(k) \cup {x}
    <3>1. 1 .. k + 1 = (1 .. k) \cup {k + 1}
      BY <2>1
    <3> QED BY <3>1
  <2>4. IsInjective(seq) => x \notin Upto(k)
    <3>1. \A i \in 1 .. k : i \in 1 .. n /\ i # k + 1
      BY <1>1, <2>1
    <3> QED BY <2>1, <3>1 DEF IsInjective, n
  <2> HIDE DEF x, q, r, Upto, T
  <2>5. CASE x \in gone
    <3>1. r = q
      BY <2>2, <2>5 DEF Left
    <3> QED BY <2>1, <2>3, <2>5, <3>1 DEF q, r
  <2>6. CASE x \notin gone
    <3>1. r = Append(q, x)
      BY <2>2, <2>6 DEF Left
    <3>2. /\ DOMAIN r = DOMAIN q \cup {Len(q) + 1} /\ r[Len(q) + 1] = x
          /\ \A i \in DOMAIN q : r[i] = q[i] /\ i # Len(q) + 1
      BY <2>2, <3>1
    <3>3. Range(r) = Range(q) \cup {x}
      BY <3>2 DEF Range
    <3>4. IsInjective(seq) => IsInjective(r)
      <4> SUFFICES ASSUME IsInjective(seq) PROVE IsInjective(r)
        OBVIOUS
      <4>1. IsInjective(q) /\ \A i \in DOMAIN q : q[i] # x
        BY <2>1, <2>4 DEF Range
      <4> QED BY <3>2, <4>1 DEF IsInjective
    <3> QED BY <2>1, <2>3, <2>6, <3>3, <3>4 DEF r
  <2> QED BY <2>5, <2>6
<1> HIDE DEF T
<1>6. T = Nat
  <2>1. T \in SUBSET Nat
    BY DEF T
  <2> QED BY <1>4, <1>5, <2>1, Induction
<1>7. Upto(n) = Range(seq)
  BY DEF Range, n
<1>8. n \in T /\ n <= n /\ n \in 0 .. n
  BY <1>1, <1>6
<1>9. Range(f[n]) = Upto(n) \ gone /\ (IsInjective(seq) => IsInjective(f[n]))
  BY <1>8 DEF T
<1> HIDE DEF Upto
<1> QED BY <1>2, <1>3, <1>7, <1>8, <1>9
-----------------------------------------------------------------------------
(* The graph.                                                              *)

\* r is q with x at its end.
Grown(r, q, x, S) ==
  /\ r \in Seq(S) /\ Len(r) = Len(q) + 1 /\ Range(r) = Range(q) \cup {x}
  /\ r[Len(q) + 1] = x /\ \A i \in 1 .. Len(q) : r[i] = q[i]
  /\ IsInjective(q) /\ x \notin Range(q) => IsInjective(r)

LEMMA Longer ==
  ASSUME NEW S, NEW q \in Seq(S), NEW x \in S, NEW r, r = Append(q, x)
  PROVE  Grown(r, q, x, S)
<1>1. /\ r \in Seq(S) /\ Len(r) = Len(q) + 1 /\ Len(q) \in Nat /\ DOMAIN q = 1 .. Len(q)
      /\ r[Len(q) + 1] = x /\ \A i \in 1 .. Len(q) : r[i] = q[i]
  OBVIOUS
<1>2. DOMAIN r = DOMAIN q \cup {Len(q) + 1} /\ \A i \in DOMAIN q : i # Len(q) + 1
  BY <1>1
<1>3. Range(r) = Range(q) \cup {x}
  BY <1>1, <1>2 DEF Range
<1>4. IsInjective(q) /\ x \notin Range(q) => IsInjective(r)
  BY <1>1, <1>2 DEF Range, IsInjective
<1> QED BY <1>1, <1>3, <1>4 DEF Grown

LEMMA EdgesStay ==
  ASSUME TypeOK, NEW gone
  PROVE  /\ Without(edges, gone) \in Seq(Edges)
         /\ Range(Without(edges, gone)) = Range(edges) \ gone
<1>1. edges \in Seq(Edges)
  BY DEF TypeOK
<1> QED BY <1>1, WithoutHas

LEMMA InitType == Init => TypeOK
<1> SUFFICES ASSUME Init PROVE TypeOK
  OBVIOUS
<1>1. PICK n \in 0 .. Len(Script) :
        nodes = SubSeq(Script, 1, n) /\ edges \in Wirings(SubSeq(Script, 1, n))
  BY DEF Init
<1>2. Script \in Seq(Kinds) /\ Len(Script) \in Nat
  BY ScriptAssumption
<1>3. nodes \in Seq(Kinds) /\ Len(nodes) = n
  BY <1>1, <1>2
<1>4. edges \in Seq(Edges) /\ \A k \in DOMAIN edges : {edges[k].src, edges[k].dst} \subseteq 1 .. n
  BY <1>1, WiringsAssumption
<1>5. \A id \in 1 .. n : Live(id)
  <2>1. \A id \in 1 .. n : nodes[id] \in Kinds
    BY <1>3
  <2> QED BY <1>3, <2>1, KindsAssumption DEF Live, Slots
<1>6. \A e \in Range(edges) : Live(e.src) /\ Live(e.dst)
  BY <1>4, <1>5 DEF Range
<1>7. nodes \in Seq(Kinds \union {Removed})
  BY <1>3
<1> QED BY <1>1, <1>2, <1>3, <1>4, <1>6, <1>7 DEF TypeOK

LEMMA NextType == TypeOK /\ [Next]_vars => TypeOK'
<1> SUFFICES ASSUME TypeOK, [Next]_vars PROVE TypeOK'
  OBVIOUS
<1>1. /\ nodes \in Seq(Kinds \union {Removed}) /\ Len(nodes) <= Len(Script) /\ Len(nodes) \in Nat
      /\ edges \in Seq(Edges) /\ \A e \in Range(edges) : Live(e.src) /\ Live(e.dst)
      /\ Script \in Seq(Kinds) /\ Len(Script) \in Nat
  BY ScriptAssumption DEF TypeOK
<1>2. CASE AddNode
  <2> DEFINE k == Script[Len(nodes) + 1]
  <2>1. k \in Kinds
    BY <1>1, <1>2 DEF AddNode
  <2>2. nodes' = Append(nodes, k) /\ edges' = edges /\ Len(nodes) < Len(Script)
    BY <1>2 DEF AddNode
  <2> HIDE DEF k
  <2>3. /\ nodes' \in Seq(Kinds \union {Removed}) /\ Len(nodes') = Len(nodes) + 1
        /\ \A id \in Slots : nodes'[id] = nodes[id]
    BY <1>1, <2>1, <2>2 DEF Slots
  <2>4. \A id : Live(id) => Live(id)'
    BY <1>1, <2>3 DEF Live, Slots
  <2> QED BY <1>1, <2>2, <2>3, <2>4 DEF TypeOK
<1>3. CASE \E e \in Connects : Connect(e)
  <2>1. PICK e \in Edges : Live(e.src) /\ Live(e.dst) /\ edges' = Append(edges, e) /\ nodes' = nodes
    BY <1>3, ScriptAssumption DEF Connect
  <2> DEFINE r == Append(edges, e)
  <2>a. r \in Seq(Edges) /\ Range(r) = Range(edges) \cup {e}
    <3>1. edges \in Seq(Edges) /\ e \in Edges /\ r = Append(edges, e)
      BY <1>1
    <3> HIDE DEF r
    <3>2. Grown(r, edges, e, Edges)
      BY <3>1, Longer
    <3> QED BY <3>2 DEF Grown
  <2>2. edges' \in Seq(Edges) /\ Range(edges') = Range(edges) \cup {e}
    BY <2>1, <2>a
  <2>3. \A id : Live(id) => Live(id)'
    BY <2>1 DEF Live, Slots
  <2> QED BY <1>1, <2>1, <2>2, <2>3 DEF TypeOK
<1>4. CASE \E e \in Range(edges) : Disconnect(e)
  <2>1. PICK e : edges' = Without(edges, {e}) /\ nodes' = nodes
    BY <1>4 DEF Disconnect
  <2>2. edges' \in Seq(Edges) /\ Range(edges') \subseteq Range(edges)
    BY <2>1, EdgesStay
  <2>3. \A id : Live(id) => Live(id)'
    BY <2>1 DEF Live, Slots
  <2> QED BY <1>1, <2>1, <2>2, <2>3 DEF TypeOK
<1>5. CASE \E id \in Ids : RemoveNode(id)
  <2>1. PICK id : /\ Live(id) /\ nodes' = [nodes EXCEPT ![id] = Removed]
                  /\ edges' = Without(edges, {e \in Range(edges) : id \in {e.src, e.dst}})
    BY <1>5 DEF RemoveNode
  <2>2. edges' \in Seq(Edges) /\ \A e \in Range(edges') : e \in Range(edges) /\ e.src # id /\ e.dst # id
    BY <2>1, EdgesStay
  <2>3. /\ nodes' \in Seq(Kinds \union {Removed}) /\ Len(nodes') = Len(nodes)
        /\ \A i \in Slots : i # id => nodes'[i] = nodes[i]
    BY <1>1, <2>1 DEF Live, Slots
  <2>4. \A i : Live(i) /\ i # id => Live(i)'
    BY <1>1, <2>3 DEF Live, Slots
  <2> QED BY <1>1, <2>2, <2>3, <2>4 DEF TypeOK
<1>6. CASE UNCHANGED vars
  BY <1>6 DEF vars, TypeOK, Live, Slots
<1> QED BY <1>2, <1>3, <1>4, <1>5, <1>6 DEF Next

\* However edits follow each other, no edge touches a node that is gone.
THEOREM TypeCorrect == Spec => []TypeOK
  BY InitType, NextType, PTL DEF Spec
-----------------------------------------------------------------------------
(* Kahn's order.                                                           *)

States == [order : Seq(Slots), indeg : [Slots -> Int], ready : Seq(Slots)]

\* The edges to m that are not used up, when those of U are not.
Into(m, U) == {k \in U : edges[k].dst = m}

\* A node has an edge left that leads to it, or is ready, or is in the order.
Sound(st, U) ==
  /\ st \in States
  /\ IsInjective(st.order) /\ IsInjective(st.ready) /\ Range(st.order) \cap Range(st.ready) = {}
  /\ \A m \in Slots : /\ st.indeg[m] = Cardinality(Into(m, U))
                      /\ Into(m, U) = {} <=> m \in Range(st.order) \cup Range(st.ready)

LEMMA IntoIs ==
  ASSUME TypeOK, NEW U \in SUBSET DOMAIN edges, NEW m \in Slots
  PROVE  /\ IsFiniteSet(Into(m, U)) /\ Cardinality(Into(m, U)) \in Nat
         /\ Cardinality(Into(m, U)) = 0 <=> Into(m, U) = {}
<1>1. DOMAIN edges = 1 .. Len(edges) /\ Len(edges) \in Nat
  BY DEF TypeOK
<1>2. Into(m, U) \subseteq 1 .. Len(edges)
  BY <1>1 DEF Into
<1>3. IsFiniteSet(1 .. Len(edges))
  BY <1>1, FS_Interval
<1>4. IsFiniteSet(Into(m, U))
  BY <1>2, <1>3, FS_Subset
<1> QED BY <1>4, FS_CardinalityType, FS_EmptySet

\* An edge has its ends among the slots.
LEMMA EdgeEnds ==
  ASSUME TypeOK, NEW k \in DOMAIN edges
  PROVE  /\ edges[k] \in Edges /\ edges[k].src \in Slots /\ edges[k].dst \in Slots
         /\ Live(edges[k].src) /\ Live(edges[k].dst)
<1>1. edges \in Seq(Edges) /\ edges[k] \in Range(edges)
  BY DEF TypeOK, Range
<1> QED BY <1>1 DEF TypeOK, Live, Slots

LEMMA UseUpType ==
  ASSUME TypeOK, NEW st \in States, NEW v, NEW k \in DOMAIN edges
  PROVE  UseUp(st, v, edges[k]) \in States
<1> DEFINE m == edges[k].dst
           left == [st.indeg EXCEPT ![m] = @ - 1]
           ready == IF left[m] = 0 THEN Append(st.ready, m) ELSE st.ready
<1>1. m \in Slots
  BY EdgeEnds
<1>2. st.order \in Seq(Slots) /\ st.indeg \in [Slots -> Int] /\ st.ready \in Seq(Slots)
  BY DEF States
<1>3. left \in [Slots -> Int]
  BY <1>1, <1>2
<1>4. ready \in Seq(Slots)
  BY <1>1, <1>2
<1>5. UseUp(st, v, edges[k]) = IF edges[k].src # v THEN st
                               ELSE [order |-> st.order, indeg |-> left, ready |-> ready]
  BY DEF UseUp
<1> HIDE DEF left, ready
<1> QED BY <1>2, <1>3, <1>4, <1>5 DEF States

\* What is left when edge k is used up, if it is one of v.
Less(U, v, k) == IF edges[k].src = v THEN U \ {k} ELSE U

LEMMA UseUpSound ==
  ASSUME TypeOK, NEW U \in SUBSET DOMAIN edges, NEW st, Sound(st, U), NEW v, NEW k \in DOMAIN edges,
         edges[k].src = v => k \in U
  PROVE  Sound(UseUp(st, v, edges[k]), Less(U, v, k)) /\ UseUp(st, v, edges[k]).order = st.order
<1> DEFINE m == edges[k].dst
           left == [st.indeg EXCEPT ![m] = @ - 1]
           ready == IF left[m] = 0 THEN Append(st.ready, m) ELSE st.ready
           new == UseUp(st, v, edges[k])
           W == U \ {k}
<1>1. /\ st.order \in Seq(Slots) /\ st.indeg \in [Slots -> Int] /\ st.ready \in Seq(Slots)
      /\ st \in States /\ m \in Slots
  BY EdgeEnds DEF Sound, States
<1>2. CASE edges[k].src # v
  BY <1>2 DEF UseUp, Less
<1>3. CASE edges[k].src = v
  <2>1. /\ new = [order |-> st.order, indeg |-> left, ready |-> ready]
        /\ new \in States /\ Less(U, v, k) = W
    BY <1>1, <1>3, UseUpType DEF UseUp, Less
  <2>2. new.order = st.order /\ new.indeg = left /\ new.ready = ready
    BY <2>1
  <2> HIDE DEF new
  <2>3. /\ k \in Into(m, U) /\ Into(m, W) = Into(m, U) \ {k}
        /\ \A n \in Slots : n # m => Into(n, W) = Into(n, U)
    BY <1>3 DEF Into
  <2>4. Cardinality(Into(m, W)) = Cardinality(Into(m, U)) - 1
    <3>1. IsFiniteSet(Into(m, U))
      BY <1>1, IntoIs
    <3> HIDE DEF W, m
    <3>2. Cardinality(Into(m, U) \ {k}) = Cardinality(Into(m, U)) - 1
      BY <2>3, <3>1, FS_RemoveElement
    <3> QED BY <2>3, <3>2
  <2>5. st.indeg[m] = Cardinality(Into(m, U)) /\ m \notin Range(st.order) \cup Range(st.ready)
    BY <1>1, <2>3 DEF Sound
  <2>6. left[m] = Cardinality(Into(m, W)) /\ \A n \in Slots : n # m => left[n] = st.indeg[n]
    BY <1>1, <2>4, <2>5
  <2>7. W \in SUBSET DOMAIN edges
    OBVIOUS
  <2>8. \A n \in Slots : left[n] = Cardinality(Into(n, W))
    BY <2>3, <2>6 DEF Sound
  <2>9. left[m] = 0 <=> Into(m, W) = {}
    BY <1>1, <2>6, <2>7, IntoIs
  <2> HIDE DEF left, W
  <2>10. ASSUME left[m] = 0 PROVE Sound(new, W)
    <3>1. ready = Append(st.ready, m)
      BY <2>10
    <3> DEFINE q == st.ready
    <3>a. q \in Seq(Slots) /\ IsInjective(q) /\ m \notin Range(q)
      BY <1>1, <2>5 DEF Sound
    <3> HIDE DEF ready, q, m
    <3>b. Range(ready) = Range(q) \cup {m} /\ IsInjective(ready)
      <4>1. ready = Append(q, m) /\ m \in Slots
        BY <1>1, <3>1 DEF q
      <4>2. Grown(ready, q, m, Slots)
        BY <3>a, <4>1, Longer
      <4> QED BY <3>a, <4>2 DEF Grown
    <3>2. /\ Range(ready) = Range(st.ready) \cup {m}
          /\ IsInjective(ready)
      BY <3>b DEF q
    <3>3. ASSUME NEW n \in Slots PROVE Into(n, W) = {} <=> n \in Range(st.order) \cup Range(ready)
      <4>1. CASE n = m
        BY <2>9, <2>10, <3>2, <4>1
      <4>2. CASE n # m
        <5>1. Into(n, W) = Into(n, U)
          BY <2>3, <4>2
        <5>2. Into(n, U) = {} <=> n \in Range(st.order) \cup Range(st.ready)
          BY DEF Sound
        <5> QED BY <3>2, <4>2, <5>1, <5>2
      <4> QED BY <4>1, <4>2
    <3>4. /\ IsInjective(new.order) /\ IsInjective(new.ready)
          /\ Range(new.order) \cap Range(new.ready) = {}
      BY <2>2, <2>5, <3>2 DEF Sound
    <3>5. \A n \in Slots : /\ new.indeg[n] = Cardinality(Into(n, W))
                           /\ Into(n, W) = {} <=> n \in Range(new.order) \cup Range(new.ready)
      BY <2>2, <2>8, <3>3
    <3> QED BY <2>1, <3>4, <3>5 DEF Sound
  <2>11. ASSUME left[m] # 0 PROVE Sound(new, W)
    <3>1. ready = st.ready
      BY <2>11
    <3> HIDE DEF ready
    <3> HIDE DEF m
    <3>2. ASSUME NEW n \in Slots PROVE Into(n, W) = {} <=> n \in Range(st.order) \cup Range(ready)
      <4>1. CASE n = m
        BY <2>5, <2>9, <2>11, <3>1, <4>1
      <4>2. CASE n # m
        <5>1. Into(n, W) = Into(n, U)
          BY <2>3, <4>2
        <5>2. Into(n, U) = {} <=> n \in Range(st.order) \cup Range(st.ready)
          BY DEF Sound
        <5> QED BY <3>1, <5>1, <5>2
      <4> QED BY <4>1, <4>2
    <3>3. /\ IsInjective(new.order) /\ IsInjective(new.ready)
          /\ Range(new.order) \cap Range(new.ready) = {}
      BY <2>2, <3>1 DEF Sound
    <3>4. \A n \in Slots : /\ new.indeg[n] = Cardinality(Into(n, W))
                           /\ Into(n, W) = {} <=> n \in Range(new.order) \cup Range(new.ready)
      BY <2>2, <2>8, <3>2
    <3> QED BY <2>1, <3>3, <3>4 DEF Sound
  <2>12. Sound(new, W)
    BY <2>10, <2>11
  <2> QED BY <2>1, <2>2, <2>12 DEF new
<1> QED BY <1>2, <1>3

\* The edges of v.
Of(v) == {k \in DOMAIN edges : edges[k].src = v}

LEMMA UseAllIn ==
  ASSUME TypeOK, NEW st \in States, NEW v
  PROVE  \E f : /\ UseAll(st, v) = f[Len(edges)] /\ f[0] = st
                /\ \A k \in 0 .. Len(edges) : f[k] \in States
                /\ \A k \in 1 .. Len(edges) : f[k] = UseUp(f[k - 1], v, edges[k])
<1> DEFINE n == Len(edges)
           F == [x \in States \X Nat |-> IF x[2] \in 1 .. n THEN UseUp(x[1], v, edges[x[2]]) ELSE x[1]]
           Eq(f) == f = [k \in 0 .. n |-> IF k = 0 THEN st ELSE UseUp(f[k - 1], v, edges[k])]
           used == CHOOSE f : Eq(f)
<1>1. n \in Nat /\ DOMAIN edges = 1 .. n
  BY DEF TypeOK
<1>2. F \in [States \X Nat -> States]
  <2>1. \A x \in States, k \in 1 .. n : UseUp(x, v, edges[k]) \in States
    BY <1>1, UseUpType
  <2> QED BY <2>1
<1>3. \A x \in States, k \in 1 .. n : F[<<x, k>>] = UseUp(x, v, edges[k])
  BY <1>1
<1>4. UseAll(st, v) = used[n]
  BY DEF UseAll, n
<1> HIDE DEF F, n
<1>5. \A k \in 0 .. n : 0 \in 0 .. n /\ (k # 0 => k \in 1 .. n)
  BY <1>1
<1>6. \A k \in 1 .. n : k - 1 \in 0 .. n /\ k \in 0 .. n /\ k # 0
  BY <1>1
<1>7. PICK g : g \in Rounds(States, F, st, n)
  BY <1>1, <1>2, RoundsExist
<1>8. Eq(g)
  <2>1. \A k \in 1 .. n : g[k] = UseUp(g[k - 1], v, edges[k])
    BY <1>3, <1>6, <1>7 DEF Rounds
  <2> QED BY <1>5, <1>7, <2>1 DEF Rounds
<1>9. Eq(used)
  BY <1>8
<1> HIDE DEF used
<1>10. used[0] = st /\ \A k \in 1 .. n : used[k] = UseUp(used[k - 1], v, edges[k])
  BY <1>1, <1>5, <1>6, <1>9
<1>11. used \in Rounds(States, F, st, n)
  <2>1. \A k \in 1 .. n : used[k - 1] \in States => used[k] = F[<<used[k - 1], k>>]
    BY <1>3, <1>10
  <2>2. used = [k \in 0 .. n |-> used[k]]
    BY <1>9
  <2> QED BY <1>1, <1>2, <1>10, <2>1, <2>2, LoopIn
<1> QED BY <1>4, <1>10, <1>11 DEF Rounds, n

LEMMA UseAllSound ==
  ASSUME TypeOK, NEW U \in SUBSET DOMAIN edges, NEW st, Sound(st, U), NEW v, Of(v) \subseteq U
  PROVE  Sound(UseAll(st, v), U \ Of(v)) /\ UseAll(st, v).order = st.order
<1> DEFINE n == Len(edges)
           Rest(k) == U \ {i \in 1 .. k : edges[i].src = v}
<1>1. n \in Nat /\ DOMAIN edges = 1 .. n
  BY DEF TypeOK
<1>2. st \in States
  BY DEF Sound
<1>3. PICK f : /\ UseAll(st, v) = f[n] /\ f[0] = st
               /\ \A k \in 1 .. n : f[k] = UseUp(f[k - 1], v, edges[k])
  BY <1>2, UseAllIn
<1> HIDE DEF n
<1> DEFINE T == {k \in Nat : k <= n => Sound(f[k], Rest(k)) /\ f[k].order = st.order}
<1>4. 0 \in T
  <2>1. Rest(0) = U
    OBVIOUS
  <2> QED BY <1>3, <2>1
<1>5. ASSUME NEW k \in T PROVE k + 1 \in T
  <2> SUFFICES ASSUME k + 1 <= n
               PROVE  Sound(f[k + 1], Rest(k + 1)) /\ f[k + 1].order = st.order
    OBVIOUS
  <2>1. k + 1 \in 1 .. n /\ (k + 1) - 1 = k /\ Sound(f[k], Rest(k)) /\ f[k].order = st.order
    BY <1>1
  <2>2. f[k + 1] = UseUp(f[k], v, edges[k + 1])
    BY <1>3, <2>1
  <2>3. Rest(k) \in SUBSET DOMAIN edges /\ (edges[k + 1].src = v => k + 1 \in Rest(k))
    BY <1>1, <2>1 DEF Of
  <2>4. Less(Rest(k), v, k + 1) = Rest(k + 1)
    <3>1. 1 .. k + 1 = (1 .. k) \cup {k + 1}
      BY <2>1
    <3> QED BY <3>1 DEF Less
  <2> HIDE DEF Rest
  <2>5. /\ Sound(UseUp(f[k], v, edges[k + 1]), Less(Rest(k), v, k + 1))
        /\ UseUp(f[k], v, edges[k + 1]).order = f[k].order
    <3> DEFINE a == f[k]
               V == Rest(k)
               i == k + 1
    <3>1. V \in SUBSET DOMAIN edges /\ Sound(a, V) /\ i \in DOMAIN edges /\ (edges[i].src = v => i \in V)
      BY <1>1, <2>1, <2>3
    <3> HIDE DEF a, V, i
    <3>2. Sound(UseUp(a, v, edges[i]), Less(V, v, i)) /\ UseUp(a, v, edges[i]).order = a.order
      BY <3>1, UseUpSound
    <3> QED BY <3>2 DEF a, V, i
  <2> QED BY <2>1, <2>2, <2>4, <2>5
<1> HIDE DEF T
<1>6. T = Nat
  <2>1. T \in SUBSET Nat
    BY DEF T
  <2> QED BY <1>4, <1>5, <2>1, Induction
<1>7. Rest(n) = U \ Of(v)
  BY <1>1 DEF Of
<1>8. n \in T /\ n <= n
  BY <1>1, <1>6
<1>9. Sound(f[n], Rest(n)) /\ f[n].order = st.order
  BY <1>8 DEF T
<1> HIDE DEF Rest
<1> QED BY <1>3, <1>7, <1>9

\* The edges of the nodes that are not in the order.
Unused(st) == {k \in DOMAIN edges : edges[k].src \notin Range(st.order)}

\* What drives a node in the order is in front of it.
InOrder(q) ==
  \A i \in DOMAIN q, k \in DOMAIN edges :
    edges[k].dst = q[i] => \E h \in 1 .. i - 1 : q[h] = edges[k].src

Underway(st) == Sound(st, Unused(st)) /\ InOrder(st.order)

\* The top of a stack and what is under it.
LEMMA TopIs ==
  ASSUME NEW S, NEW q \in Seq(S), q # <<>>, IsInjective(q)
  PROVE  /\ Last(q) \in S /\ Last(q) \in Range(q) /\ Front(q) \in Seq(S) /\ IsInjective(Front(q))
         /\ Range(Front(q)) = Range(q) \ {Last(q)}
<1> DEFINE n == Len(q)
<1>1. n \in Nat /\ n > 0 /\ DOMAIN q = 1 .. n /\ \A i \in 1 .. n : q[i] \in S
  <2>1. Len(q) \in Nat /\ Len(q) # 0
    OBVIOUS
  <2> QED BY <2>1
<1>2. Last(q) = q[n] /\ Front(q) = SubSeq(q, 1, n - 1)
  BY DEF Last, Front
<1>3. Front(q) \in Seq(S) /\ DOMAIN Front(q) = 1 .. n - 1 /\ \A i \in 1 .. n - 1 : Front(q)[i] = q[i]
  BY <1>1, <1>2
<1> HIDE DEF n
<1>4. 1 .. n - 1 = (1 .. n) \ {n} /\ n \in 1 .. n
  BY <1>1
<1>5. IsInjective(Front(q))
  BY <1>1, <1>3, <1>4 DEF IsInjective
<1>6. Range(Front(q)) = Range(q) \ {q[n]}
  BY <1>1, <1>3, <1>4 DEF IsInjective, Range
<1> QED BY <1>1, <1>2, <1>3, <1>4, <1>5, <1>6 DEF Range

LEMMA TakeSound ==
  ASSUME TypeOK, NEW st, Underway(st)
  PROVE  /\ Underway(Take(st))
         /\ st.ready = <<>> => Take(st) = st
         /\ st.ready # <<>> => Len(Take(st).order) = Len(st.order) + 1
<1>1. CASE st.ready = <<>>
  BY <1>1 DEF Take
<1>2. CASE st.ready # <<>>
  <2> DEFINE q == st.ready
             v == Last(q)
             order == Append(st.order, v)
             st1 == [order |-> order, indeg |-> st.indeg, ready |-> Front(q)]
             U == Unused(st)
             new == UseAll(st1, v)
  <2>1. /\ st.order \in Seq(Slots) /\ st.indeg \in [Slots -> Int] /\ q \in Seq(Slots)
        /\ IsInjective(st.order) /\ IsInjective(q) /\ Range(st.order) \cap Range(q) = {}
        /\ \A m \in Slots : /\ st.indeg[m] = Cardinality(Into(m, U))
                            /\ Into(m, U) = {} <=> m \in Range(st.order) \cup Range(q)
    BY DEF Underway, Sound, States
  <2>2. InOrder(st.order) /\ q # <<>>
    BY <1>2 DEF Underway
  <2>3. Take(st) = new
    BY <1>2 DEF Take
  <2> HIDE DEF q, v, U
  <2>4. /\ v \in Slots /\ v \in Range(q) /\ Front(q) \in Seq(Slots) /\ IsInjective(Front(q))
        /\ Range(Front(q)) = Range(q) \ {v}
    BY <2>1, <2>2, TopIs DEF v
  <2>5. Grown(order, st.order, v, Slots)
    BY <2>1, <2>4, Longer
  <2>6. /\ order \in Seq(Slots) /\ Len(order) = Len(st.order) + 1
        /\ Range(order) = Range(st.order) \cup {v}
        /\ order[Len(st.order) + 1] = v /\ \A i \in 1 .. Len(st.order) : order[i] = st.order[i]
        /\ IsInjective(order)
    BY <2>1, <2>4, <2>5 DEF Grown
  <2> HIDE DEF order
  <2>7. st1.order = order /\ st1.indeg = st.indeg /\ st1.ready = Front(q) /\ st1 \in States
    BY <2>1, <2>4, <2>6 DEF States
  <2> HIDE DEF st1
  <2>8. Sound(st1, U)
    <3>1. Range(st1.order) \cap Range(st1.ready) = {}
      BY <2>1, <2>4, <2>6, <2>7
    <3>2. Range(st1.order) \cup Range(st1.ready) = Range(st.order) \cup Range(q)
      BY <2>4, <2>6, <2>7
    <3>3. IsInjective(st1.order) /\ IsInjective(st1.ready)
      BY <2>4, <2>6, <2>7
    <3>4. \A m \in Slots : /\ st1.indeg[m] = Cardinality(Into(m, U))
                           /\ Into(m, U) = {} <=> m \in Range(st1.order) \cup Range(st1.ready)
      BY <2>1, <2>7, <3>2
    <3> QED BY <2>7, <3>1, <3>3, <3>4 DEF Sound
  <2>9. U \in SUBSET DOMAIN edges /\ Of(v) \subseteq U
    BY <2>1, <2>4 DEF U, Unused, Of
  <2>10. Sound(new, U \ Of(v)) /\ new.order = order
    BY <2>7, <2>8, <2>9, UseAllSound
  <2> HIDE DEF new
  <2>11. Unused(new) = U \ Of(v)
    BY <2>6, <2>10 DEF U, Unused, Of
  <2>12. InOrder(order)
    <3> SUFFICES ASSUME NEW i \in DOMAIN order, NEW k \in DOMAIN edges, edges[k].dst = order[i]
                 PROVE  \E h \in 1 .. i - 1 : order[h] = edges[k].src
      BY DEF InOrder
    <3>1. /\ Len(st.order) \in Nat /\ DOMAIN order = 1 .. Len(st.order) + 1
          /\ DOMAIN st.order = 1 .. Len(st.order)
      BY <2>1, <2>6
    <3>2. CASE i = Len(st.order) + 1
      <4>1. edges[k].dst = v /\ Into(v, U) = {}
        BY <2>1, <2>4, <2>6, <3>2
      <4>2. edges[k].src \in Range(st.order)
        BY <4>1 DEF Into, U, Unused
      <4>3. PICK h \in DOMAIN st.order : st.order[h] = edges[k].src
        BY <4>2 DEF Range
      <4> QED BY <2>6, <3>1, <3>2, <4>3
    <3>3. CASE i # Len(st.order) + 1
      <4>1. i \in DOMAIN st.order /\ order[i] = st.order[i]
        BY <2>6, <3>1, <3>3
      <4>2. PICK h \in 1 .. i - 1 : st.order[h] = edges[k].src
        BY <2>2, <4>1 DEF InOrder
      <4> QED BY <2>6, <3>1, <4>1, <4>2
    <3> QED BY <3>2, <3>3
  <2>13. Underway(new)
    BY <2>10, <2>11, <2>12 DEF Underway
  <2> QED BY <1>2, <2>3, <2>6, <2>10, <2>13
<1> QED BY <1>1, <1>2

Start == [order |-> <<>>, indeg |-> [id \in Slots |-> InDegree(id)],
          ready |-> Without([id \in Slots |-> id], {id \in Slots : InDegree(id) > 0})]

LEMMA StartSound ==
  ASSUME TypeOK
  PROVE  Underway(Start)
<1> DEFINE ids == [id \in Slots |-> id]
           used == {id \in Slots : InDegree(id) > 0}
           ready == Without(ids, used)
           U == DOMAIN edges
<1>1. Len(nodes) \in Nat /\ U \in SUBSET DOMAIN edges
  BY DEF TypeOK
<1>2. ids \in Seq(Slots) /\ IsInjective(ids) /\ Range(ids) = Slots
  <2>1. ids \in Seq(Slots)
    BY <1>1 DEF Slots
  <2> QED BY <2>1 DEF IsInjective, Range
<1>3. ready \in Seq(Slots) /\ Range(ready) = Slots \ used /\ IsInjective(ready)
  <2> HIDE DEF ids, used
  <2> QED BY <1>2, WithoutHas
<1> HIDE DEF ready
<1>4. \A m \in Slots : /\ InDegree(m) = Cardinality(Into(m, U)) /\ InDegree(m) \in Nat
                       /\ InDegree(m) = 0 <=> Into(m, U) = {}
  <2> SUFFICES ASSUME NEW m \in Slots
               PROVE  /\ InDegree(m) = Cardinality(Into(m, U)) /\ InDegree(m) \in Nat
                      /\ InDegree(m) = 0 <=> Into(m, U) = {}
    OBVIOUS
  <2>1. InDegree(m) = Cardinality(Into(m, U))
    BY DEF InDegree, Into
  <2>2. Cardinality(Into(m, U)) \in Nat /\ (Cardinality(Into(m, U)) = 0 <=> Into(m, U) = {})
    BY <1>1, IntoIs
  <2> QED BY <2>1, <2>2
<1> DEFINE st == [order |-> <<>>, indeg |-> [id \in Slots |-> InDegree(id)], ready |-> ready]
<1>5. Start = st
  BY DEF Start, ready
<1>6. st.order = <<>> /\ st.ready = ready /\ \A m \in Slots : st.indeg[m] = InDegree(m)
  OBVIOUS
<1>7. st \in States
  BY <1>3, <1>4 DEF States
<1> HIDE DEF st
<1>8. Range(st.order) = {} /\ IsInjective(st.order) /\ InOrder(st.order) /\ Unused(st) = U
  <2>1. DOMAIN st.order = {}
    BY <1>6
  <2>2. Range(st.order) = {}
    BY <2>1 DEF Range
  <2> QED BY <2>1, <2>2 DEF IsInjective, InOrder, Unused
<1>9. \A m \in Slots : Into(m, U) = {} <=> m \in Range(st.order) \cup Range(st.ready)
  <2>1. \A m \in Slots : m \in Range(ready) <=> InDegree(m) = 0
    BY <1>3, <1>4
  <2> QED BY <1>4, <1>6, <1>8, <2>1
<1>10. Sound(st, U)
  BY <1>3, <1>4, <1>6, <1>7, <1>8, <1>9 DEF Sound
<1> QED BY <1>5, <1>8, <1>10 DEF Underway

\* The rounds of Kahn's algorithm.
LEMMA KahnIn ==
  ASSUME TypeOK
  PROVE  \E f : /\ Kahn = f[Len(nodes)] /\ f[0] = Start
                /\ \A k \in 1 .. Len(nodes) : f[k] = Take(f[k - 1])
<1> DEFINE n == Len(nodes)
           K == {st \in States : Underway(st)}
           F == [x \in K \X Nat |-> Take(x[1])]
           Eq(f) == f = [k \in 0 .. n |-> IF k = 0 THEN Start ELSE Take(f[k - 1])]
           after == CHOOSE f : Eq(f)
<1>1. n \in Nat
  BY DEF TypeOK
<1>2. \A st : Underway(st) => st \in States
  BY DEF Underway, Sound
<1>3. F \in [K \X Nat -> K] /\ Start \in K
  <2>1. \A st \in K : Take(st) \in K
    BY <1>2, TakeSound
  <2> QED BY <1>2, <2>1, StartSound
<1>4. Kahn = after[n]
  BY DEF Kahn, Start, n
<1>5. \A st \in K, k \in Nat : F[<<st, k>>] = Take(st)
  OBVIOUS
<1> HIDE DEF F, n, K
<1>6. \A k \in 0 .. n : 0 \in 0 .. n /\ (k # 0 => k \in 1 .. n)
  BY <1>1
<1>7. \A k \in 1 .. n : k - 1 \in 0 .. n /\ k \in 0 .. n /\ k # 0 /\ k \in Nat
  BY <1>1
<1>8. PICK g : g \in Rounds(K, F, Start, n)
  BY <1>1, <1>3, RoundsExist
<1>9. Eq(g)
  <2>1. \A k \in 1 .. n : g[k] = Take(g[k - 1])
    BY <1>5, <1>7, <1>8 DEF Rounds
  <2> QED BY <1>6, <1>8, <2>1 DEF Rounds
<1>10. Eq(after)
  BY <1>9
<1> HIDE DEF after
<1>11. after[0] = Start /\ \A k \in 1 .. n : after[k] = Take(after[k - 1])
  BY <1>1, <1>6, <1>7, <1>10
<1> QED BY <1>4, <1>11 DEF n

\* An injective sequence is as long as its range is large.
LEMMA LengthIs ==
  ASSUME NEW S, NEW q \in Seq(S), IsInjective(q)
  PROVE  IsFiniteSet(Range(q)) /\ Cardinality(Range(q)) = Len(q)
<1>1. Len(q) \in Nat /\ DOMAIN q = 1 .. Len(q) /\ q \in [1 .. Len(q) -> S]
  OBVIOUS
<1>2. IsFiniteSet(1 .. Len(q)) /\ Cardinality(1 .. Len(q)) = Len(q)
  BY <1>1, FS_Interval
<1> DEFINE T == Range(q)
           D == 1 .. Len(q)
<1>3. q \in Bijection(D, T)
  <2>1. q \in [D -> T] /\ \A x, y \in D : q[x] = q[y] => x = y
    BY <1>1 DEF IsInjective, Range
  <2>2. \A t \in T : \E x \in D : q[x] = t
    BY <1>1 DEF Range
  <2> QED BY <2>1, <2>2 DEF Bijection, Injection, Surjection
<1>4. ExistsBijection(D, T)
  BY <1>3 DEF ExistsBijection
<1> HIDE DEF T, D
<1>5. IsFiniteSet(D)
  BY <1>2 DEF D
<1>6. IsFiniteSet(T) /\ Cardinality(T) = Cardinality(D)
  BY <1>4, <1>5, FS_Bijection
<1> QED BY <1>2, <1>6 DEF T, D

LEMMA SlotsAre ==
  ASSUME TypeOK
  PROVE  Len(nodes) \in Nat /\ IsFiniteSet(Slots) /\ Cardinality(Slots) = Len(nodes)
<1> DEFINE n == Len(nodes)
<1>1. n \in Nat
  BY DEF TypeOK
<1> HIDE DEF n
<1>2. IsFiniteSet(1 .. n) /\ Cardinality(1 .. n) = IF 1 > n THEN 0 ELSE n - 1 + 1
  BY <1>1, FS_Interval
<1>3. (IF 1 > n THEN 0 ELSE n - 1 + 1) = n
  BY <1>1
<1> QED BY <1>1, <1>2, <1>3 DEF Slots, n

\* The stack of build() runs empty, and what it has put in order by then is in order;
\* in a graph without a cycle that is every slot.
LEMMA KahnSorts ==
  ASSUME TypeOK
  PROVE  /\ Underway(Kahn) /\ Kahn.ready = <<>>
         /\ Acyclic => Range(Order) = Slots /\ Len(Order) = Len(nodes)
<1> DEFINE n == Len(nodes)
<1>1. n \in Nat /\ IsFiniteSet(Slots) /\ Cardinality(Slots) = n
  BY SlotsAre
<1>2. PICK f : /\ Kahn = f[n] /\ f[0] = Start
               /\ \A k \in 1 .. n : f[k] = Take(f[k - 1])
  BY KahnIn
<1> HIDE DEF n
<1> DEFINE T == {k \in Nat : k <= n => /\ Underway(f[k])
                                       /\ f[k].ready = <<>> \/ Len(f[k].order) = k}
<1>3. 0 \in T
  <2>1. Len(Start.order) = 0
    BY DEF Start
  <2> QED BY <1>2, <2>1, StartSound
<1>4. ASSUME NEW k \in T PROVE k + 1 \in T
  <2> SUFFICES ASSUME k + 1 <= n
               PROVE  /\ Underway(f[k + 1])
                      /\ f[k + 1].ready = <<>> \/ Len(f[k + 1].order) = k + 1
    OBVIOUS
  <2> DEFINE a == f[k]
             b == f[k + 1]
  <2>1. k + 1 \in 1 .. n /\ (k + 1) - 1 = k /\ Underway(a) /\ (a.ready = <<>> \/ Len(a.order) = k)
    BY <1>1
  <2>2. b = Take(a)
    BY <1>2, <2>1
  <2> HIDE DEF a, b, T
  <2>3. /\ Underway(Take(a)) /\ (a.ready = <<>> => Take(a) = a)
        /\ a.ready # <<>> => Len(Take(a).order) = Len(a.order) + 1
    BY <2>1, TakeSound
  <2>4. Underway(b) /\ (b.ready = <<>> \/ Len(b.order) = k + 1)
    BY <2>1, <2>2, <2>3
  <2> QED BY <2>4 DEF b
<1> HIDE DEF T
<1>5. T = Nat
  <2>1. T \in SUBSET Nat
    BY DEF T
  <2> QED BY <1>3, <1>4, <2>1, Induction
<1> DEFINE st == Kahn
<1>6. Underway(st) /\ (st.ready = <<>> \/ Len(st.order) = n)
  <2>1. n \in T /\ n <= n
    BY <1>1, <1>5
  <2> QED BY <1>2, <2>1 DEF T
<1> HIDE DEF st
<1>7. /\ st.order \in Seq(Slots) /\ st.ready \in Seq(Slots)
      /\ IsInjective(st.order) /\ Range(st.order) \cap Range(st.ready) = {}
      /\ \A m \in Slots : Into(m, Unused(st)) = {} <=> m \in Range(st.order) \cup Range(st.ready)
  BY <1>6 DEF Underway, Sound, States
<1>8. Range(st.order) \subseteq Slots /\ Range(st.ready) \subseteq Slots
  BY <1>7 DEF Range
<1>9. IsFiniteSet(Range(st.order)) /\ Cardinality(Range(st.order)) = Len(st.order)
  BY <1>7, LengthIs
<1>10. st.ready = <<>>
  <2> SUFFICES ASSUME st.ready # <<>> PROVE FALSE
    OBVIOUS
  <2>1. Len(st.order) = n
    BY <1>6
  <2>2. Range(st.order) = Slots
    BY <1>1, <1>8, <1>9, <2>1, FS_Subset
  <2>3. Len(st.ready) \in Nat /\ Len(st.ready) # 0
    BY <1>7
  <2>4. st.ready[1] \in Range(st.ready)
    BY <1>7, <2>3 DEF Range
  <2> QED BY <1>7, <1>8, <2>2, <2>4
<1>11. ASSUME Acyclic PROVE Range(st.order) = Slots /\ Len(st.order) = n
  <2> DEFINE S == Slots \ Range(st.order)
  <2>1. S = {}
    <3> SUFFICES ASSUME S # {} PROVE FALSE
      OBVIOUS
    <3>1. S \in (SUBSET Slots) \ {{}}
      OBVIOUS
    <3> HIDE DEF S
    <3>2. PICK v \in S : \A e \in Range(edges) : e.dst = v => e.src \notin S
      BY <1>11, <3>1 DEF Acyclic
    <3>3. v \in Slots /\ v \notin Range(st.order)
      BY DEF S
    <3>4. ASSUME NEW k \in DOMAIN edges, edges[k].dst = v PROVE k \notin Unused(st)
      <4>1. edges[k].src \in Slots /\ edges[k] \in Range(edges)
        BY EdgeEnds DEF Range
      <4>2. edges[k].src \in Range(st.order)
        BY <3>2, <3>4, <4>1 DEF S
      <4> QED BY <4>2 DEF Unused
    <3>5. Into(v, Unused(st)) = {}
      BY <3>4 DEF Into, Unused
    <3>6. Range(st.ready) = {}
      BY <1>10 DEF Range
    <3> QED BY <1>7, <3>3, <3>5, <3>6
  <2>2. Range(st.order) = Slots
    BY <1>8, <2>1
  <2> QED BY <1>1, <1>9, <2>2
<1> QED BY <1>6, <1>10, <1>11 DEF st, Order, n

\* What the order of a valid graph is.
Topological(q) ==
  /\ q \in Seq(Slots) /\ Len(q) = Len(nodes) /\ Range(q) = Slots /\ IsInjective(q) /\ InOrder(q)

LEMMA OrderIs ==
  ASSUME TypeOK, Acyclic
  PROVE  Topological(Order)
<1> DEFINE st == Kahn
<1>1. Underway(st) /\ Range(st.order) = Slots /\ Len(st.order) = Len(nodes)
  BY KahnSorts DEF Order
<1> HIDE DEF st
<1>2. Topological(st.order)
  BY <1>1 DEF Topological, Underway, Sound, States
<1> QED BY <1>2 DEF st, Order

\* Nodes that are all in order have no cycle: the first of a set has no edge from it.
LEMMA OnlyWithoutCycle ==
  ASSUME TypeOK, Len(Order) = Len(nodes)
  PROVE  Acyclic
<1> DEFINE q == Order
<1>1. /\ q \in Seq(Slots) /\ IsInjective(q) /\ InOrder(q)
  BY KahnSorts DEF Underway, Sound, States, Order
<1> HIDE DEF q
<1>2. /\ Len(q) \in Nat /\ DOMAIN q = 1 .. Len(q) /\ Range(q) \subseteq Slots
  BY <1>1 DEF Range
<1>3. Range(q) = Slots
  <2>1. IsFiniteSet(Slots) /\ Cardinality(Slots) = Len(nodes)
    BY SlotsAre
  <2>2. Cardinality(Range(q)) = Len(q) /\ Len(q) = Len(nodes)
    BY <1>1, LengthIs DEF q
  <2> QED BY <1>2, <2>1, <2>2, FS_Subset
<1> SUFFICES ASSUME NEW S \in (SUBSET Slots) \ {{}}
             PROVE  \E v \in S : \A e \in Range(edges) : e.dst = v => e.src \notin S
  BY DEF Acyclic
<1> DEFINE I == {i \in DOMAIN q : q[i] \in S}
<1>4. I \in SUBSET Nat /\ I # {}
  <2>1. PICK v \in S : v \in Range(q)
    BY <1>3
  <2> QED BY <1>2, <2>1 DEF Range
<1> HIDE DEF I
<1>5. PICK i \in I : \A k \in I : i <= k
  BY <1>4, LeastNatural
<1>6. i \in DOMAIN q /\ q[i] \in S /\ i \in Nat
  BY <1>4 DEF I
<1>7. ASSUME NEW e \in Range(edges), e.dst = q[i] PROVE e.src \notin S
  <2>1. PICK k \in DOMAIN edges : e = edges[k]
    BY DEF Range
  <2>2. PICK h \in 1 .. i - 1 : q[h] = e.src
    BY <1>1, <1>6, <1>7, <2>1 DEF InOrder
  <2>3. h \in DOMAIN q /\ h < i
    BY <1>2, <1>6
  <2>4. h \notin I
    BY <1>5, <1>6, <2>3
  <2> QED BY <2>2, <2>3, <2>4 DEF I
<1> QED BY <1>6, <1>7

-----------------------------------------------------------------------------
(* The search for a cycle.                                                 *)

Finds == [cycle : BOOLEAN, colour : Colourings]
Searches == [Slots \X Colourings -> Finds]

Painted(colour, c) == {v \in Slots : colour[v] = c}

\* No edge leads out of T.
Shut(T) == \A e \in Range(edges) : e.src \in T => e.dst \in T

\* There is a way from u to v.
Reaches(u, v) == \A T \in SUBSET Slots : Shut(T) /\ u \in T => v \in T

\* What the search is done with has no edge out of it, and no cycle in it.
Searched(B) ==
  /\ Shut(B)
  /\ \A S \in (SUBSET B) \ {{}} : \E v \in S : \A e \in Range(edges) : e.dst = v => e.src \notin S

\* What a search may return when the nodes of G are on the stack and it had to look at those of B.
Correct(found, G, B) ==
  /\ found \in Finds
  /\ found.cycle => ~Acyclic
  /\ ~found.cycle => /\ Painted(found.colour, "gray") = G
                     /\ B \subseteq Painted(found.colour, "black")
                     /\ Searched(Painted(found.colour, "black"))

\* hasCycleFrom(n) may be called: there is a way to n from all that is on the stack.
Callable(n, colour) ==
  /\ n \in Slots /\ colour \in Colourings /\ colour[n] = "white"
  /\ Searched(Painted(colour, "black"))
  /\ \A g \in Painted(colour, "gray") : Reaches(g, n)

\* A search that is right as long as no more than d nodes are white.
RightTo(search, d) ==
  /\ search \in Searches
  /\ \A n \in Slots, colour \in Colourings :
       Callable(n, colour) /\ Cardinality(Painted(colour, "white")) <= d =>
         Correct(search[<<n, colour>>], Painted(colour, "gray"), Painted(colour, "black") \cup {n})

LEMMA EdgesAre ==
  ASSUME TypeOK
  PROVE  /\ Len(edges) \in Nat /\ DOMAIN edges = 1 .. Len(edges)
         /\ \A k \in 1 .. Len(edges) : edges[k] \in Range(edges)
         /\ \A e \in Range(edges) : e.src \in Slots /\ e.dst \in Slots
<1>1. Len(edges) \in Nat /\ DOMAIN edges = 1 .. Len(edges)
  BY DEF TypeOK
<1>2. \A e \in Range(edges) : e.src \in Slots /\ e.dst \in Slots
  BY DEF TypeOK, Live
<1> QED BY <1>1, <1>2 DEF Range

\* A way that an edge leads back is a cycle: what m reaches has no first node.
LEMMA WayBack ==
  ASSUME TypeOK, NEW e \in Range(edges), Reaches(e.dst, e.src)
  PROVE  ~Acyclic
<1> DEFINE m == e.dst
           S == {v \in Slots : Reaches(m, v)}
<1>1. m \in Slots /\ e.src \in Slots /\ \A d \in Range(edges) : d.src \in Slots /\ d.dst \in Slots
  BY EdgesAre
<1>2. m \in S /\ e.src \in S
  BY <1>1 DEF Reaches
<1>3. Shut(S)
  BY <1>1 DEF Reaches, Shut
<1>4. ASSUME NEW v \in S PROVE \E d \in Range(edges) : d.dst = v /\ d.src \in S
  <2>1. CASE v = m
    BY <1>2, <2>1
  <2>2. CASE v # m
    <3> SUFFICES ASSUME \A d \in Range(edges) : d.dst = v => d.src \notin S PROVE FALSE
      OBVIOUS
    <3> DEFINE R == S \ {v}
    <3>1. R \in SUBSET Slots /\ m \in R /\ v \notin R
      BY <1>2, <2>2
    <3>2. Shut(R)
      BY <1>3 DEF Shut
    <3>3. Reaches(m, v)
      OBVIOUS
    <3> HIDE DEF R, S, m
    <3> QED BY <3>1, <3>2, <3>3 DEF Reaches
  <2> QED BY <2>1, <2>2
<1>5. S \in (SUBSET Slots) \ {{}}
  BY <1>2
<1> HIDE DEF S
<1> QED BY <1>4, <1>5 DEF Acyclic

\* An edge goes on with a way.
LEMMA WayOn ==
  ASSUME TypeOK, NEW e \in Range(edges), NEW g, Reaches(g, e.src)
  PROVE  Reaches(g, e.dst)
  BY DEF Reaches, Shut

\* Nodes that are white are neither.
LEMMA WhitesAre ==
  ASSUME TypeOK, NEW colour \in Colourings, NEW G, NEW B,
         G \subseteq Painted(colour, "gray"), B \subseteq Painted(colour, "black")
  PROVE  /\ IsFiniteSet(Slots \ (G \cup B)) /\ Cardinality(Slots \ (G \cup B)) \in Nat
         /\ Cardinality(Painted(colour, "white")) \in Nat
         /\ Cardinality(Painted(colour, "white")) <= Cardinality(Slots \ (G \cup B))
<1> DEFINE W == Painted(colour, "white")
           R == Slots \ (G \cup B)
<1>1. IsFiniteSet(Slots)
  BY SlotsAre
<1>2. W \subseteq R /\ R \subseteq Slots
  BY DEF Painted
<1> HIDE DEF W, R
<1>3. IsFiniteSet(R)
  BY <1>1, <1>2, FS_Subset
<1>4. IsFiniteSet(W) /\ Cardinality(W) <= Cardinality(R)
  BY <1>2, <1>3, FS_Subset
<1>5. Cardinality(W) \in Nat /\ Cardinality(R) \in Nat
  BY <1>3, <1>4, FS_CardinalityType
<1> QED BY <1>3, <1>4, <1>5 DEF W, R

LEMMA LookIs ==
  ASSUME NEW search \in Searches, NEW found \in Finds, NEW m \in Slots
  PROVE  Look(search, found, m) \in Finds
<1>1. found.colour \in Colourings /\ found.cycle \in BOOLEAN
  BY DEF Finds
<1>2. search[<<m, found.colour>>] \in Finds
  BY <1>1 DEF Searches
<1>3. [found EXCEPT !.cycle = TRUE] \in Finds
  BY DEF Finds
<1> QED BY <1>2, <1>3 DEF Look

\* Going on to a successor of the last node on the stack.
LEMMA LookCorrect ==
  ASSUME TypeOK, NEW d \in Nat, NEW search, RightTo(search, d), NEW e \in Range(edges),
         NEW G, \A g \in G : Reaches(g, e.src), NEW B,
         NEW found, Correct(found, G, B), Cardinality(Slots \ (G \cup B)) <= d
  PROVE  Correct(Look(search, found, e.dst), G, B \cup {e.dst})
<1> DEFINE m == e.dst
           colour == found.colour
<1>1. found \in Finds /\ colour \in Colourings /\ m \in Slots /\ search \in Searches
  BY EdgesAre DEF Correct, Finds, RightTo
<1>2. Look(search, found, m) \in Finds
  BY <1>1, LookIs
<1>3. \A g \in G : Reaches(g, m)
  BY WayOn
<1>4. CASE found.cycle
  BY <1>1, <1>4 DEF Correct, Look
<1>5. CASE ~found.cycle /\ colour[m] = "black"
  <2>1. Look(search, found, m) = found
    BY <1>5 DEF Look
  <2>2. m \in Painted(colour, "black")
    BY <1>1, <1>5 DEF Painted
  <2> QED BY <1>5, <2>1, <2>2 DEF Correct
<1>6. CASE ~found.cycle /\ colour[m] = "gray"
  <2>1. Look(search, found, m) = [found EXCEPT !.cycle = TRUE]
    BY <1>6 DEF Look
  <2>2. m \in G
    BY <1>1, <1>6 DEF Correct, Painted
  <2>3. ~Acyclic
    BY <2>2, WayBack
  <2>4. Look(search, found, m).cycle
    BY <1>1, <2>1 DEF Finds
  <2> QED BY <1>2, <2>3, <2>4 DEF Correct
<1>7. CASE ~found.cycle /\ colour[m] = "white"
  <2>1. Look(search, found, m) = search[<<m, colour>>]
    BY <1>7 DEF Look
  <2>2. /\ Painted(colour, "gray") = G /\ B \subseteq Painted(colour, "black")
        /\ Searched(Painted(colour, "black"))
    BY <1>7 DEF Correct
  <2> HIDE DEF m, colour
  <2>3. Callable(m, colour)
    BY <1>1, <1>3, <1>7, <2>2 DEF Callable
  <2>4. Cardinality(Painted(colour, "white")) <= d
    <3>1. /\ Cardinality(Slots \ (G \cup B)) \in Nat /\ Cardinality(Painted(colour, "white")) \in Nat
          /\ Cardinality(Painted(colour, "white")) <= Cardinality(Slots \ (G \cup B))
      BY <1>1, <2>2, WhitesAre
    <3> QED BY <3>1
  <2>5. Correct(search[<<m, colour>>], G, Painted(colour, "black") \cup {m})
    BY <1>1, <2>2, <2>3, <2>4 DEF RightTo
  <2>6. Correct(search[<<m, colour>>], G, B \cup {m})
    BY <2>2, <2>5 DEF Correct
  <2> QED BY <2>1, <2>6 DEF m
<1>8. colour[m] \in {"white", "gray", "black"}
  BY <1>1 DEF Colourings
<1> QED BY <1>4, <1>5, <1>6, <1>7, <1>8

-----------------------------------------------------------------------------
\* The loop of hasCycleFrom(), before it, in a round, and after it.
Begun(n, colour) == [cycle |-> FALSE, colour |-> [colour EXCEPT ![n] = "gray"]]
Follow(search, n, found, e) == IF e.src = n THEN Look(search, found, e.dst) ELSE found
Ended(found, n) == IF found.cycle THEN found ELSE [found EXCEPT !.colour[n] = "black"]

LEMMA BegunIs ==
  ASSUME NEW n \in Slots, NEW colour \in Colourings
  PROVE  /\ Begun(n, colour) \in Finds /\ ~Begun(n, colour).cycle
         /\ \A v \in Slots : Begun(n, colour).colour[v] = IF v = n THEN "gray" ELSE colour[v]
  BY DEF Begun, Finds, Colourings

LEMMA EndedIs ==
  ASSUME NEW n \in Slots, NEW found \in Finds, ~found.cycle
  PROVE  /\ Ended(found, n) \in Finds /\ ~Ended(found, n).cycle
         /\ \A v \in Slots : Ended(found, n).colour[v] = IF v = n THEN "black" ELSE found.colour[v]
<1>1. PICK x, c : x = found.colour /\ c = [x EXCEPT ![n] = "black"]
  OBVIOUS
<1>2. c \in Colourings /\ \A v \in Slots : c[v] = IF v = n THEN "black" ELSE x[v]
  BY <1>1 DEF Finds, Colourings
<1>3. Ended(found, n) = [found EXCEPT !.colour = c]
  BY <1>1 DEF Ended
<1>4. [found EXCEPT !.colour = c] \in Finds
  BY <1>2 DEF Finds
<1>5. [found EXCEPT !.colour = c].colour = c /\ [found EXCEPT !.colour = c].cycle = found.cycle
  BY DEF Finds
<1> QED BY <1>1, <1>2, <1>3, <1>4, <1>5

LEMMA FromIn ==
  ASSUME TypeOK, NEW search \in Searches, NEW n \in Slots, NEW colour \in Colourings
  PROVE  \E f : /\ f \in [0 .. Len(edges) -> Finds] /\ f[0] = Begun(n, colour)
                /\ \A k \in 1 .. Len(edges) : f[k] = Follow(search, n, f[k - 1], edges[k])
                /\ HasCycleFrom(search, n, colour) = Ended(f[Len(edges)], n)
<1> DEFINE N == Len(edges)
           F == [x \in Finds \X Nat |->
                  IF x[2] \in 1 .. N THEN Follow(search, n, x[1], edges[x[2]]) ELSE x[1]]
           base == Begun(n, colour)
           Eq(f) == f = [k \in 0 .. N |-> IF k = 0 THEN base
                                          ELSE IF edges[k].src = n THEN Look(search, f[k - 1], edges[k].dst)
                                          ELSE f[k - 1]]
           found == CHOOSE f : Eq(f)
<1>1. N \in Nat /\ base \in Finds
  BY EdgesAre, BegunIs
<1>2. \A k \in 1 .. N : edges[k].dst \in Slots
  BY EdgesAre
<1>3. F \in [Finds \X Nat -> Finds]
  <2>1. ASSUME NEW x \in Finds, NEW k \in 1 .. N PROVE Follow(search, n, x, edges[k]) \in Finds
    BY <1>2, LookIs DEF Follow
  <2> QED BY <2>1
<1>4. HasCycleFrom(search, n, colour) = Ended(found[N], n)
  BY DEF HasCycleFrom, Ended, Begun
<1>5. \A x \in Finds, k \in 1 .. N : F[<<x, k>>] = Follow(search, n, x, edges[k])
  BY <1>1
<1> HIDE DEF F, N, base
<1>6. \A k \in 0 .. N : 0 \in 0 .. N /\ (k # 0 => k \in 1 .. N)
  BY <1>1
<1>7. \A k \in 1 .. N : k - 1 \in 0 .. N /\ k \in 0 .. N /\ k # 0 /\ k \in Nat
  BY <1>1
<1>8. PICK g : g \in Rounds(Finds, F, base, N)
  BY <1>1, <1>3, RoundsExist
<1>9. g \in [0 .. N -> Finds] /\ g[0] = base /\ \A k \in 1 .. N : g[k] = Follow(search, n, g[k - 1], edges[k])
  BY <1>5, <1>7, <1>8 DEF Rounds
<1>10. Eq(g)
  BY <1>6, <1>9 DEF Follow
<1>11. Eq(found)
  BY <1>10
<1> HIDE DEF found
<1>12. found[0] = base /\ \A k \in 1 .. N : found[k] = Follow(search, n, found[k - 1], edges[k])
  BY <1>6, <1>7, <1>11, <1>1 DEF Follow
<1>13. found \in Rounds(Finds, F, base, N)
  <2>1. found = [k \in 0 .. N |-> found[k]]
    BY <1>11
  <2>2. \A k \in 1 .. N : found[k - 1] \in Finds => found[k] = F[<<found[k - 1], k>>]
    BY <1>5, <1>12
  <2> QED BY <1>1, <1>3, <1>12, <2>1, <2>2, LoopIn
<1>14. found \in [0 .. N -> Finds]
  BY <1>13 DEF Rounds
<1> QED BY <1>4, <1>12, <1>14 DEF N, base

LEMMA FromCorrect ==
  ASSUME TypeOK, NEW d \in Nat, NEW search, RightTo(search, d), NEW n, NEW colour, Callable(n, colour),
         Cardinality(Painted(colour, "white")) <= d + 1
  PROVE  Correct(HasCycleFrom(search, n, colour), Painted(colour, "gray"), Painted(colour, "black") \cup {n})
<1> DEFINE N == Len(edges)
           G == Painted(colour, "gray") \cup {n}
           B == Painted(colour, "black")
           Upto(k) == B \cup {edges[i].dst : i \in {j \in 1 .. k : edges[j].src = n}}
<1>1. /\ N \in Nat /\ DOMAIN edges = 1 .. N
      /\ \A k \in 1 .. N : edges[k] \in Range(edges) /\ edges[k].src \in Slots /\ edges[k].dst \in Slots
  BY EdgesAre
<1>2. /\ search \in Searches /\ n \in Slots /\ colour \in Colourings /\ colour[n] = "white"
      /\ Searched(B) /\ \A g \in Painted(colour, "gray") : Reaches(g, n)
  BY DEF RightTo, Callable
<1>3. \A g \in G : Reaches(g, n)
  BY <1>2 DEF Reaches
<1>4. \A k : Cardinality(Slots \ (G \cup Upto(k))) <= d
  <2> TAKE k
  <2> DEFINE W == Painted(colour, "white")
             R == Slots \ (G \cup Upto(k))
  <2>1. IsFiniteSet(Slots)
    BY SlotsAre
  <2>2. n \in W /\ W \subseteq Slots
    BY <1>2 DEF Painted
  <2>3. R \subseteq W \ {n}
    BY <1>2 DEF Painted, Colourings
  <2>4. IsFiniteSet(W) /\ Cardinality(W) \in Nat /\ Cardinality(W) <= d + 1
    BY <2>1, <2>2, FS_Subset, FS_CardinalityType
  <2> HIDE DEF W, R
  <2>5. IsFiniteSet(W \ {n}) /\ Cardinality(W \ {n}) = Cardinality(W) - 1
    BY <2>2, <2>4, FS_RemoveElement
  <2>6. IsFiniteSet(R) /\ Cardinality(R) <= Cardinality(W \ {n})
    BY <2>3, <2>5, FS_Subset
  <2>7. Cardinality(R) \in Nat
    BY <2>6, FS_CardinalityType
  <2> QED BY <2>4, <2>5, <2>6, <2>7 DEF R
<1>5. PICK f : /\ f \in [0 .. N -> Finds] /\ f[0] = Begun(n, colour)
               /\ \A k \in 1 .. N : f[k] = Follow(search, n, f[k - 1], edges[k])
               /\ HasCycleFrom(search, n, colour) = Ended(f[N], n)
  BY <1>2, FromIn
<1> HIDE DEF N
<1> DEFINE T == {k \in Nat : k <= N => Correct(f[k], G, Upto(k))}
<1>6. 0 \in T
  <2>1. /\ f[0] \in Finds /\ ~f[0].cycle
        /\ \A v \in Slots : f[0].colour[v] = IF v = n THEN "gray" ELSE colour[v]
    BY <1>2, <1>5, BegunIs
  <2>2. Upto(0) = B
    OBVIOUS
  <2>3. Painted(f[0].colour, "gray") = G
    BY <1>2, <2>1 DEF Painted
  <2>4. Painted(f[0].colour, "black") = B
    BY <1>2, <2>1 DEF Painted
  <2> HIDE DEF Upto, G, B
  <2>5. Correct(f[0], G, Upto(0))
    BY <1>2, <2>1, <2>2, <2>3, <2>4 DEF Correct
  <2> QED BY <2>5
<1>7. ASSUME NEW k \in T PROVE k + 1 \in T
  <2> SUFFICES ASSUME k + 1 <= N PROVE Correct(f[k + 1], G, Upto(k + 1))
    OBVIOUS
  <2>1. PICK i : i = k + 1
    OBVIOUS
  <2>2. k \in Nat /\ i \in 1 .. N /\ i - 1 = k /\ Correct(f[k], G, Upto(k)) /\ 1 .. i = (1 .. k) \cup {i}
    BY <1>1, <2>1
  <2>3. f[i] = Follow(search, n, f[k], edges[i]) /\ edges[i] \in Range(edges)
    BY <1>1, <1>5, <2>2
  <2>4. CASE edges[i].src = n
    <3>1. f[i] = Look(search, f[k], edges[i].dst)
      BY <2>3, <2>4 DEF Follow
    <3>2. Upto(i) = Upto(k) \cup {edges[i].dst}
      BY <2>2, <2>4
    <3>3. PICK U, e, x : U = Upto(k) /\ e = edges[i] /\ x = f[k]
      OBVIOUS
    <3>4. /\ Cardinality(Slots \ (G \cup U)) <= d /\ e \in Range(edges) /\ Correct(x, G, U)
          /\ \A g \in G : Reaches(g, e.src)
      BY <1>3, <1>4, <2>2, <2>3, <2>4, <3>3
    <3> HIDE DEF Upto, G, T
    <3>5. Correct(Look(search, x, e.dst), G, U \cup {e.dst})
      BY <3>4, LookCorrect
    <3> QED BY <2>1, <3>1, <3>2, <3>3, <3>5
  <2>5. CASE edges[i].src # n
    <3>1. f[i] = f[k]
      BY <2>3, <2>5 DEF Follow
    <3>2. Upto(i) = Upto(k)
      BY <2>2, <2>5
    <3> HIDE DEF Upto, G, T
    <3> QED BY <2>1, <2>2, <3>1, <3>2
  <2> QED BY <2>4, <2>5
<1> HIDE DEF T
<1>8. T = Nat
  <2>1. T \in SUBSET Nat
    BY DEF T
  <2> QED BY <1>6, <1>7, <2>1, Induction
<1>9. Correct(f[N], G, Upto(N))
  <2>1. N \in T /\ N <= N
    BY <1>1, <1>8
  <2> QED BY <2>1 DEF T
<1>10. PICK x : x = f[N]
  OBVIOUS
<1>11. x \in Finds /\ Correct(x, G, Upto(N)) /\ HasCycleFrom(search, n, colour) = Ended(x, n)
  BY <1>1, <1>5, <1>9, <1>10
<1>12. CASE x.cycle
  <2>1. Ended(x, n) = x
    BY <1>12 DEF Ended
  <2> QED BY <1>11, <1>12, <2>1 DEF Correct
<1>13. CASE ~x.cycle
  <2> DEFINE z == Ended(x, n)
             D == Painted(x.colour, "black")
  <2>1. /\ z \in Finds /\ ~z.cycle
        /\ \A v \in Slots : z.colour[v] = IF v = n THEN "black" ELSE x.colour[v]
    BY <1>2, <1>11, <1>13, EndedIs
  <2>2. /\ Painted(x.colour, "gray") = G /\ Upto(N) \subseteq D /\ Searched(D)
    BY <1>11, <1>13 DEF Correct
  <2> HIDE DEF z
  <2>3. n \notin D /\ D \subseteq Slots
    BY <2>2 DEF Painted
  <2>4. \A e \in Range(edges) : e.src = n => e.dst \in D
    <3> SUFFICES ASSUME NEW e \in Range(edges), e.src = n PROVE e.dst \in D
      OBVIOUS
    <3>1. PICK j \in 1 .. N : e = edges[j]
      BY <1>1 DEF Range
    <3>2. e.dst \in Upto(N)
      BY <3>1
    <3> HIDE DEF Upto, D
    <3> QED BY <2>2, <3>2
  <2>5. Painted(z.colour, "black") = D \cup {n}
    BY <1>2, <2>1 DEF Painted
  <2>6. Painted(z.colour, "gray") = Painted(colour, "gray")
    <3>1. n \notin Painted(colour, "gray") /\ Painted(colour, "gray") \subseteq Slots
      BY <1>2 DEF Painted
    <3>2. Painted(z.colour, "gray") = Painted(x.colour, "gray") \ {n}
      BY <1>2, <2>1 DEF Painted
    <3> QED BY <2>2, <3>1, <3>2
  <2> HIDE DEF D
  <2>7. Searched(D \cup {n})
    <3>1. Shut(D) /\ \A S \in (SUBSET D) \ {{}} : \E v \in S : \A e \in Range(edges) : e.dst = v => e.src \notin S
      BY <2>2 DEF Searched
    <3>2. Shut(D \cup {n})
      BY <2>4, <3>1 DEF Shut
    <3>3. \A e \in Range(edges) : e.dst = n => e.src \notin D \cup {n}
      BY <2>3, <2>4, <3>1 DEF Shut
    <3>4. ASSUME NEW S \in (SUBSET (D \cup {n})) \ {{}}
          PROVE  \E v \in S : \A e \in Range(edges) : e.dst = v => e.src \notin S
      <4>1. CASE n \in S
        BY <3>3, <4>1
      <4>2. CASE n \notin S
        <5>1. S \in (SUBSET D) \ {{}}
          BY <4>2
        <5> QED BY <3>1, <5>1
      <4> QED BY <4>1, <4>2
    <3> QED BY <3>2, <3>4 DEF Searched
  <2>8. B \cup {n} \subseteq D \cup {n}
    BY <2>2
  <2> HIDE DEF B, Upto, G
  <2>9. Correct(z, Painted(colour, "gray"), B \cup {n})
    BY <2>1, <2>5, <2>6, <2>7, <2>8 DEF Correct
  <2> QED BY <1>11, <2>9 DEF z, B
<1> QED BY <1>12, <1>13

\* One more call may nest.
Deeper(search) == [call \in Slots \X Colourings |-> HasCycleFrom(search, call[1], call[2])]
Shallow == [call \in Slots \X Colourings |-> Unseen]

LEMMA UnseenIs ==
  /\ Unseen \in Finds /\ ~Unseen.cycle
  /\ \A v \in Slots : Unseen.colour[v] = "white"
  BY DEF Unseen, Finds, Colourings

LEMMA FromType ==
  ASSUME TypeOK, NEW search \in Searches, NEW n \in Slots, NEW colour \in Colourings
  PROVE  HasCycleFrom(search, n, colour) \in Finds
<1>1. Len(edges) \in Nat
  BY EdgesAre
<1>2. PICK f : /\ f \in [0 .. Len(edges) -> Finds]
               /\ HasCycleFrom(search, n, colour) = Ended(f[Len(edges)], n)
  BY FromIn
<1>3. PICK x : x = f[Len(edges)]
  OBVIOUS
<1>4. x \in Finds
  BY <1>1, <1>2, <1>3
<1>5. CASE x.cycle
  BY <1>2, <1>3, <1>4, <1>5 DEF Ended
<1>6. CASE ~x.cycle
  BY <1>2, <1>3, <1>4, <1>6, EndedIs
<1> QED BY <1>5, <1>6

LEMMA SearchIn ==
  ASSUME TypeOK
  PROVE  \E f : /\ Search = f[Len(nodes)] /\ f[0] = Shallow
                /\ \A k \in 1 .. Len(nodes) : f[k] = Deeper(f[k - 1])
                /\ \A k \in 0 .. Len(nodes) : f[k] \in Searches
<1> DEFINE n == Len(nodes)
           F == [x \in Searches \X Nat |-> Deeper(x[1])]
           Eq(f) == f = [k \in 0 .. n |-> IF k = 0 THEN Shallow ELSE Deeper(f[k - 1])]
           search == CHOOSE f : Eq(f)
<1>1. n \in Nat /\ Shallow \in Searches
  BY SlotsAre, UnseenIs DEF Shallow, Searches
<1>2. F \in [Searches \X Nat -> Searches]
  <2>1. ASSUME NEW s \in Searches PROVE Deeper(s) \in Searches
    <3>1. \A call \in Slots \X Colourings : HasCycleFrom(s, call[1], call[2]) \in Finds
      BY FromType
    <3> QED BY <3>1 DEF Deeper, Searches
  <2> QED BY <2>1
<1>3. Search = search[n]
  BY DEF Search, Shallow, Deeper
<1>4. \A s \in Searches, k \in Nat : F[<<s, k>>] = Deeper(s)
  OBVIOUS
<1> HIDE DEF F, n
<1>5. \A k \in 0 .. n : 0 \in 0 .. n /\ (k # 0 => k \in 1 .. n)
  BY <1>1
<1>6. \A k \in 1 .. n : k - 1 \in 0 .. n /\ k \in 0 .. n /\ k # 0 /\ k \in Nat
  BY <1>1
<1>7. PICK g : g \in Rounds(Searches, F, Shallow, n)
  BY <1>1, <1>2, RoundsExist
<1>8. g \in [0 .. n -> Searches] /\ g[0] = Shallow /\ \A k \in 1 .. n : g[k] = Deeper(g[k - 1])
  BY <1>4, <1>6, <1>7 DEF Rounds
<1>9. Eq(g)
  BY <1>5, <1>8
<1>10. Eq(search)
  BY <1>9
<1> HIDE DEF search
<1>11. search[0] = Shallow /\ \A k \in 1 .. n : search[k] = Deeper(search[k - 1])
  BY <1>1, <1>5, <1>6, <1>10
<1>12. search \in Rounds(Searches, F, Shallow, n)
  <2>1. search = [k \in 0 .. n |-> search[k]]
    BY <1>10
  <2>2. \A k \in 1 .. n : search[k - 1] \in Searches => search[k] = F[<<search[k - 1], k>>]
    BY <1>4, <1>6, <1>11
  <2> QED BY <1>1, <1>2, <1>11, <2>1, <2>2, LoopIn
<1> QED BY <1>3, <1>11, <1>12 DEF Rounds, n

\* As no more nodes are white than there are slots, the search is right whenever it is called.
LEMMA SearchRight ==
  ASSUME TypeOK
  PROVE  RightTo(Search, Len(nodes))
<1> DEFINE n == Len(nodes)
<1>1. PICK f : /\ Search = f[n] /\ f[0] = Shallow
               /\ \A k \in 1 .. n : f[k] = Deeper(f[k - 1])
               /\ \A k \in 0 .. n : f[k] \in Searches
  BY SearchIn
<1>2. n \in Nat /\ IsFiniteSet(Slots)
  BY SlotsAre
<1> HIDE DEF n
<1> DEFINE T == {k \in Nat : k <= n => RightTo(f[k], k)}
<1>3. 0 \in T
  <2>1. f[0] \in Searches
    BY <1>1, <1>2
  <2>2. ASSUME NEW v \in Slots, NEW colour \in Colourings, Callable(v, colour),
               Cardinality(Painted(colour, "white")) <= 0
        PROVE  FALSE
    <3> DEFINE W == Painted(colour, "white")
    <3>1. v \in W /\ W \subseteq Slots
      BY <2>2 DEF Callable, Painted
    <3> HIDE DEF W
    <3>2. IsFiniteSet(W) /\ Cardinality(W) \in Nat
      BY <1>2, <3>1, FS_Subset, FS_CardinalityType
    <3>3. Cardinality(W) # 0
      BY <3>1, <3>2, FS_EmptySet
    <3> QED BY <2>2, <3>2, <3>3 DEF W
  <2> QED BY <2>1, <2>2 DEF RightTo
<1>4. ASSUME NEW k \in T PROVE k + 1 \in T
  <2> SUFFICES ASSUME k + 1 <= n PROVE RightTo(f[k + 1], k + 1)
    OBVIOUS
  <2>1. PICK i, s, r : i = k + 1 /\ s = f[k] /\ r = f[k + 1]
    OBVIOUS
  <2>2. k \in Nat /\ i \in 1 .. n /\ i - 1 = k /\ RightTo(s, k) /\ r = Deeper(s) /\ r \in Searches
    BY <1>1, <1>2, <2>1
  <2>3. ASSUME NEW v \in Slots, NEW colour \in Colourings, Callable(v, colour),
               Cardinality(Painted(colour, "white")) <= k + 1
        PROVE  Correct(r[<<v, colour>>], Painted(colour, "gray"), Painted(colour, "black") \cup {v})
    <3>1. r[<<v, colour>>] = HasCycleFrom(s, v, colour)
      BY <2>2 DEF Deeper
    <3>2. Correct(HasCycleFrom(s, v, colour), Painted(colour, "gray"), Painted(colour, "black") \cup {v})
      BY <2>2, <2>3, FromCorrect
    <3> QED BY <3>1, <3>2
  <2> QED BY <2>1, <2>2, <2>3 DEF RightTo
<1> HIDE DEF T
<1>5. T = Nat
  <2>1. T \in SUBSET Nat
    BY DEF T
  <2> QED BY <1>3, <1>4, <2>1, Induction
<1>6. n \in T /\ n <= n
  BY <1>2, <1>5
<1> QED BY <1>1, <1>6 DEF T, n

\* The loop of validate() over the nodes.
Root(found, v) ==
  IF found.cycle \/ found.colour[v] # "white" THEN found ELSE Search[<<v, found.colour>>]

LEMMA HasCycleIn ==
  ASSUME TypeOK
  PROVE  \E f : /\ HasCycle = f[Len(nodes)].cycle /\ f[0] = Unseen
                /\ \A k \in 1 .. Len(nodes) : f[k] = Root(f[k - 1], k)
<1> DEFINE n == Len(nodes)
           F == [x \in Finds \X Nat |-> IF x[2] \in Slots THEN Root(x[1], x[2]) ELSE x[1]]
           Eq(f) == f = [v \in 0 .. n |->
                          IF v = 0 THEN Unseen
                          ELSE IF f[v - 1].cycle \/ f[v - 1].colour[v] # "white" THEN f[v - 1]
                          ELSE Search[<<v, f[v - 1].colour>>]]
           found == CHOOSE f : Eq(f)
<1>1. n \in Nat /\ Unseen \in Finds /\ Slots = 1 .. n
  BY SlotsAre, UnseenIs DEF Slots
<1>2. F \in [Finds \X Nat -> Finds]
  <2>1. Search \in Searches
    BY SearchRight DEF RightTo
  <2>2. ASSUME NEW x \in Finds, NEW v \in Slots PROVE Root(x, v) \in Finds
    <3>1. Search[<<v, x.colour>>] \in Finds
      BY <2>1 DEF Searches, Finds
    <3> QED BY <3>1 DEF Root
  <2> QED BY <2>2
<1>3. HasCycle = found[n].cycle
  BY DEF HasCycle
<1>4. \A x \in Finds, k \in 1 .. n : F[<<x, k>>] = Root(x, k)
  BY <1>1
<1> HIDE DEF F, n
<1>5. \A k \in 0 .. n : 0 \in 0 .. n /\ (k # 0 => k \in 1 .. n)
  BY <1>1
<1>6. \A k \in 1 .. n : k - 1 \in 0 .. n /\ k \in 0 .. n /\ k # 0 /\ k \in Nat
  BY <1>1
<1>7. PICK g : g \in Rounds(Finds, F, Unseen, n)
  BY <1>1, <1>2, RoundsExist
<1>8. g \in [0 .. n -> Finds] /\ g[0] = Unseen /\ \A k \in 1 .. n : g[k] = Root(g[k - 1], k)
  BY <1>4, <1>6, <1>7 DEF Rounds
<1>9. Eq(g)
  BY <1>5, <1>8 DEF Root
<1>10. Eq(found)
  BY <1>9
<1> HIDE DEF found
<1>11. found[0] = Unseen /\ \A k \in 1 .. n : found[k] = Root(found[k - 1], k)
  BY <1>1, <1>5, <1>6, <1>10 DEF Root
<1> QED BY <1>3, <1>11 DEF n

\* validate() finds a cycle exactly when there is one.
LEMMA CycleFound ==
  ASSUME TypeOK
  PROVE  HasCycle <=> ~Acyclic
<1> DEFINE n == Len(nodes)
<1>1. n \in Nat /\ IsFiniteSet(Slots) /\ Cardinality(Slots) = n /\ Slots = 1 .. n
  BY SlotsAre DEF Slots
<1>2. PICK f : /\ HasCycle = f[n].cycle /\ f[0] = Unseen
               /\ \A k \in 1 .. n : f[k] = Root(f[k - 1], k)
  BY HasCycleIn
<1>3. RightTo(Search, n)
  BY SearchRight
<1> HIDE DEF n
<1> DEFINE T == {k \in Nat : k <= n => Correct(f[k], {}, 1 .. k)}
<1>4. 0 \in T
  <2>1. Unseen \in Finds /\ ~Unseen.cycle /\ \A v \in Slots : Unseen.colour[v] = "white"
    BY UnseenIs
  <2>2. Painted(Unseen.colour, "gray") = {} /\ Painted(Unseen.colour, "black") = {}
    BY <2>1 DEF Painted
  <2>3. Searched({})
    BY DEF Searched, Shut
  <2>4. 1 .. 0 = {}
    OBVIOUS
  <2>5. Correct(Unseen, {}, {})
    BY <2>1, <2>2, <2>3 DEF Correct
  <2> QED BY <1>2, <2>4, <2>5
<1>5. ASSUME NEW k \in T PROVE k + 1 \in T
  <2> SUFFICES ASSUME k + 1 <= n PROVE Correct(f[k + 1], {}, 1 .. k + 1)
    OBVIOUS
  <2>1. PICK i, x : i = k + 1 /\ x = f[k]
    OBVIOUS
  <2>2. /\ k \in Nat /\ i \in 1 .. n /\ i - 1 = k /\ Correct(x, {}, 1 .. k) /\ f[i] = Root(x, i)
        /\ 1 .. i = (1 .. k) \cup {i}
    BY <1>1, <1>2, <2>1
  <2>3. x \in Finds /\ x.colour \in Colourings /\ i \in Slots
    BY <1>1, <2>2 DEF Correct, Finds
  <2> HIDE DEF T
  <2>4. Correct(Root(x, i), {}, 1 .. i)
    <3>1. CASE x.cycle
      BY <2>2, <3>1 DEF Root, Correct
    <3>2. CASE ~x.cycle /\ x.colour[i] # "white"
      <4>1. Root(x, i) = x
        BY <3>2 DEF Root
      <4>2. /\ Painted(x.colour, "gray") = {} /\ 1 .. k \subseteq Painted(x.colour, "black")
            /\ Searched(Painted(x.colour, "black"))
        BY <2>2, <3>2 DEF Correct
      <4>3. x.colour[i] = "black"
        BY <2>3, <3>2, <4>2 DEF Colourings, Painted
      <4>4. 1 .. i \subseteq Painted(x.colour, "black")
        BY <2>2, <2>3, <4>2, <4>3 DEF Painted
      <4> QED BY <2>3, <3>2, <4>1, <4>2, <4>4 DEF Correct
    <3>3. CASE ~x.cycle /\ x.colour[i] = "white"
      <4>1. Root(x, i) = Search[<<i, x.colour>>]
        BY <3>3 DEF Root
      <4>2. PICK colour : colour = x.colour
        OBVIOUS
      <4>3. /\ Painted(colour, "gray") = {} /\ 1 .. k \subseteq Painted(colour, "black")
            /\ Searched(Painted(colour, "black"))
        BY <2>2, <3>3, <4>2 DEF Correct
      <4>4. Callable(i, colour)
        BY <2>3, <3>3, <4>2, <4>3 DEF Callable
      <4>5. Cardinality(Painted(colour, "white")) <= n
        <5>1. Painted(colour, "white") \subseteq Slots
          BY DEF Painted
        <5> QED BY <1>1, <5>1, FS_Subset
      <4>6. Correct(Search[<<i, colour>>], {}, Painted(colour, "black") \cup {i})
        BY <1>3, <2>3, <4>2, <4>3, <4>4, <4>5 DEF RightTo
      <4>7. 1 .. i \subseteq Painted(colour, "black") \cup {i}
        BY <2>2, <4>3
      <4>8. Correct(Search[<<i, colour>>], {}, 1 .. i)
        BY <4>6, <4>7 DEF Correct
      <4> QED BY <4>1, <4>2, <4>8
    <3> QED BY <3>1, <3>2, <3>3
  <2> QED BY <2>1, <2>2, <2>4
<1> HIDE DEF T
<1>6. T = Nat
  <2>1. T \in SUBSET Nat
    BY DEF T
  <2> QED BY <1>4, <1>5, <2>1, Induction
<1>7. n \in T /\ n <= n
  BY <1>1, <1>6
<1>8. Correct(f[n], {}, Slots)
  BY <1>1, <1>7 DEF T
<1>9. f[n].cycle => ~Acyclic
  BY <1>8 DEF Correct
<1>10. ASSUME ~f[n].cycle PROVE Acyclic
  <2>1. /\ Slots \subseteq Painted(f[n].colour, "black")
        /\ Searched(Painted(f[n].colour, "black"))
    BY <1>8, <1>10 DEF Correct
  <2>2. Painted(f[n].colour, "black") = Slots
    BY <2>1 DEF Painted
  <2> QED BY <2>1, <2>2 DEF Searched, Acyclic
<1>11. f[n].cycle \in BOOLEAN
  BY <1>8 DEF Correct, Finds
<1> QED BY <1>2, <1>9, <1>10, <1>11

\* However edits follow each other, no edge touches a removed node, and validate() finds a cycle
\* exactly when there is one.
THEOREM ValidatesGraphs == Spec => []GraphSound
<1>1. TypeOK => GraphSound
  BY CycleFound DEF GraphSound
<1> QED BY <1>1, InitType, NextType, PTL DEF Spec

-----------------------------------------------------------------------------
(* The largest of a set.                                                   *)

LEMMA Bounded ==
  ASSUME NEW n \in Nat, NEW f \in [1 .. n -> Nat]
  PROVE  \E b \in Nat : \A i \in 1 .. n : f[i] <= b
<1> DEFINE T == {k \in Nat : k <= n => \E b \in Nat : \A i \in 1 .. k : f[i] <= b}
<1>1. 0 \in T
  OBVIOUS
<1>2. ASSUME NEW k \in T PROVE k + 1 \in T
  <2> SUFFICES ASSUME k + 1 <= n PROVE \E b \in Nat : \A i \in 1 .. k + 1 : f[i] <= b
    OBVIOUS
  <2>1. PICK b \in Nat : \A i \in 1 .. k : f[i] <= b
    OBVIOUS
  <2>2. k + 1 \in 1 .. n /\ f[k + 1] \in Nat
    OBVIOUS
  <2> DEFINE c == b + f[k + 1]
  <2>3. c \in Nat /\ b <= c /\ f[k + 1] <= c
    BY <2>2
  <2> HIDE DEF c
  <2>4. ASSUME NEW i \in 1 .. k + 1 PROVE f[i] <= c
    <3>1. CASE i = k + 1
      BY <2>3, <3>1
    <3>2. CASE i # k + 1
      <4>1. i \in 1 .. k /\ i \in 1 .. n
        BY <3>2
      <4>2. f[i] <= b /\ f[i] \in Nat
        BY <2>1, <4>1
      <4> QED BY <2>3, <4>2
    <3> QED BY <3>1, <3>2
  <2> QED BY <2>3, <2>4
<1> HIDE DEF T
<1>3. T = Nat
  <2>1. T \in SUBSET Nat
    BY DEF T
  <2> QED BY <1>1, <1>2, <2>1, Induction
<1>4. n \in T /\ n <= n
  BY <1>3
<1> QED BY <1>4 DEF T

LEMMA MaxOfOne ==
  ASSUME NEW S \in SUBSET Int, NEW m \in S, \A s \in S : s <= m
  PROVE  MaxOf(S) = m
<1>1. ASSUME NEW x \in S, \A s \in S : s <= x PROVE x = m
  <2>1. x \in Int /\ m \in Int /\ m <= x /\ x <= m
    BY <1>1
  <2> QED BY <2>1
<1> QED BY <1>1 DEF MaxOf

LEMMA MaxExists ==
  ASSUME NEW S \in SUBSET Nat, NEW b \in Nat, \A s \in S : s <= b
  PROVE  /\ MaxOf(S) \in Nat /\ (S = {} => MaxOf(S) = 0)
         /\ S # {} => MaxOf(S) \in S /\ \A s \in S : s <= MaxOf(S)
<1>1. CASE S = {}
  BY <1>1 DEF MaxOf
<1>2. CASE S # {}
  <2> DEFINE B == {c \in Nat : \A s \in S : s <= c}
  <2>1. B \in SUBSET Nat /\ B # {}
    OBVIOUS
  <2>2. PICK m \in B : \A c \in B : m <= c
    BY <2>1, LeastNatural
  <2>3. m \in S
    <3> SUFFICES ASSUME m \notin S PROVE FALSE
      OBVIOUS
    <3>1. \A s \in S : s \in Nat /\ s <= m /\ s # m
      OBVIOUS
    <3>2. \A s \in S : s <= m - 1
      BY <3>1
    <3>3. m - 1 \in Nat
      <4>1. PICK s \in S : TRUE
        BY <1>2
      <4>2. s \in Nat /\ s <= m /\ s # m /\ m \in Nat
        BY <3>1, <4>1
      <4> QED BY <4>2
    <3>4. m - 1 \in B
      BY <3>2, <3>3
    <3> QED BY <2>2, <3>4
  <2>4. MaxOf(S) = m
    BY <2>3, MaxOfOne
  <2> QED BY <1>2, <2>3, <2>4
<1> QED BY <1>1, <1>2

\* The largest of what a table holds for the nodes of a set, and perhaps of one more number.
LEMMA MaxOfTable ==
  ASSUME NEW n \in Nat, NEW w \in [1 .. n -> Nat], NEW h \in Nat,
         NEW S, S \subseteq {w[i] : i \in 1 .. n} \cup {h}
  PROVE  /\ S \in SUBSET Nat /\ MaxOf(S) \in Nat /\ (S = {} => MaxOf(S) = 0)
         /\ S # {} => MaxOf(S) \in S /\ \A s \in S : s <= MaxOf(S)
<1>1. PICK b \in Nat : \A i \in 1 .. n : w[i] <= b
  BY Bounded
<1>2. S \in SUBSET Nat
  OBVIOUS
<1> DEFINE c == b + h
<1>3. c \in Nat /\ b <= c /\ h <= c
  OBVIOUS
<1> HIDE DEF c
<1>4. ASSUME NEW s \in S PROVE s <= c
  <2>1. CASE s = h
    BY <1>3, <2>1
  <2>2. CASE s # h
    <3>1. PICK i \in 1 .. n : s = w[i]
      BY <2>2
    <3>2. w[i] \in Nat /\ w[i] <= b
      BY <1>1
    <3> QED BY <1>3, <3>1, <3>2
  <2> QED BY <2>1, <2>2
<1> QED BY <1>2, <1>3, <1>4, MaxExists

-----------------------------------------------------------------------------
(* What drives a node.                                                     *)

LEMMA DriverIs ==
  ASSUME TypeOK, NEW v, NEW p, Driver(v, p) # 0
  PROVE  /\ Driver(v, p) \in Slots /\ Live(Driver(v, p))
         /\ \E k \in DOMAIN edges : edges[k].dst = v /\ edges[k].src = Driver(v, p)
<1> DEFINE ks == {k \in DOMAIN edges : edges[k].dst = v /\ edges[k].dstPort = p}
           least == CHOOSE k \in ks : \A i \in ks : k <= i
<1>1. ks # {} /\ Driver(v, p) = edges[least].src
  BY DEF Driver
<1>2. ks \in SUBSET Nat
  BY DEF TypeOK
<1>3. least \in ks
  <2> HIDE DEF ks
  <2>1. \E k \in ks : \A i \in ks : k <= i
    BY <1>1, <1>2, LeastNatural
  <2> QED BY <2>1
<1> HIDE DEF least
<1>4. least \in DOMAIN edges /\ edges[least].dst = v
  BY <1>3
<1> QED BY <1>1, <1>4, EdgeEnds

LEMMA DriversAre ==
  ASSUME TypeOK, NEW v
  PROVE  /\ Drivers(v) \subseteq Slots
         /\ \A d \in Drivers(v) : /\ Live(d)
                                  /\ \E k \in DOMAIN edges : edges[k].dst = v /\ edges[k].src = d
<1>1. ASSUME NEW d \in Drivers(v)
      PROVE  d \in Slots /\ Live(d) /\ \E k \in DOMAIN edges : edges[k].dst = v /\ edges[k].src = d
  <2>1. PICK p : d = Driver(v, p) /\ d # 0
    BY DEF Drivers
  <2> QED BY <2>1, DriverIs
<1> QED BY <1>1

\* What drives a node is in front of it.
LEMMA DriversInFront ==
  ASSUME TypeOK, NEW q, Topological(q), NEW i \in DOMAIN q, NEW d \in Drivers(q[i])
  PROVE  \E h \in 1 .. i - 1 : q[h] = d
<1>1. PICK k \in DOMAIN edges : edges[k].dst = q[i] /\ edges[k].src = d
  BY DriversAre
<1> QED BY <1>1 DEF Topological, InOrder

-----------------------------------------------------------------------------
(* Tables that build() fills in, a node at a time, along the order.        *)

Tables == [Slots -> Nat]
Zero == [id \in Slots |-> 0]

Fill(H, w, v) == IF Live(v) THEN [w EXCEPT ![v] = H[<<w, v>>]] ELSE w

\* What is filled in for a node depends on what drives it alone.
Local(H) ==
  /\ H \in [Tables \X Slots -> Nat]
  /\ \A a, b \in Tables, v \in Slots : (\A d \in Drivers(v) : a[d] = b[d]) => H[<<a, v>>] = H[<<b, v>>]

LEMMA FillIs ==
  ASSUME NEW H, Local(H), NEW w \in Tables, NEW v \in Slots
  PROVE  /\ Fill(H, w, v) \in Tables /\ \A u \in Slots : u # v => Fill(H, w, v)[u] = w[u]
         /\ Live(v) => Fill(H, w, v)[v] = H[<<w, v>>]
<1>1. H[<<w, v>>] \in Nat
  BY DEF Local
<1> QED BY <1>1 DEF Fill, Tables

LEMMA FillRounds ==
  ASSUME NEW q \in Seq(Slots), NEW H, Local(H)
  PROVE  \E F \in [Tables \X Nat -> Tables] :
           \A w \in Tables, k \in 1 .. Len(q) : F[<<w, k>>] = Fill(H, w, q[k])
<1> DEFINE n == Len(q)
           F == [x \in Tables \X Nat |-> IF x[2] \in 1 .. n THEN Fill(H, x[1], q[x[2]]) ELSE x[1]]
<1>1. n \in Nat /\ \A k \in 1 .. n : q[k] \in Slots
  OBVIOUS
<1>2. \A w \in Tables, k \in 1 .. n : Fill(H, w, q[k]) \in Tables
  BY <1>1, FillIs
<1>3. F \in [Tables \X Nat -> Tables]
  BY <1>2
<1>4. \A w \in Tables, k \in 1 .. n : F[<<w, k>>] = Fill(H, w, q[k])
  BY <1>1
<1> QED BY <1>3, <1>4

\* What was filled in stays true of the tables to come: nothing that drives a node
\* is filled in after it.
LEMMA Settles ==
  ASSUME TypeOK, NEW q, Topological(q), NEW H, Local(H), NEW f,
         \A k \in 0 .. Len(q) : f[k] \in Tables,
         \A k \in 1 .. Len(q) : f[k] = Fill(H, f[k - 1], q[k])
  PROVE  \A v \in Slots : Live(v) => f[Len(q)][v] = H[<<f[Len(q)], v>>]
<1> DEFINE n == Len(q)
           Filled(k) == \A i \in 1 .. k : Live(q[i]) => f[k][q[i]] = H[<<f[k], q[i]>>]
<1>1. /\ n \in Nat /\ DOMAIN q = 1 .. n /\ \A k \in 1 .. n : q[k] \in Slots
      /\ \A i, k \in 1 .. n : q[i] = q[k] => i = k
      /\ \A v \in Slots : \E i \in 1 .. n : q[i] = v
  <2>1. q \in Seq(Slots) /\ IsInjective(q) /\ Range(q) = Slots
    BY DEF Topological
  <2>2. n \in Nat /\ DOMAIN q = 1 .. n /\ \A k \in 1 .. n : q[k] \in Slots
    BY <2>1
  <2> QED BY <2>1, <2>2 DEF IsInjective, Range
<1>2. /\ \A k \in 0 .. n : f[k] \in Tables
      /\ \A k \in 1 .. n : f[k] = Fill(H, f[k - 1], q[k])
  OBVIOUS
<1> HIDE DEF n
<1> DEFINE T == {k \in Nat : k <= n => Filled(k)}
<1>3. 0 \in T
  OBVIOUS
<1>4. ASSUME NEW k \in T PROVE k + 1 \in T
  <2> SUFFICES ASSUME k + 1 <= n PROVE Filled(k + 1)
    OBVIOUS
  <2> DEFINE a == f[k]
             b == f[k + 1]
             v == q[k + 1]
  <2>1. k + 1 \in 1 .. n /\ (k + 1) - 1 = k /\ k \in 0 .. n /\ k + 1 \in 0 .. n /\ Filled(k)
    BY <1>1
  <2>2. a \in Tables /\ b \in Tables /\ v \in Slots /\ b = Fill(H, a, v)
    BY <1>1, <1>2, <2>1
  <2>3. \A i \in 1 .. k : Live(q[i]) => a[q[i]] = H[<<a, q[i]>>]
    BY <2>1
  <2> HIDE DEF a, b, T
  <2>4. (\A u \in Slots : u # v => b[u] = a[u]) /\ (Live(v) => b[v] = H[<<a, v>>])
    BY <2>2, FillIs
  <2>5. ASSUME NEW i \in 1 .. k + 1
        PROVE  i \in 1 .. n /\ q[i] \in Slots /\ H[<<b, q[i]>>] = H[<<a, q[i]>>]
    <3>1. i \in 1 .. n /\ q[i] \in Slots
      BY <1>1, <2>1
    <3>2. ASSUME NEW d \in Drivers(q[i]) PROVE b[d] = a[d]
      <4>1. PICK h \in 1 .. i - 1 : q[h] = d
        BY <1>1, <3>1, DriversInFront
      <4>2. h \in 1 .. n /\ h # k + 1
        <5>1. n \in Nat /\ k \in Nat /\ i \in 1 .. n /\ i <= k + 1
          BY <1>1, <2>1, <3>1
        <5> QED BY <5>1
      <4>3. d \in Slots /\ d # v
        BY <1>1, <2>1, <4>1, <4>2
      <4> QED BY <2>4, <4>3
    <3> QED BY <2>2, <3>1, <3>2 DEF Local
  <2>6. ASSUME NEW i \in 1 .. k + 1, Live(q[i]) PROVE b[q[i]] = H[<<b, q[i]>>]
    <3>1. CASE i = k + 1
      BY <2>4, <2>5, <2>6, <3>1
    <3>2. CASE i # k + 1
      <4>1. i \in 1 .. k
        BY <2>1, <3>2
      <4>2. q[i] # v
        BY <1>1, <2>1, <2>5, <3>2
      <4> QED BY <2>3, <2>4, <2>5, <2>6, <4>1, <4>2
    <3> QED BY <3>1, <3>2
  <2> QED BY <2>6 DEF b
<1> HIDE DEF T
<1>5. T = Nat
  <2>1. T \in SUBSET Nat
    BY DEF T
  <2> QED BY <1>3, <1>4, <2>1, Induction
<1>6. n \in T /\ n <= n
  BY <1>1, <1>5
<1>7. Filled(n)
  BY <1>6 DEF T
<1> QED BY <1>1, <1>7 DEF n

\* What is known of a kind's numbers.
LEMMA NodeNumbers ==
  ASSUME TypeOK, NEW v
  PROVE  /\ Live(v) => Latency[nodes[v]] \in Nat /\ FixedWidth[nodes[v]] \in Nat
         /\ Len(nodes) \in Nat /\ Slots = 1 .. Len(nodes) /\ Host \in Nat \ {0}
<1>1. nodes \in Seq(Kinds \union {Removed}) /\ Len(nodes) \in Nat
  BY DEF TypeOK
<1>2. Live(v) => nodes[v] \in Kinds
  BY <1>1 DEF Live, Slots
<1> QED BY <1>1, <1>2, KindsAssumption DEF Slots

Latest(w, v) == MaxOf({w[d] : d \in Drivers(v)})

LEMMA LatestIs ==
  ASSUME TypeOK, NEW w \in Tables, NEW v
  PROVE  /\ Latest(w, v) \in Nat /\ (Drivers(v) = {} => Latest(w, v) = 0)
         /\ \A d \in Drivers(v) : w[d] <= Latest(w, v)
         /\ Drivers(v) # {} => \E d \in Drivers(v) : w[d] = Latest(w, v)
<1> DEFINE S == {w[d] : d \in Drivers(v)}
           n == Len(nodes)
<1>1. Drivers(v) \subseteq Slots /\ n \in Nat /\ Slots = 1 .. n
  BY DriversAre, NodeNumbers
<1>2. S \subseteq {w[i] : i \in 1 .. n} \cup {0} /\ w \in [1 .. n -> Nat]
  BY <1>1 DEF Tables
<1> HIDE DEF S, n
<1>3. /\ MaxOf(S) \in Nat /\ (S = {} => MaxOf(S) = 0)
      /\ S # {} => MaxOf(S) \in S /\ \A s \in S : s <= MaxOf(S)
  BY <1>1, <1>2, MaxOfTable
<1>4. Latest(w, v) = MaxOf(S)
  BY DEF Latest, S
<1> QED BY <1>3, <1>4 DEF S

\* Latencies: those of what drives a node are final when its own is filled in.
LEMMA LatencyIs ==
  ASSUME TypeOK, Acyclic
  PROVE  /\ OutLat \in Tables
         /\ \A v \in Slots : Live(v) => OutLat[v] = Latest(OutLat, v) + Latency[nodes[v]]
<1> DEFINE q == Order
           n == Len(q)
           Rule(w, v) == Latest(w, v) + Latency[nodes[v]]
           H == [x \in Tables \X Slots |-> IF Live(x[2]) THEN Rule(x[1], x[2]) ELSE 0]
           Eq(f) == f = [k \in 0 .. n |-> IF k = 0 THEN Zero ELSE Propagate(f[k - 1], q[k])]
           lat == CHOOSE f : Eq(f)
<1>1. Topological(q)
  BY OrderIs
<1>2. OutLat = lat[n]
  BY DEF OutLat, Zero, n, q
<1>3. \A w, v : Propagate(w, v) = IF Live(v) THEN [w EXCEPT ![v] = Rule(w, v)] ELSE w
  BY DEF Propagate, Latest
<1> HIDE DEF q
<1>4. q \in Seq(Slots) /\ n \in Nat /\ \A k \in 1 .. n : q[k] \in Slots
  BY <1>1 DEF Topological
<1>5. ASSUME NEW w \in Tables, NEW v \in Slots, Live(v) PROVE Rule(w, v) \in Nat
  <2>1. Latest(w, v) \in Nat /\ Latency[nodes[v]] \in Nat
    BY <1>5, LatestIs, NodeNumbers
  <2> QED BY <2>1
<1>6. \A a, b, v : (\A d \in Drivers(v) : a[d] = b[d]) => Rule(a, v) = Rule(b, v)
  <2> SUFFICES ASSUME NEW a, NEW b, NEW v, \A d \in Drivers(v) : a[d] = b[d]
               PROVE  Rule(a, v) = Rule(b, v)
    OBVIOUS
  <2>1. {a[d] : d \in Drivers(v)} = {b[d] : d \in Drivers(v)}
    OBVIOUS
  <2> QED BY <2>1 DEF Latest
<1> HIDE DEF Rule, n
<1>7. Local(H) /\ \A w \in Tables, v \in Slots : Live(v) => H[<<w, v>>] = Rule(w, v)
  <2>1. H \in [Tables \X Slots -> Nat]
    BY <1>5
  <2>2. \A w \in Tables, v \in Slots : H[<<w, v>>] = IF Live(v) THEN Rule(w, v) ELSE 0
    OBVIOUS
  <2> HIDE DEF H
  <2> QED BY <1>6, <2>1, <2>2 DEF Local
<1> HIDE DEF H
<1>8. \A w \in Tables, v \in Slots : Propagate(w, v) = Fill(H, w, v)
  BY <1>3, <1>7 DEF Fill
<1>9. PICK F \in [Tables \X Nat -> Tables] :
        \A w \in Tables, k \in 1 .. n : F[<<w, k>>] = Fill(H, w, q[k])
  BY <1>4, <1>7, FillRounds DEF n
<1>10. Zero \in Tables
  BY DEF Zero, Tables
<1>11. PICK g : g \in Rounds(Tables, F, Zero, n)
  BY <1>4, <1>9, <1>10, RoundsExist
<1>12. \A k \in 0 .. n : 0 \in 0 .. n /\ (k # 0 => k \in 1 .. n)
  BY <1>4
<1>13. \A k \in 1 .. n : k - 1 \in 0 .. n /\ k \in 0 .. n /\ k # 0
  BY <1>4
<1>14. \A w \in Tables, k \in 1 .. n : F[<<w, k>>] = Propagate(w, q[k])
  BY <1>4, <1>8, <1>9
<1>15. Eq(g)
  <2>1. \A k \in 1 .. n : g[k] = Propagate(g[k - 1], q[k])
    BY <1>13, <1>14, <1>11 DEF Rounds
  <2> QED BY <1>11, <1>12, <2>1 DEF Rounds
<1>16. Eq(lat)
  BY <1>15
<1> HIDE DEF lat
<1>17. lat[0] = Zero /\ \A k \in 1 .. n : lat[k] = Propagate(lat[k - 1], q[k])
  BY <1>4, <1>12, <1>13, <1>16
<1>18. lat \in Rounds(Tables, F, Zero, n)
  <2>1. \A k \in 1 .. n : lat[k - 1] \in Tables => lat[k] = F[<<lat[k - 1], k>>]
    BY <1>14, <1>17
  <2>2. lat = [k \in 0 .. n |-> lat[k]]
    BY <1>16
  <2> QED BY <1>4, <1>9, <1>10, <1>17, <2>1, <2>2, LoopIn
<1>19. /\ \A k \in 0 .. n : lat[k] \in Tables
       /\ \A k \in 1 .. n : lat[k] = Fill(H, lat[k - 1], q[k])
  BY <1>9, <1>13, <1>18 DEF Rounds
<1>20. lat[n] \in Tables
  BY <1>4, <1>19
<1>21. \A v \in Slots : Live(v) => lat[n][v] = H[<<lat[n], v>>]
  BY <1>1, <1>7, <1>19, Settles DEF n
<1>22. \A v \in Slots : Live(v) => lat[n][v] = Rule(lat[n], v)
  BY <1>7, <1>20, <1>21
<1> QED BY <1>2, <1>20, <1>22 DEF Rule

\* The widths of a node's inputs, and the width its outputs have for them.
Heards(w, v) == {IF Driver(v, p) = 0 THEN Host ELSE w[Driver(v, p)] : p \in InPorts(v)}
Heard(w, v) == MaxOf(Heards(w, v))
Wide(w, v) == IF FixedWidth[nodes[v]] > 0 THEN FixedWidth[nodes[v]]
              ELSE IF Heard(w, v) = 0 THEN Host ELSE Heard(w, v)

LEMMA WideIs ==
  ASSUME TypeOK, NEW w \in Tables, NEW v, Live(v)
  PROVE  /\ Wide(w, v) \in Nat /\ Wide(w, v) > 0
         /\ FixedWidth[nodes[v]] = 0 => \A d \in Drivers(v) : w[d] <= Wide(w, v)
<1> DEFINE S == Heards(w, v)
           n == Len(nodes)
<1>1. n \in Nat /\ Slots = 1 .. n /\ Host \in Nat /\ Host > 0 /\ FixedWidth[nodes[v]] \in Nat
  BY NodeNumbers
<1>2. S \subseteq {w[i] : i \in 1 .. n} \cup {Host} /\ w \in [1 .. n -> Nat]
  <2>1. \A p : Driver(v, p) # 0 => Driver(v, p) \in 1 .. n
    BY <1>1, DriverIs
  <2> QED BY <1>1, <2>1 DEF Tables, Heards
<1>3. \A d \in Drivers(v) : w[d] \in S /\ d \in 1 .. n
  BY <1>1, DriversAre DEF Drivers, Heards
<1> HIDE DEF S, n
<1>4. /\ MaxOf(S) \in Nat /\ (S = {} => MaxOf(S) = 0)
      /\ S # {} => MaxOf(S) \in S /\ \A s \in S : s <= MaxOf(S)
  BY <1>1, <1>2, MaxOfTable
<1>5. Heard(w, v) = MaxOf(S)
  BY DEF Heard, S
<1>6. ASSUME FixedWidth[nodes[v]] = 0, NEW d \in Drivers(v) PROVE w[d] <= Wide(w, v)
  <2>1. w[d] \in Nat /\ w[d] <= MaxOf(S)
    BY <1>2, <1>3, <1>4
  <2>2. CASE MaxOf(S) = 0
    BY <1>1, <1>4, <1>5, <1>6, <2>1, <2>2 DEF Wide
  <2>3. CASE MaxOf(S) # 0
    BY <1>1, <1>4, <1>5, <1>6, <2>1, <2>3 DEF Wide
  <2> QED BY <2>2, <2>3
<1>7. Wide(w, v) \in Nat /\ Wide(w, v) > 0
  BY <1>1, <1>4, <1>5 DEF Wide
<1> QED BY <1>6, <1>7

\* Widths likewise.
LEMMA WidthIs ==
  ASSUME TypeOK, Acyclic
  PROVE  /\ OutWidth \in Tables
         /\ \A v \in Slots : Live(v) => OutWidth[v] = Wide(OutWidth, v)
<1> DEFINE q == Order
           n == Len(q)
           H == [x \in Tables \X Slots |-> IF Live(x[2]) THEN Wide(x[1], x[2]) ELSE 0]
           Eq(f) == f = [k \in 0 .. n |-> IF k = 0 THEN Zero ELSE LayOut(f[k - 1], q[k])]
           width == CHOOSE f : Eq(f)
<1>1. Topological(q)
  BY OrderIs
<1>2. OutWidth = width[n]
  BY DEF OutWidth, Zero, n, q
<1>3. \A w, v : LayOut(w, v) = IF Live(v) THEN [w EXCEPT ![v] = Wide(w, v)] ELSE w
  BY DEF LayOut, Wide, Heard, Heards
<1> HIDE DEF q
<1>4. q \in Seq(Slots) /\ n \in Nat /\ \A k \in 1 .. n : q[k] \in Slots
  BY <1>1 DEF Topological
<1>5. ASSUME NEW w \in Tables, NEW v \in Slots, Live(v) PROVE Wide(w, v) \in Nat
  BY <1>5, WideIs
<1>6. ASSUME NEW a, NEW b, NEW v, \A d \in Drivers(v) : a[d] = b[d] PROVE Wide(a, v) = Wide(b, v)
  <2>1. \A p \in InPorts(v) : Driver(v, p) # 0 => Driver(v, p) \in Drivers(v)
    BY DEF Drivers
  <2>2. Heards(a, v) = Heards(b, v)
    BY <1>6, <2>1 DEF Heards
  <2> QED BY <2>2 DEF Wide, Heard
<1> HIDE DEF n
<1>7. Local(H) /\ \A w \in Tables, v \in Slots : Live(v) => H[<<w, v>>] = Wide(w, v)
  <2>1. H \in [Tables \X Slots -> Nat]
    BY <1>5
  <2>2. \A w \in Tables, v \in Slots : H[<<w, v>>] = IF Live(v) THEN Wide(w, v) ELSE 0
    OBVIOUS
  <2> HIDE DEF H
  <2> QED BY <1>6, <2>1, <2>2 DEF Local
<1> HIDE DEF H
<1>8. \A w \in Tables, v \in Slots : LayOut(w, v) = Fill(H, w, v)
  BY <1>3, <1>7 DEF Fill
<1>9. PICK F \in [Tables \X Nat -> Tables] :
        \A w \in Tables, k \in 1 .. n : F[<<w, k>>] = Fill(H, w, q[k])
  BY <1>4, <1>7, FillRounds DEF n
<1>10. Zero \in Tables
  BY DEF Zero, Tables
<1>11. PICK g : g \in Rounds(Tables, F, Zero, n)
  BY <1>4, <1>9, <1>10, RoundsExist
<1>12. \A k \in 0 .. n : 0 \in 0 .. n /\ (k # 0 => k \in 1 .. n)
  BY <1>4
<1>13. \A k \in 1 .. n : k - 1 \in 0 .. n /\ k \in 0 .. n /\ k # 0
  BY <1>4
<1>14. \A w \in Tables, k \in 1 .. n : F[<<w, k>>] = LayOut(w, q[k])
  BY <1>4, <1>8, <1>9
<1>15. Eq(g)
  <2>1. \A k \in 1 .. n : g[k] = LayOut(g[k - 1], q[k])
    BY <1>13, <1>14, <1>11 DEF Rounds
  <2> QED BY <1>11, <1>12, <2>1 DEF Rounds
<1>16. Eq(width)
  BY <1>15
<1> HIDE DEF width
<1>17. width[0] = Zero /\ \A k \in 1 .. n : width[k] = LayOut(width[k - 1], q[k])
  BY <1>4, <1>12, <1>13, <1>16
<1>18. width \in Rounds(Tables, F, Zero, n)
  <2>1. \A k \in 1 .. n : width[k - 1] \in Tables => width[k] = F[<<width[k - 1], k>>]
    BY <1>14, <1>17
  <2>2. width = [k \in 0 .. n |-> width[k]]
    BY <1>16
  <2> QED BY <1>4, <1>9, <1>10, <1>17, <2>1, <2>2, LoopIn
<1>19. /\ \A k \in 0 .. n : width[k] \in Tables
       /\ \A k \in 1 .. n : width[k] = Fill(H, width[k - 1], q[k])
  BY <1>9, <1>13, <1>18 DEF Rounds
<1>20. width[n] \in Tables
  BY <1>4, <1>19
<1>21. \A v \in Slots : Live(v) => width[n][v] = H[<<width[n], v>>]
  BY <1>1, <1>7, <1>19, Settles DEF n
<1>22. \A v \in Slots : Live(v) => width[n][v] = Wide(width[n], v)
  BY <1>7, <1>20, <1>21
<1> QED BY <1>2, <1>20, <1>22

LEMMA InOrderHolds ==
  ASSUME TypeOK
  PROVE  ScheduleInOrder
<1>a. Kahn.ready = <<>> /\ (Len(Order) = Len(nodes) <=> Acyclic)
  BY KahnSorts, OnlyWithoutCycle
<1> SUFFICES ASSUME Acyclic
             PROVE  /\ Range(Order) = Slots
                    /\ \A i, j \in DOMAIN Order :
                         (\E e \in Range(edges) : e.src = Order[i] /\ e.dst = Order[j]) => i < j
                    /\ \A v \in Slots : Live(v) =>
                         /\ OutWidth[v] > 0
                         /\ FixedWidth[nodes[v]] = 0 => \A d \in Drivers(v) : OutWidth[d] <= OutWidth[v]
  BY <1>a, CycleFound DEF ScheduleInOrder, Valid
<1>1. Topological(Order)
  BY OrderIs
<1>2. ASSUME NEW i \in DOMAIN Order, NEW j \in DOMAIN Order,
             NEW e \in Range(edges), e.src = Order[i], e.dst = Order[j]
      PROVE  i < j
  <2> DEFINE q == Order
  <2>1. q \in Seq(Slots) /\ IsInjective(q) /\ InOrder(q)
    BY <1>1 DEF Topological
  <2>2. /\ DOMAIN q = 1 .. Len(q) /\ Len(q) \in Nat
        /\ i \in DOMAIN q /\ j \in DOMAIN q /\ e.src = q[i] /\ e.dst = q[j]
    BY <1>2, <2>1
  <2> HIDE DEF q
  <2>3. PICK k \in DOMAIN edges : e = edges[k]
    BY DEF Range
  <2>4. PICK h \in 1 .. j - 1 : q[h] = q[i]
    BY <2>1, <2>2, <2>3 DEF InOrder
  <2>5. h \in DOMAIN q /\ h < j
    BY <2>2
  <2>6. h = i
    BY <2>1, <2>2, <2>4, <2>5 DEF IsInjective
  <2> QED BY <2>5, <2>6
<1>3. ASSUME NEW v \in Slots, Live(v)
      PROVE  /\ OutWidth[v] > 0
             /\ FixedWidth[nodes[v]] = 0 => \A d \in Drivers(v) : OutWidth[d] <= OutWidth[v]
  <2>1. OutWidth \in Tables /\ OutWidth[v] = Wide(OutWidth, v)
    BY <1>3, WidthIs
  <2>2. /\ Wide(OutWidth, v) > 0
        /\ FixedWidth[nodes[v]] = 0 => \A d \in Drivers(v) : OutWidth[d] <= Wide(OutWidth, v)
    BY <1>3, <2>1, WideIs
  <2> QED BY <2>1, <2>2
<1> QED BY <1>1, <1>2, <1>3 DEF Topological

\* In every graph that edits lead to the stack of build() runs empty, and all slots
\* are in order by then exactly if there is no cycle; in one that validate() accepts
\* every slot runs once and after what it reads from, and no width is taken from a
\* node that has none.
THEOREM SchedulesInOrder == Spec => []ScheduleInOrder
<1>1. TypeOK => ScheduleInOrder
  BY InOrderHolds
<1> QED BY <1>1, TypeCorrect, PTL

-----------------------------------------------------------------------------
(* Delays.                                                                 *)

Pairs == [lat : Int, comp : Int]
NoDelay == [lat |-> 0, comp |-> 0]
Connected(v) == {q \in InPorts(v) : Driver(v, q) # 0}

\* What a way to the driver of a port becomes behind it, and all of them.
Arrival(v, p, d) == [lat |-> d.lat + Latency[nodes[Driver(v, p)]], comp |-> d.comp + CompFrames(v, p)]
Arrivals(w, v) == UNION {{Arrival(v, p, d) : d \in w[Driver(v, p)]} : p \in Connected(v)}
Behind(w, v) == IF Drivers(v) = {} THEN {NoDelay} ELSE Arrivals(w, v)

\* What connects v to what drives it.
LEMMA PortsAre ==
  ASSUME TypeOK, Acyclic, NEW v
  PROVE  /\ InMax(v) \in Nat /\ (Drivers(v) = {} => InMax(v) = 0)
         /\ \A p \in Connected(v) : Driver(v, p) \in Drivers(v)
         /\ \A d \in Drivers(v) : \E p \in Connected(v) : Driver(v, p) = d
         /\ \A d \in Drivers(v) : /\ d \in Slots /\ Live(d) /\ Latency[nodes[d]] \in Nat
                                  /\ OutLat[d] = InMax(d) + Latency[nodes[d]]
                                  /\ OutLat[d] \in Nat /\ OutLat[d] <= InMax(v)
         /\ Drivers(v) # {} => \E d \in Drivers(v) : OutLat[d] = InMax(v)
         /\ \A p \in Connected(v) : CompFrames(v, p) = InMax(v) - OutLat[Driver(v, p)]
<1>1. /\ OutLat \in Tables
      /\ \A d \in Slots : Live(d) => OutLat[d] = Latest(OutLat, d) + Latency[nodes[d]]
  BY LatencyIs
<1>2. \A u : InMax(u) = Latest(OutLat, u)
  BY DEF InMax, Latest
<1>3. \A p \in Connected(v) : Driver(v, p) \in Drivers(v)
  BY DEF Connected, Drivers
<1>4. \A d \in Drivers(v) : \E p \in Connected(v) : Driver(v, p) = d
  BY DEF Connected, Drivers
<1>5. \A d \in Drivers(v) : d \in Slots /\ Live(d)
  BY DriversAre
<1>6. \A d \in Drivers(v) : Latency[nodes[d]] \in Nat /\ OutLat[d] \in Nat
  BY <1>1, <1>5, NodeNumbers DEF Tables
<1>7. /\ Latest(OutLat, v) \in Nat /\ (Drivers(v) = {} => Latest(OutLat, v) = 0)
      /\ \A d \in Drivers(v) : OutLat[d] <= Latest(OutLat, v)
      /\ Drivers(v) # {} => \E d \in Drivers(v) : OutLat[d] = Latest(OutLat, v)
  BY <1>1, LatestIs
<1>8. \A p \in Connected(v) : CompFrames(v, p) = InMax(v) - OutLat[Driver(v, p)]
  BY DEF CompFrames, Connected
<1>9. \A d \in Drivers(v) : OutLat[d] = InMax(d) + Latency[nodes[d]]
  BY <1>1, <1>2, <1>5
<1> QED BY <1>2, <1>3, <1>4, <1>5, <1>6, <1>7, <1>8, <1>9

LEMMA BehindType ==
  ASSUME TypeOK, Acyclic, NEW w \in [Slots -> SUBSET Pairs], NEW v
  PROVE  Behind(w, v) \in SUBSET Pairs
<1>1. ASSUME NEW p \in Connected(v), NEW d \in w[Driver(v, p)] PROVE Arrival(v, p, d) \in Pairs
  <2>1. Driver(v, p) \in Drivers(v)
    BY PortsAre
  <2>2. /\ Driver(v, p) \in Slots /\ Latency[nodes[Driver(v, p)]] \in Nat /\ OutLat[Driver(v, p)] \in Nat
        /\ InMax(v) \in Nat /\ CompFrames(v, p) = InMax(v) - OutLat[Driver(v, p)]
    BY <2>1, PortsAre
  <2>3. d \in Pairs /\ d.lat \in Int /\ d.comp \in Int
    BY <2>2 DEF Pairs
  <2> DEFINE l == Latency[nodes[Driver(v, p)]]
             c == CompFrames(v, p)
  <2>4. l \in Int /\ c \in Int
    BY <2>2
  <2> HIDE DEF l, c
  <2>5. [lat |-> d.lat + l, comp |-> d.comp + c] \in Pairs
    BY <2>3, <2>4 DEF Pairs
  <2> QED BY <2>5 DEF Arrival, l, c
<1>2. Arrivals(w, v) \in SUBSET Pairs
  BY <1>1 DEF Arrivals
<1>3. NoDelay \in Pairs
  BY DEF NoDelay, Pairs
<1> QED BY <1>2, <1>3 DEF Behind

LEMMA DelaysAre ==
  ASSUME TypeOK, Acyclic
  PROVE  /\ \A k \in 0 .. Len(nodes) : Delays[k] \in [Slots -> SUBSET Pairs]
         /\ \A v \in Slots : Delays[0][v] = {NoDelay}
         /\ \A k \in 1 .. Len(nodes), v \in Slots : Delays[k][v] = Behind(Delays[k - 1], v)
<1> DEFINE n == Len(nodes)
           U == [Slots -> SUBSET Pairs]
           All(w) == [v \in Slots |-> Behind(w, v)]
           base == [v \in Slots |-> {NoDelay}]
           F == [x \in U \X Nat |-> All(x[1])]
           Eq(f) == f = [k \in 0 .. n |-> [v \in Slots |->
                           IF Drivers(v) = {} \/ k = 0 THEN {NoDelay} ELSE Arrivals(f[k - 1], v)]]
           D == CHOOSE f : Eq(f)
<1>1. n \in Nat
  BY NodeNumbers
<1>2. base \in U /\ F \in [U \X Nat -> U] /\ \A w \in U, k \in Nat : F[<<w, k>>] = All(w)
  <2>1. NoDelay \in Pairs
    BY DEF NoDelay, Pairs
  <2>2. \A w \in U : All(w) \in U
    BY BehindType
  <2> QED BY <2>1, <2>2
<1>3. Delays = D
  BY DEF Delays, NoDelay, Arrivals, Arrival, Connected, n
<1> HIDE DEF n, F
<1>4. \A k \in 0 .. n : 0 \in 0 .. n /\ (k # 0 => k \in 1 .. n)
  BY <1>1
<1>5. \A k \in 1 .. n : k - 1 \in 0 .. n /\ k \in 0 .. n /\ k # 0 /\ k \in Nat
  BY <1>1
<1>6. PICK g : g \in Rounds(U, F, base, n)
  BY <1>1, <1>2, RoundsExist
<1>7. /\ g = [k \in 0 .. n |-> g[k]] /\ g[0] = base
      /\ \A k \in 1 .. n : g[k] = All(g[k - 1])
  BY <1>2, <1>5, <1>6 DEF Rounds
<1>8. Eq(g)
  <2>1. \A k \in 0 .. n : g[k] = [v \in Slots |->
          IF Drivers(v) = {} \/ k = 0 THEN {NoDelay} ELSE Arrivals(g[k - 1], v)]
    <3> SUFFICES ASSUME NEW k \in 0 .. n
                 PROVE  g[k] = [v \in Slots |->
                          IF Drivers(v) = {} \/ k = 0 THEN {NoDelay} ELSE Arrivals(g[k - 1], v)]
      OBVIOUS
    <3>1. CASE k = 0
      BY <1>7, <3>1
    <3>2. CASE k # 0
      <4>1. g[k] = All(g[k - 1])
        BY <1>4, <1>7, <3>2
      <4> QED BY <3>2, <4>1 DEF Behind
    <3> QED BY <3>1, <3>2
  <2> QED BY <1>7, <2>1
<1>9. Eq(D)
  BY <1>8
<1> HIDE DEF D
<1>10. D[0] = base
  BY <1>1, <1>4, <1>9
<1>11. \A k \in 1 .. n : D[k] = All(D[k - 1])
  BY <1>4, <1>5, <1>9 DEF Behind
<1> HIDE DEF base, All
<1>12. D \in Rounds(U, F, base, n)
  <2>1. \A k \in 1 .. n : D[k - 1] \in U => D[k] = F[<<D[k - 1], k>>]
    BY <1>2, <1>5, <1>11
  <2>2. D = [k \in 0 .. n |-> D[k]]
    BY <1>9
  <2> QED BY <1>1, <1>2, <1>10, <2>1, <2>2, LoopIn
<1>13. \A k \in 0 .. n : D[k] \in U
  BY <1>12 DEF Rounds
<1>14. \A v \in Slots : D[0][v] = {NoDelay}
  BY <1>10 DEF base
<1>15. \A k \in 1 .. n, v \in Slots : D[k][v] = Behind(D[k - 1], v)
  BY <1>11 DEF All
<1> QED BY <1>3, <1>13, <1>14, <1>15 DEF n

\* What ways to v there are when a signal takes the same time on all of them,
\* some way without being delayed.
Phased(v, ways) ==
  /\ \A d \in ways : d \in Pairs /\ d.lat + d.comp = InMax(v) /\ d.lat <= InMax(v)
  /\ \E d \in ways : d.lat = InMax(v)

LEMMA BehindPhased ==
  ASSUME TypeOK, Acyclic, NEW w \in [Slots -> SUBSET Pairs], NEW v \in Slots,
         \A d \in Drivers(v) : Phased(d, w[d])
  PROVE  Phased(v, Behind(w, v))
<1>1. CASE Drivers(v) = {}
  <2>1. InMax(v) = 0 /\ Behind(w, v) = {NoDelay}
    BY <1>1, PortsAre DEF Behind
  <2> QED BY <2>1 DEF Phased, NoDelay, Pairs
<1>2. CASE Drivers(v) # {}
  <2>1. Behind(w, v) = Arrivals(w, v)
    BY <1>2 DEF Behind
  <2>2. ASSUME NEW p \in Connected(v), NEW d \in w[Driver(v, p)]
        PROVE  /\ Arrival(v, p, d).lat + Arrival(v, p, d).comp = InMax(v)
               /\ Arrival(v, p, d).lat <= InMax(v)
               /\ d.lat = InMax(Driver(v, p)) => Arrival(v, p, d).lat = OutLat[Driver(v, p)]
    <3> DEFINE u == Driver(v, p)
               l == Latency[nodes[u]]
               c == CompFrames(v, p)
               o == OutLat[u]
               e == Arrival(v, p, d)
    <3>1. u \in Drivers(v)
      BY PortsAre
    <3>2. /\ l \in Nat /\ o = InMax(u) + l /\ o \in Nat /\ o <= InMax(v)
          /\ c = InMax(v) - o /\ InMax(v) \in Nat
      BY <3>1, PortsAre
    <3>3. InMax(u) \in Nat
      BY PortsAre
    <3>4. d \in Pairs /\ d.lat + d.comp = InMax(u) /\ d.lat <= InMax(u)
      BY <3>1 DEF Phased
    <3>5. d.lat \in Int /\ d.comp \in Int
      BY <3>4 DEF Pairs
    <3>6. e.lat = d.lat + l /\ e.comp = d.comp + c
      BY DEF Arrival
    <3> HIDE DEF u, l, c, o, e
    <3>7. e.lat + e.comp = InMax(v) /\ e.lat <= InMax(v) /\ (d.lat = InMax(u) => e.lat = o)
      BY <3>2, <3>3, <3>4, <3>5, <3>6
    <3> QED BY <3>7 DEF u, o, e
  <2>3. ASSUME NEW e \in Arrivals(w, v)
        PROVE  e \in Pairs /\ e.lat + e.comp = InMax(v) /\ e.lat <= InMax(v)
    <3>1. PICK p \in Connected(v) : \E d \in w[Driver(v, p)] : e = Arrival(v, p, d)
      BY DEF Arrivals
    <3>2. e \in Pairs
      BY <2>1, BehindType
    <3> QED BY <2>2, <3>1, <3>2
  <2>4. \E e \in Arrivals(w, v) : e.lat = InMax(v)
    <3>1. PICK u \in Drivers(v) : OutLat[u] = InMax(v)
      BY <1>2, PortsAre
    <3>2. PICK p \in Connected(v) : Driver(v, p) = u
      BY PortsAre
    <3>3. PICK d \in w[u] : d.lat = InMax(u)
      BY DEF Phased
    <3>4. Arrival(v, p, d).lat = InMax(v)
      BY <2>2, <3>1, <3>2, <3>3
    <3>5. Arrival(v, p, d) \in Arrivals(w, v)
      BY <3>2, <3>3 DEF Arrivals
    <3> QED BY <3>4, <3>5
  <2> QED BY <2>1, <2>3, <2>4 DEF Phased
<1> QED BY <1>1, <1>2

\* After as many rounds as there are nodes every way has been followed.
LEMMA WaysPhased ==
  ASSUME TypeOK, Acyclic
  PROVE  \A v \in Slots : Phased(v, WaysTo(v))
<1> DEFINE q == Order
           n == Len(nodes)
<1>1. Topological(q)
  BY OrderIs
<1> HIDE DEF q
<1>2. /\ n \in Nat /\ DOMAIN q = 1 .. n /\ \A i \in 1 .. n : q[i] \in Slots
      /\ \A v \in Slots : \E i \in 1 .. n : q[i] = v
  <2>1. q \in Seq(Slots) /\ Len(q) = n /\ Range(q) = Slots
    BY <1>1 DEF Topological
  <2>2. n \in Nat /\ DOMAIN q = 1 .. n /\ \A i \in 1 .. n : q[i] \in Slots
    BY <2>1
  <2> QED BY <2>1, <2>2 DEF Range
<1>3. /\ \A k \in 0 .. n : Delays[k] \in [Slots -> SUBSET Pairs]
      /\ \A v \in Slots : Delays[0][v] = {NoDelay}
      /\ \A k \in 1 .. n, v \in Slots : Delays[k][v] = Behind(Delays[k - 1], v)
  BY DelaysAre
<1>4. WaysTo(q[n]) = Delays[n][q[n]] /\ \A v \in Slots : WaysTo(v) = Delays[n][v]
  BY DEF WaysTo
<1> HIDE DEF n
<1> DEFINE Reached(k) == \A i \in 1 .. n : i <= k + 1 => Phased(q[i], Delays[k][q[i]])
           T == {k \in Nat : k <= n => Reached(k)}
<1>5. 0 \in T
  <2> SUFFICES ASSUME NEW i \in 1 .. n, i <= 1 PROVE Phased(q[i], Delays[0][q[i]])
    OBVIOUS
  <2>1. q[i] \in Slots /\ i \in DOMAIN q /\ 1 .. i - 1 = {}
    BY <1>2
  <2>2. Drivers(q[i]) = {}
    BY <1>1, <2>1, DriversInFront
  <2>3. InMax(q[i]) = 0 /\ Delays[0][q[i]] = {NoDelay}
    BY <1>3, <2>1, <2>2, PortsAre
  <2> QED BY <2>3 DEF Phased, NoDelay, Pairs
<1>6. ASSUME NEW k \in T PROVE k + 1 \in T
  <2> SUFFICES ASSUME k + 1 <= n, NEW i \in 1 .. n, i <= (k + 1) + 1
               PROVE  Phased(q[i], Delays[k + 1][q[i]])
    OBVIOUS
  <2>1. k \in Nat /\ k + 1 \in 1 .. n /\ k \in 0 .. n /\ (k + 1) - 1 = k /\ Reached(k)
    BY <1>2
  <2> DEFINE v == q[i]
             w == Delays[k]
  <2>2. v \in Slots /\ i \in DOMAIN q /\ w \in [Slots -> SUBSET Pairs] /\ Delays[k + 1][v] = Behind(w, v)
    BY <1>2, <1>3, <2>1
  <2>3. ASSUME NEW d \in Drivers(v) PROVE Phased(d, w[d])
    <3>1. PICK h \in 1 .. i - 1 : q[h] = d
      BY <1>1, <2>2, DriversInFront
    <3>2. h \in 1 .. n /\ h <= k + 1
      BY <1>2, <2>1
    <3> QED BY <2>1, <3>1, <3>2
  <2> HIDE DEF v, w
  <2>4. Phased(v, Behind(w, v))
    BY <2>2, <2>3, BehindPhased
  <2> QED BY <2>2, <2>4 DEF v
<1> HIDE DEF T
<1>7. T = Nat
  <2>1. T \in SUBSET Nat
    BY DEF T
  <2> QED BY <1>5, <1>6, <2>1, Induction
<1>8. n \in T /\ n <= n
  BY <1>2, <1>7
<1>9. Reached(n)
  BY <1>8 DEF T
<1>10. \A i \in 1 .. n : i <= n + 1
  BY <1>2
<1>11. \A i \in 1 .. n : Phased(q[i], Delays[n][q[i]])
  BY <1>9, <1>10
<1> HIDE DEF Reached
<1> QED BY <1>2, <1>4, <1>11

LEMMA InPhaseHolds ==
  ASSUME TypeOK
  PROVE  BranchesInPhase
<1> SUFFICES ASSUME Acyclic, NEW v \in Slots, NEW a \in WaysTo(v), NEW b \in WaysTo(v)
             PROVE  a.lat + a.comp = b.lat + b.comp
  BY CycleFound DEF BranchesInPhase, Valid
<1>1. Phased(v, WaysTo(v))
  BY WaysPhased
<1> QED BY <1>1 DEF Phased

LEMMA LongestHolds ==
  ASSUME TypeOK
  PROVE  LatencyIsLongest
<1> DEFINE sinks == {u \in Slots : Live(u) /\ OutsOf(u) = 0}
           A == {InMax(v) : v \in sinks}
           B == {w.lat : w \in UNION {WaysTo(v) : v \in sinks}}
           n == Len(nodes)
<1> SUFFICES ASSUME Acyclic PROVE MaxOf(A) = MaxOf(B)
  BY CycleFound DEF LatencyIsLongest, Valid, TotalLatency
<1>1. \A v \in sinks : v \in Slots /\ Phased(v, WaysTo(v))
  BY WaysPhased
<1>2. \A v \in sinks : InMax(v) \in Nat
  BY PortsAre
<1>3. CASE sinks = {}
  BY <1>3
<1>4. CASE sinks # {}
  <2> DEFINE t == [v \in 1 .. n |-> InMax(v)]
  <2>1. n \in Nat /\ Slots = 1 .. n /\ t \in [1 .. n -> Nat]
    BY NodeNumbers, PortsAre
  <2>2. A \subseteq {t[i] : i \in 1 .. n} \cup {0} /\ A # {}
    BY <1>1, <1>4, <2>1
  <2> HIDE DEF t, A, n
  <2>3. MaxOf(A) \in A /\ MaxOf(A) \in Nat /\ \A s \in A : s <= MaxOf(A)
    BY <2>1, <2>2, MaxOfTable
  <2> DEFINE m == MaxOf(A)
  <2>4. PICK v \in sinks : m = InMax(v)
    BY <2>3 DEF A
  <2>5. \A u \in sinks : InMax(u) <= m
    BY <2>3 DEF A
  <2> HIDE DEF m, sinks
  <2>6. ASSUME NEW l \in B PROVE l \in Int /\ l <= m
    <3>1. PICK u \in sinks : \E w \in WaysTo(u) : l = w.lat
      OBVIOUS
    <3>2. l \in Int /\ l <= InMax(u) /\ InMax(u) <= m /\ InMax(u) \in Nat
      BY <1>1, <1>2, <2>5, <3>1 DEF Phased, Pairs
    <3>3. m \in Nat
      BY <1>2, <2>4
    <3> QED BY <3>2, <3>3
  <2>7. m \in B
    <3>1. PICK w \in WaysTo(v) : w.lat = InMax(v)
      BY <1>1 DEF Phased
    <3> QED BY <2>4, <3>1
  <2>8. MaxOf(B) = m
    <3> HIDE DEF B
    <3> QED BY <2>6, <2>7, MaxOfOne
  <2> QED BY <2>8 DEF m
<1> QED BY <1>3, <1>4

\* In every graph that edits lead to and validate() accepts, whatever way a signal
\* takes to a node it arrives with the same delay.
THEOREM BranchesRecombine == Spec => []BranchesInPhase
<1>1. TypeOK => BranchesInPhase
  BY InPhaseHolds
<1> QED BY <1>1, TypeCorrect, PTL

\* And the latency reported for the graph is the largest sum of node latencies on any way to a sink.
THEOREM LatencyReported == Spec => []LatencyIsLongest
<1>1. TypeOK => LatencyIsLongest
  BY LongestHolds
<1> QED BY <1>1, TypeCorrect, PTL

-----------------------------------------------------------------------------
(* Channels and what nodes read of them.                                   *)

LEMMA ChansAre ==
  ASSUME NEW k \in Nat
  PROVE  /\ Cardinality(Chans(k)) = k
         /\ \A c : c \in Chans(k) <=> c \in Nat /\ c < k
<1>1. Cardinality(0 .. k - 1) = k
  <2>1. 0 \in Int /\ k - 1 \in Int
    OBVIOUS
  <2>2. Cardinality(0 .. k - 1) = IF 0 > k - 1 THEN 0 ELSE (k - 1) - 0 + 1
    BY <2>1, FS_Interval
  <2>3. CASE k = 0
    BY <2>2, <2>3
  <2>4. CASE k # 0
    BY <2>2, <2>4
  <2> QED BY <2>3, <2>4
<1>2. \A c : c \in Chans(k) <=> c \in Nat /\ c < k
  BY DEF Chans
<1> QED BY <1>1, <1>2 DEF Chans

LEMMA WidthIn ==
  ASSUME NEW nd, IsNode(nd), NEW iw \in Nat
  PROVE  WidthAfter(nd, iw) \in Nat
BY DEF WidthAfter, IsNode

LEMMA ReadsIn ==
  ASSUME NEW nd, IsNode(nd), NEW p, NEW iw \in Nat, NEW ow \in Nat, ow = WidthAfter(nd, iw),
         NEW c \in Chans(ow)
  PROVE  Reads(nd, p, iw, ow, c) \in SUBSET Chans(iw)
<1>1. Own(iw, c) \in SUBSET Chans(iw) /\ Own(iw, 0) \in SUBSET Chans(iw)
  BY DEF Own, Chans
<1>2. nd.route \in Routes
  BY DEF IsNode
<1>3. CASE nd.route \in {"own", "lookahead", "echo"}
  BY <1>1, <1>3 DEF Reads
<1>4. CASE nd.route = "gain"
  BY <1>1, <1>4 DEF Reads, GainReads
<1>5. CASE nd.route = "width"
  <2>1. Reads(nd, p, iw, ow, c) = WidthReads(p, iw, ow, c)
    BY <1>5 DEF Reads
  <2>2. CASE c > 1 \/ iw < 2 \/ ow < 2 \/ p[1] = 1
    BY <1>1, <2>1, <2>2 DEF WidthReads
  <2>3. CASE ~(c > 1 \/ iw < 2 \/ ow < 2 \/ p[1] = 1)
    <3>1. Reads(nd, p, iw, ow, c) = {0, 1}
      BY <2>1, <2>3 DEF WidthReads
    <3> QED BY <2>3, <3>1, ChansAre
  <2> QED BY <2>2, <2>3
<1>6. CASE nd.route = "first"
  BY <1>1, <1>6 DEF Reads
<1>7. CASE nd.route = "mono"
  <2>1. nd.width = 1
    BY <1>7 DEF IsNode
  <2>2. ow = 1
    BY <2>1 DEF WidthAfter
  <2>3. c = 0
    BY <2>2 DEF Chans
  <2> QED BY <1>7, <2>3 DEF Reads, Chans
<1>8. CASE nd.route = "matrix"
  BY <1>8 DEF Reads, MatrixReads
<1>9. CASE nd.route = "line"
  BY <1>1, <1>9 DEF Reads
<1>10. CASE nd.route = "tone"
  BY <1>10 DEF Reads
<1> QED BY <1>2, <1>3, <1>4, <1>5, <1>6, <1>7, <1>8, <1>9, <1>10 DEF Routes

\* Sets of samples that mixing does not lead out of.
Closed(H) == {} \in H /\ {Tone} \in H /\ \A S \in SUBSET H : UNION S \in H

LEMMA MixedIn ==
  ASSUME NEW H, Closed(H), NEW plane, NEW from \in SUBSET Nat, NEW n \in Nat, NEW f \in 1 .. n,
         \A i \in from : plane[i][f] \in H
  PROVE  Mixed(plane, from, n)[f] \in H
<1>1. Mixed(plane, from, n)[f] = UNION {IF i = -1 THEN {Stale} ELSE plane[i][f] : i \in from}
  BY DEF Mixed
<1>2. \A i \in from : i # -1
  OBVIOUS
<1>3. {IF i = -1 THEN {Stale} ELSE plane[i][f] : i \in from} \in SUBSET H
  BY <1>2
<1> QED BY <1>1, <1>3 DEF Closed

LEMMA SliceIs ==
  ASSUME NEW S, NEW s, NEW m \in Nat, NEW n \in Nat, \A i \in m + 1 .. m + n : s[i] \in S
  PROVE  /\ SubSeq(s, m + 1, m + n) \in [1 .. n -> S]
         /\ \A i \in 1 .. n : SubSeq(s, m + 1, m + n)[i] = s[m + i]
<1> DEFINE r == SubSeq(s, m + 1, m + n)
<1>1. m + 1 \in Int /\ m + n \in Int /\ (m + n) - (m + 1) + 1 = n
  OBVIOUS
<1>2. /\ r \in Seq(S)
      /\ Len(r) = IF m + 1 <= m + n THEN (m + n) - (m + 1) + 1 ELSE 0
      /\ \A i \in 1 .. (m + n) - (m + 1) + 1 : r[i] = s[m + 1 + i - 1]
  BY <1>1, SubSeqProperties
<1> HIDE DEF r
<1>3. Len(r) = n
  <2>1. CASE m + 1 <= m + n
    BY <1>1, <1>2, <2>1
  <2>2. CASE ~(m + 1 <= m + n)
    BY <1>2, <2>2
  <2> QED BY <2>1, <2>2
<1>4. r \in [1 .. n -> S]
  BY <1>2, <1>3
<1>5. \A i \in 1 .. n : m + 1 + i - 1 = m + i
  OBVIOUS
<1>6. \A i \in 1 .. n : r[i] = s[m + i]
  BY <1>1, <1>2, <1>5
<1> QED BY <1>4, <1>6 DEF r

\* A ring in place: the frames it held come out, then those of the block.
Shifts(r, held, x, d, n) ==
  /\ \A f \in 1 .. n : r.out[f] = IF f <= d THEN held[f] ELSE x[f - d]
  /\ \A j \in 1 .. d : r.held[j] = IF n + j <= d THEN held[n + j] ELSE x[n + j - d]

LEMMA ThroughIs ==
  ASSUME NEW S, NEW d \in Nat, NEW n \in Nat, NEW held \in [1 .. d -> S], NEW x \in [1 .. n -> S]
  PROVE  /\ Through(held, x).out \in [1 .. n -> S]
         /\ Through(held, x).held \in [1 .. d -> S]
         /\ Shifts(Through(held, x), held, x, d, n)
<1> DEFINE all == held \o x
<1>1. held \in Seq(S) /\ Len(held) = d /\ x \in Seq(S) /\ Len(x) = n
  OBVIOUS
<1>2. all \in Seq(S) /\ Len(all) = d + n
  BY <1>1
<1>3. \A j \in 1 .. d + n : all[j] = IF j <= d THEN held[j] ELSE x[j - d]
  BY <1>1
<1>4. /\ Through(held, x).out = SubSeq(all, 1, n)
      /\ Through(held, x).held = SubSeq(all, n + 1, d + n)
  BY <1>1, <1>2 DEF Through
<1> HIDE DEF all
<1>5. \A j \in 1 .. d + n : all[j] \in S
  BY <1>2
<1>6. /\ SubSeq(all, 1, n) \in [1 .. n -> S]
      /\ \A f \in 1 .. n : SubSeq(all, 1, n)[f] = all[f]
  <2>1. PICK m \in Nat : m = 0
    OBVIOUS
  <2>2. \A i \in m + 1 .. m + n : all[i] \in S
    BY <1>5, <2>1
  <2>3. /\ SubSeq(all, m + 1, m + n) \in [1 .. n -> S]
        /\ \A i \in 1 .. n : SubSeq(all, m + 1, m + n)[i] = all[m + i]
    BY <2>2, SliceIs
  <2>4. m + 1 = 1 /\ m + n = n /\ \A i \in 1 .. n : m + i = i
    BY <2>1
  <2> QED BY <2>3, <2>4
<1>7. /\ SubSeq(all, n + 1, n + d) \in [1 .. d -> S]
      /\ \A j \in 1 .. d : SubSeq(all, n + 1, n + d)[j] = all[n + j]
  <2>1. \A i \in n + 1 .. n + d : all[i] \in S
    BY <1>5
  <2> QED BY <2>1, SliceIs
<1>8. n + d = d + n /\ \A j \in 1 .. d : n + j \in 1 .. d + n
  OBVIOUS
<1>9. \A f \in 1 .. n : f \in 1 .. d + n
  OBVIOUS
<1> QED BY <1>3, <1>4, <1>6, <1>7, <1>8, <1>9 DEF Shifts

-----------------------------------------------------------------------------
(* Rings and nodes.                                                        *)

\* The ring of a delay with feedback, and what has come out of it.
LEMMA EchoIs ==
  ASSUME NEW H, Closed(H), NEW cap \in Nat \ {0}, NEW n \in Nat, NEW held \in [1 .. cap -> H],
         NEW x \in [1 .. n -> H], NEW delay \in 0 .. cap - 1, NEW feedback, NEW mix
  PROVE  /\ Echo(delay, feedback, mix, held, x).out \in [1 .. n -> H]
         /\ Echo(delay, feedback, mix, held, x).held \in [1 .. cap -> H]
<1> DEFINE at == IF delay = 0 THEN 1 ELSE Len(held) - delay + 1
           U == [1 .. cap -> H]
           Put(r, f) == Append(Tail(r), IF feedback = 0 THEN x[f] ELSE x[f] \union r[at])
           F == [v \in U \X Nat |-> IF v[2] \in 1 .. n THEN Put(v[1], v[2]) ELSE v[1]]
           Eq(r) == r = [f \in 0 .. n |-> IF f = 0 THEN held ELSE Put(r[f - 1], f)]
           ring == CHOOSE r : Eq(r)
<1>1. at \in 1 .. cap
  <2>1. Len(held) = cap
    OBVIOUS
  <2>2. CASE delay = 0
    BY <2>2
  <2>3. CASE delay # 0
    <3>1. at = cap - delay + 1
      BY <2>1, <2>3
    <3> HIDE DEF at
    <3> QED BY <3>1, <2>3
  <2> QED BY <2>2, <2>3
<1>2. Len(x) = n /\ Len(held) = cap
  OBVIOUS
<1>3. \A u, v \in H : u \union v \in H
  <2> SUFFICES ASSUME NEW u \in H, NEW v \in H PROVE u \union v \in H
    OBVIOUS
  <2>1. UNION {u, v} \in H
    BY DEF Closed
  <2> QED BY <2>1
<1>4. /\ Echo(delay, feedback, mix, held, x).out = [f \in 1 .. n |-> Blend(mix, x[f], ring[f - 1][at])]
      /\ Echo(delay, feedback, mix, held, x).held = ring[n]
  BY <1>2 DEF Echo, Blend
<1> HIDE DEF at
<1>5. ASSUME NEW r \in U, NEW f \in 1 .. n PROVE Put(r, f) \in U
  <2>1. r[at] \in H /\ x[f] \in H
    BY <1>1
  <2> DEFINE v == IF feedback = 0 THEN x[f] ELSE x[f] \union r[at]
  <2>2. v \in H
    BY <1>3, <2>1
  <2> HIDE DEF v
  <2>3. r \in Seq(H) /\ Len(r) = cap /\ r # <<>>
    OBVIOUS
  <2>4. Tail(r) \in Seq(H) /\ Len(Tail(r)) = cap - 1
    BY <2>3, HeadTailProperties
  <2>5. Append(Tail(r), v) \in Seq(H) /\ Len(Append(Tail(r), v)) = cap
    BY <2>2, <2>4
  <2>6. \A q \in Seq(H) : Len(q) = cap => q \in [1 .. cap -> H]
    OBVIOUS
  <2>7. Append(Tail(r), v) \in U
    BY <2>5, <2>6
  <2> QED BY <2>7 DEF v
<1>6. F \in [U \X Nat -> U] /\ \A r \in U, f \in 1 .. n : F[<<r, f>>] = Put(r, f)
  <2> HIDE DEF Put
  <2> QED BY <1>5
<1> HIDE DEF F, Put, U
<1>7. held \in U
  BY DEF U
<1>8. PICK g : g \in Rounds(U, F, held, n)
  BY <1>6, <1>7, RoundsExist
<1>9. \A f \in 1 .. n : f # 0 /\ f \in 0 .. n /\ f - 1 \in 0 .. n
  OBVIOUS
<1>10. Eq(g)
  <2>1. \A f \in 1 .. n : g[f] = Put(g[f - 1], f)
    BY <1>6, <1>8, <1>9 DEF Rounds
  <2>2. \A f \in 0 .. n : f = 0 \/ f \in 1 .. n
    OBVIOUS
  <2>3. \A f \in 0 .. n : g[f] = IF f = 0 THEN held ELSE Put(g[f - 1], f)
    BY <1>8, <2>1, <2>2 DEF Rounds
  <2>4. g = [f \in 0 .. n |-> g[f]]
    BY <1>8 DEF Rounds
  <2> QED BY <2>3, <2>4
<1>11. Eq(ring)
  BY <1>10
<1> HIDE DEF ring
<1>12. ring[0] = held /\ \A f \in 1 .. n : ring[f] = Put(ring[f - 1], f)
  BY <1>9, <1>11
<1>13. ring \in Rounds(U, F, held, n)
  <2>1. \A f \in 1 .. n : ring[f - 1] \in U => ring[f] = F[<<ring[f - 1], f>>]
    BY <1>6, <1>12
  <2>2. ring = [f \in 0 .. n |-> ring[f]]
    BY <1>11
  <2> QED BY <1>6, <1>7, <1>12, <2>1, <2>2, LoopIn
<1>14. \A f \in 0 .. n : ring[f] \in U
  BY <1>13 DEF Rounds
<1>15. \A f \in 1 .. n : ring[f - 1][at] \in H
  BY <1>1, <1>9, <1>14 DEF U
<1>16. \A f \in 1 .. n : Blend(mix, x[f], ring[f - 1][at]) \in H
  <2>1. {} \in H
    BY DEF Closed
  <2>2. \A u, v \in H : Blend(mix, u, v) \in H
    BY <1>3, <2>1 DEF Blend
  <2> QED BY <1>15, <2>2
<1> QED BY <1>4, <1>14, <1>16 DEF U

-----------------------------------------------------------------------------
(* What compile() works out.                                               *)

LEMMA WiringIs ==
  ASSUME wiring \in Setups
  PROVE  /\ wiring.device \in Nat \ {0} /\ wiring.map \in Modes
         /\ \A b \in Chains : /\ Len(wiring[b]) \in Nat
                              /\ \A i \in 1 .. Len(wiring[b]) : IsNode(Node(b, i))
<1> DEFINE K == DOMAIN Class
<1>1. wiring \in [a : Seq(K), b : Seq(K), join : Seq(K), device : Nat \ {0}, map : Modes]
  BY SetupsAssumption
<1> HIDE DEF K
<1>2. wiring.device \in Nat \ {0} /\ wiring.map \in Modes
  BY <1>1
<1>3. \A b \in Chains : wiring[b] \in Seq(K)
  BY <1>1 DEF Chains, Branches
<1>4. ASSUME NEW b \in Chains
      PROVE  Len(wiring[b]) \in Nat /\ \A i \in 1 .. Len(wiring[b]) : IsNode(Node(b, i))
  <2>1. Len(wiring[b]) \in Nat /\ \A i \in 1 .. Len(wiring[b]) : wiring[b][i] \in K
    BY <1>3
  <2> QED BY <2>1, ClassAssumption DEF Node, K
<1> QED BY <1>2, <1>4

LEMMA WidthsAre ==
  ASSUME wiring \in Setups, NEW b \in Chains
  PROVE  /\ \A i \in 0 .. Len(wiring[b]) : Widths(b)[i] \in Nat
         /\ Widths(b)[0] = Channels
         /\ \A i \in 1 .. Len(wiring[b]) : Widths(b)[i] = WidthAfter(Node(b, i), Widths(b)[i - 1])
<1> DEFINE n == Len(wiring[b])
           F == [v \in Nat \X Nat |-> IF v[2] \in 1 .. n THEN WidthAfter(Node(b, v[2]), v[1]) ELSE v[1]]
           Eq(r) == r = [i \in 0 .. n |-> IF i = 0 THEN Channels ELSE WidthAfter(Node(b, i), r[i - 1])]
           width == CHOOSE r : Eq(r)
<1>1. n \in Nat /\ \A i \in 1 .. n : IsNode(Node(b, i))
  BY WiringIs
<1>2. Widths(b) = width
  BY DEF Widths
<1>3. Channels \in Nat
  BY NodesAssumption
<1> HIDE DEF n
<1>4. \A w \in Nat, i \in 1 .. n : WidthAfter(Node(b, i), w) \in Nat
  BY <1>1, WidthIn
<1>5. /\ F \in [Nat \X Nat -> Nat]
      /\ \A w \in Nat, i \in 1 .. n : F[<<w, i>>] = WidthAfter(Node(b, i), w)
  BY <1>4
<1> HIDE DEF F
<1>6. PICK g : g \in Rounds(Nat, F, Channels, n)
  BY <1>1, <1>3, <1>5, RoundsExist
<1>7. \A i \in 1 .. n : i # 0 /\ i \in 0 .. n /\ i - 1 \in 0 .. n
  BY <1>1
<1>8. Eq(g)
  <2>1. \A i \in 1 .. n : g[i] = WidthAfter(Node(b, i), g[i - 1])
    BY <1>5, <1>6, <1>7 DEF Rounds
  <2>2. \A i \in 0 .. n : i = 0 \/ i \in 1 .. n
    BY <1>1
  <2>3. \A i \in 0 .. n : g[i] = IF i = 0 THEN Channels ELSE WidthAfter(Node(b, i), g[i - 1])
    BY <1>6, <2>1, <2>2 DEF Rounds
  <2>4. g = [i \in 0 .. n |-> g[i]]
    BY <1>6 DEF Rounds
  <2> QED BY <2>3, <2>4
<1>9. Eq(width)
  BY <1>8
<1> HIDE DEF width
<1>10. width[0] = Channels /\ \A i \in 1 .. n : width[i] = WidthAfter(Node(b, i), width[i - 1])
  BY <1>1, <1>7, <1>9
<1>11. width \in Rounds(Nat, F, Channels, n)
  <2>1. \A i \in 1 .. n : width[i - 1] \in Nat => width[i] = F[<<width[i - 1], i>>]
    BY <1>5, <1>10
  <2>2. width = [i \in 0 .. n |-> width[i]]
    BY <1>9
  <2> QED BY <1>1, <1>3, <1>5, <1>10, <2>1, <2>2, LoopIn
<1>12. \A i \in 0 .. n : width[i] \in Nat
  BY <1>11 DEF Rounds
<1> QED BY <1>2, <1>10, <1>12 DEF n

LEMMA LatenciesAre ==
  ASSUME wiring \in Setups, NEW b \in Chains
  PROVE  /\ \A i \in 0 .. Len(wiring[b]) : Latencies(b)[i] \in Nat
         /\ Latencies(b)[0] = 0
         /\ \A i \in 1 .. Len(wiring[b]) : Latencies(b)[i] = Latencies(b)[i - 1] + Node(b, i).latency
<1> DEFINE n == Len(wiring[b])
           F == [v \in Nat \X Nat |-> IF v[2] \in 1 .. n THEN v[1] + Node(b, v[2]).latency ELSE v[1]]
           Eq(r) == r = [i \in 0 .. n |-> IF i = 0 THEN 0 ELSE r[i - 1] + Node(b, i).latency]
           latency == CHOOSE r : Eq(r)
<1>1. n \in Nat /\ \A i \in 1 .. n : IsNode(Node(b, i))
  BY WiringIs
<1>2. Latencies(b) = latency
  BY DEF Latencies
<1> HIDE DEF n
<1>3. \A i \in 1 .. n : Node(b, i).latency \in Nat
  BY <1>1 DEF IsNode
<1>4. \A w \in Nat, i \in 1 .. n : w + Node(b, i).latency \in Nat
  BY <1>3
<1>5. /\ F \in [Nat \X Nat -> Nat]
      /\ \A w \in Nat, i \in 1 .. n : F[<<w, i>>] = w + Node(b, i).latency
  BY <1>4
<1> HIDE DEF F
<1>6. PICK g : g \in Rounds(Nat, F, 0, n)
  <2>1. 0 \in Nat
    OBVIOUS
  <2> QED BY <1>1, <1>5, <2>1, RoundsExist
<1>7. \A i \in 1 .. n : i # 0 /\ i \in 0 .. n /\ i - 1 \in 0 .. n
  BY <1>1
<1>8. Eq(g)
  <2>1. \A i \in 1 .. n : g[i] = g[i - 1] + Node(b, i).latency
    BY <1>5, <1>6, <1>7 DEF Rounds
  <2>2. \A i \in 0 .. n : i = 0 \/ i \in 1 .. n
    BY <1>1
  <2>3. \A i \in 0 .. n : g[i] = IF i = 0 THEN 0 ELSE g[i - 1] + Node(b, i).latency
    BY <1>6, <2>1, <2>2 DEF Rounds
  <2>4. g = [i \in 0 .. n |-> g[i]]
    BY <1>6 DEF Rounds
  <2> QED BY <2>3, <2>4
<1>9. Eq(latency)
  BY <1>8
<1> HIDE DEF latency
<1>10. latency[0] = 0 /\ \A i \in 1 .. n : latency[i] = latency[i - 1] + Node(b, i).latency
  BY <1>1, <1>7, <1>9
<1>11. latency \in Rounds(Nat, F, 0, n)
  <2>1. \A i \in 1 .. n : latency[i - 1] \in Nat => latency[i] = F[<<latency[i - 1], i>>]
    BY <1>5, <1>10
  <2>2. latency = [i \in 0 .. n |-> latency[i]]
    BY <1>9
  <2>3. 0 \in Nat
    OBVIOUS
  <2> QED BY <1>1, <1>5, <1>10, <2>1, <2>2, <2>3, LoopIn
<1>12. \A i \in 0 .. n : latency[i] \in Nat
  BY <1>11 DEF Rounds
<1> QED BY <1>2, <1>10, <1>12 DEF n

\* The later branch decides, and is not delayed itself.
LEMMA DelaysCompensate ==
  ASSUME wiring \in Setups
  PROVE  /\ LatencyFrames \in Nat
         /\ \A b \in Branches : /\ CompDelay(b) \in Nat
                                /\ BranchLatency(b) \in Nat
                                /\ BranchLatency(b) + CompDelay(b) = LatencyFrames
<1> DEFINE p == BranchLatency("a")
           q == BranchLatency("b")
<1>1. p \in Nat /\ q \in Nat
  BY LatenciesAre, WiringIs DEF BranchLatency, Chains, Branches
<1>2. LatencyFrames = Max({p, q})
  <2>1. {BranchLatency(b) : b \in Branches} = {p, q}
    BY DEF Branches
  <2> QED BY <2>1 DEF LatencyFrames
<1> HIDE DEF p, q
<1>3. \E m \in {p, q} : \A y \in {p, q} : m >= y
  BY <1>1
<1>4. Max({p, q}) \in {p, q} /\ \A y \in {p, q} : Max({p, q}) >= y
  BY <1>3, Zenon DEF Max
<1>5. LatencyFrames \in Nat /\ p <= LatencyFrames /\ q <= LatencyFrames
  BY <1>1, <1>2, <1>4
<1>6. \A b \in Branches : BranchLatency(b) \in {p, q}
  BY DEF Branches, p, q
<1>7. \A b \in Branches : CompDelay(b) = LatencyFrames - BranchLatency(b)
  BY DEF CompDelay
<1> QED BY <1>1, <1>5, <1>6, <1>7

-----------------------------------------------------------------------------
(* One node, one block.                                                    *)

\* What a node takes in for its channel c.
Taken(nd, p, iw, ow, in, n, c) == Mixed(in, Reads(nd, p, iw, ow, c), n)

Does(nd, p, held, in, n, iw, ow) ==
  /\ NodeProcess(nd, p, held, in, n) =
       [c \in Chans(ow) |->
         IF nd.route = "tone" THEN [f \in 1 .. n |-> {Tone}]
         ELSE IF c \in DOMAIN held THEN Hold(nd, p, held[c], Taken(nd, p, iw, ow, in, n, c)).out
         ELSE Taken(nd, p, iw, ow, in, n, c)]
  /\ HeldAfter(nd, p, held, in, n) =
       [c \in DOMAIN held |->
         IF c \in Chans(ow) THEN Hold(nd, p, held[c], Taken(nd, p, iw, ow, in, n, c)).held
         ELSE held[c]]

LEMMA NodeIs ==
  ASSUME NEW nd, NEW p, NEW held, NEW n \in Nat, NEW iw \in Nat, NEW in, DOMAIN in = Chans(iw),
         NEW ow, ow = WidthAfter(nd, iw)
  PROVE  Does(nd, p, held, in, n, iw, ow)
<1> DEFINE holds == [c \in DOMAIN held \cap Chans(ow) |->
                      Hold(nd, p, held[c], Taken(nd, p, iw, ow, in, n, c))]
<1>1. Cardinality(DOMAIN in) = iw
  BY ChansAre
<1>2. Holds(nd, p, held, in, n) = holds
  BY <1>1 DEF Holds, Taken
<1>3. \A c \in DOMAIN held : c \in Chans(ow) =>
        c \in DOMAIN holds /\ holds[c] = Hold(nd, p, held[c], Taken(nd, p, iw, ow, in, n, c))
  OBVIOUS
<1>4. DOMAIN holds = DOMAIN held \cap Chans(ow)
  OBVIOUS
<1> HIDE DEF holds
<1>5. NodeProcess(nd, p, held, in, n) =
              [c \in Chans(ow) |->
                IF nd.route = "tone" THEN [f \in 1 .. n |-> {Tone}]
                ELSE IF c \in DOMAIN held THEN holds[c].out
                ELSE Taken(nd, p, iw, ow, in, n, c)]
  BY <1>1, <1>2 DEF NodeProcess, Taken
<1>6. HeldAfter(nd, p, held, in, n) =
        [c \in DOMAIN held |-> IF c \in DOMAIN holds THEN holds[c].held ELSE held[c]]
  BY <1>2 DEF HeldAfter
<1> QED BY <1>3, <1>4, <1>5, <1>6 DEF Does

LEMMA TakenIn ==
  ASSUME NEW nd, IsNode(nd), NEW p, NEW H, Closed(H), NEW n \in Nat, NEW iw \in Nat,
         NEW in \in [Chans(iw) -> [1 .. n -> H]], NEW ow, ow = WidthAfter(nd, iw), NEW c \in Chans(ow)
  PROVE  Taken(nd, p, iw, ow, in, n, c) \in [1 .. n -> H]
<1> DEFINE from == Reads(nd, p, iw, ow, c)
<1>1. ow \in Nat
  BY WidthIn
<1>2. from \in SUBSET Chans(iw)
  BY <1>1, ReadsIn
<1>3. from \in SUBSET Nat
  BY <1>2, ChansAre
<1>4. Taken(nd, p, iw, ow, in, n, c) = Mixed(in, from, n)
  BY DEF Taken
<1> HIDE DEF from
<1>5. \A f \in 1 .. n : Mixed(in, from, n)[f] \in H
  <2> SUFFICES ASSUME NEW f \in 1 .. n PROVE Mixed(in, from, n)[f] \in H
    OBVIOUS
  <2>1. \A i \in from : in[i][f] \in H
    BY <1>2
  <2> QED BY <1>3, <2>1, MixedIn
<1>6. Mixed(in, from, n) = [f \in 1 .. n |-> Mixed(in, from, n)[f]]
  BY DEF Mixed
<1> QED BY <1>4, <1>5, <1>6

\* The channels that a node has rings for, and how long these are.
Ringed(nd) == IF nd.depth = 0 THEN {} ELSE Chans(nd.chans)
RingLen(nd, r) == IF nd.route = "echo" THEN Cap(nd, r) ELSE nd.depth

LEMMA NodeKeepsType ==
  ASSUME NEW nd, IsNode(nd), NEW p, NEW H, Closed(H), NEW n \in Nat, NEW iw \in Nat,
         NEW in \in [Chans(iw) -> [1 .. n -> H]], NEW ow, ow = WidthAfter(nd, iw),
         NEW len \in Nat, NEW C, NEW held \in [C -> [1 .. len -> H]],
         nd.route = "echo" => p[1] \in 0 .. len - 1
  PROVE  /\ NodeProcess(nd, p, held, in, n) \in [Chans(ow) -> [1 .. n -> H]]
         /\ HeldAfter(nd, p, held, in, n) \in [C -> [1 .. len -> H]]
<1> DEFINE x(c) == Taken(nd, p, iw, ow, in, n, c)
<1>1. DOMAIN in = Chans(iw) /\ DOMAIN held = C
  OBVIOUS
<1>2. \A c \in Chans(ow) : x(c) \in [1 .. n -> H]
  BY TakenIn
<1>3. /\ NodeProcess(nd, p, held, in, n) =
              [c \in Chans(ow) |->
                IF nd.route = "tone" THEN [f \in 1 .. n |-> {Tone}]
                ELSE IF c \in DOMAIN held THEN Hold(nd, p, held[c], x(c)).out
                ELSE x(c)]
      /\ HeldAfter(nd, p, held, in, n) =
              [c \in DOMAIN held |-> IF c \in Chans(ow) THEN Hold(nd, p, held[c], x(c)).held ELSE held[c]]
  <2>1. Does(nd, p, held, in, n, iw, ow)
    BY <1>1, NodeIs
  <2> QED BY <2>1 DEF Does
<1> HIDE DEF x
<1>4. ASSUME NEW c \in Chans(ow), c \in C
      PROVE  /\ Hold(nd, p, held[c], x(c)).out \in [1 .. n -> H]
             /\ Hold(nd, p, held[c], x(c)).held \in [1 .. len -> H]
  <2>1. x(c) \in [1 .. n -> H] /\ held[c] \in [1 .. len -> H]
    BY <1>2, <1>4
  <2>2. CASE nd.route = "echo"
    <3>1. p[1] \in 0 .. len - 1 /\ len \in Nat \ {0}
      BY <2>2
    <3>2. Hold(nd, p, held[c], x(c)) = Echo(p[1], p[2], p[3], held[c], x(c))
      BY <2>2 DEF Hold
    <3>3. PICK delay : delay = p[1]
      OBVIOUS
    <3>4. PICK y : y = x(c)
      OBVIOUS
    <3>5. PICK h : h = held[c]
      OBVIOUS
    <3>6. y \in [1 .. n -> H] /\ h \in [1 .. len -> H] /\ delay \in 0 .. len - 1
      BY <2>1, <3>1, <3>3, <3>4, <3>5
    <3>7. /\ Echo(delay, p[2], p[3], h, y).out \in [1 .. n -> H]
          /\ Echo(delay, p[2], p[3], h, y).held \in [1 .. len -> H]
      BY <3>1, <3>6, EchoIs
    <3> QED BY <3>2, <3>3, <3>4, <3>5, <3>7
  <2>3. CASE nd.route # "echo"
    <3>1. Hold(nd, p, held[c], x(c)) = Through(held[c], x(c))
      BY <2>3 DEF Hold
    <3>2. PICK y : y = x(c)
      OBVIOUS
    <3>3. PICK h : h = held[c]
      OBVIOUS
    <3>4. y \in [1 .. n -> H] /\ h \in [1 .. len -> H]
      BY <2>1, <3>2, <3>3
    <3>5. /\ Through(h, y).out \in [1 .. n -> H]
          /\ Through(h, y).held \in [1 .. len -> H]
      BY <3>4, ThroughIs
    <3> QED BY <3>1, <3>2, <3>3, <3>5
  <2> QED BY <2>2, <2>3
<1>5. [f \in 1 .. n |-> {Tone}] \in [1 .. n -> H]
  BY DEF Closed
<1>6. NodeProcess(nd, p, held, in, n) \in [Chans(ow) -> [1 .. n -> H]]
  <2> DEFINE N(c) == IF nd.route = "tone" THEN [f \in 1 .. n |-> {Tone}]
                     ELSE IF c \in DOMAIN held THEN Hold(nd, p, held[c], x(c)).out
                     ELSE x(c)
  <2>1. \A c \in Chans(ow) : N(c) \in [1 .. n -> H]
    BY <1>1, <1>2, <1>4, <1>5
  <2>2. NodeProcess(nd, p, held, in, n) = [c \in Chans(ow) |-> N(c)]
    BY <1>3
  <2> HIDE DEF N
  <2> QED BY <2>1, <2>2
<1>7. HeldAfter(nd, p, held, in, n) \in [C -> [1 .. len -> H]]
  BY <1>1, <1>3, <1>4
<1> QED BY <1>6, <1>7

-----------------------------------------------------------------------------
(* What holds between blocks.                                              *)

LEMMA MaxOfTwo ==
  ASSUME NEW p \in Int, NEW q \in Int
  PROVE  Max({p, q}) \in {p, q} /\ Max({p, q}) >= p /\ Max({p, q}) >= q
<1>1. \E m \in {p, q} : \A y \in {p, q} : m >= y
  OBVIOUS
<1>2. Max({p, q}) \in {p, q} /\ \A y \in {p, q} : Max({p, q}) >= y
  BY <1>1, Zenon DEF Max
<1> QED BY <1>2

LEMMA MinOfTwo ==
  ASSUME NEW p \in Int, NEW q \in Int
  PROVE  Min({p, q}) \in {p, q} /\ Min({p, q}) <= p /\ Min({p, q}) <= q
<1>1. \E m \in {p, q} : \A y \in {p, q} : m <= y
  OBVIOUS
<1>2. Min({p, q}) \in {p, q} /\ \A y \in {p, q} : Min({p, q}) <= y
  BY <1>1, Zenon DEF Min
<1> QED BY <1>2

LEMMA CapIs ==
  ASSUME NEW nd, IsNode(nd), NEW r \in Nat
  PROVE  Cap(nd, r) \in Nat /\ Cap(nd, r) >= 2
<1>1. nd.depth \in Nat
  BY DEF IsNode
<1>2. PICK m \in Nat : m = nd.depth * r
  BY <1>1
<1>3. Cap(nd, r) = Max({m + 1, 2})
  BY <1>2 DEF Cap
<1>4. m + 1 \in Int /\ 2 \in Int
  OBVIOUS
<1>5. Max({m + 1, 2}) \in {m + 1, 2} /\ Max({m + 1, 2}) >= 2
  BY <1>4, MaxOfTwo
<1> QED BY <1>3, <1>5

LEMMA RingLenIs ==
  ASSUME NEW nd, IsNode(nd), NEW r \in Nat
  PROVE  RingLen(nd, r) \in Nat
<1>1. nd.depth \in Nat
  BY DEF IsNode
<1> QED BY <1>1, CapIs DEF RingLen

\* Samples without what an earlier block left.
Signals(d) == SUBSET ({Tone} \union (Chans(d) \X (1 .. MaxFrames)))

LEMMA SignalsAreClosed == \A d : Closed(Signals(d))
<1> SUFFICES ASSUME NEW d PROVE Closed(Signals(d))
  OBVIOUS
<1> DEFINE A == {Tone} \union (Chans(d) \X (1 .. MaxFrames))
<1>1. Signals(d) = SUBSET A /\ Tone \in A
  BY DEF Signals
<1> HIDE DEF A
<1>2. {} \in SUBSET A /\ {Tone} \in SUBSET A
  BY <1>1
<1>3. \A S \in SUBSET (SUBSET A) : UNION S \in SUBSET A
  OBVIOUS
<1> QED BY <1>1, <1>2, <1>3 DEF Closed

\* Parameters are within their slots, a delay within its ring.
Parameters ==
  /\ DOMAIN par = Chains
  /\ \A b \in Chains : DOMAIN par[b] = 1 .. Len(wiring[b])
  /\ \A b \in Chains : \A i \in 1 .. Len(wiring[b]) :
       /\ DOMAIN par[b][i] = DOMAIN Node(b, i).params
       /\ \A k \in DOMAIN Node(b, i).params :
            par[b][i][k] \in Node(b, i).params[k].lo .. Node(b, i).params[k].hi
       /\ rate > 0 /\ Node(b, i).route = "echo" => par[b][i][1] < Cap(Node(b, i), rate)

Rings ==
  rate > 0 =>
    \A b \in Branches :
      /\ \A i \in 1 .. Len(wiring[b]) :
           mem[b][i] \in [Ringed(Node(b, i)) -> [1 .. RingLen(Node(b, i), rate) -> Signals(wiring.device)]]
      /\ comp[b] \in [Chans(BranchWidth(b)) -> [1 .. CompDelay(b) -> Signals(wiring.device)]]

Counters ==
  /\ wiring \in Setups /\ rate \in Rates \union {0} /\ frame \in 0 .. MaxFrames
  /\ edits \in 0 .. MaxEdits /\ compiles \in 0 .. MaxCompiles /\ edited \in BOOLEAN

Outputs == out \in [Chans(wiring.device) -> Seq(Signals(wiring.device))]

NodesInv == Counters /\ Parameters /\ Rings /\ Outputs

LEMMA InputIn ==
  ASSUME wiring \in Setups, NEW c \in Nat
  PROVE  Input(c) \in SUBSET Chans(wiring.device)
<1> DEFINE d == wiring.device
           mode == wiring.map
<1>1. d \in Nat \ {0} /\ mode \in Modes
  BY WiringIs
<1>2. Own(d, c) \in SUBSET Chans(d) /\ Own(d, 0) \in SUBSET Chans(d)
  BY DEF Own, Chans
<1>3. Input(c) = IF mode = "" THEN Own(d, c) ELSE MapChannels(mode, d, Channels, c)
  BY DEF Input
<1> HIDE DEF d, mode
<1>4. CASE mode = ""
  BY <1>2, <1>3, <1>4 DEF d
<1>5. CASE mode # ""
  <2>1. Resolved(mode, d, Channels) \in {"DuplicateMono", "DownmixToMono", "Copy"}
    BY <1>1, <1>5 DEF Resolved, Modes
  <2> DEFINE m == Resolved(mode, d, Channels)
  <2>2. Input(c) = CASE m = "DuplicateMono" -> Own(d, 0)
                     [] m = "DownmixToMono" -> IF c = 0 THEN Chans(d) ELSE {}
                     [] m = "Copy" -> Own(d, c)
    BY <1>3, <1>5 DEF MapChannels
  <2> HIDE DEF m
  <2>3. Input(c) \in SUBSET Chans(d)
    BY <1>2, <2>1, <2>2 DEF m
  <2> QED BY <2>3 DEF d
<1> QED BY <1>4, <1>5

LEMMA SourceIn ==
  ASSUME wiring \in Setups, frame \in Nat, NEW n \in Nat, frame + n <= MaxFrames
  PROVE  SourceNode(n) \in [Chans(Channels) -> [1 .. n -> Signals(wiring.device)]]
<1>1. ASSUME NEW c \in Chans(Channels), NEW f \in 1 .. n
      PROVE  {<<i, frame + f>> : i \in Input(c)} \in Signals(wiring.device)
  <2>1. c \in Nat
    BY NodesAssumption, ChansAre
  <2>2. Input(c) \in SUBSET Chans(wiring.device)
    BY <2>1, InputIn
  <2>3. frame + f \in 1 .. MaxFrames
    BY NodesAssumption
  <2> QED BY <2>2, <2>3 DEF Signals
<1> QED BY <1>1 DEF SourceNode

-----------------------------------------------------------------------------
(* A branch.                                                               *)

LEMMA BoundsAre ==
  ASSUME NEW q \in Seq(Slot)
  PROVE  /\ DOMAIN q = 1 .. Len(q) /\ Len(q) \in Nat
         /\ \A k \in DOMAIN q : q[k].lo \in Int /\ q[k].hi \in Int
<1>1. DOMAIN q = 1 .. Len(q) /\ Len(q) \in Nat
  OBVIOUS
<1>2. ASSUME NEW k \in DOMAIN q PROVE q[k].lo \in Int /\ q[k].hi \in Int
  <2>1. q[k] \in Slot
    OBVIOUS
  <2> QED BY <2>1 DEF Slot
<1> QED BY <1>1, <1>2

\* The rings of a node are there, and its delay is less than its ring is long.
LEMMA NodeReady ==
  ASSUME Counters, Parameters, Rings, rate > 0, NEW b \in Branches, NEW i \in 1 .. Len(wiring[b])
  PROVE  /\ IsNode(Node(b, i))
         /\ mem[b][i]
              \in [Ringed(Node(b, i)) -> [1 .. RingLen(Node(b, i), rate) -> Signals(wiring.device)]]
         /\ RingLen(Node(b, i), rate) \in Nat
         /\ Node(b, i).route = "echo" => par[b][i][1] \in 0 .. RingLen(Node(b, i), rate) - 1
<1>1. wiring \in Setups /\ rate \in Nat /\ b \in Chains
  BY NodesAssumption DEF Counters, Chains
<1>2. IsNode(Node(b, i))
  BY <1>1, WiringIs
<1>3. mem[b][i] \in [Ringed(Node(b, i)) -> [1 .. RingLen(Node(b, i), rate) -> Signals(wiring.device)]]
  BY DEF Rings
<1>4. RingLen(Node(b, i), rate) \in Nat
  BY <1>1, <1>2, RingLenIs
<1>5. ASSUME Node(b, i).route = "echo" PROVE par[b][i][1] \in 0 .. RingLen(Node(b, i), rate) - 1
  <2> DEFINE nd == Node(b, i)
  <2>1. nd.params \in Seq(Slot) /\ Len(nd.params) = 3 /\ nd.params[1].lo = 0
    BY <1>2, <1>5 DEF IsNode
  <2>2. 1 \in DOMAIN nd.params /\ nd.params[1].hi \in Int
    BY <2>1, BoundsAre
  <2>3. par[b][i][1] \in nd.params[1].lo .. nd.params[1].hi /\ par[b][i][1] < Cap(nd, rate)
    BY <1>1, <1>5, <2>2 DEF Parameters
  <2>4. Cap(nd, rate) \in Nat /\ RingLen(nd, rate) = Cap(nd, rate)
    BY <1>1, <1>2, <1>5, CapIs DEF RingLen
  <2> HIDE DEF nd
  <2>5. par[b][i][1] \in Nat /\ par[b][i][1] < RingLen(nd, rate)
    BY <2>1, <2>2, <2>3, <2>4
  <2> QED BY <2>4, <2>5 DEF nd
<1> QED BY <1>2, <1>3, <1>4, <1>5

\* The planes between the nodes of a branch are as wide as compile() laid out.
LEMMA PlanesAre ==
  ASSUME Counters, Parameters, Rings, rate > 0, NEW n \in Nat, frame + n <= MaxFrames,
         NEW b \in Branches
  PROVE  /\ Planes(b, n)[0] = SourceNode(n)
         /\ \A i \in 1 .. Len(wiring[b]) :
              Planes(b, n)[i] = NodeProcess(Node(b, i), par[b][i], mem[b][i], Planes(b, n)[i - 1], n)
         /\ \A i \in 0 .. Len(wiring[b]) :
              Planes(b, n)[i] \in [Chans(Widths(b)[i]) -> [1 .. n -> Signals(wiring.device)]]
<1> DEFINE H == Signals(wiring.device)
           P(w) == [Chans(w) -> [1 .. n -> H]]
           U == UNION {P(w) : w \in Nat}
           m == Len(wiring[b])
           G(v, i) == NodeProcess(Node(b, i), par[b][i], mem[b][i], v, n)
           F == [v \in U \X Nat |-> IF v[2] \in 1 .. m THEN G(v[1], v[2]) ELSE v[1]]
           base == SourceNode(n)
           Eq(r) == r = [i \in 0 .. m |-> IF i = 0 THEN base ELSE G(r[i - 1], i)]
           plane == CHOOSE r : Eq(r)
<1>1. wiring \in Setups /\ rate \in Nat /\ frame \in Nat /\ b \in Chains
  BY NodesAssumption DEF Counters, Chains
<1>2. m \in Nat /\ \A i \in 1 .. m : IsNode(Node(b, i))
  BY <1>1, WiringIs
<1>3. Closed(H)
  BY SignalsAreClosed
<1>4. Planes(b, n) = plane
  BY DEF Planes
<1>5. base \in P(Channels) /\ Channels \in Nat
  BY <1>1, SourceIn, NodesAssumption
<1>6. \A i \in 1 .. m :
        /\ mem[b][i] \in [Ringed(Node(b, i)) -> [1 .. RingLen(Node(b, i), rate) -> H]]
        /\ RingLen(Node(b, i), rate) \in Nat
        /\ Node(b, i).route = "echo" => par[b][i][1] \in 0 .. RingLen(Node(b, i), rate) - 1
  BY NodeReady
<1> HIDE DEF m, H
<1>7. ASSUME NEW i \in 1 .. m, NEW w \in Nat, NEW v \in P(w)
      PROVE  WidthAfter(Node(b, i), w) \in Nat /\ G(v, i) \in P(WidthAfter(Node(b, i), w))
  <2>1. IsNode(Node(b, i))
    BY <1>2
  <2>2. PICK ow \in Nat : ow = WidthAfter(Node(b, i), w)
    BY <2>1, WidthIn
  <2>3. PICK len \in Nat : len = RingLen(Node(b, i), rate)
    BY <1>6
  <2>4. mem[b][i] \in [Ringed(Node(b, i)) -> [1 .. len -> H]]
    BY <1>6, <2>3
  <2>5. Node(b, i).route = "echo" => par[b][i][1] \in 0 .. len - 1
    BY <1>6, <2>3
  <2>6. G(v, i) \in [Chans(ow) -> [1 .. n -> H]]
    BY <1>3, <2>1, <2>2, <2>4, <2>5, NodeKeepsType
  <2> QED BY <2>2, <2>6
<1> HIDE DEF G, P
<1>8. \A v \in U, i \in 1 .. m : G(v, i) \in U
  BY <1>7
<1>9. F \in [U \X Nat -> U] /\ \A v \in U, i \in 1 .. m : F[<<v, i>>] = G(v, i)
  BY <1>8
<1>10. base \in U
  BY <1>5
<1> HIDE DEF F, U, base
<1>11. PICK g : g \in Rounds(U, F, base, m)
  BY <1>2, <1>9, <1>10, RoundsExist
<1>12. \A i \in 1 .. m : i # 0 /\ i \in 0 .. m /\ i - 1 \in 0 .. m
  BY <1>2
<1>13. Eq(g)
  <2>1. \A i \in 1 .. m : g[i] = G(g[i - 1], i)
    BY <1>9, <1>11, <1>12 DEF Rounds
  <2>2. \A i \in 0 .. m : i = 0 \/ i \in 1 .. m
    BY <1>2
  <2>3. \A i \in 0 .. m : g[i] = IF i = 0 THEN base ELSE G(g[i - 1], i)
    BY <1>11, <2>1, <2>2 DEF Rounds
  <2>4. g = [i \in 0 .. m |-> g[i]]
    BY <1>11 DEF Rounds
  <2> QED BY <2>3, <2>4
<1>14. plane = Planes(b, n)
  BY <1>4
<1>15. Eq(plane)
  BY <1>13
<1> HIDE DEF plane
<1>16. plane[0] = base /\ \A i \in 1 .. m : plane[i] = G(plane[i - 1], i)
  BY <1>2, <1>12, <1>15
<1>17. /\ Widths(b)[0] = Channels
       /\ \A i \in 0 .. m : Widths(b)[i] \in Nat
       /\ \A i \in 1 .. m : Widths(b)[i] = WidthAfter(Node(b, i), Widths(b)[i - 1])
  BY <1>1, WidthsAre DEF m
<1> DEFINE T == {i \in Nat : i <= m => plane[i] \in P(Widths(b)[i])}
<1>18. 0 \in T
  BY <1>5, <1>16, <1>17
<1>19. ASSUME NEW i \in T PROVE i + 1 \in T
  <2> SUFFICES ASSUME i + 1 <= m PROVE plane[i + 1] \in P(Widths(b)[i + 1])
    OBVIOUS
  <2>1. i + 1 \in 1 .. m /\ (i + 1) - 1 = i /\ i \in 0 .. m /\ plane[i] \in P(Widths(b)[i])
    BY <1>2
  <2>2. plane[i + 1] = G(plane[i], i + 1)
    BY <1>16, <2>1
  <2>3. Widths(b)[i] \in Nat /\ Widths(b)[i + 1] = WidthAfter(Node(b, i + 1), Widths(b)[i])
    BY <1>17, <2>1
  <2> QED BY <1>7, <2>1, <2>2, <2>3
<1>20. T = Nat
  <2>1. T \in SUBSET Nat
    OBVIOUS
  <2> HIDE DEF T
  <2> QED BY <1>18, <1>19, <2>1, Induction
<1>21. \A i \in 0 .. m : plane[i] \in P(Widths(b)[i])
  <2>1. \A i \in 0 .. m : i \in T /\ i <= m
    BY <1>2, <1>20
  <2> QED BY <2>1
<1> QED BY <1>14, <1>16, <1>21 DEF m, H, P, G, base

\* What a branch gives at its end, and what its nodes hold then.
LEMMA BranchIs ==
  ASSUME Counters, Parameters, Rings, rate > 0, NEW n \in Nat, frame + n <= MaxFrames,
         NEW b \in Branches
  PROVE  /\ Branch(b, n).plane \in [Chans(BranchWidth(b)) -> [1 .. n -> Signals(wiring.device)]]
         /\ \A i \in 1 .. Len(wiring[b]) :
              Branch(b, n).mem[i]
                \in [Ringed(Node(b, i)) -> [1 .. RingLen(Node(b, i), rate) -> Signals(wiring.device)]]
<1> DEFINE H == Signals(wiring.device)
           m == Len(wiring[b])
<1>1. wiring \in Setups /\ b \in Chains
  BY DEF Counters, Chains
<1>2. m \in Nat
  BY <1>1, WiringIs
<1>3. Closed(H)
  BY SignalsAreClosed
<1>4. /\ Branch(b, n).plane = Planes(b, n)[m]
      /\ \A i \in 1 .. m :
           Branch(b, n).mem[i] = HeldAfter(Node(b, i), par[b][i], mem[b][i], Planes(b, n)[i - 1], n)
  BY DEF Branch
<1>5. \A i \in 0 .. m : Planes(b, n)[i] \in [Chans(Widths(b)[i]) -> [1 .. n -> H]]
  BY PlanesAre
<1>6. Branch(b, n).plane \in [Chans(BranchWidth(b)) -> [1 .. n -> H]]
  BY <1>2, <1>4, <1>5 DEF BranchWidth
<1>7. ASSUME NEW i \in 1 .. m
      PROVE  Branch(b, n).mem[i] \in [Ringed(Node(b, i)) -> [1 .. RingLen(Node(b, i), rate) -> H]]
  <2>1. /\ IsNode(Node(b, i)) /\ RingLen(Node(b, i), rate) \in Nat
        /\ mem[b][i] \in [Ringed(Node(b, i)) -> [1 .. RingLen(Node(b, i), rate) -> H]]
        /\ Node(b, i).route = "echo" => par[b][i][1] \in 0 .. RingLen(Node(b, i), rate) - 1
    BY NodeReady
  <2>2. i - 1 \in 0 .. m
    BY <1>2
  <2>3. PICK iw \in Nat : iw = Widths(b)[i - 1]
    BY <1>1, <2>2, WidthsAre
  <2>4. PICK in : in = Planes(b, n)[i - 1]
    OBVIOUS
  <2>5. in \in [Chans(iw) -> [1 .. n -> H]]
    BY <1>5, <2>2, <2>3, <2>4
  <2>6. PICK ow : ow = WidthAfter(Node(b, i), iw)
    OBVIOUS
  <2> HIDE DEF H
  <2>7. HeldAfter(Node(b, i), par[b][i], mem[b][i], in, n)
          \in [Ringed(Node(b, i)) -> [1 .. RingLen(Node(b, i), rate) -> H]]
    BY <1>3, <2>1, <2>5, <2>6, NodeKeepsType
  <2> QED BY <1>4, <2>4, <2>7
<1> QED BY <1>6, <1>7

-----------------------------------------------------------------------------
(* The invariant is kept.                                                  *)

LEMMA SilenceIs ==
  ASSUME NEW H, Closed(H), NEW n \in Nat
  PROVE  Silence(n) \in [1 .. n -> H]
BY DEF Silence, Closed

LEMMA ResetIn ==
  ASSUME NEW nd, IsNode(nd), NEW p, DOMAIN p = DOMAIN nd.params, NEW r \in Nat,
         \A k \in DOMAIN nd.params : p[k] \in nd.params[k].lo .. nd.params[k].hi
  PROVE  /\ DOMAIN Reset(nd, p, r) = DOMAIN nd.params
         /\ \A k \in DOMAIN nd.params : Reset(nd, p, r)[k] \in nd.params[k].lo .. nd.params[k].hi
         /\ nd.route = "echo" => Reset(nd, p, r)[1] < Cap(nd, r)
<1> DEFINE q == nd.params
           late == Min({q[1].init, Cap(nd, r) - 1})
<1>1. /\ q \in Seq(Slot) /\ \A k \in DOMAIN q : q[k].init \in q[k].lo .. q[k].hi
      /\ nd.route = "echo" => Len(q) = 3 /\ q[1].lo = 0 /\ q[1].forgets
  BY DEF IsNode
<1>2. \A k \in DOMAIN q : q[k].lo \in Int /\ q[k].hi \in Int
  BY <1>1, BoundsAre
<1>3. Cap(nd, r) \in Nat /\ Cap(nd, r) >= 2
  BY CapIs
<1>4. DOMAIN Reset(nd, p, r) = DOMAIN q
  BY DEF Reset
<1>5. \A k \in DOMAIN q :
        Reset(nd, p, r)[k] = IF ~q[k].forgets THEN p[k]
                             ELSE IF nd.route = "echo" /\ k = 1 THEN late
                             ELSE q[k].init
  BY DEF Reset
<1> HIDE DEF q
<1>6. ASSUME nd.route = "echo"
      PROVE  1 \in DOMAIN q /\ late \in q[1].lo .. q[1].hi /\ late < Cap(nd, r)
  <2>1. 1 \in DOMAIN q /\ q[1].lo = 0
    BY <1>1, <1>6
  <2>2. q[1].init \in Int /\ q[1].init >= 0 /\ q[1].init <= q[1].hi /\ q[1].hi \in Int
    BY <1>1, <1>2, <2>1
  <2>3. Cap(nd, r) - 1 \in Int /\ Cap(nd, r) - 1 >= 1
    BY <1>3
  <2>4. /\ late \in {q[1].init, Cap(nd, r) - 1}
        /\ late <= q[1].init /\ late <= Cap(nd, r) - 1
    BY <2>2, <2>3, MinOfTwo
  <2> HIDE DEF late
  <2>5. late \in Int /\ late >= 0
    BY <2>2, <2>3, <2>4
  <2> QED BY <1>3, <2>1, <2>2, <2>4, <2>5
<1> HIDE DEF late
<1>7. \A k \in DOMAIN q : Reset(nd, p, r)[k] \in q[k].lo .. q[k].hi
  <2> SUFFICES ASSUME NEW k \in DOMAIN q PROVE Reset(nd, p, r)[k] \in q[k].lo .. q[k].hi
    OBVIOUS
  <2>1. CASE ~q[k].forgets
    <3>1. Reset(nd, p, r)[k] = p[k]
      BY <1>5, <2>1
    <3> QED BY <3>1 DEF q
  <2>2. CASE q[k].forgets /\ nd.route = "echo" /\ k = 1
    BY <1>5, <1>6, <2>2
  <2>3. CASE q[k].forgets /\ ~(nd.route = "echo" /\ k = 1)
    BY <1>1, <1>5, <2>3
  <2> QED BY <2>1, <2>2, <2>3
<1>8. nd.route = "echo" => Reset(nd, p, r)[1] < Cap(nd, r)
  BY <1>1, <1>5, <1>6
<1> QED BY <1>4, <1>7, <1>8 DEF q

LEMMA ClearedIn ==
  ASSUME NEW nd, IsNode(nd), NEW r \in Nat, NEW H, Closed(H)
  PROVE  Cleared(nd, r) \in [Ringed(nd) -> [1 .. RingLen(nd, r) -> H]]
<1>1. CASE nd.depth = 0
  BY <1>1 DEF Cleared, Ringed
<1>2. CASE nd.depth # 0
  <2>1. Silence(RingLen(nd, r)) \in [1 .. RingLen(nd, r) -> H]
    BY RingLenIs, SilenceIs
  <2>2. Cleared(nd, r) = [c \in Chans(nd.chans) |-> Silence(RingLen(nd, r))]
    BY <1>2 DEF Cleared, RingLen
  <2> QED BY <1>2, <2>1, <2>2 DEF Ringed
<1> QED BY <1>1, <1>2

\* What compile() worked out depends on the wiring alone.
LEMMA WiringStays ==
  ASSUME wiring' = wiring
  PROVE  /\ \A b, i : Node(b, i)' = Node(b, i)
         /\ \A b : Widths(b)' = Widths(b) /\ BranchWidth(b)' = BranchWidth(b)
         /\ \A b : CompDelay(b)' = CompDelay(b)
         /\ \A b : Latencies(b)' = Latencies(b) /\ BranchLatency(b)' = BranchLatency(b)
         /\ LatencyFrames' = LatencyFrames
<1>1. \A b, i : Node(b, i)' = Node(b, i)
  BY DEF Node
<1>2. \A b : Widths(b)' = Widths(b)
  BY <1>1 DEF Widths, Node
<1>3. \A b : Latencies(b)' = Latencies(b)
  BY <1>1 DEF Latencies, Node
<1>4. \A b : BranchWidth(b)' = BranchWidth(b)
  BY <1>2 DEF BranchWidth
<1>5. \A b : BranchLatency(b)' = BranchLatency(b)
  BY <1>3 DEF BranchLatency
<1>6. LatencyFrames' = LatencyFrames
  BY <1>5 DEF LatencyFrames
<1>7. \A b : CompDelay(b)' = CompDelay(b)
  BY <1>5, <1>6 DEF CompDelay
<1> QED BY <1>1, <1>2, <1>3, <1>4, <1>5, <1>6, <1>7

LEMMA InitInv == NodesInit => NodesInv
<1> SUFFICES ASSUME NodesInit PROVE NodesInv
  OBVIOUS
<1>1. wiring \in Setups /\ rate = 0 /\ frame = 0
  BY DEF NodesInit
<1>2. edited = FALSE /\ edits = 0 /\ compiles = 0
  BY DEF NodesInit
<1>3. Counters
  <2>1. 0 \in 0 .. MaxFrames /\ 0 \in 0 .. MaxEdits /\ 0 \in 0 .. MaxCompiles
    BY NodesAssumption
  <2> QED BY <1>1, <1>2, <2>1 DEF Counters
<1>4. Parameters
  <2>1. \A b \in Chains : \A i \in 1 .. Len(wiring[b]) : IsNode(Node(b, i))
    BY <1>1, WiringIs
  <2>2. \A b \in Chains : \A i \in 1 .. Len(wiring[b]) : \A k \in DOMAIN Node(b, i).params :
          Node(b, i).params[k].init \in Node(b, i).params[k].lo .. Node(b, i).params[k].hi
    BY <2>1 DEF IsNode
  <2>3. /\ DOMAIN par = Chains
        /\ \A b \in Chains : DOMAIN par[b] = 1 .. Len(wiring[b])
        /\ \A b \in Chains : \A i \in 1 .. Len(wiring[b]) :
             /\ DOMAIN par[b][i] = DOMAIN Node(b, i).params
             /\ \A k \in DOMAIN Node(b, i).params : par[b][i][k] = Node(b, i).params[k].init
    BY DEF NodesInit
  <2> QED BY <1>1, <2>2, <2>3 DEF Parameters
<1>5. Rings
  BY <1>1 DEF Rings
<1>6. Outputs
  BY DEF NodesInit, Outputs
<1> QED BY <1>4, <1>5, <1>6, <1>3 DEF NodesInv

LEMMA CompileInv ==
  ASSUME NodesInv, NEW r \in Rates, Compile(r)
  PROVE  NodesInv'
<1>1. wiring' = wiring /\ wiring \in Setups /\ r \in Nat /\ rate' = r
  BY NodesAssumption DEF NodesInv, Counters, Compile
<1>2. Counters'
  <2>1. /\ frame \in 0 .. MaxFrames /\ edits \in 0 .. MaxEdits /\ compiles \in 0 .. MaxCompiles
        /\ frame' = frame /\ edits' = edits /\ edited' = FALSE
        /\ compiles < MaxCompiles /\ compiles' = compiles + 1
    BY DEF NodesInv, Counters, Compile
  <2>2. compiles' \in 0 .. MaxCompiles
    BY <2>1, NodesAssumption
  <2> QED BY <1>1, <2>1, <2>2 DEF Counters
<1>3. Parameters'
  <2>1. /\ DOMAIN par' = Chains
        /\ \A b \in Chains : DOMAIN par'[b] = 1 .. Len(wiring[b])
        /\ \A b \in Chains : \A i \in 1 .. Len(wiring[b]) :
             par'[b][i] = Reset(Node(b, i), par[b][i], r)
    BY DEF Compile
  <2>2. ASSUME NEW b \in Chains, NEW i \in 1 .. Len(wiring[b])
        PROVE  /\ DOMAIN par'[b][i] = DOMAIN Node(b, i).params
               /\ \A k \in DOMAIN Node(b, i).params :
                    par'[b][i][k] \in Node(b, i).params[k].lo .. Node(b, i).params[k].hi
               /\ Node(b, i).route = "echo" => par'[b][i][1] < Cap(Node(b, i), r)
    <3>1. IsNode(Node(b, i))
      BY <1>1, WiringIs
    <3>2. /\ DOMAIN par[b][i] = DOMAIN Node(b, i).params
          /\ \A k \in DOMAIN Node(b, i).params :
               par[b][i][k] \in Node(b, i).params[k].lo .. Node(b, i).params[k].hi
      BY DEF NodesInv, Parameters
    <3> QED BY <1>1, <2>1, <3>1, <3>2, ResetIn
  <2> QED BY <1>1, <2>1, <2>2, WiringStays DEF Parameters
<1>4. Rings'
  <2> DEFINE H == Signals(wiring.device)
  <2>1. Closed(H)
    BY SignalsAreClosed
  <2>2. ASSUME NEW b \in Branches, NEW i \in 1 .. Len(wiring[b])
        PROVE  mem'[b][i] \in [Ringed(Node(b, i)) -> [1 .. RingLen(Node(b, i), r) -> H]]
    <3>1. IsNode(Node(b, i))
      BY <1>1, WiringIs DEF Chains
    <3>2. mem'[b][i] = Cleared(Node(b, i), r)
      BY DEF Compile
    <3> HIDE DEF H
    <3> QED BY <1>1, <2>1, <3>1, <3>2, ClearedIn
  <2>3. ASSUME NEW b \in Branches
        PROVE  comp'[b] \in [Chans(BranchWidth(b)) -> [1 .. CompDelay(b) -> H]]
    <3>1. comp'[b] = [c \in Chans(BranchWidth(b)) |-> Silence(CompDelay(b))]
      BY DEF Compile
    <3>2. CompDelay(b) \in Nat
      BY <1>1, DelaysCompensate
    <3> HIDE DEF H
    <3>3. Silence(CompDelay(b)) \in [1 .. CompDelay(b) -> H]
      BY <2>1, <3>2, SilenceIs
    <3> QED BY <3>1, <3>3
  <2> QED BY <1>1, <2>2, <2>3, WiringStays DEF Rings
<1>5. Outputs'
  BY <1>1 DEF NodesInv, Outputs, Compile
<1> QED BY <1>2, <1>3, <1>4, <1>5 DEF NodesInv

LEMMA ClampIn ==
  ASSUME NEW slot \in Slot, NEW old \in slot.lo .. slot.hi, NEW v \in Int
  PROVE  Clamp(slot, old, v) \in slot.lo .. slot.hi
<1>1. slot.lo \in Int /\ slot.hi \in Int /\ slot.lo <= slot.hi
  BY DEF Slot
<1>2. CASE v < slot.lo
  BY <1>1, <1>2 DEF Clamp
<1>3. CASE ~(v < slot.lo) /\ v > slot.hi
  BY <1>1, <1>3 DEF Clamp
<1>4. CASE ~(v < slot.lo) /\ ~(v > slot.hi)
  BY <1>1, <1>4 DEF Clamp
<1> QED BY <1>2, <1>3, <1>4

LEMMA SetParamInv ==
  ASSUME NodesInv, NEW b \in Chains, NEW i \in 1 .. Len(wiring[b]),
         NEW k \in DOMAIN Node(b, i).params, NEW v \in Values, SetParam(b, i, k, v)
  PROVE  NodesInv'
<1> DEFINE nd == Node(b, i)
           set == Clamp(nd.params[k], par[b][i][k], v)
           late == Min({set, Cap(nd, rate) - 1})
           new == IF nd.route = "echo" /\ k = 1 /\ rate > 0 THEN late ELSE set
<1>1. /\ wiring' = wiring /\ wiring \in Setups /\ rate' = rate /\ rate \in Nat
      /\ UNCHANGED <<mem, comp, out>>
  BY NodesAssumption DEF NodesInv, Counters, SetParam
<1>2. Counters'
  BY NodesAssumption DEF NodesInv, Counters, SetParam
<1>3. par' = [par EXCEPT ![b][i][k] = new]
  BY DEF SetParam
<1>4. IsNode(nd)
  BY <1>1, WiringIs
<1>5. /\ nd.params \in Seq(Slot)
      /\ nd.route = "echo" => 1 \in DOMAIN nd.params /\ nd.params[1].lo = 0
  BY <1>4 DEF IsNode
<1>6. par[b][i][k] \in nd.params[k].lo .. nd.params[k].hi /\ nd.params[k] \in Slot
  BY <1>5 DEF NodesInv, Parameters
<1>7. set \in nd.params[k].lo .. nd.params[k].hi
  BY <1>6, NodesAssumption, ClampIn
<1>8. ASSUME nd.route = "echo", k = 1, rate > 0
      PROVE  late \in nd.params[k].lo .. nd.params[k].hi /\ late < Cap(nd, rate)
  <2>1. Cap(nd, rate) \in Nat /\ Cap(nd, rate) >= 2 /\ nd.params[k].lo = 0
    BY <1>1, <1>4, <1>5, <1>8, CapIs
  <2>2. nd.params[k].hi \in Int
    BY <1>6 DEF Slot
  <2> HIDE DEF set, nd
  <2>3. set \in Int /\ Cap(nd, rate) - 1 \in Int /\ set >= 0 /\ set <= nd.params[k].hi
    BY <1>7, <2>1, <2>2
  <2>4. late \in {set, Cap(nd, rate) - 1} /\ late <= set /\ late <= Cap(nd, rate) - 1
    BY <2>3, MinOfTwo
  <2> HIDE DEF late
  <2> QED BY <2>1, <2>2, <2>3, <2>4
<1> HIDE DEF set, late
<1>9. /\ new \in nd.params[k].lo .. nd.params[k].hi
      /\ nd.route = "echo" /\ k = 1 /\ rate > 0 => new < Cap(nd, rate)
  <2>1. CASE nd.route = "echo" /\ k = 1 /\ rate > 0
    BY <1>8, <2>1
  <2>2. CASE ~(nd.route = "echo" /\ k = 1 /\ rate > 0)
    BY <1>7, <2>2
  <2> QED BY <2>1, <2>2
<1> HIDE DEF new
<1>10. /\ DOMAIN par = Chains
       /\ \A c \in Chains : DOMAIN par[c] = 1 .. Len(wiring[c])
       /\ \A c \in Chains : \A j \in 1 .. Len(wiring[c]) :
            /\ DOMAIN par[c][j] = DOMAIN Node(c, j).params
            /\ \A l \in DOMAIN Node(c, j).params :
                 par[c][j][l] \in Node(c, j).params[l].lo .. Node(c, j).params[l].hi
            /\ rate > 0 /\ Node(c, j).route = "echo" => par[c][j][1] < Cap(Node(c, j), rate)
  BY DEF NodesInv, Parameters
<1>11. /\ DOMAIN par' = Chains
       /\ \A c \in Chains : DOMAIN par'[c] = DOMAIN par[c]
       /\ \A c \in Chains : \A j \in 1 .. Len(wiring[c]) :
            /\ DOMAIN par'[c][j] = DOMAIN par[c][j]
            /\ \A l \in DOMAIN par[c][j] :
                 par'[c][j][l] = IF c = b /\ j = i /\ l = k THEN new ELSE par[c][j][l]
  BY <1>3, <1>10
<1>12. Parameters'
  <2>1. ASSUME NEW c \in Chains, NEW j \in 1 .. Len(wiring[c])
        PROVE  /\ DOMAIN par'[c][j] = DOMAIN Node(c, j).params
               /\ \A l \in DOMAIN Node(c, j).params :
                    par'[c][j][l] \in Node(c, j).params[l].lo .. Node(c, j).params[l].hi
               /\ rate > 0 /\ Node(c, j).route = "echo" => par'[c][j][1] < Cap(Node(c, j), rate)
    <3>1. \A l \in DOMAIN Node(c, j).params :
            par'[c][j][l] = IF c = b /\ j = i /\ l = k THEN new ELSE par[c][j][l]
      BY <1>10, <1>11
    <3>2. DOMAIN par'[c][j] = DOMAIN Node(c, j).params
      BY <1>10, <1>11
    <3>3. \A l \in DOMAIN Node(c, j).params :
            par'[c][j][l] \in Node(c, j).params[l].lo .. Node(c, j).params[l].hi
      BY <1>9, <1>10, <3>1
    <3>4. ASSUME rate > 0, Node(c, j).route = "echo" PROVE par'[c][j][1] < Cap(Node(c, j), rate)
      <4>1. IsNode(Node(c, j))
        BY <1>1, WiringIs
      <4>2. 1 \in DOMAIN Node(c, j).params
        BY <3>4, <4>1 DEF IsNode
      <4> QED BY <1>9, <1>10, <3>1, <3>4, <4>2
    <3> QED BY <3>2, <3>3, <3>4
  <2> QED BY <1>1, <1>10, <1>11, <2>1, WiringStays DEF Parameters
<1>13. Rings'
  BY <1>1, WiringStays DEF NodesInv, Rings
<1>14. Outputs'
  BY <1>1 DEF NodesInv, Outputs
<1> QED BY <1>2, <1>12, <1>13, <1>14 DEF NodesInv

-----------------------------------------------------------------------------
(* The join and the sink.                                                  *)

LEMMA SumIs ==
  ASSUME NEW n \in Nat, NEW planes
  PROVE  /\ \A c \in DOMAIN SumNode(planes, n) : SumNode(planes, n)[c] = [f \in 1 .. n |-> SumNode(planes, n)[c][f]]
         /\ \A H, f : Closed(H) /\ f \in 1 .. n
                      /\ (\A b \in Branches : \A c \in DOMAIN planes[b] : planes[b][c][f] \in H) =>
              \A c \in DOMAIN SumNode(planes, n) : SumNode(planes, n)[c][f] \in H
<1> DEFINE C == Chans(Max({BranchWidth(b) : b \in Branches}))
           s == SumNode(planes, n)
           Part(b, c, f) == IF c \in DOMAIN planes[b] THEN planes[b][c][f] ELSE {}
<1>1. s = [c \in C |-> [f \in 1 .. n |-> UNION {Part(b, c, f) : b \in Branches}]]
  BY DEF SumNode
<1> HIDE DEF s, C
<1>2. DOMAIN s = C
  BY <1>1
<1>3. \A c \in C : s[c] = [f \in 1 .. n |-> UNION {Part(b, c, f) : b \in Branches}]
  BY <1>1
<1>4. \A c \in C : s[c] = [f \in 1 .. n |-> s[c][f]]
  BY <1>3
<1>5. ASSUME NEW H, NEW f \in 1 .. n, Closed(H), NEW c \in C,
             \A b \in Branches : \A e \in DOMAIN planes[b] : planes[b][e][f] \in H
      PROVE  s[c][f] \in H
  <2>1. s[c][f] = UNION {Part(b, c, f) : b \in Branches}
    BY <1>3
  <2>2. \A b \in Branches : Part(b, c, f) \in H
    BY <1>5 DEF Closed
  <2> HIDE DEF Part
  <2>3. {Part(b, c, f) : b \in Branches} \in SUBSET H
    BY <2>2
  <2> QED BY <1>5, <2>1, <2>3 DEF Closed
<1> QED BY <1>2, <1>4, <1>5 DEF s

LEMMA MixIs ==
  ASSUME NEW n \in Nat, NEW planes
  PROVE  /\ \A c \in DOMAIN MixerNodeProcess(planes, n) :
              MixerNodeProcess(planes, n)[c] = [f \in 1 .. n |-> MixerNodeProcess(planes, n)[c][f]]
         /\ \A H, f : Closed(H) /\ f \in 1 .. n
                      /\ (\A b \in Branches : \A c \in DOMAIN planes[b] : planes[b][c][f] \in H) =>
              \A c \in DOMAIN MixerNodeProcess(planes, n) : MixerNodeProcess(planes, n)[c][f] \in H
<1> DEFINE heard == [b \in Branches |-> IF b \in Audible THEN planes[b] ELSE [c \in {} |-> <<>>]]
<1>1. MixerNodeProcess(planes, n) = SumNode(heard, n)
  BY DEF MixerNodeProcess
<1>2. \A b \in Branches : \A c \in DOMAIN heard[b] : c \in DOMAIN planes[b] /\ heard[b][c] = planes[b][c]
  OBVIOUS
<1> HIDE DEF heard
<1>3. /\ \A c \in DOMAIN SumNode(heard, n) : SumNode(heard, n)[c] = [f \in 1 .. n |-> SumNode(heard, n)[c][f]]
      /\ \A H, f : Closed(H) /\ f \in 1 .. n
                   /\ (\A b \in Branches : \A c \in DOMAIN heard[b] : heard[b][c][f] \in H) =>
           \A c \in DOMAIN SumNode(heard, n) : SumNode(heard, n)[c][f] \in H
  BY SumIs
<1>4. \A H, f : (\A b \in Branches : \A c \in DOMAIN planes[b] : planes[b][c][f] \in H) =>
                (\A b \in Branches : \A c \in DOMAIN heard[b] : heard[b][c][f] \in H)
  BY <1>2
<1> QED BY <1>1, <1>3, <1>4

\* The frames rendered, then silence up to the end of the callback's block.
Sinks(s, H, plane, n, frames) ==
  /\ s \in [Chans(wiring.device) -> Seq(H)]
  /\ \A c \in Chans(wiring.device) :
       /\ Len(s[c]) = frames
       /\ \A f \in 1 .. frames : s[c][f] = IF f <= n /\ c \in DOMAIN plane THEN plane[c][f] ELSE {}

LEMMA SinkIs ==
  ASSUME NEW H, Closed(H), NEW frames \in Nat, NEW n \in 0 .. frames, NEW plane,
         \A c \in DOMAIN plane : plane[c] \in [1 .. n -> H]
  PROVE  Sinks(SinkNode(plane, n, frames), H, plane, n, frames)
<1> DEFINE s == SinkNode(plane, n, frames)
           C == Chans(wiring.device)
           X(c) == IF c \in DOMAIN plane THEN plane[c] ELSE Silence(n)
           y == Silence(frames - n)
<1>1. s = [c \in C |-> X(c) \o y]
  BY DEF SinkNode
<1>2. frames - n \in Nat /\ n \in Nat
  OBVIOUS
<1>3. y \in [1 .. frames - n -> H] /\ \A f \in 1 .. frames - n : y[f] = {}
  BY <1>2, SilenceIs DEF Silence
<1>4. \A c \in C : /\ X(c) \in [1 .. n -> H]
                   /\ \A f \in 1 .. n : X(c)[f] = IF c \in DOMAIN plane THEN plane[c][f] ELSE {}
  BY <1>2, SilenceIs DEF Silence
<1> HIDE DEF s, C, X, y
<1>5. ASSUME NEW c \in C
      PROVE  /\ s[c] \in Seq(H) /\ Len(s[c]) = frames
             /\ \A f \in 1 .. frames : s[c][f] = IF f <= n /\ c \in DOMAIN plane THEN plane[c][f] ELSE {}
  <2>1. PICK x : x = X(c)
    OBVIOUS
  <2>2. x \in [1 .. n -> H] /\ \A f \in 1 .. n : x[f] = IF c \in DOMAIN plane THEN plane[c][f] ELSE {}
    BY <1>4, <2>1
  <2>3. s[c] = x \o y
    BY <1>1, <2>1
  <2>4. x \in Seq(H) /\ Len(x) = n /\ y \in Seq(H) /\ Len(y) = frames - n
    BY <1>2, <1>3, <2>2
  <2>5. x \o y \in Seq(H) /\ Len(x \o y) = n + (frames - n)
    BY <2>4
  <2>6. n + (frames - n) = frames
    OBVIOUS
  <2>7. ASSUME NEW f \in 1 .. frames
        PROVE  s[c][f] = IF f <= n /\ c \in DOMAIN plane THEN plane[c][f] ELSE {}
    <3>1. CASE f <= n
      <4>1. f \in 1 .. n /\ (x \o y)[f] = x[f]
        BY <2>4, <3>1
      <4> QED BY <2>2, <2>3, <3>1, <4>1
    <3>2. CASE ~(f <= n)
      <4>1. f - n \in 1 .. frames - n /\ (x \o y)[f] = y[f - n]
        BY <2>4, <3>2
      <4> QED BY <1>3, <2>3, <3>2, <4>1
    <3> QED BY <3>1, <3>2
  <2> QED BY <2>3, <2>5, <2>6, <2>7
<1>6. s \in [C -> Seq(H)]
  BY <1>1, <1>5
<1> QED BY <1>5, <1>6 DEF s, C, Sinks

-----------------------------------------------------------------------------
(* A block.                                                                *)

Late(b, n) == [c \in DOMAIN comp[b] |-> DelayLine(comp[b][c], Branch(b, n).plane[c])]
Compensated(n) == [b \in Branches |-> [c \in DOMAIN comp[b] |-> Late(b, n)[c].out]]

LEMMA BlockIs ==
  ASSUME NEW frames \in Blocks, Process(frames), Counters
  PROVE  /\ wiring' = wiring /\ rate' = rate /\ frame' = frame + frames
         /\ frame + frames <= MaxFrames /\ UNCHANGED <<par, edited, edits, compiles>>
         /\ frames \in Nat /\ frames > 0
         /\ rate = 0 => /\ out' = [c \in Chans(wiring.device) |-> Silence(frames)]
                        /\ UNCHANGED <<mem, comp, played>>
         /\ rate # 0 =>
              \E n \in 1 .. frames :
                /\ mem' = [b \in Branches |-> Branch(b, n).mem]
                /\ comp' = [b \in Branches |-> [c \in DOMAIN comp[b] |-> Late(b, n)[c].held]]
                /\ played' = played \o [f \in 1 .. n |-> frame + f]
                /\ out' = SinkNode(MixerNodeProcess(Compensated(n), n), n, frames)
<1>1. frames \in Nat /\ frames > 0 /\ MaxBlock \in Nat /\ MaxBlock > 0
  BY NodesAssumption
<1>2. ASSUME rate # 0
      PROVE  \E n \in 1 .. frames :
                /\ mem' = [b \in Branches |-> Branch(b, n).mem]
                /\ comp' = [b \in Branches |-> [c \in DOMAIN comp[b] |-> Late(b, n)[c].held]]
                /\ played' = played \o [f \in 1 .. n |-> frame + f]
                /\ out' = SinkNode(MixerNodeProcess(Compensated(n), n), n, frames)
  <2> DEFINE n == Min({frames, MaxBlock})
             done == [b \in Branches |-> Branch(b, n)]
             late == [b \in Branches |->
                       [c \in DOMAIN comp[b] |-> DelayLine(comp[b][c], done[b].plane[c])]]
             planes == [b \in Branches |-> [c \in DOMAIN comp[b] |-> late[b][c].out]]
  <2>1. n \in {frames, MaxBlock} /\ n <= frames
    <3>1. frames \in Int /\ MaxBlock \in Int
      BY <1>1
    <3> QED BY <3>1, MinOfTwo
  <2>2. /\ mem' = [b \in Branches |-> done[b].mem]
        /\ comp' = [b \in Branches |-> [c \in DOMAIN comp[b] |-> late[b][c].held]]
        /\ played' = played \o [f \in 1 .. n |-> frame + f]
        /\ out' = SinkNode(MixerNodeProcess(planes, n), n, frames)
    BY <1>2 DEF Process
  <2> HIDE DEF n
  <2>3. n \in 1 .. frames
    BY <1>1, <2>1
  <2>4. \A b \in Branches : late[b] = Late(b, n)
    BY DEF Late
  <2> HIDE DEF late
  <2>5. planes = Compensated(n)
    BY <2>4 DEF Compensated
  <2>6. [b \in Branches |-> [c \in DOMAIN comp[b] |-> late[b][c].held]] =
          [b \in Branches |-> [c \in DOMAIN comp[b] |-> Late(b, n)[c].held]]
    BY <2>4
  <2>7. [b \in Branches |-> done[b].mem] = [b \in Branches |-> Branch(b, n).mem]
    OBVIOUS
  <2> HIDE DEF planes, done
  <2> QED BY <2>2, <2>3, <2>5, <2>6, <2>7
<1>3. /\ wiring' = wiring /\ rate' = rate /\ frame' = frame + frames
      /\ frame + frames <= MaxFrames /\ UNCHANGED <<par, edited, edits, compiles>>
      /\ rate = 0 => /\ out' = [c \in Chans(wiring.device) |-> Silence(frames)]
                     /\ UNCHANGED <<mem, comp, played>>
  BY DEF Process
<1> QED BY <1>1, <1>2, <1>3

\* The delay lines of a branch that has been rendered.
LEMMA LateIs ==
  ASSUME NodesInv, rate > 0, NEW n \in Nat, frame + n <= MaxFrames, NEW b \in Branches
  PROVE  LET d == CompDelay(b)
             H == Signals(wiring.device)
         IN /\ d \in Nat /\ DOMAIN comp[b] = Chans(BranchWidth(b))
            /\ \A c \in Chans(BranchWidth(b)) :
                 /\ comp[b][c] \in [1 .. d -> H] /\ Branch(b, n).plane[c] \in [1 .. n -> H]
                 /\ Late(b, n)[c].out \in [1 .. n -> H]
                 /\ Late(b, n)[c].held \in [1 .. d -> H]
                 /\ Shifts(Late(b, n)[c], comp[b][c], Branch(b, n).plane[c], d, n)
<1> DEFINE d == CompDelay(b)
           H == Signals(wiring.device)
<1>1. d \in Nat
  BY DelaysCompensate DEF NodesInv, Counters
<1>2. comp[b] \in [Chans(BranchWidth(b)) -> [1 .. d -> H]]
  BY DEF NodesInv, Rings
<1>3. Branch(b, n).plane \in [Chans(BranchWidth(b)) -> [1 .. n -> H]]
  BY BranchIs DEF NodesInv
<1> HIDE DEF d, H
<1>4. ASSUME NEW c \in Chans(BranchWidth(b))
      PROVE  /\ comp[b][c] \in [1 .. d -> H] /\ Branch(b, n).plane[c] \in [1 .. n -> H]
             /\ Late(b, n)[c].out \in [1 .. n -> H]
             /\ Late(b, n)[c].held \in [1 .. d -> H]
             /\ Shifts(Late(b, n)[c], comp[b][c], Branch(b, n).plane[c], d, n)
  <2>1. PICK x : x = Branch(b, n).plane[c]
    OBVIOUS
  <2>2. PICK held : held = comp[b][c]
    OBVIOUS
  <2>3. x \in [1 .. n -> H] /\ held \in [1 .. d -> H]
    BY <1>2, <1>3, <2>1, <2>2
  <2>4. Late(b, n)[c] = Through(held, x)
    BY <1>2, <2>1, <2>2 DEF Late, DelayLine
  <2>5. /\ Through(held, x).out \in [1 .. n -> H]
        /\ Through(held, x).held \in [1 .. d -> H]
        /\ Shifts(Through(held, x), held, x, d, n)
    BY <1>1, <2>3, ThroughIs
  <2> QED BY <2>1, <2>2, <2>3, <2>4, <2>5
<1> QED BY <1>1, <1>2, <1>4 DEF d, H

LEMMA ProcessInv ==
  ASSUME NodesInv, NEW frames \in Blocks, Process(frames)
  PROVE  NodesInv'
<1> DEFINE H == Signals(wiring.device)
<1>1. /\ wiring' = wiring /\ rate' = rate /\ frame' = frame + frames
      /\ frame + frames <= MaxFrames /\ UNCHANGED <<par, edited, edits, compiles>>
      /\ frames \in Nat /\ frames > 0
      /\ wiring \in Setups /\ frame \in Nat /\ rate \in Nat
  BY BlockIs, NodesAssumption DEF NodesInv, Counters
<1>2. Counters'
  BY <1>1, NodesAssumption DEF NodesInv, Counters
<1>3. Parameters'
  BY <1>1, WiringStays DEF NodesInv, Parameters
<1>4. Closed(H)
  BY SignalsAreClosed
<1>5. ASSUME rate = 0 PROVE Rings' /\ Outputs'
  <2>1. out' = [c \in Chans(wiring.device) |-> Silence(frames)]
    BY <1>5, BlockIs DEF NodesInv
  <2>2. Silence(frames) \in [1 .. frames -> H]
    BY <1>1, <1>4, SilenceIs
  <2> HIDE DEF H
  <2>3. Silence(frames) \in Seq(H)
    BY <1>1, <2>2
  <2>4. out' \in [Chans(wiring.device) -> Seq(H)]
    BY <2>1, <2>3
  <2> QED BY <1>1, <1>5, <2>4 DEF Rings, Outputs, H
<1>6. ASSUME rate # 0 PROVE Rings' /\ Outputs'
  <2>1. PICK n \in 1 .. frames :
          /\ mem' = [b \in Branches |-> Branch(b, n).mem]
          /\ comp' = [b \in Branches |-> [c \in DOMAIN comp[b] |-> Late(b, n)[c].held]]
          /\ out' = SinkNode(MixerNodeProcess(Compensated(n), n), n, frames)
    BY <1>6, BlockIs DEF NodesInv
  <2>2. n \in Nat /\ n \in 0 .. frames /\ frame + n <= MaxFrames /\ rate > 0
    BY <1>1, <1>6, NodesAssumption
  <2>3. \A b \in Branches : \A i \in 1 .. Len(wiring[b]) :
          mem'[b][i] \in [Ringed(Node(b, i)) -> [1 .. RingLen(Node(b, i), rate) -> H]]
    <3>1. ASSUME NEW b \in Branches, NEW i \in 1 .. Len(wiring[b])
          PROVE  mem'[b][i] \in [Ringed(Node(b, i)) -> [1 .. RingLen(Node(b, i), rate) -> H]]
      <4>1. mem'[b][i] = Branch(b, n).mem[i]
        BY <2>1
      <4> QED BY <2>2, <4>1, BranchIs DEF NodesInv
    <3> QED BY <3>1
  <2> HIDE DEF H
  <2>4. \A b \in Branches : comp'[b] \in [Chans(BranchWidth(b)) -> [1 .. CompDelay(b) -> H]]
    <3>1. ASSUME NEW b \in Branches
          PROVE  comp'[b] \in [Chans(BranchWidth(b)) -> [1 .. CompDelay(b) -> H]]
      <4>1. /\ DOMAIN comp[b] = Chans(BranchWidth(b))
            /\ \A c \in Chans(BranchWidth(b)) : Late(b, n)[c].held \in [1 .. CompDelay(b) -> H]
        BY <2>2, LateIs DEF H
      <4>2. comp'[b] = [c \in DOMAIN comp[b] |-> Late(b, n)[c].held]
        BY <2>1
      <4> QED BY <4>1, <4>2
    <3> QED BY <3>1
  <2>5. Rings'
    BY <1>1, <2>3, <2>4, WiringStays DEF Rings, H
  <2>6. \A b \in Branches : \A c \in DOMAIN Compensated(n)[b] : Compensated(n)[b][c] \in [1 .. n -> H]
    <3>1. ASSUME NEW b \in Branches, NEW c \in DOMAIN Compensated(n)[b]
          PROVE  Compensated(n)[b][c] \in [1 .. n -> H]
      <4>1. c \in DOMAIN comp[b] /\ Compensated(n)[b][c] = Late(b, n)[c].out
        BY <3>1 DEF Compensated
      <4>2. /\ DOMAIN comp[b] = Chans(BranchWidth(b))
            /\ \A e \in Chans(BranchWidth(b)) : Late(b, n)[e].out \in [1 .. n -> H]
        BY <2>2, LateIs DEF H
      <4> QED BY <4>1, <4>2
    <3> QED BY <3>1
  <2>7. PICK plane : plane = MixerNodeProcess(Compensated(n), n)
    OBVIOUS
  <2>8. PICK planes : planes = Compensated(n)
    OBVIOUS
  <2>9. ASSUME NEW f \in 1 .. n, NEW c \in DOMAIN plane PROVE plane[c][f] \in H
    <3>1. \A b \in Branches : \A e \in DOMAIN planes[b] : planes[b][e][f] \in H
      BY <2>6, <2>8
    <3> QED BY <1>4, <2>2, <2>7, <2>8, <2>9, <3>1, MixIs
  <2>10. \A c \in DOMAIN plane : plane[c] = [f \in 1 .. n |-> plane[c][f]]
    BY <2>2, <2>7, MixIs
  <2>11. \A c \in DOMAIN plane : plane[c] \in [1 .. n -> H]
    BY <2>9, <2>10
  <2>12. SinkNode(plane, n, frames) \in [Chans(wiring.device) -> Seq(H)]
    <3>1. Sinks(SinkNode(plane, n, frames), H, plane, n, frames)
      BY <1>1, <1>4, <2>2, <2>11, SinkIs
    <3> QED BY <3>1 DEF Sinks
  <2>13. Outputs'
    BY <1>1, <2>1, <2>7, <2>12 DEF Outputs, H
  <2> QED BY <2>5, <2>13
<1> QED BY <1>2, <1>3, <1>5, <1>6 DEF NodesInv

LEMMA NodesInvStays == NodesInv /\ UNCHANGED nodesVars => NodesInv'
BY WiringStays DEF nodesVars, NodesInv, Counters, Parameters, Rings, Outputs

\* Rings, parameters and output buffers stay as compile() and prepare() laid them
\* out, through every setParam() and process().
THEOREM NodesInvariance == NodesSpec => []NodesInv
<1>1. NodesInv /\ [NodesNext]_nodesVars => NodesInv'
  <2> SUFFICES ASSUME NodesInv, [NodesNext]_nodesVars PROVE NodesInv'
    OBVIOUS
  <2>1. ASSUME NEW r \in Rates, Compile(r) PROVE NodesInv'
    BY <2>1, CompileInv
  <2>2. ASSUME NEW q \in Places, NEW k \in DOMAIN Node(q[1], q[2]).params, NEW v \in Values,
               SetParam(q[1], q[2], k, v)
        PROVE  NodesInv'
    <3>1. PICK b \in Chains : \E i \in 1 .. Len(wiring[b]) : q = <<b, i>>
      BY DEF Places
    <3>2. PICK i \in 1 .. Len(wiring[b]) : q = <<b, i>>
      BY <3>1
    <3> QED BY <2>2, <3>2, SetParamInv
  <2>3. ASSUME NEW frames \in Blocks, Process(frames) PROVE NodesInv'
    BY <2>3, ProcessInv
  <2>4. CASE UNCHANGED nodesVars
    BY <2>4, NodesInvStays
  <2> QED BY <2>1, <2>2, <2>3, <2>4 DEF NodesNext
<1> QED BY <1>1, InitInv, PTL DEF NodesSpec

LEMMA NodesTypeHolds == NodesInv => NodesTypeOK
<1> SUFFICES ASSUME NodesInv PROVE NodesTypeOK
  OBVIOUS
<1> DEFINE H == Signals(wiring.device)
<1>1. /\ wiring \in Setups /\ rate \in Rates \union {0} /\ frame \in 0 .. MaxFrames
      /\ edits \in 0 .. MaxEdits /\ compiles \in 0 .. MaxCompiles /\ edited \in BOOLEAN
      /\ rate \in Nat
  BY NodesAssumption DEF NodesInv, Counters
<1>2. H \subseteq Samples
  BY DEF Samples, Signals
<1> HIDE DEF H
<1>3. \A c \in DOMAIN out : \A f \in DOMAIN out[c] : out[c][f] \in Samples
  <2>1. out \in [Chans(wiring.device) -> Seq(H)]
    BY DEF NodesInv, Outputs, H
  <2>2. \A c \in DOMAIN out : out[c] \in Seq(H)
    BY <2>1
  <2>3. \A c \in DOMAIN out : \A f \in DOMAIN out[c] : out[c][f] \in H
    BY <2>2
  <2> QED BY <1>2, <2>3
<1>4. ASSUME NEW b \in Branches, rate > 0, NEW c \in Chans(BranchWidth(b))
      PROVE  Len(comp[b][c]) = CompDelay(b)
  <2>1. comp[b] \in [Chans(BranchWidth(b)) -> [1 .. CompDelay(b) -> H]]
    BY <1>4 DEF NodesInv, Rings, H
  <2>2. CompDelay(b) \in Nat
    BY <1>1, DelaysCompensate
  <2>3. comp[b][c] \in [1 .. CompDelay(b) -> H]
    BY <2>1
  <2> QED BY <2>2, <2>3
<1>5. ASSUME NEW b \in Branches, NEW i \in 1 .. Len(wiring[b]), rate > 0, NEW c \in DOMAIN mem[b][i]
      PROVE  Len(mem[b][i][c]) = RingLen(Node(b, i), rate)
  <2>1. /\ mem[b][i] \in [Ringed(Node(b, i)) -> [1 .. RingLen(Node(b, i), rate) -> H]]
        /\ RingLen(Node(b, i), rate) \in Nat
    BY <1>5, NodeReady DEF NodesInv, H
  <2>2. mem[b][i][c] \in [1 .. RingLen(Node(b, i), rate) -> H]
    BY <2>1
  <2> QED BY <2>1, <2>2
<1>6. ASSUME NEW q \in Places
      PROVE  LET nd == Node(q[1], q[2]) IN
             /\ rate > 0 /\ q[1] \in Branches => \A c \in DOMAIN mem[q[1]][q[2]] :
                  Len(mem[q[1]][q[2]][c]) = IF nd.route = "echo" THEN Cap(nd, rate) ELSE nd.depth
             /\ \A k \in DOMAIN nd.params : par[q[1]][q[2]][k] \in nd.params[k].lo .. nd.params[k].hi
  <2>1. PICK b \in Chains : \E i \in 1 .. Len(wiring[b]) : q = <<b, i>>
    BY DEF Places
  <2>2. PICK i \in 1 .. Len(wiring[b]) : q = <<b, i>>
    BY <2>1
  <2>3. q[1] = b /\ q[2] = i
    BY <2>2
  <2>4. \A k \in DOMAIN Node(b, i).params :
          par[b][i][k] \in Node(b, i).params[k].lo .. Node(b, i).params[k].hi
    BY DEF NodesInv, Parameters
  <2>5. rate > 0 /\ b \in Branches => \A c \in DOMAIN mem[b][i] :
          Len(mem[b][i][c]) = IF Node(b, i).route = "echo" THEN Cap(Node(b, i), rate) ELSE Node(b, i).depth
    BY <1>5 DEF RingLen
  <2> QED BY <2>3, <2>4, <2>5
<1> QED BY <1>1, <1>3, <1>4, <1>6 DEF NodesTypeOK

\* Every ring of a node and of a compensating delay has its length, and
\* parameters stay within their bounds, through every setParam(), compile() and
\* process().
THEOREM NodesTypeCorrect == NodesSpec => []NodesTypeOK
BY NodesInvariance, NodesTypeHolds, PTL

\* DelayNode::process() never subtracts a delay longer than its ring, whichever
\* of setParam() and prepare() came last.
THEOREM DelaysFit == NodesSpec => []DelayInsideRing
<1>1. NodesInv => DelayInsideRing
  <2> SUFFICES ASSUME NodesInv PROVE DelayInsideRing
    OBVIOUS
  <2>1. ASSUME rate > 0, NEW q \in Places, Node(q[1], q[2]).route = "echo"
        PROVE  par[q[1]][q[2]][1] < Cap(Node(q[1], q[2]), rate)
    <3>1. PICK b \in Chains : \E i \in 1 .. Len(wiring[b]) : q = <<b, i>>
      BY DEF Places
    <3>2. PICK i \in 1 .. Len(wiring[b]) : q = <<b, i>>
      BY <3>1
    <3>3. q[1] = b /\ q[2] = i
      BY <3>2
    <3> QED BY <2>1, <3>3 DEF NodesInv, Parameters
  <2> QED BY <2>1, NodesTypeHolds DEF DelayInsideRing
<1> QED BY <1>1, NodesInvariance, PTL

\* No frame that an earlier block left in a buffer is ever heard: every channel
\* that channelLayout() announces is written by process().
THEOREM OnlyFreshFrames == NodesSpec => []NothingStale
<1>1. NodesInv => NothingStale
  <2> SUFFICES ASSUME NodesInv, NEW c \in DOMAIN out, NEW f \in DOMAIN out[c] PROVE Stale \notin out[c][f]
    BY DEF NothingStale
  <2> DEFINE H == Signals(wiring.device)
  <2>1. out \in [Chans(wiring.device) -> Seq(H)]
    BY DEF NodesInv, Outputs
  <2>2. wiring.device \in Nat
    BY WiringIs DEF NodesInv, Counters
  <2>3. \A u \in H : Stale \notin u
    <3>1. \A s \in Chans(wiring.device) \X (1 .. MaxFrames) : s # Stale
      BY <2>2, NodesAssumption DEF Stale, Chans
    <3>2. Tone # Stale
      BY DEF Tone, Stale
    <3> QED BY <3>1, <3>2 DEF Signals
  <2> HIDE DEF H
  <2>4. out[c] \in Seq(H)
    BY <2>1
  <2>5. out[c][f] \in H
    BY <2>4
  <2> QED BY <2>3, <2>5
<1> QED BY <1>1, NodesInvariance, PTL

-----------------------------------------------------------------------------
(* Phase.                                                                  *)

\* Samples of what was delivered l frames before the k-th frame rendered.
InStep(d, pl, k, l) ==
  SUBSET ({Tone} \union {s \in Chans(d) \X (1 .. MaxFrames) : k > l /\ s[2] = pl[k - l]})

LEMMA InStepIs ==
  ASSUME NEW d, NEW pl, NEW k \in Int, NEW l \in Nat
  PROVE  /\ Closed(InStep(d, pl, k, l))
         /\ InStep(d, pl, k, l) \subseteq Signals(d)
<1> DEFINE A == {Tone} \union {s \in Chans(d) \X (1 .. MaxFrames) : k > l /\ s[2] = pl[k - l]}
<1>1. InStep(d, pl, k, l) = SUBSET A /\ Tone \in A
  BY DEF InStep
<1>2. A \subseteq {Tone} \union (Chans(d) \X (1 .. MaxFrames))
  OBVIOUS
<1>3. InStep(d, pl, k, l) \subseteq Signals(d)
  BY <1>1, <1>2 DEF Signals
<1> HIDE DEF A
<1>4. Closed(InStep(d, pl, k, l))
  <2>1. {} \in SUBSET A /\ {Tone} \in SUBSET A
    BY <1>1
  <2>2. \A S \in SUBSET (SUBSET A) : UNION S \in SUBSET A
    OBVIOUS
  <2> QED BY <1>1, <2>1, <2>2 DEF Closed
<1> QED BY <1>3, <1>4

LEMMA InStepLater ==
  ASSUME NEW d, NEW pl, NEW i \in Int, NEW k \in Int, NEW l \in Nat, NEW m \in Nat, i - l = k - m
  PROVE  InStep(d, pl, i, l) = InStep(d, pl, k, m)
<1>1. i > l <=> k > m
  OBVIOUS
<1> QED BY <1>1 DEF InStep

\* Rendering more frames leaves what is known of earlier ones.
Agree(pl, pm, p) == \A k \in 1 .. p : pm[k] = pl[k]

LEMMA InStepStays ==
  ASSUME NEW d, NEW pl, NEW pm, NEW p \in Nat, Agree(pl, pm, p),
         NEW k \in Int, k <= p, NEW l \in Nat
  PROVE  InStep(d, pl, k, l) = InStep(d, pm, k, l)
<1>1. k > l => k - l \in 1 .. p
  OBVIOUS
<1>2. k > l => pm[k - l] = pl[k - l]
  BY <1>1 DEF Agree
<1> QED BY <1>2 DEF InStep

LEMMA NodeInStep ==
  ASSUME NEW nd, IsNode(nd), nd.route # "echo", ~(nd.route = "lookahead" /\ nd.depth > 0),
         NEW p, NEW d, NEW n \in Nat, NEW iw \in Nat,
         NEW in \in [Chans(iw) -> [1 .. n -> Signals(d)]], NEW ow, ow = WidthAfter(nd, iw),
         NEW held \in [Ringed(nd) -> [1 .. nd.depth -> Signals(d)]],
         NEW pl, NEW K \in Nat, NEW l \in Nat,
         \A c \in Chans(iw) : \A f \in 1 .. n : in[c][f] \in InStep(d, pl, K + f, l),
         \A c \in Ringed(nd) \cap Chans(ow) : \A j \in 1 .. nd.depth :
           held[c][j] \in InStep(d, pl, (K - nd.depth) + j, l)
  PROVE  /\ \A c \in Chans(ow) : \A f \in 1 .. n :
              NodeProcess(nd, p, held, in, n)[c][f] \in InStep(d, pl, K + f, l + nd.latency)
         /\ \A c \in Ringed(nd) \cap Chans(ow) : \A j \in 1 .. nd.depth :
              HeldAfter(nd, p, held, in, n)[c][j] \in InStep(d, pl, ((K + n) - nd.depth) + j, l)
<1> DEFINE x(c) == Taken(nd, p, iw, ow, in, n, c)
           H == Signals(d)
           D == nd.depth
           lat == nd.latency
<1>1. D \in Nat /\ lat \in Nat /\ ow \in Nat
  BY WidthIn DEF IsNode
<1>2. \A c \in Chans(ow) : x(c) \in [1 .. n -> H]
  <2> HIDE DEF H
  <2>1. Closed(H)
    BY SignalsAreClosed DEF H
  <2> QED BY <2>1, TakenIn DEF H
<1>3. ASSUME NEW c \in Chans(ow), NEW f \in 1 .. n PROVE x(c)[f] \in InStep(d, pl, K + f, l)
  <2> DEFINE from == Reads(nd, p, iw, ow, c)
             G == InStep(d, pl, K + f, l)
  <2>1. from \in SUBSET Chans(iw)
    BY <1>1, ReadsIn
  <2>2. from \in SUBSET Nat
    BY <2>1, ChansAre
  <2>3. x(c) = Mixed(in, from, n)
    BY DEF Taken
  <2>4. \A i \in from : in[i][f] \in G
    BY <2>1
  <2>5. K + f \in Int
    OBVIOUS
  <2>6. Closed(G)
    BY <2>5, InStepIs
  <2> HIDE DEF from, G
  <2>7. Mixed(in, from, n)[f] \in G
    BY <2>2, <2>4, <2>6, MixedIn
  <2> QED BY <2>3, <2>7 DEF G
<1>4. /\ NodeProcess(nd, p, held, in, n) =
              [c \in Chans(ow) |->
                IF nd.route = "tone" THEN [f \in 1 .. n |-> {Tone}]
                ELSE IF c \in DOMAIN held THEN Hold(nd, p, held[c], x(c)).out
                ELSE x(c)]
      /\ HeldAfter(nd, p, held, in, n) =
              [c \in DOMAIN held |-> IF c \in Chans(ow) THEN Hold(nd, p, held[c], x(c)).held ELSE held[c]]
  <2>1. DOMAIN in = Chans(iw)
    OBVIOUS
  <2>2. Does(nd, p, held, in, n, iw, ow)
    BY <2>1, NodeIs
  <2> QED BY <2>2 DEF Does
<1>5. DOMAIN held = Ringed(nd) /\ \A c \in Ringed(nd) : held[c] \in [1 .. D -> H]
  OBVIOUS
\* Only a line of frames has a ring here, as long as its latency.
<1>6. ASSUME NEW c \in Ringed(nd) PROVE nd.route = "line" /\ D = lat /\ D > 0
  <2>1. D > 0
    BY <1>1, <1>6 DEF Ringed
  <2> QED BY <2>1 DEF IsNode, Routes
\* What has no ring here has no latency, or is silent.
<1>7. ASSUME NEW c \in Chans(ow), c \notin Ringed(nd), nd.route # "tone", lat # 0
      PROVE  \A f \in 1 .. n : x(c)[f] = {}
  <2>1. nd.route \in {"line", "lookahead", "echo"} /\ D \in Nat /\ lat \in Nat
    BY <1>1, <1>7 DEF IsNode
  <2>2. nd.route = "line" /\ D = lat
    BY <2>1, <1>7 DEF IsNode
  <2>3. D > 0 /\ Ringed(nd) = Chans(nd.chans) /\ nd.chans \in Nat /\ c \in Nat
    BY <1>1, <1>7, <2>2, ChansAre DEF Ringed, IsNode
  <2>4. c >= nd.chans
    BY <1>7, <2>3, ChansAre
  <2>5. Reads(nd, p, iw, ow, c) = {}
    BY <2>2, <2>3, <2>4 DEF Reads
  <2> QED BY <2>5 DEF Taken, Mixed
<1> HIDE DEF x, D, lat
<1>8. ASSUME NEW c \in Chans(ow), NEW f \in 1 .. n
      PROVE  NodeProcess(nd, p, held, in, n)[c][f] \in InStep(d, pl, K + f, l + lat)
  <2>1. K + f \in Int /\ l + lat \in Nat
    BY <1>1
  <2>2. Closed(InStep(d, pl, K + f, l + lat))
    BY <2>1, InStepIs
  <2>3. CASE nd.route = "tone"
    <3>1. NodeProcess(nd, p, held, in, n)[c][f] = {Tone}
      BY <1>4, <2>3
    <3> QED BY <2>2, <3>1 DEF Closed
  <2>4. CASE nd.route # "tone" /\ c \in Ringed(nd)
    <3>1. nd.route = "line" /\ D = lat /\ D > 0
      BY <1>6, <2>4
    <3>2. PICK y : y = x(c)
      OBVIOUS
    <3>3. PICK h : h = held[c]
      OBVIOUS
    <3>4. y \in [1 .. n -> H] /\ h \in [1 .. D -> H]
      BY <1>2, <1>5, <2>4, <3>2, <3>3
    <3>5. NodeProcess(nd, p, held, in, n)[c] = Through(h, y).out
      BY <1>4, <1>5, <2>4, <3>1, <3>2, <3>3 DEF Hold
    <3> HIDE DEF H
    <3>6. Through(h, y).out[f] = IF f <= D THEN h[f] ELSE y[f - D]
      <4>1. Shifts(Through(h, y), h, y, D, n)
        BY <1>1, <3>4, ThroughIs
      <4> QED BY <4>1 DEF Shifts
    <3>7. InStep(d, pl, (K + f) - D, l) = InStep(d, pl, K + f, l + D)
      <4>1. PICK i \in Int : i = (K + f) - D
        BY <1>1
      <4>2. PICK k \in Int : k = K + f
        OBVIOUS
      <4>3. PICK m \in Nat : m = l + D
        BY <1>1
      <4>4. i - l = k - m
        BY <1>1, <4>1, <4>2, <4>3
      <4> QED BY <4>1, <4>2, <4>3, <4>4, InStepLater
    <3>8. CASE f <= D
      <4>1. f \in 1 .. D /\ (K - D) + f = (K + f) - D
        BY <1>1, <3>8
      <4>2. h[f] \in InStep(d, pl, (K - D) + f, l)
        BY <2>4, <3>3, <4>1 DEF D
      <4> QED BY <3>1, <3>5, <3>6, <3>7, <3>8, <4>1, <4>2
    <3>9. CASE ~(f <= D)
      <4>1. f - D \in 1 .. n /\ K + (f - D) = (K + f) - D
        BY <1>1, <3>9
      <4>2. y[f - D] \in InStep(d, pl, K + (f - D), l)
        BY <1>3, <3>2, <4>1
      <4> QED BY <3>1, <3>5, <3>6, <3>7, <3>9, <4>1, <4>2
    <3> QED BY <3>8, <3>9
  <2>5. CASE nd.route # "tone" /\ c \notin Ringed(nd)
    <3>1. NodeProcess(nd, p, held, in, n)[c] = x(c)
      BY <1>4, <1>5, <2>5
    <3>2. CASE lat = 0
      <4>1. l + lat = l
        BY <3>2
      <4> QED BY <1>3, <3>1, <4>1
    <3>3. CASE lat # 0
      BY <1>7, <2>2, <2>5, <3>1, <3>3 DEF Closed
    <3> QED BY <3>2, <3>3
  <2> QED BY <2>3, <2>4, <2>5
<1>9. ASSUME NEW c \in Ringed(nd) \cap Chans(ow), NEW j \in 1 .. D
      PROVE  HeldAfter(nd, p, held, in, n)[c][j] \in InStep(d, pl, ((K + n) - D) + j, l)
  <2>1. nd.route = "line"
    BY <1>6
  <2>2. PICK y : y = x(c)
    OBVIOUS
  <2>3. PICK h : h = held[c]
    OBVIOUS
  <2>4. y \in [1 .. n -> H] /\ h \in [1 .. D -> H]
    BY <1>2, <1>5, <2>2, <2>3
  <2>5. HeldAfter(nd, p, held, in, n)[c] = Through(h, y).held
    BY <1>4, <1>5, <2>1, <2>2, <2>3 DEF Hold
  <2> HIDE DEF H
  <2>6. Through(h, y).held[j] = IF n + j <= D THEN h[n + j] ELSE y[n + j - D]
    <3>1. Shifts(Through(h, y), h, y, D, n)
      BY <1>1, <2>4, ThroughIs
    <3> QED BY <3>1 DEF Shifts
  <2>7. CASE n + j <= D
    <3>1. n + j \in 1 .. D /\ (K - D) + (n + j) = ((K + n) - D) + j
      BY <1>1, <2>7
    <3>2. h[n + j] \in InStep(d, pl, (K - D) + (n + j), l)
      BY <2>3, <3>1 DEF D
    <3> QED BY <2>5, <2>6, <2>7, <3>1, <3>2
  <2>8. CASE ~(n + j <= D)
    <3>1. n + j - D \in 1 .. n /\ K + (n + j - D) = ((K + n) - D) + j
      BY <1>1, <2>8
    <3>2. y[n + j - D] \in InStep(d, pl, K + (n + j - D), l)
      BY <1>3, <2>2, <3>1
    <3> QED BY <2>5, <2>6, <2>8, <3>1, <3>2
  <2> QED BY <2>7, <2>8
<1> QED BY <1>8, <1>9 DEF D, lat

\* No ring of the graph delays by more than the latency of its node.
Straight == \A b \in Branches : ~Compresses(b) /\ ~Echoes(b)

\* What is held at each position of a branch is as late as the way up to it.
RingsInStep ==
  \A b \in Branches :
    /\ \A i \in 1 .. Len(wiring[b]) :
         \A c \in Ringed(Node(b, i)) \cap Chans(Widths(b)[i]) : \A j \in 1 .. Node(b, i).depth :
           mem[b][i][c][j]
             \in InStep(wiring.device, played, (Len(played) - Node(b, i).depth) + j, Latencies(b)[i - 1])
    /\ \A c \in Chans(BranchWidth(b)) : \A j \in 1 .. CompDelay(b) :
         comp[b][c][j]
           \in InStep(wiring.device, played, (Len(played) - CompDelay(b)) + j, BranchLatency(b))

PhaseInv ==
  /\ NodesInv
  /\ played \in Seq(1 .. frame) /\ (rate = 0 => played = <<>>)
  /\ rate > 0 /\ Straight => RingsInStep
  /\ InPhase

\* The frames of a block come out of a branch as late as its latency.
LEMMA PlanesInStep ==
  ASSUME NodesInv, rate > 0, Straight, RingsInStep, played \in Seq(1 .. frame),
         NEW n \in Nat, frame + n <= MaxFrames, NEW b \in Branches,
         NEW pl, pl = played \o [f \in 1 .. n |-> frame + f]
  PROVE  /\ \A c \in Chans(BranchWidth(b)) : \A f \in 1 .. n :
              Branch(b, n).plane[c][f]
                \in InStep(wiring.device, pl, Len(played) + f, BranchLatency(b))
         /\ \A i \in 1 .. Len(wiring[b]) :
              \A c \in Ringed(Node(b, i)) \cap Chans(Widths(b)[i]) : \A j \in 1 .. Node(b, i).depth :
                Branch(b, n).mem[i][c][j]
                  \in InStep(wiring.device, pl, ((Len(played) + n) - Node(b, i).depth) + j,
                             Latencies(b)[i - 1])
<1> DEFINE d == wiring.device
           m == Len(wiring[b])
           K == Len(played)
           lat == Latencies(b)
           width == Widths(b)
           plane == Planes(b, n)
           H == Signals(d)
<1>1. wiring \in Setups /\ b \in Chains /\ frame \in Nat /\ Counters /\ Parameters /\ Rings
  BY DEF NodesInv, Counters, Chains
<1>2. m \in Nat /\ K \in Nat
  BY <1>1, WiringIs
<1>3. /\ \A i \in 0 .. m : lat[i] \in Nat
      /\ lat[0] = 0 /\ \A i \in 1 .. m : lat[i] = lat[i - 1] + Node(b, i).latency
  BY <1>1, LatenciesAre
<1>4. /\ \A i \in 0 .. m : width[i] \in Nat
      /\ width[0] = Channels /\ \A i \in 1 .. m : width[i] = WidthAfter(Node(b, i), width[i - 1])
  BY <1>1, WidthsAre
<1>5. /\ plane[0] = SourceNode(n)
      /\ \A i \in 1 .. m : plane[i] = NodeProcess(Node(b, i), par[b][i], mem[b][i], plane[i - 1], n)
      /\ \A i \in 0 .. m : plane[i] \in [Chans(width[i]) -> [1 .. n -> H]]
  BY <1>1, PlanesAre
<1>6. /\ Len(pl) = K + n
      /\ \A k \in 1 .. K : pl[k] = played[k]
      /\ \A f \in 1 .. n : pl[K + f] = frame + f
  <2> DEFINE new == [f \in 1 .. n |-> frame + f]
  <2>1. new \in Seq(Nat) /\ Len(new) = n /\ \A f \in 1 .. n : new[f] = frame + f
    BY <1>1
  <2>2. pl = played \o new
    OBVIOUS
  <2> HIDE DEF new
  <2> QED BY <1>2, <2>1, <2>2
<1>7. /\ \A i \in 1 .. m : Branch(b, n).mem[i] = HeldAfter(Node(b, i), par[b][i], mem[b][i], plane[i - 1], n)
      /\ Branch(b, n).plane = plane[m]
  BY DEF Branch
<1>8. BranchWidth(b) = width[m] /\ BranchLatency(b) = lat[m]
  BY DEF BranchWidth, BranchLatency
<1>9. \A i \in 1 .. m :
        \A c \in Ringed(Node(b, i)) \cap Chans(width[i]) : \A j \in 1 .. Node(b, i).depth :
          mem[b][i][c][j] \in InStep(d, played, (K - Node(b, i).depth) + j, lat[i - 1])
  BY DEF RingsInStep
<1>10. \A i \in 1 .. m : Node(b, i).route # "echo" /\ ~(Node(b, i).route = "lookahead" /\ Node(b, i).depth > 0)
  BY DEF Straight, Compresses, Echoes
<1> HIDE DEF m, K, lat, width, plane
<1> DEFINE Right(i) == \A c \in Chans(width[i]) : \A f \in 1 .. n : plane[i][c][f] \in InStep(d, pl, K + f, lat[i])
<1>11. Right(0)
  <2> SUFFICES ASSUME NEW c \in Chans(width[0]), NEW f \in 1 .. n
               PROVE  plane[0][c][f] \in InStep(d, pl, K + f, lat[0])
    OBVIOUS
  <2>1. c \in Chans(Channels) /\ plane[0][c] \in [1 .. n -> H]
    <3>1. 0 \in 0 .. m
      BY <1>2
    <3> QED BY <1>4, <1>5, <3>1
  <2>2. plane[0][c][f] = {<<i, frame + f>> : i \in Input(c)}
    BY <1>5, <2>1 DEF SourceNode
  <2>3. plane[0][c][f] \in H
    BY <2>1
  <2>4. \A s \in plane[0][c][f] : s = Tone \/ s \in Chans(d) \X (1 .. MaxFrames)
    BY <2>3 DEF Signals
  <2>5. \A s \in plane[0][c][f] : s[2] = frame + f
    BY <2>2
  <2>6. K + f > 0 /\ (K + f) - 0 = K + f /\ pl[K + f] = frame + f
    BY <1>2, <1>6
  <2>7. \A s \in plane[0][c][f] : s = Tone \/ (s \in Chans(d) \X (1 .. MaxFrames) /\ s[2] = pl[(K + f) - 0])
    BY <2>4, <2>5, <2>6
  <2> QED BY <1>3, <2>6, <2>7 DEF InStep
<1>12. ASSUME NEW i \in 1 .. m, Right(i - 1)
       PROVE  /\ Right(i)
              /\ \A c \in Ringed(Node(b, i)) \cap Chans(width[i]) : \A j \in 1 .. Node(b, i).depth :
                   Branch(b, n).mem[i][c][j]
                     \in InStep(d, pl, ((K + n) - Node(b, i).depth) + j, lat[i - 1])
  <2> DEFINE nd == Node(b, i)
  <2>1. /\ IsNode(nd) /\ RingLen(nd, rate) = nd.depth
        /\ mem[b][i] \in [Ringed(nd) -> [1 .. RingLen(nd, rate) -> H]]
    BY <1>1, <1>10, NodeReady DEF m, RingLen
  <2>2. i - 1 \in 0 .. m /\ i \in 0 .. m
    BY <1>2
  <2>3. PICK iw \in Nat : iw = width[i - 1]
    BY <1>4, <2>2
  <2>4. PICK ow : ow = width[i]
    OBVIOUS
  <2>5. ow = WidthAfter(nd, iw)
    BY <1>4, <2>3, <2>4
  <2>6. PICK l \in Nat : l = lat[i - 1]
    BY <1>3, <2>2
  <2>7. PICK held : held = mem[b][i]
    OBVIOUS
  <2>8. PICK in : in = plane[i - 1]
    OBVIOUS
  <2>9. /\ nd.route # "echo" /\ ~(nd.route = "lookahead" /\ nd.depth > 0)
        /\ in \in [Chans(iw) -> [1 .. n -> H]]
        /\ held \in [Ringed(nd) -> [1 .. nd.depth -> H]]
    BY <1>5, <1>10, <2>1, <2>2, <2>3, <2>7, <2>8
  <2>10. \A c \in Chans(iw) : \A f \in 1 .. n : in[c][f] \in InStep(d, pl, K + f, l)
    BY <1>12, <2>3, <2>6, <2>8
  <2>11. ASSUME NEW c \in Ringed(nd) \cap Chans(ow), NEW j \in 1 .. nd.depth
         PROVE  held[c][j] \in InStep(d, pl, (K - nd.depth) + j, l)
    <3>1. held[c][j] \in InStep(d, played, (K - nd.depth) + j, l)
      BY <1>9, <2>4, <2>6, <2>7
    <3>2. nd.depth \in Nat
      BY <2>1 DEF IsNode
    <3> HIDE DEF nd
    <3>3. (K - nd.depth) + j \in Int /\ (K - nd.depth) + j <= K
      BY <1>2, <3>2
    <3>4. PICK k \in Int : k = (K - nd.depth) + j
      BY <3>3
    <3>5. k <= K
      BY <3>3, <3>4
    <3>6. Agree(played, pl, K)
      BY <1>6 DEF Agree
    <3>7. InStep(d, played, k, l) = InStep(d, pl, k, l)
      BY <1>2, <3>5, <3>6, InStepStays
    <3> QED BY <3>1, <3>4, <3>7
  <2>12. lat[i] = l + nd.latency
    BY <1>3, <2>6
  <2>13. PICK p : p = par[b][i]
    OBVIOUS
  <2>14. plane[i] = NodeProcess(nd, p, held, in, n) /\ Branch(b, n).mem[i] = HeldAfter(nd, p, held, in, n)
    BY <1>5, <1>7, <2>7, <2>8, <2>13
  <2> HIDE DEF nd, d, H
  <2>15. /\ \A c \in Chans(ow) : \A f \in 1 .. n :
              NodeProcess(nd, p, held, in, n)[c][f] \in InStep(d, pl, K + f, l + nd.latency)
         /\ \A c \in Ringed(nd) \cap Chans(ow) : \A j \in 1 .. nd.depth :
              HeldAfter(nd, p, held, in, n)[c][j] \in InStep(d, pl, ((K + n) - nd.depth) + j, l)
    BY <1>2, <2>1, <2>5, <2>9, <2>10, <2>11, NodeInStep DEF H
  <2> QED BY <2>4, <2>6, <2>12, <2>14, <2>15 DEF nd
<1> HIDE DEF Right
<1> DEFINE T == {i \in Nat : i <= m => Right(i)}
<1>13. 0 \in T
  BY <1>11
<1>14. ASSUME NEW i \in T PROVE i + 1 \in T
  <2> SUFFICES ASSUME i + 1 <= m PROVE Right(i + 1)
    OBVIOUS
  <2>1. i + 1 \in 1 .. m /\ (i + 1) - 1 = i /\ Right(i)
    BY <1>2
  <2> QED BY <1>12, <2>1
<1>15. T = Nat
  <2>1. T \in SUBSET Nat
    OBVIOUS
  <2> HIDE DEF T
  <2> QED BY <1>13, <1>14, <2>1, Induction
<1>16. \A i \in 0 .. m : Right(i)
  <2>1. \A i \in 0 .. m : i \in T /\ i <= m
    BY <1>2, <1>15
  <2> QED BY <2>1
<1>17. \A i \in 1 .. m : Right(i - 1)
  <2>1. \A i \in 1 .. m : i - 1 \in 0 .. m
    BY <1>2
  <2> QED BY <1>16, <2>1
<1>18. \A c \in Chans(width[m]) : \A f \in 1 .. n : plane[m][c][f] \in InStep(d, pl, K + f, lat[m])
  <2>1. m \in 0 .. m
    BY <1>2
  <2> QED BY <1>16, <2>1 DEF Right
<1>19. \A c \in Chans(BranchWidth(b)) : \A f \in 1 .. n :
              Branch(b, n).plane[c][f] \in InStep(d, pl, K + f, BranchLatency(b))
  BY <1>7, <1>8, <1>18
<1> QED BY <1>12, <1>17, <1>19 DEF m, K, width, lat

LEMMA PhaseStays ==
  ASSUME UNCHANGED <<wiring, rate, mem, comp, frame, played, out>>
  PROVE  /\ Straight' <=> Straight
         /\ RingsInStep' <=> RingsInStep
         /\ InPhase' <=> InPhase
<1>1. wiring' = wiring /\ UNCHANGED <<rate, mem, comp, frame, played, out>>
  OBVIOUS
<1>2. \A b : Compresses(b)' <=> Compresses(b)
  BY <1>1, WiringStays DEF Compresses
<1>3. \A b : Echoes(b)' <=> Echoes(b)
  BY <1>1, WiringStays DEF Echoes
<1>4. Straight' <=> Straight
  BY <1>2, <1>3 DEF Straight
<1>5. RingsInStep' <=> RingsInStep
  BY <1>1, WiringStays DEF RingsInStep
<1>6. Rendered' = Rendered /\ \A c, k : Sample(c, k)' = Sample(c, k)
  BY <1>1 DEF Rendered, Sample
<1>7. InPhase' <=> InPhase
  BY <1>1, <1>2, <1>3, <1>6, WiringStays DEF InPhase
<1> QED BY <1>4, <1>5, <1>7

\* Before the first block there is nothing to hear.
LEMMA EmptyInPhase == played = <<>> => InPhase
BY DEF InPhase, Rendered

LEMMA SilentInStep ==
  ASSUME NEW d, NEW pl, NEW k, NEW l
  PROVE  {} \in InStep(d, pl, k, l)
BY DEF InStep

LEMMA CompilePhase ==
  ASSUME PhaseInv, NEW r \in Rates, Compile(r)
  PROVE  PhaseInv'
<1>1. NodesInv /\ NodesInv'
  BY CompileInv DEF PhaseInv
<1>2. played' = <<>> /\ frame' = frame /\ frame \in Nat /\ wiring' = wiring /\ wiring \in Setups
  BY <1>1 DEF NodesInv, Counters, Compile
<1>3. InPhase'
  BY <1>2 DEF InPhase, Rendered
<1>4. ASSUME NEW b \in Branches, NEW i \in 1 .. Len(wiring[b]), NEW c \in Ringed(Node(b, i)),
             NEW j \in 1 .. Node(b, i).depth, Straight
      PROVE  mem'[b][i][c][j] = {}
  <2>1. Node(b, i).route # "echo"
    BY <1>4 DEF Straight, Echoes
  <2>2. Node(b, i).depth # 0
    BY <1>4 DEF Ringed
  <2>3. mem'[b][i] = [e \in Chans(Node(b, i).chans) |-> Silence(Node(b, i).depth)]
    BY <2>1, <2>2 DEF Compile, Cleared
  <2> QED BY <2>2, <2>3 DEF Silence, Ringed
<1>5. ASSUME NEW b \in Branches, NEW c \in Chans(BranchWidth(b)), NEW j \in 1 .. CompDelay(b)
      PROVE  comp'[b][c][j] = {}
  <2>1. comp'[b] = [e \in Chans(BranchWidth(b)) |-> Silence(CompDelay(b))]
    BY DEF Compile
  <2> QED BY <2>1 DEF Silence
<1>6. Straight' => Straight
  BY <1>2, WiringStays DEF Straight, Compresses, Echoes
<1>7. Straight' => RingsInStep'
  <2> SUFFICES ASSUME Straight PROVE RingsInStep'
    BY <1>6
  <2>1. \A b \in Branches : \A i \in 1 .. Len(wiring[b]) :
          \A c \in Ringed(Node(b, i)) \cap Chans(Widths(b)[i]) : \A j \in 1 .. Node(b, i).depth :
            mem'[b][i][c][j] = {}
    BY <1>4
  <2>2. \A b \in Branches : \A c \in Chans(BranchWidth(b)) : \A j \in 1 .. CompDelay(b) :
          comp'[b][c][j] = {}
    BY <1>5
  <2>3. \A k, l : {} \in InStep(wiring.device, played', k, l)
    BY SilentInStep
  <2>4. /\ \A b \in Branches : \A i \in 1 .. Len(wiring[b]) :
             \A c \in Ringed(Node(b, i)) \cap Chans(Widths(b)[i]) : \A j \in 1 .. Node(b, i).depth :
               mem'[b][i][c][j]
                 \in InStep(wiring.device, played', (Len(played') - Node(b, i).depth) + j, Latencies(b)[i - 1])
        /\ \A b \in Branches : \A c \in Chans(BranchWidth(b)) : \A j \in 1 .. CompDelay(b) :
             comp'[b][c][j]
               \in InStep(wiring.device, played', (Len(played') - CompDelay(b)) + j, BranchLatency(b))
    BY <2>1, <2>2, <2>3
  <2> QED BY <1>2, <2>4, WiringStays DEF RingsInStep
<1>8. played' \in Seq(1 .. frame')
  BY <1>2
<1> QED BY <1>1, <1>2, <1>3, <1>7, <1>8 DEF PhaseInv

\* What the sink gives is as late as the longer branch.
LEMMA SinkInStep ==
  ASSUME NodesInv, rate > 0, Straight, RingsInStep, played \in Seq(1 .. frame),
         NEW frames \in Nat, NEW n \in 1 .. frames, frame + n <= MaxFrames,
         NEW pl, pl = played \o [f \in 1 .. n |-> frame + f],
         NEW s, s = SinkNode(MixerNodeProcess(Compensated(n), n), n, frames)
  PROVE  /\ DOMAIN s = Chans(wiring.device)
         /\ \A c \in Chans(wiring.device) : Len(s[c]) = frames
         /\ \A c \in Chans(wiring.device) : \A f \in 1 .. n :
              s[c][f] \in InStep(wiring.device, pl, Len(played) + f, LatencyFrames)
         /\ \A b \in Branches : \A c \in Chans(BranchWidth(b)) : \A j \in 1 .. CompDelay(b) :
              Late(b, n)[c].held[j]
                \in InStep(wiring.device, pl, ((Len(played) + n) - CompDelay(b)) + j, BranchLatency(b))
<1> DEFINE d == wiring.device
           K == Len(played)
           H == Signals(d)
<1>1. wiring \in Setups /\ frame \in Nat /\ K \in Nat /\ n \in Nat /\ n \in 0 .. frames
  BY DEF NodesInv, Counters
<1>2. \A k \in 1 .. K : pl[k] = played[k]
  <2> DEFINE new == [f \in 1 .. n |-> frame + f]
  <2>1. new \in Seq(Nat) /\ pl = played \o new
    BY <1>1
  <2> HIDE DEF new
  <2> QED BY <1>1, <2>1
<1>3. ASSUME NEW b \in Branches, NEW c \in Chans(BranchWidth(b))
      PROVE  /\ Late(b, n)[c].out \in [1 .. n -> H]
             /\ \A f \in 1 .. n : Late(b, n)[c].out[f] \in InStep(d, pl, K + f, LatencyFrames)
             /\ \A j \in 1 .. CompDelay(b) :
                  Late(b, n)[c].held[j] \in InStep(d, pl, ((K + n) - CompDelay(b)) + j, BranchLatency(b))
  <2>1. PICK e \in Nat : e = CompDelay(b)
    BY <1>1, DelaysCompensate
  <2>2. PICK l \in Nat : l = BranchLatency(b)
    BY <1>1, DelaysCompensate
  <2>3. l + e = LatencyFrames
    BY <1>1, <2>1, <2>2, DelaysCompensate
  <2>4. PICK x : x = Branch(b, n).plane[c]
    OBVIOUS
  <2>5. PICK h : h = comp[b][c]
    OBVIOUS
  <2>6. /\ Late(b, n)[c].out \in [1 .. n -> H]
        /\ \A f \in 1 .. n : Late(b, n)[c].out[f] = IF f <= e THEN h[f] ELSE x[f - e]
        /\ \A j \in 1 .. e : Late(b, n)[c].held[j] = IF n + j <= e THEN h[n + j] ELSE x[n + j - e]
    <3>1. Late(b, n)[c].out \in [1 .. n -> H] /\ Shifts(Late(b, n)[c], h, x, e, n)
      BY <1>1, <2>1, <2>4, <2>5, LateIs
    <3> QED BY <3>1 DEF Shifts
  <2>7. \A f \in 1 .. n : x[f] \in InStep(d, pl, K + f, l)
    BY <1>1, <2>2, <2>4, PlanesInStep
  <2>8. ASSUME NEW j \in 1 .. e PROVE h[j] \in InStep(d, pl, (K - e) + j, l)
    <3>1. h[j] \in InStep(d, played, (K - e) + j, l)
      BY <2>1, <2>2, <2>5 DEF RingsInStep
    <3> HIDE DEF K
    <3>2. (K - e) + j \in Int /\ (K - e) + j <= K
      BY <1>1
    <3>3. PICK k \in Int : k = (K - e) + j
      BY <3>2
    <3>4. k <= K
      BY <3>3, <3>2
    <3>5. Agree(played, pl, K)
      BY <1>2 DEF Agree
    <3>6. InStep(d, played, k, l) = InStep(d, pl, k, l)
      BY <1>1, <3>4, <3>5, InStepStays
    <3> QED BY <3>1, <3>3, <3>6
  <2> HIDE DEF K, H, d
  <2>9. ASSUME NEW f \in 1 .. n PROVE Late(b, n)[c].out[f] \in InStep(d, pl, K + f, LatencyFrames)
    <3>1. K + f \in Int
      BY <1>1
    <3>2. InStep(d, pl, (K + f) - e, l) = InStep(d, pl, K + f, LatencyFrames)
      <4>1. PICK i \in Int : i = (K + f) - e
        BY <1>1
      <4>2. PICK k \in Int : k = K + f
        BY <3>1
      <4>3. PICK m \in Nat : m = LatencyFrames
        BY <2>3
      <4>4. i - l = k - m
        BY <1>1, <2>3, <4>1, <4>2, <4>3
      <4> QED BY <4>1, <4>2, <4>3, <4>4, InStepLater
    <3>3. CASE f <= e
      <4>1. f \in 1 .. e /\ (K - e) + f = (K + f) - e
        BY <1>1, <3>3
      <4> QED BY <2>6, <2>8, <3>2, <3>3, <4>1
    <3>4. CASE ~(f <= e)
      <4>1. f - e \in 1 .. n /\ K + (f - e) = (K + f) - e
        BY <1>1, <3>4
      <4>2. x[f - e] \in InStep(d, pl, K + (f - e), l)
        BY <2>7, <4>1
      <4> QED BY <2>6, <3>2, <3>4, <4>1, <4>2
    <3> QED BY <3>3, <3>4
  <2>10. ASSUME NEW j \in 1 .. e PROVE Late(b, n)[c].held[j] \in InStep(d, pl, ((K + n) - e) + j, l)
    <3>1. CASE n + j <= e
      <4>1. n + j \in 1 .. e /\ (K - e) + (n + j) = ((K + n) - e) + j
        BY <1>1, <3>1
      <4>2. h[n + j] \in InStep(d, pl, (K - e) + (n + j), l)
        BY <2>8, <4>1
      <4> QED BY <2>6, <3>1, <4>1, <4>2
    <3>2. CASE ~(n + j <= e)
      <4>1. n + j - e \in 1 .. n /\ K + (n + j - e) = ((K + n) - e) + j
        BY <1>1, <3>2
      <4>2. x[n + j - e] \in InStep(d, pl, K + (n + j - e), l)
        BY <2>7, <4>1
      <4> QED BY <2>6, <3>2, <4>1, <4>2
    <3> QED BY <3>1, <3>2
  <2> QED BY <2>1, <2>2, <2>6, <2>9, <2>10
<1>4. PICK planes : planes = Compensated(n)
  OBVIOUS
<1>5. ASSUME NEW b \in Branches, NEW c \in DOMAIN planes[b]
      PROVE  c \in Chans(BranchWidth(b)) /\ planes[b][c] = Late(b, n)[c].out
  <2>1. c \in DOMAIN comp[b] /\ planes[b][c] = Late(b, n)[c].out
    BY <1>4, <1>5 DEF Compensated
  <2>2. DOMAIN comp[b] = Chans(BranchWidth(b))
    BY <1>1, LateIs
  <2> QED BY <2>1, <2>2
<1> HIDE DEF K, H, d
<1>6. PICK plane : plane = MixerNodeProcess(planes, n)
  OBVIOUS
<1>7. LatencyFrames \in Nat
  BY <1>1, DelaysCompensate
<1>8. ASSUME NEW f \in 1 .. n, NEW c \in DOMAIN plane
      PROVE  plane[c][f] \in H /\ plane[c][f] \in InStep(d, pl, K + f, LatencyFrames)
  <2>1. PICK G : G = InStep(d, pl, K + f, LatencyFrames)
    OBVIOUS
  <2>2. K + f \in Int
    BY <1>1
  <2>3. Closed(G) /\ G \subseteq H
    BY <1>7, <2>1, <2>2, InStepIs DEF H
  <2>4. \A b \in Branches : \A e \in DOMAIN planes[b] : planes[b][e][f] \in G
    BY <1>3, <1>5, <2>1
  <2>5. plane[c][f] \in G
    BY <1>1, <1>6, <1>8, <2>3, <2>4, MixIs
  <2> QED BY <2>1, <2>3, <2>5
<1>9. \A c \in DOMAIN plane : plane[c] = [f \in 1 .. n |-> plane[c][f]]
  BY <1>1, <1>6, MixIs
<1>10. \A c \in DOMAIN plane : plane[c] \in [1 .. n -> H]
  BY <1>8, <1>9
<1>11. Closed(H)
  BY SignalsAreClosed DEF H
<1>12. s = SinkNode(plane, n, frames)
  BY <1>4, <1>6
<1>13. /\ DOMAIN s = Chans(wiring.device)
       /\ \A c \in Chans(wiring.device) : Len(s[c]) = frames
       /\ \A c \in Chans(wiring.device) : \A f \in 1 .. frames :
            s[c][f] = IF f <= n /\ c \in DOMAIN plane THEN plane[c][f] ELSE {}
  <2>1. Sinks(SinkNode(plane, n, frames), H, plane, n, frames)
    BY <1>1, <1>10, <1>11, SinkIs
  <2> QED BY <1>12, <2>1 DEF Sinks
<1>14. ASSUME NEW c \in Chans(wiring.device), NEW f \in 1 .. n
       PROVE  s[c][f] \in InStep(d, pl, K + f, LatencyFrames)
  <2>1. f \in 1 .. frames /\ f <= n
    BY <1>1
  <2>2. s[c][f] = IF c \in DOMAIN plane THEN plane[c][f] ELSE {}
    BY <1>13, <2>1
  <2> QED BY <1>8, <2>2, SilentInStep
<1> QED BY <1>3, <1>13, <1>14 DEF K, d

LEMMA ConcatIs ==
  ASSUME NEW S, NEW u \in Seq(S), NEW v \in Seq(S)
  PROVE  /\ u \o v \in Seq(S) /\ Len(u \o v) = Len(u) + Len(v)
         /\ \A k \in 1 .. Len(u) : (u \o v)[k] = u[k]
         /\ \A f \in 1 .. Len(v) : (u \o v)[Len(u) + f] = v[f]
<1>1. Len(u) \in Nat /\ Len(v) \in Nat
  OBVIOUS
<1>2. \A k \in 1 .. Len(u) : (u \o v)[k] = u[k]
  OBVIOUS
<1>3. ASSUME NEW f \in 1 .. Len(v) PROVE (u \o v)[Len(u) + f] = v[f]
  <2>1. Len(u) + f \in 1 .. Len(u) + Len(v) /\ ~(Len(u) + f <= Len(u)) /\ (Len(u) + f) - Len(u) = f
    BY <1>1
  <2> QED BY <1>1, <2>1
<1>4. u \o v \in Seq(S) /\ Len(u \o v) = Len(u) + Len(v)
  OBVIOUS
<1> QED BY <1>2, <1>3, <1>4

LEMMA ProcessPhase ==
  ASSUME PhaseInv, NEW frames \in Blocks, Process(frames)
  PROVE  PhaseInv'
<1>1. NodesInv /\ NodesInv'
  BY ProcessInv DEF PhaseInv
<1>2. /\ wiring' = wiring /\ rate' = rate /\ frame' = frame + frames
      /\ frame + frames <= MaxFrames /\ frames \in Nat /\ frames > 0 /\ frame \in Nat
      /\ wiring \in Setups /\ rate \in Nat
      /\ played \in Seq(1 .. frame)
  BY <1>1, BlockIs, NodesAssumption DEF NodesInv, Counters, PhaseInv
<1>3. CASE rate = 0
  <2>1. played' = <<>>
    BY <1>1, <1>3, BlockIs DEF NodesInv, PhaseInv
  <2>2. InPhase'
    BY <2>1 DEF InPhase, Rendered
  <2>3. played' \in Seq(1 .. frame')
    BY <2>1
  <2> QED BY <1>1, <1>2, <1>3, <2>1, <2>2, <2>3 DEF PhaseInv
<1>4. CASE rate # 0
  <2>1. PICK n \in 1 .. frames :
          /\ mem' = [b \in Branches |-> Branch(b, n).mem]
          /\ comp' = [b \in Branches |-> [c \in DOMAIN comp[b] |-> Late(b, n)[c].held]]
          /\ played' = played \o [f \in 1 .. n |-> frame + f]
          /\ out' = SinkNode(MixerNodeProcess(Compensated(n), n), n, frames)
    BY <1>1, <1>4, BlockIs DEF NodesInv
  <2> DEFINE K == Len(played)
             d == wiring.device
  <2>2. /\ n \in Nat /\ n \in 0 .. frames /\ frame + n <= MaxFrames /\ rate > 0 /\ K \in Nat
        /\ d \in Nat \ {0}
    BY <1>2, <1>4, NodesAssumption, WiringIs
  <2>3. /\ played' \in Seq(1 .. frame') /\ Len(played') = K + n
        /\ \A k \in 1 .. K : played'[k] = played[k]
        /\ \A f \in 1 .. n : played'[K + f] = frame + f
    <3> DEFINE new == [f \in 1 .. n |-> frame + f]
    <3>1. \A f \in 1 .. n : frame + f \in 1 .. frame'
      BY <1>2
    <3>2. new \in Seq(1 .. frame') /\ Len(new) = n /\ \A f \in 1 .. n : new[f] = frame + f
      BY <2>2, <3>1
    <3>3. played \in Seq(1 .. frame')
      <4>1. \A k \in DOMAIN played : played[k] \in 1 .. frame'
        BY <1>2
      <4> QED BY <1>2, <4>1
    <3>4. played' = played \o new
      BY <2>1
    <3> HIDE DEF new
    <3>5. PICK old : old = played
      OBVIOUS
    <3>6. PICK S : S = 1 .. frame'
      OBVIOUS
    <3>7. old \in Seq(S) /\ new \in Seq(S)
      BY <3>2, <3>3, <3>5, <3>6
    <3>8. /\ old \o new \in Seq(S) /\ Len(old \o new) = Len(old) + Len(new)
          /\ \A k \in 1 .. Len(old) : (old \o new)[k] = old[k]
          /\ \A f \in 1 .. Len(new) : (old \o new)[Len(old) + f] = new[f]
      BY <3>7, ConcatIs
    <3> QED BY <3>2, <3>4, <3>5, <3>6, <3>8
  <2>4. Straight' <=> Straight
    BY <1>2, WiringStays DEF Straight, Compresses, Echoes
  <2>5. ASSUME Straight
        PROVE  /\ \A b \in Branches : \A i \in 1 .. Len(wiring[b]) :
                    \A c \in Ringed(Node(b, i)) \cap Chans(Widths(b)[i]) : \A j \in 1 .. Node(b, i).depth :
                      mem'[b][i][c][j]
                        \in InStep(d, played', ((K + n) - Node(b, i).depth) + j, Latencies(b)[i - 1])
               /\ \A b \in Branches : \A c \in Chans(BranchWidth(b)) : \A j \in 1 .. CompDelay(b) :
                    comp'[b][c][j]
                      \in InStep(d, played', ((K + n) - CompDelay(b)) + j, BranchLatency(b))
               /\ DOMAIN out' = Chans(d) /\ \A c \in Chans(d) : Len(out'[c]) = frames
               /\ \A c \in Chans(d) : \A f \in 1 .. n :
                    out'[c][f] \in InStep(d, played', K + f, LatencyFrames)
    <3>1. RingsInStep
      BY <2>2, <2>5 DEF PhaseInv
    <3>2. PICK pl : pl = played'
      OBVIOUS
    <3>3. PICK s : s = out'
      OBVIOUS
    <3>4. pl = played \o [f \in 1 .. n |-> frame + f] /\ s = SinkNode(MixerNodeProcess(Compensated(n), n), n, frames)
      BY <2>1, <3>2, <3>3
    <3>5. /\ DOMAIN s = Chans(wiring.device)
          /\ \A c \in Chans(wiring.device) : Len(s[c]) = frames
          /\ \A c \in Chans(wiring.device) : \A f \in 1 .. n :
              s[c][f] \in InStep(wiring.device, pl, Len(played) + f, LatencyFrames)
          /\ \A b \in Branches : \A c \in Chans(BranchWidth(b)) : \A j \in 1 .. CompDelay(b) :
              Late(b, n)[c].held[j]
                \in InStep(wiring.device, pl, ((Len(played) + n) - CompDelay(b)) + j, BranchLatency(b))
      BY <1>1, <1>2, <2>2, <2>5, <3>1, <3>4, SinkInStep
    <3>6. \A b \in Branches : \A i \in 1 .. Len(wiring[b]) :
              \A c \in Ringed(Node(b, i)) \cap Chans(Widths(b)[i]) : \A j \in 1 .. Node(b, i).depth :
                Branch(b, n).mem[i][c][j]
                  \in InStep(wiring.device, pl, ((Len(played) + n) - Node(b, i).depth) + j,
                             Latencies(b)[i - 1])
      BY <1>1, <1>2, <2>2, <2>5, <3>1, <3>4, PlanesInStep
    <3>7. \A b \in Branches : mem'[b] = Branch(b, n).mem
      BY <2>1
    <3>8. \A b \in Branches : \A c \in Chans(BranchWidth(b)) : comp'[b][c] = Late(b, n)[c].held
      <4>1. ASSUME NEW b \in Branches PROVE DOMAIN comp[b] = Chans(BranchWidth(b))
        BY <1>1, <2>2, LateIs
      <4> QED BY <2>1, <4>1
    <3> QED BY <3>2, <3>3, <3>5, <3>6, <3>7, <3>8
  <2>6. Straight' => RingsInStep'
    <3> SUFFICES ASSUME Straight PROVE RingsInStep'
      BY <2>4
    <3>1. /\ \A b \in Branches : \A i \in 1 .. Len(wiring[b]) :
               \A c \in Ringed(Node(b, i)) \cap Chans(Widths(b)[i]) : \A j \in 1 .. Node(b, i).depth :
                 mem'[b][i][c][j]
                   \in InStep(d, played', (Len(played') - Node(b, i).depth) + j, Latencies(b)[i - 1])
          /\ \A b \in Branches : \A c \in Chans(BranchWidth(b)) : \A j \in 1 .. CompDelay(b) :
               comp'[b][c][j]
                 \in InStep(d, played', (Len(played') - CompDelay(b)) + j, BranchLatency(b))
      BY <2>3, <2>5
    <3> QED BY <1>2, <3>1, WiringStays DEF RingsInStep
  <2>7. InPhase'
    <3> SUFFICES ASSUME Straight, NEW c \in DOMAIN out', NEW k \in Rendered', NEW t \in Sample(c, k)'
                 PROVE  k > LatencyFrames /\ t[2] = played'[k - LatencyFrames]
      BY <1>2, <2>4, WiringStays DEF InPhase, Straight
    <3>1. /\ DOMAIN out' = Chans(d) /\ \A e \in Chans(d) : Len(out'[e]) = frames
          /\ \A e \in Chans(d) : \A f \in 1 .. n :
               out'[e][f] \in InStep(d, played', K + f, LatencyFrames)
      BY <2>5
    <3>2. Len(out'[0]) = frames
      <4>1. 0 \in Chans(d)
        BY <2>2 DEF Chans
      <4> QED BY <3>1, <4>1
    <3>3. frame' - Len(out'[0]) = frame
      BY <1>2, <3>2
    <3>4. k \in DOMAIN played' /\ played'[k] > frame
      BY <3>3 DEF Rendered
    <3>5. k \in 1 .. K + n
      BY <2>3, <3>4
    <3>6. ~(k <= K)
      <4> SUFFICES ASSUME k <= K PROVE FALSE
        OBVIOUS
      <4>1. k \in 1 .. K /\ played'[k] = played[k]
        BY <2>3, <3>5
      <4>2. played[k] \in 1 .. frame
        BY <1>2, <4>1
      <4> QED BY <1>2, <3>4, <4>1, <4>2
    <3>7. PICK f \in 1 .. n : k = K + f
      <4>1. k - K \in 1 .. n /\ k = K + (k - K)
        BY <2>2, <3>5, <3>6
      <4> QED BY <4>1
    <3>8. played'[k] - frame = f
      <4>1. played'[k] = frame + f
        BY <2>3, <3>7
      <4> QED BY <1>2, <4>1
    <3>9. t \in out'[c][f] /\ t # Tone
      BY <3>3, <3>8 DEF Sample
    <3>10. out'[c][f] \in InStep(d, played', K + f, LatencyFrames)
      BY <3>1
    <3> QED BY <3>7, <3>9, <3>10 DEF InStep
  <2> QED BY <1>1, <1>2, <1>4, <2>3, <2>6, <2>7 DEF PhaseInv
<1> QED BY <1>3, <1>4

LEMMA SetParamPhase ==
  ASSUME PhaseInv, NEW b \in Chains, NEW i \in 1 .. Len(wiring[b]),
         NEW k \in DOMAIN Node(b, i).params, NEW v \in Values, SetParam(b, i, k, v)
  PROVE  PhaseInv'
<1>1. NodesInv'
  BY SetParamInv DEF PhaseInv
<1>2. UNCHANGED <<wiring, rate, mem, comp, frame, played, out>>
  BY DEF SetParam
<1> QED BY <1>1, <1>2, PhaseStays DEF PhaseInv

\* Two branches of a graph without look-ahead or echo recombine in phase: what
\* every output sample is made of was delivered latencyFrames() frames before.
THEOREM NodesInPhase == NodesSpec => []InPhase
<1>1. NodesInit => PhaseInv
  <2> SUFFICES ASSUME NodesInit PROVE PhaseInv
    OBVIOUS
  <2>1. played = <<>> /\ rate = 0 /\ frame = 0
    BY DEF NodesInit
  <2> QED BY <2>1, InitInv, EmptyInPhase DEF PhaseInv
<1>2. PhaseInv /\ [NodesNext]_nodesVars => PhaseInv'
  <2> SUFFICES ASSUME PhaseInv, [NodesNext]_nodesVars PROVE PhaseInv'
    OBVIOUS
  <2>1. ASSUME NEW r \in Rates, Compile(r) PROVE PhaseInv'
    BY <2>1, CompilePhase
  <2>2. ASSUME NEW q \in Places, NEW k \in DOMAIN Node(q[1], q[2]).params, NEW v \in Values,
               SetParam(q[1], q[2], k, v)
        PROVE  PhaseInv'
    <3>1. PICK b \in Chains : \E i \in 1 .. Len(wiring[b]) : q = <<b, i>>
      BY DEF Places
    <3>2. PICK i \in 1 .. Len(wiring[b]) : q = <<b, i>>
      BY <3>1
    <3> QED BY <2>2, <3>2, SetParamPhase
  <2>3. ASSUME NEW frames \in Blocks, Process(frames) PROVE PhaseInv'
    BY <2>3, ProcessPhase
  <2>4. CASE UNCHANGED nodesVars
    <3>1. NodesInv'
      BY <2>4, NodesInvStays DEF PhaseInv
    <3>2. UNCHANGED <<wiring, rate, mem, comp, frame, played, out>>
      BY <2>4 DEF nodesVars
    <3> QED BY <3>1, <3>2, PhaseStays DEF PhaseInv
  <2> QED BY <2>1, <2>2, <2>3, <2>4 DEF NodesNext
<1>3. PhaseInv => InPhase
  BY DEF PhaseInv
<1> QED BY <1>1, <1>2, <1>3, PTL DEF NodesSpec
=============================================================================

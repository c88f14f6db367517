-------------------------- MODULE WorkbenchProofs --------------------------
(***************************************************************************)
(* Proofs about the workbench, for any clients, any log, any documents and *)
(* any number of messages and edits.                                       *)
(*                                                                         *)
(* A log is replayed, and a document is loaded, by a fold.  The first part *)
(* makes every such fold a function of the sequence that is folded, with   *)
(* its value on an empty sequence and on one that is longer by an element, *)
(* and the rest goes by induction along sequences.  A session stands for   *)
(* its log and what was undone, in the order it would be redone: undo()    *)
(* and redo() move an action across and leave the whole as it is, so the   *)
(* whole replays, every slot of it is known by the add that made it, and   *)
(* so does every beginning of it, the log among them.                      *)
(*                                                                         *)
(* A document that is saved is loaded without a refusal because a session  *)
(* has records of its live nodes and no others, and edges between these;   *)
(* its ids increase, so the k-th of them becomes k.                        *)
(*                                                                         *)
(* The server's part of the invariant is about who may touch a session:    *)
(* the lock holds those who asked for it once each, the one that works     *)
(* first, and no coroutine sends two things at a time, so a send that is   *)
(* over never wakes one that waits for the lock or works under it.         *)
(*                                                                         *)
(* That the clients come to agree is about broadcasts on their way.  All   *)
(* go round the clients in one order, and a transport takes what it is     *)
(* sent in turn; so of two broadcasts the one behind has still to reach    *)
(* every client the other has (Flow), a new one is behind all there are,   *)
(* and the last has the document of today, which a client that no          *)
(* broadcast has still to reach therefore shows.  A client is greeted by   *)
(* itself, and shows its greeting or what comes after it.  Forgetting a    *)
(* client ends this only if a broadcast waits there: it then goes on past  *)
(* others.                                                                 *)
(***************************************************************************)
EXTENDS Workbench, SequenceTheorems, FiniteSetTheorems, WellFoundedInduction, TLAPS

-----------------------------------------------------------------------------
(* Folds.                                                                  *)

\* A set of naturals that is not empty has a least element.
LEMMA LeastNatural ==
  ASSUME NEW T \in SUBSET Nat, T # {}
  PROVE  \E m \in T : \A n \in T : m <= n
<1> DEFINE R == OpToRel(<, Nat)
<1>1. IsWellFoundedOn(R, Nat)
  BY NatLessThanWellFounded, Zenon
<1>2. \A n, m \in Nat : n < m => <<n, m>> \in R
  BY Zenon DEF OpToRel
<1> HIDE DEF R
<1>3. PICK m \in T : \A n \in T : ~(<<n, m>> \in R)
  BY <1>1, WFMin
<1>4. ASSUME NEW n \in T PROVE m <= n
  <2>1. ~(n < m)
    BY <1>2, <1>3
  <2> QED BY <2>1
<1> QED BY <1>4

\* Induction, over a set rather than a predicate.
LEMMA Induction ==
  ASSUME NEW T \in SUBSET Nat, 0 \in T, \A n \in T : n + 1 \in T
  PROVE  T = Nat
<1> SUFFICES ASSUME Nat \ T # {} PROVE FALSE
  OBVIOUS
<1>1. PICK m \in Nat \ T : \A n \in Nat \ T : m <= n
  BY LeastNatural
<1>2. m # 0 /\ m - 1 \in Nat /\ m - 1 \in T
  BY <1>1
<1> QED BY <1>1, <1>2

\* The same along a sequence.
LEMMA SeqInduction ==
  ASSUME NEW X, NEW T \in SUBSET Seq(X), <<>> \in T, \A q \in T, x \in X : Append(q, x) \in T
  PROVE  T = Seq(X)
<1> DEFINE N == {k \in Nat : \A q \in Seq(X) : Len(q) = k => q \in T}
<1>1. 0 \in N
  BY EmptySeq
<1>2. ASSUME NEW k \in N
      PROVE  k + 1 \in N
  <2> SUFFICES ASSUME NEW q \in Seq(X), Len(q) = k + 1
               PROVE  q \in T
    OBVIOUS
  <2>1. q # <<>>
    BY EmptySeq
  <2>2. PICK p \in Seq(X), x \in X : q = Append(p, x)
    BY <2>1, SequenceEmptyOrAppend
  <2>3. Len(q) = Len(p) + 1 /\ Len(p) \in Nat
    BY <2>2, AppendProperties, LenProperties
  <2>4. p \in T
    BY <2>3
  <2> QED BY <2>2, <2>4
<1> HIDE DEF N
<1>3. N = Nat
  <2>1. N \in SUBSET Nat
    BY DEF N
  <2> QED BY <1>1, <1>2, <2>1, Induction
<1>4. ASSUME NEW q \in Seq(X) PROVE q \in T
  <2>1. Len(q) \in N
    BY <1>3, LenProperties
  <2> QED BY <2>1 DEF N
<1> QED BY <1>4

\* FoldLeft is defined by recursion over sets of indices.  This is what the function it is defined by
\* satisfies, when what is folded is a function F.
Unfolds(f, F, base, q, n) ==
  f = [t \in SUBSET (1 .. n) |-> IF t = {} THEN base ELSE F[<<f[t \ {Max(t)}], q[Max(t)]>>]]

LEMMA MaxIs ==
  ASSUME NEW n \in Nat, NEW t \in SUBSET (1 .. n), n \in t
  PROVE  Max(t) = n
<1>1. \A y \in t : n >= y
  OBVIOUS
<1>2. \A x \in t : (\A y \in t : x >= y) => x = n
  OBVIOUS
<1> QED BY <1>1, <1>2 DEF Max

\* There is such a function.
LEMMA FoldExists ==
  ASSUME NEW F, NEW base, NEW q, NEW n \in Nat
  PROVE  \E f : Unfolds(f, F, base, q, n)
<1> DEFINE T == {m \in Nat : \E f : Unfolds(f, F, base, q, m)}
<1>1. 0 \in T
  <2> DEFINE f == [t \in SUBSET (1 .. 0) |-> base]
  <2>1. \A t \in SUBSET (1 .. 0) : t = {}
    OBVIOUS
  <2>2. f = [t \in SUBSET (1 .. 0) |-> IF t = {} THEN base ELSE F[<<f[t \ {Max(t)}], q[Max(t)]>>]]
    BY <2>1
  <2> QED BY <2>2 DEF Unfolds
<1>2. ASSUME NEW m \in T
      PROVE  m + 1 \in T
  <2>1. PICK f : Unfolds(f, F, base, q, m)
    OBVIOUS
  <2> DEFINE I == 1 .. m
             J == 1 .. (m + 1)
             p == m + 1
             g == [t \in SUBSET J |-> IF p \in t THEN F[<<f[t \ {p}], q[p]>>] ELSE f[t]]
             h == [t \in SUBSET J |-> IF t = {} THEN base ELSE F[<<g[t \ {Max(t)}], q[Max(t)]>>]]
  <2>2. m \in Nat /\ p \in Nat /\ J = I \cup {p} /\ p \notin I
    OBVIOUS
  <2>3. f = [t \in SUBSET I |-> IF t = {} THEN base ELSE F[<<f[t \ {Max(t)}], q[Max(t)]>>]]
    BY <2>1 DEF Unfolds
  <2>4. \A t \in SUBSET J : p \in t => Max(t) = p
    BY <2>2, MaxIs
  <2> HIDE DEF p, I, J
  <2>5. \A t \in SUBSET J : g[t] = h[t]
    <3> SUFFICES ASSUME NEW t \in SUBSET J PROVE g[t] = h[t]
      OBVIOUS
    <3>1. CASE p \in t
      <4>1. t # {} /\ Max(t) = p /\ t \ {p} \in SUBSET J /\ p \notin t \ {p}
        BY <2>4, <3>1
      <4>2. g[t] = F[<<f[t \ {p}], q[p]>>] /\ g[t \ {p}] = f[t \ {p}]
        BY <3>1, <4>1
      <4>3. h[t] = F[<<g[t \ {p}], q[p]>>]
        BY <4>1
      <4> QED BY <4>2, <4>3
    <3>2. CASE p \notin t
      <4>1. t \in SUBSET I /\ g[t] = f[t]
        BY <2>2, <3>2
      <4>2. CASE t = {}
        <5>1. f[t] = base
          BY <2>3, <4>1, <4>2
        <5> QED BY <4>1, <4>2, <5>1
      <4>3. CASE t # {}
        <5> DEFINE x == Max(t)
                   u == t \ {x}
        <5>1. u \in SUBSET J /\ p \notin u
          BY <3>2
        <5>2. g[u] = f[u]
          BY <5>1
        <5>3. f[t] = F[<<f[u], q[x]>>]
          BY <2>3, <4>1, <4>3
        <5>4. h[t] = F[<<g[u], q[x]>>]
          BY <4>3
        <5> QED BY <4>1, <5>2, <5>3, <5>4
      <4> QED BY <4>2, <4>3
    <3> QED BY <3>1, <3>2
  <2>6. g = h
    BY <2>5
  <2>7. Unfolds(g, F, base, q, p)
    BY <2>6 DEF Unfolds, J, p
  <2> HIDE DEF g
  <2>8. \E ff : Unfolds(ff, F, base, q, p)
    BY <2>7
  <2> QED BY <2>2, <2>8 DEF p
<1> HIDE DEF T
<1>3. T \in SUBSET Nat
  BY DEF T
<1>4. T = Nat
  BY <1>1, <1>2, <1>3, Induction
<1> QED BY <1>4 DEF T

\* All its values are in a set that every step stays in.
LEMMA FoldStays ==
  ASSUME NEW f, NEW U, NEW n \in Nat, f[{}] \in U,
         \A t \in SUBSET (1 .. n) : t # {} /\ Max(t) \in 1 .. n /\ f[t \ {Max(t)}] \in U => f[t] \in U
  PROVE  \A t \in SUBSET (1 .. n) : f[t] \in U
<1> DEFINE T == {m \in Nat : m <= n => \A t \in SUBSET (1 .. m) : f[t] \in U}
<1>1. 0 \in T
  <2>1. \A t \in SUBSET (1 .. 0) : t = {}
    OBVIOUS
  <2> QED BY <2>1
<1>2. ASSUME NEW m \in T
      PROVE  m + 1 \in T
  <2> SUFFICES ASSUME m + 1 <= n, NEW t \in SUBSET (1 .. m + 1)
               PROVE  f[t] \in U
    OBVIOUS
  <2>1. m \in Nat /\ m <= n /\ \A u \in SUBSET (1 .. m) : f[u] \in U
    OBVIOUS
  <2>2. CASE m + 1 \notin t
    <3>1. t \in SUBSET (1 .. m)
      BY <2>1, <2>2
    <3> QED BY <2>1, <3>1
  <2>3. CASE m + 1 \in t
    <3>1. t \ {m + 1} \in SUBSET (1 .. m)
      BY <2>1
    <3>2. Max(t) = m + 1
      BY <2>1, <2>3, MaxIs
    <3>3. t \in SUBSET (1 .. n) /\ t # {} /\ m + 1 \in 1 .. n
      BY <2>1, <2>3
    <3>4. f[t \ {m + 1}] \in U
      BY <2>1, <3>1
    <3> HIDE DEF T
    <3> QED BY <3>2, <3>3, <3>4
  <2> QED BY <2>2, <2>3
<1> HIDE DEF T
<1>3. T = Nat
  <2>1. T \in SUBSET Nat
    BY DEF T
  <2> QED BY <1>1, <1>2, <2>1, Induction
<1> QED BY <1>3 DEF T

\* Two of them agree as far as their sequences do.
LEMMA FoldUnique ==
  ASSUME NEW F, NEW base, NEW f, NEW p, NEW m \in Nat, Unfolds(f, F, base, p, m),
         NEW g, NEW q, NEW n \in Nat, Unfolds(g, F, base, q, n),
         m <= n, \A i \in 1 .. m : p[i] = q[i]
  PROVE  \A t \in SUBSET (1 .. m) : f[t] = g[t]
<1>1. \A t \in SUBSET (1 .. m) : f[t] = IF t = {} THEN base ELSE F[<<f[t \ {Max(t)}], p[Max(t)]>>]
  BY DEF Unfolds
<1>2. \A t \in SUBSET (1 .. n) : g[t] = IF t = {} THEN base ELSE F[<<g[t \ {Max(t)}], q[Max(t)]>>]
  BY DEF Unfolds
<1> DEFINE T == {k \in Nat : k <= m => \A t \in SUBSET (1 .. k) : f[t] = g[t]}
<1>3. 0 \in T
  <2>1. \A t \in SUBSET (1 .. 0) : t = {}
    OBVIOUS
  <2>2. {} \in SUBSET (1 .. m) /\ {} \in SUBSET (1 .. n)
    OBVIOUS
  <2> QED BY <1>1, <1>2, <2>1, <2>2
<1>4. ASSUME NEW k \in T
      PROVE  k + 1 \in T
  <2> SUFFICES ASSUME k + 1 <= m, NEW t \in SUBSET (1 .. k + 1)
               PROVE  f[t] = g[t]
    OBVIOUS
  <2>1. k \in Nat /\ k <= m /\ \A u \in SUBSET (1 .. k) : f[u] = g[u]
    OBVIOUS
  <2>2. CASE k + 1 \notin t
    <3>1. t \in SUBSET (1 .. k)
      BY <2>1, <2>2
    <3> QED BY <2>1, <3>1
  <2>3. CASE k + 1 \in t
    <3>1. t \ {k + 1} \in SUBSET (1 .. k)
      BY <2>1
    <3>2. Max(t) = k + 1
      BY <2>1, <2>3, MaxIs
    <3>3. t \in SUBSET (1 .. m) /\ t \in SUBSET (1 .. n) /\ t # {} /\ k + 1 \in 1 .. m
      BY <2>1, <2>3
    <3>4. f[t \ {k + 1}] = g[t \ {k + 1}]
      BY <2>1, <3>1
    <3>5. f[t] = F[<<f[t \ {k + 1}], p[k + 1]>>]
      BY <1>1, <3>2, <3>3
    <3>6. g[t] = F[<<g[t \ {k + 1}], q[k + 1]>>]
      BY <1>2, <3>2, <3>3
    <3>7. p[k + 1] = q[k + 1]
      BY <3>3
    <3> QED BY <3>4, <3>5, <3>6, <3>7
  <2> QED BY <2>2, <2>3
<1> HIDE DEF T
<1>5. T = Nat
  <2>1. T \in SUBSET Nat
    BY DEF T
  <2> QED BY <1>3, <1>4, <2>1, Induction
<1> QED BY <1>5 DEF T

\* F folded over q, from base.
Total(F, base, q) == (CHOOSE f : Unfolds(f, F, base, q, Len(q)))[1 .. Len(q)]

\* The steps that stay in U.
Steps(U, X) == [U \X X -> U]

LEMMA TotalIs ==
  ASSUME NEW U, NEW X, NEW F \in Steps(U, X), NEW base \in U
  PROVE  /\ Total(F, base, <<>>) = base
         /\ \A q \in Seq(X) : Total(F, base, q) \in U
         /\ \A q \in Seq(X), x \in X : Total(F, base, Append(q, x)) = F[<<Total(F, base, q), x>>]
<1> DEFINE Fold(q) == CHOOSE f : Unfolds(f, F, base, q, Len(q))
<1>1. \A q \in Seq(X) : Len(q) \in Nat /\ Unfolds(Fold(q), F, base, q, Len(q))
  BY FoldExists, LenProperties
<1>2. \A q : Total(F, base, q) = Fold(q)[1 .. Len(q)]
  BY DEF Total
<1> HIDE DEF Fold
<1>3. Total(F, base, <<>>) = base
  <2>1. <<>> \in Seq(X) /\ Len(<<>>) = 0 /\ 1 .. 0 = {} /\ {} \in SUBSET (1 .. 0)
    BY EmptySeq
  <2>2. Fold(<<>>)[{}] = base
    BY <1>1, <2>1 DEF Unfolds
  <2> QED BY <1>2, <2>1, <2>2
<1>4. ASSUME NEW q \in Seq(X)
      PROVE  Total(F, base, q) \in U
  <2> DEFINE n == Len(q)
             f == Fold(q)
  <2>1. n \in Nat /\ \A i \in 1 .. n : q[i] \in X
    BY LenProperties
  <2>2. \A t \in SUBSET (1 .. n) : f[t] = IF t = {} THEN base ELSE F[<<f[t \ {Max(t)}], q[Max(t)]>>]
    BY <1>1 DEF Unfolds
  <2> HIDE DEF n, f
  <2>3. f[{}] \in U
    BY <2>2
  <2>4. ASSUME NEW t \in SUBSET (1 .. n), t # {}, Max(t) \in 1 .. n, f[t \ {Max(t)}] \in U
        PROVE  f[t] \in U
    BY <2>1, <2>2, <2>4 DEF Steps
  <2>5. \A t \in SUBSET (1 .. n) : f[t] \in U
    BY <2>1, <2>3, <2>4, FoldStays
  <2> QED BY <1>2, <2>5 DEF n, f
<1>5. ASSUME NEW q \in Seq(X), NEW x \in X
      PROVE  Total(F, base, Append(q, x)) = F[<<Total(F, base, q), x>>]
  <2> DEFINE n == Len(q)
             r == Append(q, x)
             f == Fold(q)
             g == Fold(r)
  <2>1. n \in Nat /\ r \in Seq(X) /\ Len(r) = n + 1 /\ r[n + 1] = x /\ \A i \in 1 .. n : q[i] = r[i]
    BY AppendProperties, LenProperties
  <2>2. Unfolds(f, F, base, q, n) /\ Unfolds(g, F, base, r, n + 1)
    BY <1>1, <2>1
  <2>3. Total(F, base, q) = f[1 .. n] /\ Total(F, base, r) = g[1 .. n + 1]
    BY <1>2, <2>1
  <2> HIDE DEF n, r, f, g
  <2>4. \A t \in SUBSET (1 .. n) : f[t] = g[t]
    <3>1. n + 1 \in Nat /\ n <= n + 1
      BY <2>1
    <3> QED BY <2>1, <2>2, <3>1, FoldUnique
  <2>5. f[1 .. n] = g[1 .. n]
    BY <2>4
  <2> DEFINE t == 1 .. n + 1
  <2>6. t \in SUBSET (1 .. n + 1) /\ t # {} /\ t \ {n + 1} = 1 .. n /\ n + 1 \in t
    <3>1. n \in Nat
      BY <2>1
    <3>2. n + 1 \in 1 .. n + 1
      BY <3>1
    <3>3. (1 .. n + 1) \ {n + 1} = 1 .. n
      BY <3>1
    <3> QED BY <3>2, <3>3
  <2>7. Max(t) = n + 1
    BY <2>1, <2>6, MaxIs
  <2>8. \A u \in SUBSET (1 .. n + 1) : g[u] = IF u = {} THEN base ELSE F[<<g[u \ {Max(u)}], r[Max(u)]>>]
    BY <2>2 DEF Unfolds
  <2> HIDE DEF t
  <2>9. g[t] = F[<<g[1 .. n], r[n + 1]>>]
    BY <2>6, <2>7, <2>8
  <2> QED BY <2>1, <2>3, <2>5, <2>9 DEF t, r
<1> QED BY <1>3, <1>4, <1>5

LEMMA MaxIn ==
  ASSUME NEW n \in Nat, NEW t \in SUBSET (1 .. n), t # {}
  PROVE  Max(t) \in t
<1> DEFINE T == {n - x : x \in t}
<1>1. \A x \in t : x \in Nat /\ n - x \in Nat
  OBVIOUS
<1>2. T \in SUBSET Nat /\ T # {}
  BY <1>1
<1>3. PICK m \in T : \A k \in T : m <= k
  BY <1>2, LeastNatural
<1>4. PICK x \in t : m = n - x
  BY <1>3
<1>5. ASSUME NEW y \in t PROVE x >= y
  <2>1. n - x <= n - y
    BY <1>3, <1>4
  <2>2. x \in Nat /\ y \in Nat
    BY <1>1
  <2> QED BY <2>1, <2>2
<1> QED BY <1>4, <1>5 DEF Max

\* A fold has its values where F has them, and is F folded.
LEMMA FoldIn ==
  ASSUME NEW U, NEW X, NEW F \in Steps(U, X), NEW base \in U, NEW q \in Seq(X)
  PROVE  \E f : Unfolds(f, F, base, q, Len(q)) /\ \A t \in SUBSET (1 .. Len(q)) : f[t] \in U
<1> DEFINE n == Len(q)
<1>1. n \in Nat /\ \A i \in 1 .. n : q[i] \in X
  BY LenProperties
<1>2. PICK f : Unfolds(f, F, base, q, n)
  BY <1>1, FoldExists
<1>3. \A t \in SUBSET (1 .. n) : f[t] = IF t = {} THEN base ELSE F[<<f[t \ {Max(t)}], q[Max(t)]>>]
  BY <1>2 DEF Unfolds
<1> HIDE DEF n
<1>4. f[{}] \in U
  BY <1>3
<1>5. ASSUME NEW t \in SUBSET (1 .. n), t # {}, Max(t) \in 1 .. n, f[t \ {Max(t)}] \in U
      PROVE  f[t] \in U
  BY <1>1, <1>3, <1>5 DEF Steps
<1>6. \A t \in SUBSET (1 .. n) : f[t] \in U
  BY <1>1, <1>4, <1>5, FoldStays
<1> QED BY <1>2, <1>6 DEF n

LEMMA FoldIsTotal ==
  ASSUME NEW F, NEW base, NEW q, Len(q) \in Nat, NEW f, Unfolds(f, F, base, q, Len(q))
  PROVE  f[1 .. Len(q)] = Total(F, base, q)
<1>1. Len(q) \in Nat
  OBVIOUS
<1>2. \E g : Unfolds(g, F, base, q, Len(q))
  BY <1>1, FoldExists
<1> DEFINE g == CHOOSE g : Unfolds(g, F, base, q, Len(q))
<1>3. Unfolds(g, F, base, q, Len(q))
  BY <1>2
<1> HIDE DEF g
<1>4. \A t \in SUBSET (1 .. Len(q)) : f[t] = g[t]
  BY <1>1, <1>3, FoldUnique
<1>5. f[1 .. Len(q)] = g[1 .. Len(q)]
  BY <1>4
<1> QED BY <1>5 DEF Total, g

-----------------------------------------------------------------------------
(* The folds of GraphSession.                                              *)

\* Without() folds this function.
WithoutStep(out, S) ==
  [v \in Seq(S \ out) \X S |-> IF v[2] \in out THEN v[1] ELSE Append(v[1], v[2])]

WithoutUnfolds(f, q, out, n) ==
  f = [t \in SUBSET (1 .. n) |-> IF t = {} THEN <<>>
                                 ELSE IF q[Max(t)] \in out THEN f[t \ {Max(t)}]
                                      ELSE Append(f[t \ {Max(t)}], q[Max(t)])]

LEMMA WithoutIs ==
  ASSUME NEW S, NEW out, NEW q \in Seq(S)
  PROVE  Without(q, out) = Total(WithoutStep(out, S), <<>>, q)
<1> DEFINE n == Len(q)
           U == Seq(S \ out)
           F == WithoutStep(out, S)
<1>1. n \in Nat /\ DOMAIN q = 1 .. n /\ \A i \in 1 .. n : q[i] \in S
  BY LenProperties
<1>2. Without(q, out) = (CHOOSE f : WithoutUnfolds(f, q, out, n))[1 .. n]
  BY <1>1 DEF Without, FoldLeft, MapThenFoldSet, WithoutUnfolds
<1>3. \A kept \in U, x \in S : (IF x \in out THEN kept ELSE Append(kept, x)) \in U
  BY AppendProperties
<1>4. \A kept \in U, x \in S : F[<<kept, x>>] = IF x \in out THEN kept ELSE Append(kept, x)
  BY DEF WithoutStep
<1>5. F \in Steps(U, S) /\ <<>> \in U
  BY <1>3 DEF WithoutStep, Steps
<1>6. \A t \in SUBSET (1 .. n) : t # {} => Max(t) \in 1 .. n
  BY <1>1, MaxIn
<1>7. ASSUME NEW f, \A t \in SUBSET (1 .. n) : f[t] \in U
      PROVE  WithoutUnfolds(f, q, out, n) <=> Unfolds(f, F, <<>>, q, n)
  <2> HIDE DEF F, U, n
  <2>1. ASSUME NEW t \in SUBSET (1 .. n), t # {}
        PROVE  F[<<f[t \ {Max(t)}], q[Max(t)]>>]
                 = IF q[Max(t)] \in out THEN f[t \ {Max(t)}] ELSE Append(f[t \ {Max(t)}], q[Max(t)])
    <3>1. t \ {Max(t)} \in SUBSET (1 .. n) /\ q[Max(t)] \in S
      BY <1>1, <1>6, <2>1
    <3>2. f[t \ {Max(t)}] \in U
      BY <1>7, <3>1
    <3> QED BY <1>4, <3>1, <3>2
  <2> DEFINE a == [t \in SUBSET (1 .. n) |-> IF t = {} THEN <<>>
                                 ELSE IF q[Max(t)] \in out THEN f[t \ {Max(t)}]
                                      ELSE Append(f[t \ {Max(t)}], q[Max(t)])]
             b == [t \in SUBSET (1 .. n) |-> IF t = {} THEN <<>> ELSE F[<<f[t \ {Max(t)}], q[Max(t)]>>]]
  <2>2. a = b
    BY <2>1
  <2> QED BY <2>2 DEF WithoutUnfolds, Unfolds
<1>8. ASSUME NEW f, WithoutUnfolds(f, q, out, n)
      PROVE  \A t \in SUBSET (1 .. n) : f[t] \in U
  <2>1. \A t \in SUBSET (1 .. n) : f[t] = IF t = {} THEN <<>>
                                 ELSE IF q[Max(t)] \in out THEN f[t \ {Max(t)}]
                                      ELSE Append(f[t \ {Max(t)}], q[Max(t)])
    BY <1>8 DEF WithoutUnfolds
  <2> HIDE DEF F, U, n
  <2>2. f[{}] \in U
    BY <1>5, <2>1
  <2>3. ASSUME NEW t \in SUBSET (1 .. n), t # {}, Max(t) \in 1 .. n, f[t \ {Max(t)}] \in U
        PROVE  f[t] \in U
    <3>1. q[Max(t)] \in S
      BY <1>1, <2>3
    <3> QED BY <1>3, <2>1, <2>3, <3>1
  <2> QED BY <1>1, <2>2, <2>3, FoldStays
<1> HIDE DEF F, U
<1>9. PICK g : Unfolds(g, F, <<>>, q, n) /\ \A t \in SUBSET (1 .. n) : g[t] \in U
  BY <1>5, FoldIn
<1>10. WithoutUnfolds(g, q, out, n)
  BY <1>7, <1>9
<1> DEFINE f == CHOOSE f : WithoutUnfolds(f, q, out, n)
<1>11. WithoutUnfolds(f, q, out, n)
  BY <1>10
<1> HIDE DEF f
<1>12. Unfolds(f, F, <<>>, q, n)
  BY <1>7, <1>8, <1>11
<1>13. f[1 .. n] = Total(F, <<>>, q)
  BY <1>1, <1>12, FoldIsTotal
<1> QED BY <1>2, <1>13 DEF f, F

\* A sequence and one more element, and what is left of it.
Longer(q, x) == Append(q, x)
Left(kept, x, out) == IF x \in out THEN kept ELSE Longer(kept, x)

LEMMA WithoutStepIs ==
  ASSUME NEW S, NEW out
  PROVE  /\ WithoutStep(out, S) \in Steps(Seq(S \ out), S)
         /\ \A kept \in Seq(S \ out), x \in S : WithoutStep(out, S)[<<kept, x>>] = Left(kept, x, out)
<1>1. \A kept \in Seq(S \ out), x \in S : (IF x \in out THEN kept ELSE Append(kept, x)) \in Seq(S \ out)
  BY AppendProperties
<1> QED BY <1>1 DEF WithoutStep, Steps, Left, Longer

\* What is left of a sequence, and of one that is longer by an element.
LEMMA WithoutType ==
  ASSUME NEW S, NEW out
  PROVE  /\ Without(<<>>, out) = <<>>
         /\ \A q \in Seq(S) : Without(q, out) \in Seq(S \ out)
<1> DEFINE U == Seq(S \ out)
           F == WithoutStep(out, S)
<1>1. F \in Steps(U, S) /\ <<>> \in U
  BY WithoutStepIs
<1>2. <<>> \in Seq(S) /\ \A q \in Seq(S) : Without(q, out) = Total(F, <<>>, q)
  BY WithoutIs
<1> HIDE DEF F, U
<1>3. Total(F, <<>>, <<>>) = <<>> /\ \A q \in Seq(S) : Total(F, <<>>, q) \in U
  BY <1>1, TotalIs
<1> QED BY <1>2, <1>3 DEF U

LEMMA WithoutLonger ==
  ASSUME NEW S, NEW out, NEW q \in Seq(S), NEW x \in S
  PROVE  Without(Longer(q, x), out) = Left(Without(q, out), x, out)
<1> DEFINE U == Seq(S \ out)
           F == WithoutStep(out, S)
           t == Append(q, x)
<1>1. F \in Steps(U, S) /\ <<>> \in U /\ t \in Seq(S)
  BY WithoutStepIs, AppendProperties
<1>2. \A kept \in U : F[<<kept, x>>] = Left(kept, x, out)
  BY WithoutStepIs
<1> HIDE DEF F, U
<1>3. Without(q, out) = Total(F, <<>>, q) /\ Without(t, out) = Total(F, <<>>, t)
  <2> HIDE DEF t
  <2> QED BY <1>1, WithoutIs DEF F
<1>4. Total(F, <<>>, q) \in U /\ Total(F, <<>>, t) = F[<<Total(F, <<>>, q), x>>]
  BY <1>1, TotalIs
<1> HIDE DEF t
<1>5. Without(t, out) = Left(Without(q, out), x, out)
  BY <1>2, <1>3, <1>4
<1> QED BY <1>5 DEF t, Longer

-----------------------------------------------------------------------------
(* Sessions, and what an action does to one.                               *)

Slots == [kind : Kinds, stamp : Nat, live : BOOLEAN]
Records == [kind : Kinds, param : Params]
Maps == UNION {[D -> Records] : D \in SUBSET Nat}
Sessions == [slots : Seq(Slots), edges : Seq(Nat \X Nat), records : Maps,
             log : Seq(Actions), redo : Seq(Actions)]

LEMMA Mapped ==
  /\ \A m \in Maps : DOMAIN m \subseteq Nat /\ \A i \in DOMAIN m : m[i] \in Records
  /\ \A D \in SUBSET Nat : \A m \in [D -> Records] : m \in Maps
  BY DEF Maps

LEMMA BlankIs == Blank \in Sessions
<1>1. <<>> \in Maps
  <2>1. {} \in SUBSET Nat /\ <<>> \in [{} -> Records]
    OBVIOUS
  <2> QED BY <2>1, Mapped
<1> QED BY <1>1 DEF Blank, Sessions

LEMMA AddIs ==
  ASSUME NEW s \in Sessions, NEW a \in Actions, a.op = "add", Accepts(s, a)
  PROVE  /\ Exec(s, a) \in Sessions
         /\ Exec(s, a).slots = Append(s.slots, [kind |-> a.kind, stamp |-> a.stamp, live |-> TRUE])
         /\ Exec(s, a).edges = s.edges
         /\ Exec(s, a).records
              = [i \in DOMAIN s.records \union {Len(s.slots) + 1} |->
                   IF i = Len(s.slots) + 1 THEN [kind |-> a.kind, param |-> Unset] ELSE s.records[i]]
         /\ Exec(s, a).log = s.log /\ Exec(s, a).redo = s.redo
<1> DEFINE id == Len(s.slots) + 1
           slots == Append(s.slots, [kind |-> a.kind, stamp |-> a.stamp, live |-> TRUE])
           records == [i \in DOMAIN s.records \union {id} |->
                         IF i = id THEN [kind |-> a.kind, param |-> Unset] ELSE s.records[i]]
<1>1. Exec(s, a) = [s EXCEPT !.slots = slots, !.records = records]
  BY DEF Exec
<1>2. slots \in Seq(Slots)
  <2>1. [kind |-> a.kind, stamp |-> a.stamp, live |-> TRUE] \in Slots
    BY DEF Actions, Slots, Accepts
  <2>2. s.slots \in Seq(Slots)
    BY DEF Sessions
  <2> QED BY <2>1, <2>2, AppendProperties
<1>3. records \in Maps
  <2>1. s.records \in Maps /\ id \in Nat
    BY DEF Sessions
  <2>2. [kind |-> a.kind, param |-> Unset] \in Records
    BY DEF Actions, Records, Params, Accepts
  <2>3. (DOMAIN s.records \union {id}) \in SUBSET Nat
    BY <2>1, Mapped
  <2>4. records \in [DOMAIN s.records \union {id} -> Records]
    BY <2>1, <2>2, Mapped
  <2> QED BY <2>3, <2>4, Mapped
<1> HIDE DEF slots, records
<1>4. Exec(s, a) = [slots |-> slots, edges |-> s.edges, records |-> records, log |-> s.log, redo |-> s.redo]
  BY <1>1 DEF Sessions
<1> QED BY <1>2, <1>3, <1>4 DEF Sessions, slots, records

LEMMA RemoveIs ==
  ASSUME NEW s \in Sessions, NEW a \in Actions, a.op = "remove", Accepts(s, a)
  PROVE  /\ Exec(s, a) \in Sessions
         /\ a.id \in 1 .. Len(s.slots)
         /\ Exec(s, a).slots = [s.slots EXCEPT ![a.id].live = FALSE]
         /\ Exec(s, a).edges = Without(s.edges, {e \in ToSet(s.edges) : a.id \in {e[1], e[2]}})
         /\ Exec(s, a).records = [i \in DOMAIN s.records \ {a.id} |-> s.records[i]]
         /\ Exec(s, a).log = s.log /\ Exec(s, a).redo = s.redo
<1> DEFINE slots == [s.slots EXCEPT ![a.id].live = FALSE]
           edges == Without(s.edges, {e \in ToSet(s.edges) : a.id \in {e[1], e[2]}})
           records == [i \in DOMAIN s.records \ {a.id} |-> s.records[i]]
<1>1. Exec(s, a) = [s EXCEPT !.slots[a.id].live = FALSE, !.edges = edges, !.records = records]
  BY DEF Exec
<1>2. a.id \in 1 .. Len(s.slots)
  BY DEF Accepts, Live, Sessions
<1>3. slots \in Seq(Slots)
  <2>1. s.slots \in Seq(Slots) /\ s.slots[a.id] \in Slots
    BY <1>2 DEF Sessions
  <2>2. [s.slots[a.id] EXCEPT !.live = FALSE] \in Slots
    BY <2>1 DEF Slots
  <2> QED BY <1>2, <2>1, <2>2, ExceptSeq
<1>4. edges \in Seq(Nat \X Nat)
  <2>1. s.edges \in Seq(Nat \X Nat)
    BY DEF Sessions
  <2> DEFINE out == {e \in ToSet(s.edges) : a.id \in {e[1], e[2]}}
  <2> HIDE DEF out
  <2>2. Without(s.edges, out) \in Seq((Nat \X Nat) \ out)
    BY <2>1, WithoutType
  <2>3. Without(s.edges, out) \in Seq(Nat \X Nat)
    BY <2>2, SeqMonotonic
  <2> QED BY <2>3 DEF out
<1>5. records \in Maps
  <2>1. s.records \in Maps
    BY DEF Sessions
  <2>2. (DOMAIN s.records \ {a.id}) \in SUBSET Nat
    BY <2>1, Mapped
  <2>3. records \in [DOMAIN s.records \ {a.id} -> Records]
    BY <2>1, Mapped
  <2> QED BY <2>2, <2>3, Mapped
<1> HIDE DEF edges, records
<1>6. Exec(s, a) = [slots |-> slots, edges |-> edges, records |-> records, log |-> s.log, redo |-> s.redo]
  BY <1>1 DEF Sessions
<1> HIDE DEF slots
<1> QED BY <1>2, <1>3, <1>4, <1>5, <1>6 DEF Sessions, slots, edges, records

LEMMA ConnectIs ==
  ASSUME NEW s \in Sessions, NEW a \in Actions, a.op = "connect"
  PROVE  /\ Exec(s, a) \in Sessions
         /\ Exec(s, a).slots = s.slots
         /\ Exec(s, a).edges = Append(s.edges, <<a.id, a.dst>>)
         /\ Exec(s, a).records = s.records
         /\ Exec(s, a).log = s.log /\ Exec(s, a).redo = s.redo
<1> DEFINE edges == Append(s.edges, <<a.id, a.dst>>)
<1>1. Exec(s, a) = [s EXCEPT !.edges = edges]
  BY DEF Exec
<1>2. edges \in Seq(Nat \X Nat)
  <2>1. <<a.id, a.dst>> \in Nat \X Nat
    BY DEF Actions
  <2>2. s.edges \in Seq(Nat \X Nat)
    BY DEF Sessions
  <2> QED BY <2>1, <2>2, AppendProperties
<1> HIDE DEF edges
<1>3. Exec(s, a) = [slots |-> s.slots, edges |-> edges, records |-> s.records, log |-> s.log, redo |-> s.redo]
  BY <1>1 DEF Sessions
<1> QED BY <1>2, <1>3 DEF Sessions, edges

LEMMA DisconnectIs ==
  ASSUME NEW s \in Sessions, NEW a \in Actions, a.op = "disconnect"
  PROVE  /\ Exec(s, a) \in Sessions
         /\ Exec(s, a).slots = s.slots
         /\ Exec(s, a).edges = Without(s.edges, {<<a.id, a.dst>>})
         /\ Exec(s, a).records = s.records
         /\ Exec(s, a).log = s.log /\ Exec(s, a).redo = s.redo
<1> DEFINE edges == Without(s.edges, {<<a.id, a.dst>>})
<1>1. Exec(s, a) = [s EXCEPT !.edges = edges]
  BY DEF Exec
<1>2. edges \in Seq(Nat \X Nat)
  <2>1. s.edges \in Seq(Nat \X Nat)
    BY DEF Sessions
  <2> DEFINE out == {<<a.id, a.dst>>}
  <2> HIDE DEF out
  <2>2. Without(s.edges, out) \in Seq((Nat \X Nat) \ out)
    BY <2>1, WithoutType
  <2>3. Without(s.edges, out) \in Seq(Nat \X Nat)
    BY <2>2, SeqMonotonic
  <2> QED BY <2>3 DEF out
<1> HIDE DEF edges
<1>3. Exec(s, a) = [slots |-> s.slots, edges |-> edges, records |-> s.records, log |-> s.log, redo |-> s.redo]
  BY <1>1 DEF Sessions
<1> QED BY <1>2, <1>3 DEF Sessions, edges

LEMMA SetIs ==
  ASSUME NEW s \in Sessions, NEW a \in Actions, a.op = "set", Accepts(s, a)
  PROVE  /\ Exec(s, a) \in Sessions
         /\ Exec(s, a).slots = s.slots
         /\ Exec(s, a).edges = s.edges
         /\ Exec(s, a).records = [s.records EXCEPT ![a.id].param = a.value]
         /\ Exec(s, a).log = s.log /\ Exec(s, a).redo = s.redo
<1> DEFINE records == [s.records EXCEPT ![a.id].param = a.value]
<1>1. Exec(s, a) = [s EXCEPT !.records[a.id].param = a.value]
  BY DEF Exec
<1>2. records \in Maps
  <2>1. s.records \in Maps /\ a.id \in DOMAIN s.records /\ a.value \in Params
    BY DEF Sessions, Accepts, Actions
  <2>2. DOMAIN s.records \in SUBSET Nat /\ s.records \in [DOMAIN s.records -> Records]
    BY <2>1 DEF Maps
  <2>3. records \in [DOMAIN s.records -> Records]
    BY <2>1, <2>2 DEF Records
  <2> QED BY <2>2, <2>3, Mapped
<1>3. Exec(s, a) = [slots |-> s.slots, edges |-> s.edges, records |-> records, log |-> s.log, redo |-> s.redo]
  BY <1>1 DEF Sessions
<1> HIDE DEF records
<1> QED BY <1>2, <1>3 DEF Sessions, records

LEMMA ExecType ==
  ASSUME NEW s \in Sessions, NEW a \in Actions, Accepts(s, a)
  PROVE  Exec(s, a) \in Sessions /\ Exec(s, a).log = s.log /\ Exec(s, a).redo = s.redo
<1>1. a.op \in {"add", "remove", "connect", "disconnect", "set"}
  BY DEF Actions
<1> QED BY <1>1, AddIs, RemoveIs, ConnectIs, DisconnectIs, SetIs

\* Two sessions of one graph, whatever their logs are.
SameGraph(s, t) == s.slots = t.slots /\ s.edges = t.edges /\ s.records = t.records

LEMMA ExecSame ==
  ASSUME NEW s \in Sessions, NEW t \in Sessions, NEW a \in Actions, SameGraph(s, t), Accepts(s, a)
  PROVE  Accepts(t, a) /\ SameGraph(Exec(s, a), Exec(t, a))
<1>1. a.op \in {"add", "remove", "connect", "disconnect", "set"}
  BY DEF Actions
<1>2. Accepts(t, a)
  BY DEF Accepts, Live, SameGraph
<1>3. s.slots = t.slots /\ s.edges = t.edges /\ s.records = t.records
  BY DEF SameGraph
<1> DEFINE u == Exec(s, a)
           v == Exec(t, a)
<1> SUFFICES u.slots = v.slots /\ u.edges = v.edges /\ u.records = v.records
  BY <1>2 DEF SameGraph
<1>4. CASE a.op = "add"
  <2>1. /\ u.slots = Append(s.slots, [kind |-> a.kind, stamp |-> a.stamp, live |-> TRUE])
        /\ u.edges = s.edges
        /\ u.records = [i \in DOMAIN s.records \union {Len(s.slots) + 1} |->
                   IF i = Len(s.slots) + 1 THEN [kind |-> a.kind, param |-> Unset] ELSE s.records[i]]
    BY <1>4, AddIs
  <2>2. /\ v.slots = Append(t.slots, [kind |-> a.kind, stamp |-> a.stamp, live |-> TRUE])
        /\ v.edges = t.edges
        /\ v.records = [i \in DOMAIN t.records \union {Len(t.slots) + 1} |->
                   IF i = Len(t.slots) + 1 THEN [kind |-> a.kind, param |-> Unset] ELSE t.records[i]]
    BY <1>2, <1>4, AddIs
  <2> HIDE DEF u, v
  <2>3. u.slots = v.slots
    BY <1>3, <2>1, <2>2
  <2>4. u.edges = v.edges
    BY <1>3, <2>1, <2>2
  <2>5. u.records = v.records
    BY <1>3, <2>1, <2>2
  <2> QED BY <2>3, <2>4, <2>5
<1>5. CASE a.op = "remove"
  <2>1. /\ u.slots = [s.slots EXCEPT ![a.id].live = FALSE]
        /\ u.edges = Without(s.edges, {e \in ToSet(s.edges) : a.id \in {e[1], e[2]}})
        /\ u.records = [i \in DOMAIN s.records \ {a.id} |-> s.records[i]]
    BY <1>5, RemoveIs
  <2>2. /\ v.slots = [t.slots EXCEPT ![a.id].live = FALSE]
        /\ v.edges = Without(t.edges, {e \in ToSet(t.edges) : a.id \in {e[1], e[2]}})
        /\ v.records = [i \in DOMAIN t.records \ {a.id} |-> t.records[i]]
    BY <1>2, <1>5, RemoveIs
  <2> HIDE DEF u, v
  <2>3. u.slots = v.slots
    BY <1>3, <2>1, <2>2
  <2>4. u.edges = v.edges
    BY <1>3, <2>1, <2>2
  <2>5. u.records = v.records
    BY <1>3, <2>1, <2>2
  <2> QED BY <2>3, <2>4, <2>5
<1>6. CASE a.op = "connect"
  <2>1. u.slots = s.slots /\ u.edges = Append(s.edges, <<a.id, a.dst>>) /\ u.records = s.records
    BY <1>6, ConnectIs
  <2>2. v.slots = t.slots /\ v.edges = Append(t.edges, <<a.id, a.dst>>) /\ v.records = t.records
    BY <1>6, ConnectIs
  <2> HIDE DEF u, v
  <2> QED BY <1>3, <2>1, <2>2
<1>7. CASE a.op = "disconnect"
  <2>1. u.slots = s.slots /\ u.edges = Without(s.edges, {<<a.id, a.dst>>}) /\ u.records = s.records
    BY <1>7, DisconnectIs
  <2>2. v.slots = t.slots /\ v.edges = Without(t.edges, {<<a.id, a.dst>>}) /\ v.records = t.records
    BY <1>7, DisconnectIs
  <2> HIDE DEF u, v
  <2> QED BY <1>3, <2>1, <2>2
<1>8. CASE a.op = "set"
  <2>1. u.slots = s.slots /\ u.edges = s.edges /\ u.records = [s.records EXCEPT ![a.id].param = a.value]
    BY <1>8, SetIs
  <2>2. v.slots = t.slots /\ v.edges = t.edges /\ v.records = [t.records EXCEPT ![a.id].param = a.value]
    BY <1>2, <1>8, SetIs
  <2> HIDE DEF u, v
  <2> QED BY <1>3, <2>1, <2>2
<1> QED BY <1>1, <1>4, <1>5, <1>6, <1>7, <1>8

\* No action takes a slot away or changes its stamp.
Keeps(p, q) ==
  /\ Len(p) <= Len(q)
  /\ \A i \in 1 .. Len(p) : q[i].stamp = p[i].stamp

LEMMA KeepsOn ==
  ASSUME NEW p \in Seq(Slots), NEW q \in Seq(Slots), NEW r \in Seq(Slots), Keeps(p, q), Keeps(q, r)
  PROVE  Keeps(p, r)
<1>1. Len(p) \in Nat /\ Len(q) \in Nat /\ Len(r) \in Nat
  OBVIOUS
<1>2. \A i \in 1 .. Len(p) : i \in 1 .. Len(q)
  BY <1>1 DEF Keeps
<1> QED BY <1>1, <1>2 DEF Keeps

LEMMA ExecStamps ==
  ASSUME NEW s \in Sessions, NEW a \in Actions, Accepts(s, a)
  PROVE  /\ Keeps(s.slots, Exec(s, a).slots)
         /\ a.op = "add" => /\ Len(Exec(s, a).slots) = Len(s.slots) + 1
                            /\ Exec(s, a).slots[Len(s.slots) + 1].stamp = a.stamp
         /\ a.op # "add" => Len(Exec(s, a).slots) = Len(s.slots)
<1> DEFINE p == s.slots
           q == Exec(s, a).slots
<1>1. p \in Seq(Slots) /\ Len(p) \in Nat
  BY DEF Sessions
<1>2. CASE a.op = "add"
  <2>1. q = Append(p, [kind |-> a.kind, stamp |-> a.stamp, live |-> TRUE])
    BY <1>2, AddIs
  <2>2. Len(q) = Len(p) + 1 /\ q[Len(p) + 1].stamp = a.stamp /\ \A i \in 1 .. Len(p) : q[i] = p[i]
    BY <1>1, <2>1
  <2> HIDE DEF p, q
  <2> QED BY <1>1, <1>2, <2>2 DEF Keeps, p, q
<1>3. CASE a.op = "remove"
  <2>1. a.id \in 1 .. Len(p) /\ q = [p EXCEPT ![a.id].live = FALSE]
    BY <1>3, RemoveIs
  <2>2. Len(q) = Len(p)
    BY <1>1, <2>1
  <2>3. ASSUME NEW i \in 1 .. Len(p)
        PROVE  q[i].stamp = p[i].stamp
    <3>1. p[i] \in Slots
      BY <1>1
    <3> HIDE DEF p, q
    <3> QED BY <1>1, <2>1, <3>1 DEF Slots
  <2> HIDE DEF p, q
  <2> QED BY <1>1, <1>3, <2>2, <2>3 DEF Keeps, p, q
<1>4. CASE a.op \in {"connect", "disconnect", "set"}
  <2>1. q = p
    BY <1>4, ConnectIs, DisconnectIs, SetIs
  <2> QED BY <1>1, <1>4, <2>1 DEF Keeps
<1>5. a.op \in {"add", "remove", "connect", "disconnect", "set"}
  BY DEF Actions
<1> QED BY <1>2, <1>3, <1>4, <1>5

-----------------------------------------------------------------------------
(* Replaying a log.                                                        *)

Replays == [ok : BOOLEAN, s : Sessions]
Begun == [ok |-> TRUE, s |-> Blank]
Replayed(r, a) ==
  IF r.ok /\ Accepts(r.s, a) THEN [r EXCEPT !.s = Exec(@, a)] ELSE [r EXCEPT !.ok = FALSE]

LEMMA ReplayedIs ==
  ASSUME NEW r \in Replays, NEW a \in Actions
  PROVE  /\ Replayed(r, a) \in Replays
         /\ r.ok /\ Accepts(r.s, a) => Replayed(r, a).ok /\ Replayed(r, a).s = Exec(r.s, a)
         /\ ~(r.ok /\ Accepts(r.s, a)) => ~Replayed(r, a).ok
<1>1. CASE r.ok /\ Accepts(r.s, a)
  <2>1. r.s \in Sessions
    BY DEF Replays
  <2>2. Exec(r.s, a) \in Sessions
    BY <1>1, <2>1, ExecType
  <2> DEFINE e == Exec(r.s, a)
  <2>3. Replayed(r, a) = [r EXCEPT !.s = e]
    BY <1>1 DEF Replayed
  <2> HIDE DEF e
  <2>4. Replayed(r, a) = [ok |-> r.ok, s |-> e]
    BY <2>3 DEF Replays
  <2> QED BY <1>1, <2>2, <2>4 DEF Replays, e
<1>2. CASE ~(r.ok /\ Accepts(r.s, a))
  <2>1. Replayed(r, a) = [r EXCEPT !.ok = FALSE]
    BY <1>2 DEF Replayed
  <2> QED BY <1>2, <2>1 DEF Replays
<1> QED BY <1>1, <1>2

\* _rebuild() folds this function.
ReplayStep == [v \in Replays \X Actions |-> Replayed(v[1], v[2])]
ReplayUnfolds(f, q, n) ==
  f = [t \in SUBSET (1 .. n) |-> IF t = {} THEN Begun ELSE Replayed(f[t \ {Max(t)}], q[Max(t)])]

LEMMA ReplayIs ==
  ASSUME NEW q \in Seq(Actions)
  PROVE  Replay(q) = Total(ReplayStep, Begun, q)
<1> DEFINE n == Len(q)
           F == ReplayStep
<1>1. n \in Nat /\ DOMAIN q = 1 .. n /\ \A i \in 1 .. n : q[i] \in Actions
  BY LenProperties
<1>2. Replay(q) = (CHOOSE f : ReplayUnfolds(f, q, n))[1 .. n]
  BY <1>1 DEF Replay, FoldLeft, MapThenFoldSet, ReplayUnfolds, Replayed, Begun
<1>3. \A r \in Replays, a \in Actions : Replayed(r, a) \in Replays
  BY ReplayedIs
<1>4. \A r \in Replays, a \in Actions : F[<<r, a>>] = Replayed(r, a)
  BY DEF ReplayStep
<1>5. F \in Steps(Replays, Actions) /\ Begun \in Replays
  BY <1>3, BlankIs DEF ReplayStep, Steps, Replays, Begun
<1>6. \A t \in SUBSET (1 .. n) : t # {} => Max(t) \in 1 .. n
  BY <1>1, MaxIn
<1>7. ASSUME NEW f, \A t \in SUBSET (1 .. n) : f[t] \in Replays
      PROVE  ReplayUnfolds(f, q, n) <=> Unfolds(f, F, Begun, q, n)
  <2> HIDE DEF F, n
  <2>1. ASSUME NEW t \in SUBSET (1 .. n), t # {}
        PROVE  F[<<f[t \ {Max(t)}], q[Max(t)]>>] = Replayed(f[t \ {Max(t)}], q[Max(t)])
    <3>1. t \ {Max(t)} \in SUBSET (1 .. n) /\ q[Max(t)] \in Actions
      BY <1>1, <1>6, <2>1
    <3>2. f[t \ {Max(t)}] \in Replays
      BY <1>7, <3>1
    <3> QED BY <1>4, <3>1, <3>2
  <2> DEFINE a == [t \in SUBSET (1 .. n) |->
                     IF t = {} THEN Begun ELSE Replayed(f[t \ {Max(t)}], q[Max(t)])]
             b == [t \in SUBSET (1 .. n) |-> IF t = {} THEN Begun ELSE F[<<f[t \ {Max(t)}], q[Max(t)]>>]]
  <2>2. a = b
    BY <2>1
  <2> QED BY <2>2 DEF ReplayUnfolds, Unfolds
<1>8. ASSUME NEW f, ReplayUnfolds(f, q, n)
      PROVE  \A t \in SUBSET (1 .. n) : f[t] \in Replays
  <2>1. \A t \in SUBSET (1 .. n) : f[t] = IF t = {} THEN Begun ELSE Replayed(f[t \ {Max(t)}], q[Max(t)])
    BY <1>8 DEF ReplayUnfolds
  <2> HIDE DEF F, n
  <2>2. f[{}] \in Replays
    BY <1>5, <2>1
  <2>3. ASSUME NEW t \in SUBSET (1 .. n), t # {}, Max(t) \in 1 .. n, f[t \ {Max(t)}] \in Replays
        PROVE  f[t] \in Replays
    <3>1. q[Max(t)] \in Actions
      BY <1>1, <2>3
    <3> QED BY <1>3, <2>1, <2>3, <3>1
  <2> QED BY <1>1, <2>2, <2>3, FoldStays
<1> HIDE DEF F
<1>9. PICK g : Unfolds(g, F, Begun, q, n) /\ \A t \in SUBSET (1 .. n) : g[t] \in Replays
  BY <1>5, FoldIn
<1>10. ReplayUnfolds(g, q, n)
  BY <1>7, <1>9
<1> DEFINE f == CHOOSE f : ReplayUnfolds(f, q, n)
<1>11. ReplayUnfolds(f, q, n)
  BY <1>10
<1> HIDE DEF f
<1>12. Unfolds(f, F, Begun, q, n)
  BY <1>7, <1>8, <1>11
<1>13. f[1 .. n] = Total(F, Begun, q)
  BY <1>1, <1>12, FoldIsTotal
<1> QED BY <1>2, <1>13 DEF f, F

LEMMA ReplayFacts ==
  /\ Replay(<<>>) = Begun
  /\ \A q \in Seq(Actions) : Replay(q) \in Replays
  /\ \A q \in Seq(Actions), a \in Actions : Replay(Append(q, a)) = Replayed(Replay(q), a)
<1> DEFINE F == ReplayStep
<1>1. \A r \in Replays, a \in Actions : Replayed(r, a) \in Replays
  BY ReplayedIs
<1>2. \A r \in Replays, a \in Actions : F[<<r, a>>] = Replayed(r, a)
  BY DEF ReplayStep
<1>3. F \in Steps(Replays, Actions) /\ Begun \in Replays
  BY <1>1, BlankIs DEF ReplayStep, Steps, Replays, Begun
<1>4. \A q \in Seq(Actions) : Replay(q) = Total(F, Begun, q)
  BY ReplayIs
<1>5. <<>> \in Seq(Actions) /\ \A q \in Seq(Actions), a \in Actions : Append(q, a) \in Seq(Actions)
  BY AppendProperties
<1> HIDE DEF F
<1>6. /\ Total(F, Begun, <<>>) = Begun
      /\ \A q \in Seq(Actions) : Total(F, Begun, q) \in Replays
      /\ \A q \in Seq(Actions), a \in Actions : Total(F, Begun, Append(q, a)) = F[<<Total(F, Begun, q), a>>]
  BY <1>3, TotalIs
<1>7. ASSUME NEW q \in Seq(Actions), NEW a \in Actions
      PROVE  Replay(Append(q, a)) = Replayed(Replay(q), a)
  <2>1. Replay(Append(q, a)) = F[<<Total(F, Begun, q), a>>]
    BY <1>4, <1>5, <1>6
  <2>2. Replay(q) = Total(F, Begun, q) /\ Total(F, Begun, q) \in Replays
    BY <1>4, <1>6
  <2> QED BY <1>2, <2>1, <2>2
<1> QED BY <1>4, <1>5, <1>6, <1>7

\* A log that replays did so up to every action of it, and no slot was lost on the way.
LEMMA ReplayPrefix ==
  ASSUME NEW p \in Seq(Actions), NEW q \in Seq(Actions), Replay(p \o q).ok
  PROVE  Replay(p).ok /\ Keeps(Replay(p).s.slots, Replay(p \o q).s.slots)
<1> DEFINE Good(r) == Replay(p).ok /\ Keeps(Replay(p).s.slots, Replay(p \o r).s.slots)
           T == {r \in Seq(Actions) : Replay(p \o r).ok => Good(r)}
<1>1. Replay(p) \in Replays /\ Replay(p).s.slots \in Seq(Slots)
  BY ReplayFacts DEF Replays, Sessions
<1>2. <<>> \in T
  <2>1. p \o <<>> = p /\ <<>> \in Seq(Actions)
    BY ConcatEmptySeq
  <2>2. Keeps(Replay(p).s.slots, Replay(p).s.slots)
    BY <1>1 DEF Keeps
  <2> QED BY <2>1, <2>2
<1>3. ASSUME NEW r \in T, NEW a \in Actions
      PROVE  Append(r, a) \in T
  <2> SUFFICES ASSUME Replay(p \o Append(r, a)).ok
               PROVE  Good(Append(r, a))
    OBVIOUS
  <2> DEFINE before == Replay(p \o r)
             after == Replay(p \o Append(r, a))
  <2>1. p \o r \in Seq(Actions) /\ p \o Append(r, a) = Append(p \o r, a)
    OBVIOUS
  <2>2. before \in Replays /\ after = Replayed(before, a)
    BY <2>1, ReplayFacts
  <2>3. before.s \in Sessions /\ before.s.slots \in Seq(Slots)
    BY <2>2 DEF Replays, Sessions
  <2>4. before.ok /\ Accepts(before.s, a) /\ after.s = Exec(before.s, a)
    BY <2>2, ReplayedIs
  <2>5. after.s.slots \in Seq(Slots)
    BY <2>3, <2>4, ExecType DEF Sessions
  <2>6. Keeps(before.s.slots, after.s.slots)
    BY <2>3, <2>4, ExecStamps
  <2>7. Good(r)
    BY <2>4
  <2> QED BY <1>1, <2>3, <2>5, <2>6, <2>7, KeepsOn
<1> HIDE DEF T
<1>4. T = Seq(Actions)
  <2>1. T \in SUBSET Seq(Actions)
    BY DEF T
  <2> QED BY <1>2, <1>3, <2>1, SeqInduction
<1> QED BY <1>4 DEF T

\* A log whose adds are stamped with their places makes nodes with stamps of their own.
LEMMA ReplayStamps ==
  ASSUME NEW q \in Seq(Actions), Replay(q).ok, \A i \in 1 .. Len(q) : q[i].op = "add" => q[i].stamp = i
  PROVE  \A i \in 1 .. Len(Replay(q).s.slots) :
           /\ Replay(q).s.slots[i].stamp \in 1 .. Len(q)
           /\ \A j \in 1 .. Len(Replay(q).s.slots) :
                Replay(q).s.slots[j].stamp = Replay(q).s.slots[i].stamp => j = i
<1> DEFINE Apart(p, m) == \A i \in 1 .. Len(p) : /\ p[i].stamp \in 1 .. m
                                                 /\ \A j \in 1 .. Len(p) : p[j].stamp = p[i].stamp => j = i
           Numbered(r) == \A i \in 1 .. Len(r) : r[i].op = "add" => r[i].stamp = i
           T == {r \in Seq(Actions) : Replay(r).ok /\ Numbered(r) => Apart(Replay(r).s.slots, Len(r))}
<1>1. <<>> \in T
  <2>1. Replay(<<>>).s.slots = <<>>
    BY ReplayFacts DEF Begun, Blank
  <2> QED BY <2>1
<1>2. ASSUME NEW r \in T, NEW a \in Actions
      PROVE  Append(r, a) \in T
  <2> SUFFICES ASSUME Replay(Append(r, a)).ok, Numbered(Append(r, a))
               PROVE  Apart(Replay(Append(r, a)).s.slots, Len(Append(r, a)))
    <3>1. Append(r, a) \in Seq(Actions)
      OBVIOUS
    <3> HIDE DEF Apart, Numbered
    <3> QED BY <3>1
  <2> DEFINE m == Len(r)
             b == Replay(r)
             p == b.s.slots
             q2 == Replay(Append(r, a)).s.slots
  <2>1. /\ r \in Seq(Actions) /\ m \in Nat /\ Len(Append(r, a)) = m + 1 /\ Append(r, a)[m + 1] = a
        /\ \A i \in 1 .. m : Append(r, a)[i] = r[i]
    BY AppendProperties, LenProperties
  <2>2. b \in Replays /\ Replay(Append(r, a)) = Replayed(b, a)
    BY <2>1, ReplayFacts
  <2>3. b.s \in Sessions /\ b.ok /\ Accepts(b.s, a) /\ Replay(Append(r, a)).s = Exec(b.s, a)
    BY <2>2, ReplayedIs DEF Replays
  <2>4. Numbered(r)
    BY <2>1
  <2>5. Apart(p, m)
    BY <2>3, <2>4
  <2>6. a.op = "add" => a.stamp = m + 1
    BY <2>1
  <2>7. /\ Keeps(p, q2)
        /\ a.op = "add" => Len(q2) = Len(p) + 1 /\ q2[Len(p) + 1].stamp = a.stamp
        /\ a.op # "add" => Len(q2) = Len(p)
    BY <2>3, ExecStamps
  <2>8. Len(p) \in Nat
    BY <2>3 DEF Sessions
  <2> HIDE DEF T, m, b, p, q2, Numbered
  <2>9. Apart(q2, m + 1)
    <3>1. \A i \in 1 .. Len(p) : q2[i].stamp = p[i].stamp /\ p[i].stamp \in 1 .. m
      BY <2>5, <2>7 DEF Keeps
    <3>2. CASE a.op # "add"
      BY <2>1, <2>5, <2>7, <2>8, <3>1, <3>2
    <3>3. CASE a.op = "add"
      <4>1. Len(q2) = Len(p) + 1 /\ q2[Len(p) + 1].stamp = m + 1
        BY <2>6, <2>7, <3>3
      <4>2. \A i \in 1 .. Len(q2) : i \in 1 .. Len(p) \/ i = Len(p) + 1
        BY <2>8, <4>1
      <4>3. \A i \in 1 .. Len(p) : q2[i].stamp \in 1 .. m + 1 /\ q2[i].stamp # m + 1
        BY <2>1, <3>1
      <4>4. m + 1 \in 1 .. m + 1
        BY <2>1
      <4> QED BY <2>5, <3>1, <4>1, <4>2, <4>3, <4>4
    <3> QED BY <3>2, <3>3
  <2> QED BY <2>1, <2>9 DEF q2
<1> HIDE DEF T
<1>3. T = Seq(Actions)
  <2>1. T \in SUBSET Seq(Actions)
    BY DEF T
  <2> QED BY <1>1, <1>2, <2>1, SeqInduction
<1> QED BY <1>3 DEF T

-----------------------------------------------------------------------------
(* A session and its log.                                                  *)

LEMMA FrontLast ==
  ASSUME NEW X, NEW q \in Seq(X), q # <<>>
  PROVE  Front(q) \in Seq(X) /\ Last(q) \in X /\ q = Append(Front(q), Last(q))
<1>1. PICK p \in Seq(X), x \in X : q = Append(p, x)
  BY SequenceEmptyOrAppend
<1>2. Len(p) \in Nat /\ Len(q) = Len(p) + 1 /\ q[Len(p) + 1] = x /\ \A i \in 1 .. Len(p) : q[i] = p[i] /\ p[i] \in X
  BY <1>1, AppendProperties, LenProperties
<1>3. Last(q) = x
  BY <1>2 DEF Last
<1>4. Front(q) = p
  <2>1. Front(q) = SubSeq(q, 1, Len(p))
    BY <1>2 DEF Front
  <2>2. \A i \in 1 .. Len(p) : q[i] \in X
    BY <1>2
  <2>3. /\ SubSeq(q, 1, Len(p)) \in Seq(X)
        /\ Len(SubSeq(q, 1, Len(p))) = Len(p)
        /\ \A i \in 1 .. Len(p) : SubSeq(q, 1, Len(p))[i] = q[i]
    <3>1. 1 \in Int /\ Len(p) \in Int
      BY <1>2
    <3> DEFINE u == SubSeq(q, 1, Len(p))
    <3>2. /\ u \in Seq(X)
          /\ Len(u) = IF 1 <= Len(p) THEN Len(p) - 1 + 1 ELSE 0
          /\ \A i \in 1 .. Len(p) - 1 + 1 : u[i] = q[1 + i - 1]
      BY <2>2, <3>1, SubSeqProperties
    <3> HIDE DEF u
    <3>3. Len(u) = Len(p)
      BY <1>2, <3>2
    <3>4. \A i \in 1 .. Len(p) : i \in 1 .. Len(p) - 1 + 1 /\ 1 + i - 1 = i
      BY <1>2
    <3>5. \A i \in 1 .. Len(p) : u[i] = q[i]
      BY <3>2, <3>4
    <3> QED BY <3>2, <3>3, <3>5 DEF u
  <2> QED BY <1>2, <2>1, <2>3, SeqEqual
<1> QED BY <1>1, <1>3, <1>4

Joins(p, q, X) ==
  /\ p \o q \in Seq(X) /\ Len(p \o q) = Len(p) + Len(q)
  /\ \A i \in 1 .. Len(p) : (p \o q)[i] = p[i]
  /\ \A i \in 1 .. Len(q) : (p \o q)[Len(p) + i] = q[i]

LEMMA Joined ==
  ASSUME NEW X, NEW p \in Seq(X), NEW q \in Seq(X)
  PROVE  Joins(p, q, X)
<1>1. Len(p) \in Nat /\ Len(q) \in Nat
  OBVIOUS
<1>2. p \o q \in Seq(X) /\ Len(p \o q) = Len(p) + Len(q)
  OBVIOUS
<1>3. ASSUME NEW i \in 1 .. Len(p)
      PROVE  (p \o q)[i] = p[i]
  OBVIOUS
<1>4. ASSUME NEW i \in 1 .. Len(q)
      PROVE  (p \o q)[Len(p) + i] = q[i]
  OBVIOUS
<1> QED BY <1>2, <1>3, <1>4 DEF Joins

\* What was undone last is what comes next.
LEMMA ReverseIs ==
  ASSUME NEW X, NEW p \in Seq(X), NEW q \in Seq(X), NEW x \in X
  PROVE  /\ Reverse(q) \in Seq(X) /\ Reverse(<<>>) = <<>>
         /\ p \o Reverse(Append(q, x)) = Append(p, x) \o Reverse(q)
<1> DEFINE n == Len(q)
           r == Reverse(q)
           s == Reverse(Append(q, x))
<1>1. n \in Nat /\ \A i \in 1 .. n : q[i] \in X
  BY LenProperties
<1>2. r \in Seq(X) /\ Len(r) = n /\ \A i \in 1 .. n : r[i] = q[(n - i) + 1]
  <2>1. \A i \in 1 .. n : (n - i) + 1 \in 1 .. n
    BY <1>1
  <2> QED BY <1>1, <2>1 DEF Reverse
<1>3. Len(Append(q, x)) = n + 1 /\ Append(q, x)[n + 1] = x /\ \A i \in 1 .. n : Append(q, x)[i] = q[i]
  BY AppendProperties
<1>4. s \in Seq(X) /\ Len(s) = n + 1 /\ s[1] = x /\ \A i \in 1 .. n : s[i + 1] = q[(n - i) + 1]
  <2> DEFINE t == Append(q, x)
  <2>1. s = [i \in 1 .. n + 1 |-> t[((n + 1) - i) + 1]]
    BY <1>3 DEF Reverse
  <2>2. \A i \in 1 .. n + 1 : ((n + 1) - i) + 1 \in 1 .. n + 1
    BY <1>1
  <2>3. \A i \in 1 .. n + 1 : t[i] \in X
    BY <1>1, <1>3
  <2>4. \A i \in 1 .. n : /\ i + 1 \in 1 .. n + 1 /\ ((n + 1) - (i + 1)) + 1 = (n - i) + 1
                          /\ (n - i) + 1 \in 1 .. n
    BY <1>1
  <2>5. 1 \in 1 .. n + 1 /\ ((n + 1) - 1) + 1 = n + 1
    BY <1>1
  <2> HIDE DEF n, t, s
  <2>6. s \in Seq(X) /\ Len(s) = n + 1
    BY <1>1, <2>1, <2>2, <2>3
  <2>7. s[1] = x
    BY <1>3, <2>1, <2>5 DEF t
  <2>8. \A i \in 1 .. n : s[i + 1] = q[(n - i) + 1]
    BY <1>3, <2>1, <2>4 DEF t
  <2> QED BY <2>6, <2>7, <2>8
<1>5. Reverse(<<>>) = <<>>
  BY DEF Reverse
<1> HIDE DEF n, r, s
<1>6. p \o s = Append(p, x) \o r
  <2> DEFINE p1 == Append(p, x)
             a == p \o s
             b == p1 \o r
             m == Len(p)
  <2>1. /\ m \in Nat /\ p1 \in Seq(X) /\ Len(p1) = m + 1 /\ p1[m + 1] = x
        /\ \A i \in 1 .. m : p1[i] = p[i]
    BY AppendProperties, LenProperties
  <2> HIDE DEF p1
  <2>2. /\ a \in Seq(X) /\ Len(a) = m + (n + 1)
        /\ \A i \in 1 .. m : a[i] = p[i]
        /\ \A i \in 1 .. n + 1 : a[m + i] = s[i]
    <3>1. s \in Seq(X) /\ Len(s) = n + 1
      BY <1>4
    <3>2. Joins(p, s, X)
      BY <3>1, Joined
    <3>3. /\ p \o s \in Seq(X) /\ Len(p \o s) = Len(p) + Len(s)
          /\ \A i \in 1 .. Len(p) : (p \o s)[i] = p[i]
          /\ \A i \in 1 .. Len(s) : (p \o s)[Len(p) + i] = s[i]
      BY <3>2 DEF Joins
    <3> HIDE DEF a, m
    <3> QED BY <3>1, <3>3 DEF a, m
  <2>3. /\ b \in Seq(X) /\ Len(b) = (m + 1) + n
        /\ \A i \in 1 .. m + 1 : b[i] = p1[i]
        /\ \A i \in 1 .. n : b[(m + 1) + i] = r[i]
    <3>1. r \in Seq(X) /\ Len(r) = n /\ p1 \in Seq(X) /\ Len(p1) = m + 1
      BY <1>2, <2>1
    <3>2. Joins(p1, r, X)
      BY <3>1, Joined
    <3>3. /\ p1 \o r \in Seq(X) /\ Len(p1 \o r) = Len(p1) + Len(r)
          /\ \A i \in 1 .. Len(p1) : (p1 \o r)[i] = p1[i]
          /\ \A i \in 1 .. Len(r) : (p1 \o r)[Len(p1) + i] = r[i]
      BY <3>2 DEF Joins
    <3> HIDE DEF b, m
    <3> QED BY <3>1, <3>3 DEF b
  <2> HIDE DEF a, b, m
  <2>4. Len(a) = Len(b)
    BY <1>1, <2>1, <2>2, <2>3
  <2>5. ASSUME NEW i \in 1 .. Len(a)
        PROVE  a[i] = b[i]
    <3>1. CASE i <= m
      <4>1. i \in 1 .. m /\ i \in 1 .. m + 1
        BY <2>1, <3>1
      <4> QED BY <2>1, <2>2, <2>3, <4>1
    <3>2. CASE i = m + 1
      <4>1. 1 \in 1 .. n + 1 /\ m + 1 \in 1 .. m + 1
        BY <1>1, <2>1
      <4>2. a[m + 1] = s[1] /\ b[m + 1] = p1[m + 1]
        BY <2>2, <2>3, <4>1
      <4> QED BY <1>4, <2>1, <3>2, <4>2
    <3>3. CASE m + 1 < i
      <4> DEFINE k == i - (m + 1)
      <4>1. k \in 1 .. n /\ k + 1 \in 1 .. n + 1 /\ i = m + (k + 1) /\ i = (m + 1) + k
        BY <1>1, <2>1, <2>2, <3>3
      <4> HIDE DEF k
      <4>2. a[m + (k + 1)] = s[k + 1]
        BY <2>2, <4>1
      <4>3. b[(m + 1) + k] = r[k]
        BY <2>3, <4>1
      <4>4. s[k + 1] = r[k]
        BY <1>2, <1>4, <4>1
      <4> QED BY <4>1, <4>2, <4>3, <4>4
    <3> QED BY <2>1, <3>1, <3>2, <3>3
  <2>6. \A i \in 1 .. Len(a) : a[i] = b[i]
    BY <2>5
  <2>7. a = b
    BY <2>2, <2>3, <2>4, <2>6, SeqEqual
  <2> QED BY <2>7 DEF a, b, p1
<1> QED BY <1>2, <1>5, <1>6 DEF r, s

LEMMA ActionTypes ==
  /\ \A k \in Kinds : /\ AddNode(k) \in Actions /\ AddNode(k).op = "add"
                       /\ \A t \in Nat : /\ [AddNode(k) EXCEPT !.stamp = t] \in Actions
                                         /\ [AddNode(k) EXCEPT !.stamp = t].op = "add"
                                         /\ [AddNode(k) EXCEPT !.stamp = t].stamp = t
  /\ \A i \in Nat : RemoveNode(i) \in Actions /\ RemoveNode(i).op = "remove" /\ RemoveNode(i).id = i
  /\ \A i, j \in Nat : /\ Connect(i, j) \in Actions /\ Connect(i, j).op = "connect"
                        /\ Connect(i, j).id = i /\ Connect(i, j).dst = j
  /\ \A i \in Nat, v \in Params : /\ SetParam(i, v) \in Actions /\ SetParam(i, v).op = "set"
                                  /\ SetParam(i, v).id = i /\ SetParam(i, v).value = v
<1>1. NoAction \in [op : {"none"}, kind : {""}, id : Nat, dst : Nat, value : Params, stamp : Nat]
  BY DEF NoAction, Params
<1>2. ASSUME NEW k \in Kinds
      PROVE  /\ AddNode(k) \in Actions /\ AddNode(k).op = "add"
             /\ \A t \in Nat : /\ [AddNode(k) EXCEPT !.stamp = t] \in Actions
                               /\ [AddNode(k) EXCEPT !.stamp = t].op = "add"
                               /\ [AddNode(k) EXCEPT !.stamp = t].stamp = t
  <2>1. AddNode(k) \in Actions /\ AddNode(k).op = "add"
    BY <1>1 DEF AddNode, Actions
  <2> QED BY <2>1 DEF Actions
<1>3. ASSUME NEW i \in Nat
      PROVE  RemoveNode(i) \in Actions /\ RemoveNode(i).op = "remove" /\ RemoveNode(i).id = i
  BY <1>1 DEF RemoveNode, Actions
<1>4. ASSUME NEW i \in Nat, NEW j \in Nat
      PROVE  /\ Connect(i, j) \in Actions /\ Connect(i, j).op = "connect"
             /\ Connect(i, j).id = i /\ Connect(i, j).dst = j
  BY <1>1 DEF Connect, Actions
<1>5. ASSUME NEW i \in Nat, NEW v \in Params
      PROVE  /\ SetParam(i, v) \in Actions /\ SetParam(i, v).op = "set"
             /\ SetParam(i, v).id = i /\ SetParam(i, v).value = v
  BY <1>1 DEF SetParam, Actions
<1> QED BY <1>2, <1>3, <1>4, <1>5

\* The actions a session stands for, those undone included.
Whole(s) == s.log \o Reverse(s.redo)

\* Every slot of p is known by its stamp as a node of session n.
Named(p, n, ids) ==
  \A i \in 1 .. Len(p) : p[i].stamp \in DOMAIN ids /\ ids[p[i].stamp] = [session |-> n, id |-> i]

Extends(ids, new) == \A t \in DOMAIN ids : t \in DOMAIN new /\ new[t] = ids[t]

Sound(s, n, ids) ==
  /\ s \in Sessions
  /\ Replay(Whole(s)).ok
  /\ SameGraph(Replay(s.log).s, s)
  /\ Named(Replay(Whole(s)).s.slots, n, ids)

LEMMA WholeType ==
  ASSUME NEW s \in Sessions
  PROVE  /\ s.log \in Seq(Actions) /\ s.redo \in Seq(Actions) /\ Reverse(s.redo) \in Seq(Actions)
         /\ Whole(s) \in Seq(Actions)
<1>1. s.log \in Seq(Actions) /\ s.redo \in Seq(Actions)
  BY DEF Sessions
<1>2. Reverse(s.redo) \in Seq(Actions)
  <2>1. Len(s.redo) \in Nat /\ \A i \in 1 .. Len(s.redo) : s.redo[i] \in Actions
    BY <1>1, LenProperties
  <2>2. \A i \in 1 .. Len(s.redo) : (Len(s.redo) - i) + 1 \in 1 .. Len(s.redo)
    BY <2>1
  <2> QED BY <2>1, <2>2 DEF Reverse
<1> QED BY <1>1, <1>2 DEF Whole

LEMMA NamedKept ==
  ASSUME NEW p \in Seq(Slots), NEW q \in Seq(Slots), Keeps(p, q), NEW n, NEW ids, Named(q, n, ids)
  PROVE  Named(p, n, ids)
<1>1. Len(p) \in Nat /\ Len(q) \in Nat /\ Len(p) <= Len(q)
  BY DEF Keeps
<1>2. \A i \in 1 .. Len(p) : i \in 1 .. Len(q)
  BY <1>1
<1> QED BY <1>2 DEF Keeps, Named

\* The log of a session makes its graph, and its slots are named.
LEMMA SoundIs ==
  ASSUME NEW s, NEW n, NEW ids, Sound(s, n, ids)
  PROVE  /\ Replay(s.log) \in Replays /\ Replay(s.log).ok
         /\ SameGraph(Replay(s.log).s, s)
         /\ Named(s.slots, n, ids)
<1>1. s \in Sessions
  BY DEF Sound
<1>2. /\ s.log \in Seq(Actions) /\ Reverse(s.redo) \in Seq(Actions) /\ Whole(s) \in Seq(Actions)
      /\ Whole(s) = s.log \o Reverse(s.redo) /\ Replay(Whole(s)).ok
  BY <1>1, WholeType DEF Sound, Whole
<1>3. Replay(s.log).ok /\ Keeps(Replay(s.log).s.slots, Replay(Whole(s)).s.slots)
  BY <1>2, ReplayPrefix
<1>4. Replay(s.log) \in Replays /\ Replay(Whole(s)) \in Replays
  BY <1>2, ReplayFacts
<1>5. Replay(s.log).s.slots \in Seq(Slots) /\ Replay(Whole(s)).s.slots \in Seq(Slots)
  BY <1>4 DEF Replays, Sessions
<1>6. Named(Replay(s.log).s.slots, n, ids)
  BY <1>3, <1>5, NamedKept DEF Sound
<1> QED BY <1>3, <1>4, <1>6 DEF Sound, SameGraph

LEMMA GrowSound ==
  ASSUME NEW s, NEW n, NEW ids, NEW new, Sound(s, n, ids), Extends(ids, new)
  PROVE  Sound(s, n, new)
  BY DEF Sound, Named, Extends

LEMMA ApplyIs ==
  ASSUME NEW s \in Sessions, NEW a \in Actions, Accepts(s, a)
  PROVE  /\ Apply(s, a) \in Sessions
         /\ Apply(s, a).slots = Exec(s, a).slots
         /\ SameGraph(Apply(s, a), Exec(s, a))
         /\ Apply(s, a).log = Append(s.log, a) /\ Apply(s, a).redo = <<>>
<1> DEFINE e == Exec(s, a)
           l == Append(s.log, a)
<1>1. e \in Sessions /\ e.log = s.log
  BY ExecType
<1>2. l \in Seq(Actions)
  BY DEF Sessions
<1>3. Apply(s, a) = [e EXCEPT !.log = l, !.redo = <<>>]
  BY <1>1 DEF Apply, Sessions
<1> HIDE DEF e, l
<1>4. Apply(s, a) = [slots |-> e.slots, edges |-> e.edges, records |-> e.records, log |-> l, redo |-> <<>>]
  BY <1>1, <1>3 DEF Sessions
<1> QED BY <1>1, <1>2, <1>4 DEF Sessions, SameGraph, e, l

LEMMA ApplySound ==
  ASSUME NEW s, NEW n, NEW ids, NEW new, NEW a \in Actions, Sound(s, n, ids), Accepts(s, a),
         Extends(ids, new),
         a.op = "add" => a.stamp \in DOMAIN new /\ new[a.stamp] = [session |-> n, id |-> Len(s.slots) + 1]
  PROVE  Sound(Apply(s, a), n, new)
<1> DEFINE r == Replay(s.log)
           t == Apply(s, a)
           e == Exec(r.s, a)
<1>1. s \in Sessions /\ r \in Replays /\ r.ok /\ SameGraph(r.s, s) /\ Named(s.slots, n, ids)
  BY SoundIs DEF Sound
<1>2. r.s \in Sessions /\ SameGraph(s, r.s) /\ r.s.slots = s.slots
  BY <1>1 DEF Replays, SameGraph
<1>3. Accepts(r.s, a) /\ SameGraph(Exec(s, a), e)
  BY <1>1, <1>2, ExecSame
<1>4. /\ t \in Sessions /\ t.slots = Exec(s, a).slots /\ SameGraph(t, Exec(s, a))
      /\ t.log = Append(s.log, a) /\ t.redo = <<>>
  BY <1>1, ApplyIs
<1>5. Replay(t.log) = Replayed(r, a)
  BY <1>1, <1>4, ReplayFacts, WholeType
<1>6. Replay(t.log).ok /\ Replay(t.log).s = e
  BY <1>1, <1>3, <1>5, ReplayedIs
<1>7. Whole(t) = t.log
  <2>1. Reverse(<<>>) = <<>>
    BY DEF Reverse
  <2>2. t.log \in Seq(Actions)
    BY <1>4 DEF Sessions
  <2> QED BY <1>4, <2>1, <2>2, ConcatEmptySeq DEF Whole
<1>8. SameGraph(e, t)
  BY <1>3, <1>4 DEF SameGraph
<1>9. Named(e.slots, n, new)
  <2> DEFINE p == s.slots
             q == e.slots
  <2>1. /\ Keeps(p, q)
        /\ a.op = "add" => Len(q) = Len(p) + 1 /\ q[Len(p) + 1].stamp = a.stamp
        /\ a.op # "add" => Len(q) = Len(p)
    <3>1. q = Exec(s, a).slots
      BY <1>3 DEF SameGraph
    <3> QED BY <1>1, <3>1, ExecStamps
  <2>2. Len(p) \in Nat /\ Named(p, n, ids)
    BY <1>1 DEF Sessions
  <2> HIDE DEF p, q
  <2>3. ASSUME NEW i \in 1 .. Len(q)
        PROVE  q[i].stamp \in DOMAIN new /\ new[q[i].stamp] = [session |-> n, id |-> i]
    <3>1. CASE i \in 1 .. Len(p)
      <4>1. q[i].stamp = p[i].stamp
        BY <2>1, <3>1 DEF Keeps
      <4>2. p[i].stamp \in DOMAIN ids /\ ids[p[i].stamp] = [session |-> n, id |-> i]
        BY <2>2, <3>1 DEF Named
      <4> QED BY <4>1, <4>2 DEF Extends
    <3>2. CASE i \notin 1 .. Len(p)
      <4>1. a.op = "add" /\ i = Len(p) + 1
        BY <2>1, <2>2, <3>2
      <4> QED BY <2>1, <4>1 DEF p
    <3> QED BY <3>1, <3>2
  <2>4. Named(q, n, new)
    BY <2>3 DEF Named
  <2> QED BY <2>4 DEF q
<1> HIDE DEF r, t, e
<1> QED BY <1>4, <1>6, <1>7, <1>8, <1>9 DEF Sound, t

LEMMA UndoIs ==
  ASSUME NEW s \in Sessions, CanUndo(s), Replay(Front(s.log)) \in Replays
  PROVE  /\ Undo(s) \in Sessions
         /\ SameGraph(Undo(s), Replay(Front(s.log)).s)
         /\ Undo(s).slots = Replay(Front(s.log)).s.slots
         /\ Undo(s).log = Front(s.log) /\ Undo(s).redo = Append(s.redo, Last(s.log))
<1> DEFINE r == Replay(Front(s.log)).s
           l == Front(s.log)
           d == Append(s.redo, Last(s.log))
<1>1. r \in Sessions
  BY DEF Replays
<1>2. s.log \in Seq(Actions) /\ s.log # <<>> /\ s.redo \in Seq(Actions)
  BY DEF Sessions, CanUndo
<1>3. l \in Seq(Actions) /\ Last(s.log) \in Actions
  BY <1>2, FrontLast
<1>4. d \in Seq(Actions)
  BY <1>2, <1>3, AppendProperties
<1>5. Undo(s) = [r EXCEPT !.log = l, !.redo = d]
  BY DEF Undo
<1> HIDE DEF r, l, d
<1>6. Undo(s) = [slots |-> r.slots, edges |-> r.edges, records |-> r.records, log |-> l, redo |-> d]
  BY <1>1, <1>5 DEF Sessions
<1> QED BY <1>1, <1>3, <1>4, <1>6 DEF Sessions, SameGraph, r, l, d

\* undo() leaves the actions as a whole as they are.
LEMMA UndoSound ==
  ASSUME NEW s, NEW n, NEW ids, Sound(s, n, ids), CanUndo(s)
  PROVE  Sound(Undo(s), n, ids)
<1> DEFINE l == Front(s.log)
           a == Last(s.log)
           t == Undo(s)
<1>1. s \in Sessions /\ s.log \in Seq(Actions) /\ s.redo \in Seq(Actions) /\ s.log # <<>>
  BY WholeType DEF Sound, CanUndo
<1>2. l \in Seq(Actions) /\ a \in Actions /\ s.log = Append(l, a)
  BY <1>1, FrontLast
<1>3. Replay(l) \in Replays
  BY <1>2, ReplayFacts
<1>4. t \in Sessions /\ SameGraph(t, Replay(l).s) /\ t.log = l /\ t.redo = Append(s.redo, a)
  BY <1>1, <1>3, UndoIs
<1>5. Whole(t) = Whole(s)
  <2>1. l \o Reverse(Append(s.redo, a)) = Append(l, a) \o Reverse(s.redo)
    <3>1. l \in Seq(Actions) /\ s.redo \in Seq(Actions) /\ a \in Actions
      BY <1>1, <1>2
    <3> HIDE DEF l, a
    <3> DEFINE q == s.redo
    <3>2. q \in Seq(Actions)
      BY <3>1
    <3> HIDE DEF q
    <3>3. l \o Reverse(Append(q, a)) = Append(l, a) \o Reverse(q)
      BY <3>1, <3>2, ReverseIs
    <3> QED BY <3>3 DEF q
  <2> QED BY <1>2, <1>4, <2>1 DEF Whole
<1>6. SameGraph(Replay(t.log).s, t)
  BY <1>4 DEF SameGraph
<1> HIDE DEF t
<1> QED BY <1>4, <1>5, <1>6 DEF Sound, t

LEMMA RedoIs ==
  ASSUME NEW s \in Sessions, CanRedo(s), Accepts(s, Last(s.redo))
  PROVE  /\ Redo(s) \in Sessions
         /\ SameGraph(Redo(s), Exec(s, Last(s.redo)))
         /\ Redo(s).log = Append(s.log, Last(s.redo)) /\ Redo(s).redo = Front(s.redo)
<1> DEFINE a == Last(s.redo)
           e == Exec(s, a)
           l == Append(s.log, a)
           d == Front(s.redo)
<1>1. s.log \in Seq(Actions) /\ s.redo \in Seq(Actions) /\ s.redo # <<>>
  BY DEF Sessions, CanRedo
<1>2. a \in Actions /\ d \in Seq(Actions)
  BY <1>1, FrontLast
<1>3. l \in Seq(Actions)
  BY <1>1, <1>2, AppendProperties
<1>4. e \in Sessions /\ e.log = s.log /\ e.redo = s.redo
  BY <1>2, ExecType
<1>5. Redo(s) = [e EXCEPT !.log = Append(@, a), !.redo = Front(@)]
  BY DEF Redo
<1>6. Redo(s) = [e EXCEPT !.log = l, !.redo = d]
  <2> HIDE DEF e, a
  <2> QED BY <1>4, <1>5 DEF Sessions
<1> HIDE DEF e, l, d
<1>7. Redo(s) = [slots |-> e.slots, edges |-> e.edges, records |-> e.records, log |-> l, redo |-> d]
  BY <1>4, <1>6 DEF Sessions
<1> QED BY <1>2, <1>3, <1>4, <1>7 DEF Sessions, SameGraph, e, l, d

\* redo() accepts what was undone, and leaves the actions as a whole as they are.
LEMMA RedoSound ==
  ASSUME NEW s, NEW n, NEW ids, Sound(s, n, ids), CanRedo(s)
  PROVE  Sound(Redo(s), n, ids)
<1> DEFINE d == Front(s.redo)
           a == Last(s.redo)
           r == Replay(s.log)
           t == Redo(s)
<1>1. s \in Sessions /\ s.log \in Seq(Actions) /\ s.redo \in Seq(Actions) /\ s.redo # <<>>
  BY WholeType DEF Sound, CanRedo
<1>2. d \in Seq(Actions) /\ a \in Actions /\ s.redo = Append(d, a)
  BY <1>1, FrontLast
<1>3. Append(s.log, a) \in Seq(Actions) /\ Reverse(d) \in Seq(Actions)
  BY <1>1, <1>2, AppendProperties, ReverseIs
<1>4. Whole(s) = Append(s.log, a) \o Reverse(d)
  <2> DEFINE l == s.log
  <2>1. l \in Seq(Actions) /\ d \in Seq(Actions) /\ a \in Actions
    BY <1>1, <1>2
  <2> HIDE DEF l, d, a
  <2>2. l \o Reverse(Append(d, a)) = Append(l, a) \o Reverse(d)
    BY <2>1, ReverseIs
  <2> QED BY <1>2, <2>2 DEF Whole, l
<1>5. Replay(Append(s.log, a)).ok
  <2>1. Replay(Append(s.log, a) \o Reverse(d)).ok
    BY <1>4 DEF Sound
  <2> QED BY <1>3, <2>1, ReplayPrefix
<1>6. r \in Replays /\ r.ok /\ SameGraph(r.s, s) /\ r.s \in Sessions
  BY SoundIs DEF Replays
<1>7. Replay(Append(s.log, a)) = Replayed(r, a)
  BY <1>1, <1>2, ReplayFacts
<1>8. Accepts(r.s, a) /\ Replay(Append(s.log, a)).s = Exec(r.s, a)
  BY <1>2, <1>5, <1>6, <1>7, ReplayedIs
<1>9. Accepts(s, a) /\ SameGraph(Exec(r.s, a), Exec(s, a))
  BY <1>1, <1>2, <1>6, <1>8, ExecSame
<1>10. t \in Sessions /\ SameGraph(t, Exec(s, a)) /\ t.log = Append(s.log, a) /\ t.redo = d
  BY <1>1, <1>9, RedoIs
<1>11. Whole(t) = Whole(s)
  BY <1>4, <1>10 DEF Whole
<1>12. SameGraph(Replay(t.log).s, t)
  BY <1>8, <1>9, <1>10 DEF SameGraph
<1> HIDE DEF t
<1> QED BY <1>10, <1>11, <1>12 DEF Sound, t

-----------------------------------------------------------------------------
(* A session that is loaded.                                               *)

Nodes == [id : Nat, kind : Kinds \union {""}, param : Params]
Loadable == {x \in Nodes : x.kind \in Kinds}

\* Names by which the slots of session n are stamped with their places, after "from".
Counted(n, from) == [t \in {k \in Nat : k > from} |-> [session |-> n, id |-> t - from]]

\* Sessions that are being loaded: no node is gone, nothing is undone.
Loading(n, from) ==
  {s \in Sessions : /\ Sound(s, n, Counted(n, from)) /\ s.redo = <<>>
                    /\ \A i \in 1 .. Len(s.slots) : i \in Live(s) /\ i \in DOMAIN s.records}

LEMMA BlankLoading ==
  ASSUME NEW n, NEW from \in Nat
  PROVE  Blank \in Loading(n, from) /\ Len(Blank.slots) = 0
<1>1. Whole(Blank) = <<>>
  <2>1. Reverse(<<>>) = <<>>
    BY DEF Reverse
  <2>2. <<>> \in Seq(Actions)
    OBVIOUS
  <2> QED BY <2>1, <2>2, ConcatEmptySeq DEF Whole, Blank
<1>2. Replay(Whole(Blank)).ok /\ Replay(Whole(Blank)).s = Blank /\ Blank.log = <<>>
  BY <1>1, ReplayFacts DEF Begun, Blank
<1>3. Len(Blank.slots) = 0 /\ Blank.slots = <<>> /\ Blank.redo = <<>>
  BY DEF Blank
<1>4. Sound(Blank, n, Counted(n, from))
  BY <1>1, <1>2, <1>3, BlankIs DEF Sound, SameGraph, Named
<1> QED BY <1>3, <1>4, BlankIs DEF Loading

LEMMA LoadNodeIs ==
  ASSUME NEW n, NEW from \in Nat, NEW s \in Loading(n, from), NEW x \in Loadable
  PROVE  /\ LoadNode(s, x, from) \in Loading(n, from)
         /\ Len(LoadNode(s, x, from).slots) = Len(s.slots) + 1
<1> DEFINE id == Len(s.slots) + 1
           a == [AddNode(x.kind) EXCEPT !.stamp = from + id]
           t == Apply(s, a)
           ids == Counted(n, from)
<1>1. s \in Sessions /\ Sound(s, n, ids) /\ Len(s.slots) \in Nat /\ DOMAIN s.slots = 1 .. Len(s.slots)
  BY DEF Loading, Sessions
<1>2. id \in Nat /\ from + id \in Nat /\ from + id > from /\ (from + id) - from = id
  BY <1>1
<1>3. a \in Actions /\ a.op = "add" /\ a.stamp = from + id /\ x.kind \in Kinds
  BY <1>2, ActionTypes DEF Loadable
<1>4. a.kind = x.kind
  BY DEF AddNode, NoAction
<1>5. Accepts(s, a)
  BY <1>3, <1>4 DEF Accepts
<1>6. a.stamp \in DOMAIN ids /\ ids[a.stamp] = [session |-> n, id |-> Len(s.slots) + 1]
  BY <1>2, <1>3 DEF Counted
<1>7. Extends(ids, ids)
  BY DEF Extends
<1>8. /\ t \in Sessions /\ t.slots = Exec(s, a).slots /\ SameGraph(t, Exec(s, a)) /\ t.redo = <<>>
  <2> HIDE DEF a
  <2> QED BY <1>1, <1>3, <1>5, ApplyIs
<1>9. Sound(t, n, ids)
  <2> HIDE DEF a, ids
  <2> QED BY <1>1, <1>3, <1>5, <1>6, <1>7, ApplySound
<1>10. /\ t.slots = Append(s.slots, [kind |-> a.kind, stamp |-> a.stamp, live |-> TRUE])
       /\ DOMAIN t.records = DOMAIN s.records \union {id}
  <2> HIDE DEF a
  <2>1. /\ Exec(s, a).slots = Append(s.slots, [kind |-> a.kind, stamp |-> a.stamp, live |-> TRUE])
        /\ Exec(s, a).records = [i \in DOMAIN s.records \union {id} |->
                 IF i = id THEN [kind |-> a.kind, param |-> Unset] ELSE s.records[i]]
    BY <1>1, <1>3, <1>5, AddIs
  <2> QED BY <1>8, <2>1 DEF SameGraph
<1> HIDE DEF t, a
<1>11. /\ Len(t.slots) = id /\ DOMAIN t.slots = 1 .. id /\ t.slots[id].live
       /\ \A i \in 1 .. Len(s.slots) : t.slots[i] = s.slots[i]
  BY <1>1, <1>10
<1>12. \A i \in 1 .. id : i \in Live(t) /\ i \in DOMAIN t.records
  <2> TAKE i \in 1 .. id
  <2>1. CASE i = id
    BY <1>10, <1>11, <2>1 DEF Live
  <2>2. CASE i # id
    <3>1. i \in 1 .. Len(s.slots)
      BY <1>1, <2>2
    <3>2. i \in Live(s) /\ i \in DOMAIN s.records
      BY <3>1 DEF Loading
    <3> QED BY <1>10, <1>11, <3>1, <3>2 DEF Live
  <2> QED BY <2>1, <2>2
<1>13. t \in Loading(n, from)
  BY <1>8, <1>9, <1>11, <1>12 DEF Loading
<1>14. CASE x.param = Unset
  <2>1. LoadNode(s, x, from) = t
    BY <1>14 DEF LoadNode, t, a
  <2> QED BY <1>11, <1>13, <2>1
<1>15. CASE x.param # Unset
  <2> DEFINE b == SetParam(id, x.param)
             u == Apply(t, b)
  <2>1. LoadNode(s, x, from) = u
    BY <1>15 DEF LoadNode, t, a
  <2>2. b \in Actions /\ b.op = "set" /\ b.id = id
    <3> DEFINE v == x.param
    <3>1. v \in Params
      BY DEF Loadable, Nodes
    <3> HIDE DEF v, id
    <3>2. SetParam(id, v) \in Actions /\ SetParam(id, v).op = "set" /\ SetParam(id, v).id = id
      BY <1>2, <3>1, ActionTypes
    <3> QED BY <3>2 DEF v
  <2> HIDE DEF b
  <2>3. Accepts(t, b)
    <3>1. id \in 1 .. id
      BY <1>2
    <3>2. id \in DOMAIN t.records
      BY <1>12, <3>1
    <3> QED BY <2>2, <3>2 DEF Accepts
  <2>4. Sound(u, n, ids)
    <3> HIDE DEF ids
    <3> QED BY <1>7, <1>9, <2>2, <2>3, ApplySound
  <2>5. u \in Sessions /\ u.slots = Exec(t, b).slots /\ u.redo = <<>> /\ SameGraph(u, Exec(t, b))
    BY <1>8, <2>2, <2>3, ApplyIs
  <2>6. u.slots = t.slots /\ DOMAIN u.records = DOMAIN t.records
    <3>1. /\ Exec(t, b).slots = t.slots
          /\ Exec(t, b).records = [t.records EXCEPT ![b.id].param = b.value]
      BY <1>8, <2>2, <2>3, SetIs
    <3>2. DOMAIN Exec(t, b).records = DOMAIN t.records
      BY <3>1
    <3> HIDE DEF u
    <3> QED BY <2>5, <3>1, <3>2 DEF SameGraph
  <2> HIDE DEF u
  <2>7. u \in Loading(n, from)
    BY <1>11, <1>12, <2>4, <2>5, <2>6 DEF Loading, Live
  <2> QED BY <1>11, <2>1, <2>6, <2>7
<1> QED BY <1>14, <1>15

LEMMA LoadEdgeIs ==
  ASSUME NEW n, NEW from \in Nat, NEW s \in Loading(n, from), NEW doc, NEW e,
         doc.nodes \in Seq(Nodes), Len(s.slots) = Len(doc.nodes),
         {e[1], e[2]} \subseteq {doc.nodes[k].id : k \in DOMAIN doc.nodes}
  PROVE  LoadEdge(s, doc, e) \in Loading(n, from) /\ Len(LoadEdge(s, doc, e).slots) = Len(s.slots)
<1> DEFINE i == IdMap(doc, e[1])
           j == IdMap(doc, e[2])
           a == Connect(i, j)
           u == Apply(s, a)
           ids == Counted(n, from)
<1>1. i \in DOMAIN doc.nodes /\ j \in DOMAIN doc.nodes
  <2>1. \E k \in DOMAIN doc.nodes : doc.nodes[k].id = e[1]
    OBVIOUS
  <2>2. \E k \in DOMAIN doc.nodes : doc.nodes[k].id = e[2]
    OBVIOUS
  <2> QED BY <2>1, <2>2 DEF IdMap
<1> HIDE DEF i, j
<1>2. s \in Sessions /\ Sound(s, n, ids)
  BY DEF Loading
<1>3. i \in 1 .. Len(s.slots) /\ j \in 1 .. Len(s.slots) /\ i \in Nat /\ j \in Nat
  BY <1>1
<1>4. a \in Actions /\ a.op = "connect" /\ a.id = i /\ a.dst = j
  BY <1>3, ActionTypes
<1>5. Accepts(s, a)
  BY <1>3, <1>4 DEF Accepts, Loading
<1>6. LoadEdge(s, doc, e) = u
  BY DEF LoadEdge, i, j
<1> HIDE DEF a
<1>7. Extends(ids, ids)
  BY DEF Extends
<1>8. Sound(u, n, ids)
  <2> HIDE DEF ids
  <2> QED BY <1>2, <1>4, <1>5, <1>7, ApplySound
<1>9. u \in Sessions /\ u.redo = <<>> /\ SameGraph(u, Exec(s, a))
  BY <1>2, <1>4, <1>5, ApplyIs
<1>10. u.slots = s.slots /\ u.records = s.records
  BY <1>2, <1>4, <1>5, <1>9, ConnectIs DEF SameGraph
<1> HIDE DEF u
<1>11. u \in Loading(n, from)
  BY <1>8, <1>9, <1>10 DEF Loading, Live
<1> QED BY <1>6, <1>10, <1>11

\* The two loops of from_document().
LoadNodes(base, from, q) == FoldLeft(LAMBDA s, node : LoadNode(s, node, from), base, q)
LoadEdges(base, doc, q) == FoldLeft(LAMBDA s, edge : LoadEdge(s, doc, edge), base, q)

\* The first folds this function.
NodesStep(U, from) == [v \in U \X Loadable |-> LoadNode(v[1], v[2], from)]
NodesUnfolds(f, base, from, q, n) ==
  f = [t \in SUBSET (1 .. n) |-> IF t = {} THEN base ELSE LoadNode(f[t \ {Max(t)}], q[Max(t)], from)]

LEMMA NodesIs ==
  ASSUME NEW U, NEW from,
         \A s \in U, x \in Loadable : LoadNode(s, x, from) \in U,
         NEW base \in U, NEW q \in Seq(Loadable)
  PROVE  LoadNodes(base, from, q) = Total(NodesStep(U, from), base, q)
<1> DEFINE n == Len(q)
           F == NodesStep(U, from)
<1>1. n \in Nat /\ DOMAIN q = 1 .. n /\ \A i \in 1 .. n : q[i] \in Loadable
  BY LenProperties
<1>2. LoadNodes(base, from, q) = (CHOOSE f : NodesUnfolds(f, base, from, q, n))[1 .. n]
  BY <1>1 DEF LoadNodes, FoldLeft, MapThenFoldSet, NodesUnfolds
<1>3. \A s \in U, x \in Loadable : LoadNode(s, x, from) \in U
  OBVIOUS
<1>4. \A s \in U, x \in Loadable : F[<<s, x>>] = LoadNode(s, x, from)
  BY DEF NodesStep
<1>5. F \in Steps(U, Loadable) /\ base \in U
  BY <1>3 DEF NodesStep, Steps
<1>6. \A t \in SUBSET (1 .. n) : t # {} => Max(t) \in 1 .. n
  BY <1>1, MaxIn
<1>7. ASSUME NEW f, \A t \in SUBSET (1 .. n) : f[t] \in U
      PROVE  NodesUnfolds(f, base, from, q, n) <=> Unfolds(f, F, base, q, n)
  <2> HIDE DEF F, n
  <2>1. ASSUME NEW t \in SUBSET (1 .. n), t # {}
        PROVE  F[<<f[t \ {Max(t)}], q[Max(t)]>>] = LoadNode(f[t \ {Max(t)}], q[Max(t)], from)
    <3>1. t \ {Max(t)} \in SUBSET (1 .. n) /\ q[Max(t)] \in Loadable
      BY <1>1, <1>6, <2>1
    <3>2. f[t \ {Max(t)}] \in U
      BY <1>7, <3>1
    <3> QED BY <1>4, <3>1, <3>2
  <2> DEFINE a == [t \in SUBSET (1 .. n) |->
                     IF t = {} THEN base ELSE LoadNode(f[t \ {Max(t)}], q[Max(t)], from)]
             b == [t \in SUBSET (1 .. n) |-> IF t = {} THEN base ELSE F[<<f[t \ {Max(t)}], q[Max(t)]>>]]
  <2>2. a = b
    BY <2>1
  <2> QED BY <2>2 DEF NodesUnfolds, Unfolds
<1>8. ASSUME NEW f, NodesUnfolds(f, base, from, q, n)
      PROVE  \A t \in SUBSET (1 .. n) : f[t] \in U
  <2>1. \A t \in SUBSET (1 .. n) :
          f[t] = IF t = {} THEN base ELSE LoadNode(f[t \ {Max(t)}], q[Max(t)], from)
    BY <1>8 DEF NodesUnfolds
  <2> HIDE DEF F, n
  <2>2. f[{}] \in U
    BY <1>5, <2>1
  <2>3. ASSUME NEW t \in SUBSET (1 .. n), t # {}, Max(t) \in 1 .. n, f[t \ {Max(t)}] \in U
        PROVE  f[t] \in U
    <3>1. q[Max(t)] \in Loadable
      BY <1>1, <2>3
    <3> QED BY <1>3, <2>1, <2>3, <3>1
  <2> QED BY <1>1, <2>2, <2>3, FoldStays
<1> HIDE DEF F
<1>9. PICK g : Unfolds(g, F, base, q, n) /\ \A t \in SUBSET (1 .. n) : g[t] \in U
  BY <1>5, FoldIn
<1>10. NodesUnfolds(g, base, from, q, n)
  BY <1>7, <1>9
<1> DEFINE f == CHOOSE f : NodesUnfolds(f, base, from, q, n)
<1>11. NodesUnfolds(f, base, from, q, n)
  BY <1>10
<1> HIDE DEF f
<1>12. Unfolds(f, F, base, q, n)
  BY <1>7, <1>8, <1>11
<1>13. f[1 .. n] = Total(F, base, q)
  BY <1>1, <1>12, FoldIsTotal
<1> QED BY <1>2, <1>13 DEF f, F

\* The second folds this one.
EdgesStep(U, X, doc) == [v \in U \X X |-> LoadEdge(v[1], doc, v[2])]
EdgesUnfolds(f, base, doc, q, n) ==
  f = [t \in SUBSET (1 .. n) |-> IF t = {} THEN base ELSE LoadEdge(f[t \ {Max(t)}], doc, q[Max(t)])]

LEMMA EdgesIs ==
  ASSUME NEW U, NEW X, NEW doc,
         \A s \in U, x \in X : LoadEdge(s, doc, x) \in U,
         NEW base \in U, NEW q \in Seq(X)
  PROVE  LoadEdges(base, doc, q) = Total(EdgesStep(U, X, doc), base, q)
<1> DEFINE n == Len(q)
           F == EdgesStep(U, X, doc)
<1>1. n \in Nat /\ DOMAIN q = 1 .. n /\ \A i \in 1 .. n : q[i] \in X
  BY LenProperties
<1>2. LoadEdges(base, doc, q) = (CHOOSE f : EdgesUnfolds(f, base, doc, q, n))[1 .. n]
  BY <1>1 DEF LoadEdges, FoldLeft, MapThenFoldSet, EdgesUnfolds
<1>3. \A s \in U, x \in X : LoadEdge(s, doc, x) \in U
  OBVIOUS
<1>4. \A s \in U, x \in X : F[<<s, x>>] = LoadEdge(s, doc, x)
  BY DEF EdgesStep
<1>5. F \in Steps(U, X) /\ base \in U
  BY <1>3 DEF EdgesStep, Steps
<1>6. \A t \in SUBSET (1 .. n) : t # {} => Max(t) \in 1 .. n
  BY <1>1, MaxIn
<1>7. ASSUME NEW f, \A t \in SUBSET (1 .. n) : f[t] \in U
      PROVE  EdgesUnfolds(f, base, doc, q, n) <=> Unfolds(f, F, base, q, n)
  <2> HIDE DEF F, n
  <2>1. ASSUME NEW t \in SUBSET (1 .. n), t # {}
        PROVE  F[<<f[t \ {Max(t)}], q[Max(t)]>>] = LoadEdge(f[t \ {Max(t)}], doc, q[Max(t)])
    <3>1. t \ {Max(t)} \in SUBSET (1 .. n) /\ q[Max(t)] \in X
      BY <1>1, <1>6, <2>1
    <3>2. f[t \ {Max(t)}] \in U
      BY <1>7, <3>1
    <3> QED BY <1>4, <3>1, <3>2
  <2> DEFINE a == [t \in SUBSET (1 .. n) |->
                     IF t = {} THEN base ELSE LoadEdge(f[t \ {Max(t)}], doc, q[Max(t)])]
             b == [t \in SUBSET (1 .. n) |-> IF t = {} THEN base ELSE F[<<f[t \ {Max(t)}], q[Max(t)]>>]]
  <2>2. a = b
    BY <2>1
  <2> QED BY <2>2 DEF EdgesUnfolds, Unfolds
<1>8. ASSUME NEW f, EdgesUnfolds(f, base, doc, q, n)
      PROVE  \A t \in SUBSET (1 .. n) : f[t] \in U
  <2>1. \A t \in SUBSET (1 .. n) :
          f[t] = IF t = {} THEN base ELSE LoadEdge(f[t \ {Max(t)}], doc, q[Max(t)])
    BY <1>8 DEF EdgesUnfolds
  <2> HIDE DEF F, n
  <2>2. f[{}] \in U
    BY <1>5, <2>1
  <2>3. ASSUME NEW t \in SUBSET (1 .. n), t # {}, Max(t) \in 1 .. n, f[t \ {Max(t)}] \in U
        PROVE  f[t] \in U
    <3>1. q[Max(t)] \in X
      BY <1>1, <2>3
    <3> QED BY <1>3, <2>1, <2>3, <3>1
  <2> QED BY <1>1, <2>2, <2>3, FoldStays
<1> HIDE DEF F
<1>9. PICK g : Unfolds(g, F, base, q, n) /\ \A t \in SUBSET (1 .. n) : g[t] \in U
  BY <1>5, FoldIn
<1>10. EdgesUnfolds(g, base, doc, q, n)
  BY <1>7, <1>9
<1> DEFINE f == CHOOSE f : EdgesUnfolds(f, base, doc, q, n)
<1>11. EdgesUnfolds(f, base, doc, q, n)
  BY <1>10
<1> HIDE DEF f
<1>12. Unfolds(f, F, base, q, n)
  BY <1>7, <1>8, <1>11
<1>13. f[1 .. n] = Total(F, base, q)
  BY <1>1, <1>12, FoldIsTotal
<1> QED BY <1>2, <1>13 DEF f, F

LEMMA NodesLoaded ==
  ASSUME NEW n, NEW from \in Nat, NEW q \in Seq(Loadable)
  PROVE  LoadNodes(Blank, from, q) \in Loading(n, from) /\ Len(LoadNodes(Blank, from, q).slots) = Len(q)
<1> DEFINE U == Loading(n, from)
           F == NodesStep(U, from)
           Done(r) == Total(F, Blank, r)
           T == {r \in Seq(Loadable) : Len(Done(r).slots) = Len(r)}
<1>1. \A s \in U, x \in Loadable : LoadNode(s, x, from) \in U /\ Len(LoadNode(s, x, from).slots) = Len(s.slots) + 1
  BY LoadNodeIs
<1>2. Blank \in U /\ Len(Blank.slots) = 0
  BY BlankLoading
<1> HIDE DEF U
<1>3. F \in Steps(U, Loadable) /\ \A s \in U, x \in Loadable : F[<<s, x>>] = LoadNode(s, x, from)
  BY <1>1 DEF NodesStep, Steps
<1>4. \A r \in Seq(Loadable) : LoadNodes(Blank, from, r) = Done(r)
  BY <1>1, <1>2, NodesIs
<1> HIDE DEF F
<1>5. /\ Done(<<>>) = Blank
      /\ \A r \in Seq(Loadable) : Done(r) \in U
      /\ \A r \in Seq(Loadable), x \in Loadable : Done(Append(r, x)) = F[<<Done(r), x>>]
  BY <1>2, <1>3, TotalIs
<1> HIDE DEF Done
<1>6. <<>> \in T
  BY <1>2, <1>5
<1>7. ASSUME NEW r \in T, NEW x \in Loadable
      PROVE  Append(r, x) \in T
  <2>1. r \in Seq(Loadable) /\ Append(r, x) \in Seq(Loadable) /\ Len(Append(r, x)) = Len(r) + 1
    BY AppendProperties
  <2>2. Done(Append(r, x)) = LoadNode(Done(r), x, from) /\ Done(r) \in U
    BY <1>3, <1>5, <2>1
  <2>3. Len(Done(Append(r, x)).slots) = Len(Done(r).slots) + 1
    BY <1>1, <2>2
  <2> QED BY <2>1, <2>3
<1>8. T = Seq(Loadable)
  <2>1. T \in SUBSET Seq(Loadable)
    OBVIOUS
  <2> HIDE DEF T
  <2> QED BY <1>6, <1>7, <2>1, SeqInduction
<1>9. Len(Done(q).slots) = Len(q)
  BY <1>8
<1> QED BY <1>4, <1>5, <1>9 DEF U

LEMMA EdgesLoaded ==
  ASSUME NEW n, NEW from \in Nat, NEW doc, doc.nodes \in Seq(Nodes),
         NEW base \in Loading(n, from), Len(base.slots) = Len(doc.nodes),
         NEW q \in Seq({e \in Nat \X Nat : {e[1], e[2]} \subseteq {doc.nodes[k].id : k \in DOMAIN doc.nodes}})
  PROVE  /\ LoadEdges(base, doc, q) \in Loading(n, from)
         /\ Len(LoadEdges(base, doc, q).slots) = Len(doc.nodes)
<1> DEFINE U == {s \in Loading(n, from) : Len(s.slots) = Len(doc.nodes)}
           X == {e \in Nat \X Nat : {e[1], e[2]} \subseteq {doc.nodes[k].id : k \in DOMAIN doc.nodes}}
           F == EdgesStep(U, X, doc)
<1>1. ASSUME NEW s \in U, NEW e \in X
      PROVE  LoadEdge(s, doc, e) \in U
  <2>1. s \in Loading(n, from) /\ Len(s.slots) = Len(doc.nodes)
    OBVIOUS
  <2>2. {e[1], e[2]} \subseteq {doc.nodes[k].id : k \in DOMAIN doc.nodes}
    OBVIOUS
  <2>3. LoadEdge(s, doc, e) \in Loading(n, from) /\ Len(LoadEdge(s, doc, e).slots) = Len(s.slots)
    <3> HIDE DEF U, X, F
    <3> QED BY <2>1, <2>2, LoadEdgeIs
  <2> QED BY <2>1, <2>3
<1>2. base \in U /\ q \in Seq(X)
  OBVIOUS
<1> SUFFICES LoadEdges(base, doc, q) \in U
  OBVIOUS
<1> HIDE DEF U, X
<1>3. F \in Steps(U, X)
  BY <1>1 DEF EdgesStep, Steps
<1>4. LoadEdges(base, doc, q) = Total(F, base, q)
  BY <1>1, <1>2, EdgesIs
<1> HIDE DEF F
<1>5. Total(F, base, q) \in U
  BY <1>2, <1>3, TotalIs
<1> QED BY <1>4, <1>5

\* from_document() makes a session whose log makes its graph, with its nodes numbered on.
LEMMA FromDocumentIs ==
  ASSUME NEW n, NEW from \in Nat, NEW doc \in Documents, Loads(doc)
  PROVE  FromDocument(doc, from) \in Loading(n, from)
<1> DEFINE X == {e \in Nat \X Nat : {e[1], e[2]} \subseteq {doc.nodes[k].id : k \in DOMAIN doc.nodes}}
           base == LoadNodes(Blank, from, doc.nodes)
<1>1. doc.nodes \in Seq(Nodes) /\ doc.edges \in Seq(Nat \X Nat)
  BY DEF Documents, Nodes
<1>2. doc.nodes \in Seq(Loadable)
  BY <1>1 DEF Loads, Loadable
<1>3. doc.edges \in Seq(X)
  <2> DEFINE q == doc.edges
  <2>1. \A k \in DOMAIN q : q[k] \in Nat \X Nat
    BY <1>1
  <2>2. \A k \in DOMAIN q : {q[k][1], q[k][2]} \subseteq {doc.nodes[m].id : m \in DOMAIN doc.nodes}
    BY DEF Loads
  <2>3. \A k \in DOMAIN q : q[k] \in X
    BY <2>1, <2>2
  <2>4. q \in Seq(Nat \X Nat)
    BY <1>1
  <2> HIDE DEF q, X
  <2> QED BY <2>3, <2>4 DEF q
<1>4. base \in Loading(n, from) /\ Len(base.slots) = Len(doc.nodes)
  BY <1>2, NodesLoaded
<1>5. FromDocument(doc, from) = LoadEdges(base, doc, doc.edges)
  BY DEF FromDocument, LoadEdges, LoadNodes
<1> HIDE DEF base
<1>6. LoadEdges(base, doc, doc.edges) \in Loading(n, from)
  BY <1>1, <1>3, <1>4, EdgesLoaded
<1> QED BY <1>5, <1>6

\* Slots with stamps of their own are named by them.
LEMMA BornIs ==
  ASSUME NEW s \in Sessions, NEW n,
         \A i, j \in 1 .. Len(s.slots) : s.slots[j].stamp = s.slots[i].stamp => j = i
  PROVE  /\ Named(s.slots, n, Born(s, n))
         /\ DOMAIN Born(s, n) = {s.slots[i].stamp : i \in 1 .. Len(s.slots)}
<1> DEFINE p == s.slots
<1>1. DOMAIN p = 1 .. Len(p)
  BY DEF Sessions
<1>2. Born(s, n) = [t \in {p[i].stamp : i \in 1 .. Len(p)} |->
                      [session |-> n, id |-> CHOOSE i \in 1 .. Len(p) : p[i].stamp = t]]
  BY <1>1 DEF Born
<1>3. ASSUME NEW i \in 1 .. Len(p)
      PROVE  (CHOOSE j \in 1 .. Len(p) : p[j].stamp = p[i].stamp) = i
  OBVIOUS
<1> HIDE DEF p
<1> DEFINE Place(t) == CHOOSE j \in 1 .. Len(p) : p[j].stamp = t
<1>4. ASSUME NEW i \in 1 .. Len(p)
      PROVE  Born(s, n)[p[i].stamp] = [session |-> n, id |-> i]
  <2>1. Born(s, n) = [t \in {p[k].stamp : k \in 1 .. Len(p)} |-> [session |-> n, id |-> Place(t)]]
    BY <1>2
  <2>2. Place(p[i].stamp) = i
    BY <1>3
  <2> HIDE DEF Place
  <2> QED BY <2>1, <2>2
<1> QED BY <1>2, <1>4 DEF Named, p

LEMMA LoadedSound ==
  ASSUME NEW n, NEW from \in Nat, NEW s \in Loading(n, from), NEW new, Extends(Born(s, n), new)
  PROVE  Sound(s, n, new) /\ DOMAIN Born(s, n) = from + 1 .. from + Len(s.slots)
<1> DEFINE p == s.slots
<1>1. s \in Sessions /\ Sound(s, n, Counted(n, from)) /\ s.redo = <<>> /\ Len(p) \in Nat
  BY DEF Loading, Sessions
<1>2. Replay(s.log).ok /\ SameGraph(Replay(s.log).s, s) /\ Named(p, n, Counted(n, from))
  BY <1>1, SoundIs
<1>3. ASSUME NEW i \in 1 .. Len(p)
      PROVE  p[i].stamp = from + i
  <2>1. p[i].stamp \in DOMAIN Counted(n, from) /\ Counted(n, from)[p[i].stamp] = [session |-> n, id |-> i]
    BY <1>2 DEF Named
  <2>2. p[i].stamp \in Nat /\ p[i].stamp - from = i
    BY <2>1 DEF Counted
  <2> QED BY <2>2
<1> HIDE DEF p
<1>4. \A i, j \in 1 .. Len(p) : p[j].stamp = p[i].stamp => j = i
  BY <1>1, <1>3
<1>5. Named(p, n, Born(s, n)) /\ DOMAIN Born(s, n) = {p[i].stamp : i \in 1 .. Len(p)}
  BY <1>1, <1>4, BornIs DEF p
<1>6. DOMAIN Born(s, n) = from + 1 .. from + Len(p)
  <2>1. \A i \in 1 .. Len(p) : p[i].stamp \in from + 1 .. from + Len(p)
    BY <1>1, <1>3
  <2>2. \A t \in from + 1 .. from + Len(p) : t - from \in 1 .. Len(p) /\ t = p[t - from].stamp
    BY <1>1, <1>3
  <2> QED BY <1>5, <2>1, <2>2
<1>7. Whole(s) = s.log
  <2>1. Reverse(<<>>) = <<>>
    BY DEF Reverse
  <2>2. s.log \in Seq(Actions)
    BY <1>1 DEF Sessions
  <2> QED BY <1>1, <2>1, <2>2, ConcatEmptySeq DEF Whole
<1>8. Sound(s, n, Born(s, n))
  <2>1. Replay(Whole(s)).s.slots = p
    BY <1>2, <1>7 DEF SameGraph, p
  <2> QED BY <1>1, <1>2, <1>5, <1>7, <2>1 DEF Sound
<1>9. Sound(s, n, new)
  BY <1>8, GrowSound
<1> QED BY <1>6, <1>9 DEF p

-----------------------------------------------------------------------------
(* The session the server is given.                                        *)

LEMMA ReplayRedo ==
  ASSUME NEW q \in Seq(Actions), Replay(q).ok
  PROVE  Replay(q).s.redo = <<>>
<1> DEFINE T == {r \in Seq(Actions) : Replay(r).ok => Replay(r).s.redo = <<>>}
<1>1. <<>> \in T
  BY ReplayFacts DEF Begun, Blank
<1>2. ASSUME NEW r \in T, NEW a \in Actions
      PROVE  Append(r, a) \in T
  <2>1. Append(r, a) \in Seq(Actions)
    OBVIOUS
  <2> SUFFICES ASSUME Replay(Append(r, a)).ok
               PROVE  Replay(Append(r, a)).s.redo = <<>>
    BY <2>1
  <2>2. Replay(r) \in Replays /\ Replay(Append(r, a)) = Replayed(Replay(r), a)
    BY ReplayFacts
  <2>3. Replay(r).ok /\ Accepts(Replay(r).s, a) /\ Replay(Append(r, a)).s = Exec(Replay(r).s, a)
    BY <2>2, ReplayedIs
  <2>4. Replay(r).s \in Sessions
    BY <2>2 DEF Replays
  <2> QED BY <2>3, <2>4, ExecType
<1> HIDE DEF T
<1>3. T = Seq(Actions)
  <2>1. T \in SUBSET Seq(Actions)
    BY DEF T
  <2> QED BY <1>1, <1>2, <2>1, SeqInduction
<1> QED BY <1>3 DEF T

LEMMA FirstSound ==
  /\ Sound(First, 1, Born(Replay(FirstLog).s, 1))
  /\ DOMAIN Born(Replay(FirstLog).s, 1) \subseteq 1 .. Len(FirstLog)
<1> DEFINE r == Replay(FirstLog).s
           s == [r EXCEPT !.log = FirstLog]
           ids == Born(r, 1)
<1>1. FirstLog \in Seq(Actions) /\ FirstLog # <<>> /\ Replay(FirstLog).ok
  BY WorkbenchAssumption
<1>2. \A i \in 1 .. Len(FirstLog) : FirstLog[i].op = "add" => FirstLog[i].stamp = i
  BY <1>1, WorkbenchAssumption
<1>3. Replay(FirstLog) \in Replays /\ r \in Sessions
  BY <1>1, ReplayFacts DEF Replays
<1>4. \A i \in 1 .. Len(r.slots) :
        /\ r.slots[i].stamp \in 1 .. Len(FirstLog)
        /\ \A j \in 1 .. Len(r.slots) : r.slots[j].stamp = r.slots[i].stamp => j = i
  BY <1>1, <1>2, ReplayStamps
<1>5. r.redo = <<>>
  BY <1>1, ReplayRedo
<1> HIDE DEF r
<1>6. Named(r.slots, 1, ids) /\ DOMAIN ids = {r.slots[i].stamp : i \in 1 .. Len(r.slots)}
  BY <1>3, <1>4, BornIs
<1>7. DOMAIN ids \subseteq 1 .. Len(FirstLog)
  BY <1>4, <1>6
<1>8. s = [slots |-> r.slots, edges |-> r.edges, records |-> r.records, log |-> FirstLog, redo |-> r.redo]
  <2>1. s = [r EXCEPT !.log = FirstLog]
    OBVIOUS
  <2> HIDE DEF s
  <2> QED BY <1>3, <2>1 DEF Sessions
<1> HIDE DEF s, ids
<1>9. s \in Sessions /\ SameGraph(r, s) /\ s.log = FirstLog /\ s.redo = <<>>
  <2>1. <<>> \in Seq(Actions)
    OBVIOUS
  <2> QED BY <1>1, <1>3, <1>5, <1>8, <2>1 DEF Sessions, SameGraph
<1>10. Whole(s) = FirstLog
  <2>1. Reverse(<<>>) = <<>>
    BY DEF Reverse
  <2> QED BY <1>1, <1>9, <2>1, ConcatEmptySeq DEF Whole
<1>11. Sound(s, 1, ids)
  BY <1>1, <1>6, <1>9, <1>10 DEF Sound, r
<1>12. Sound(Undo(s), 1, ids)
  BY <1>1, <1>9, <1>11, UndoSound DEF CanUndo
<1>13. First = Undo(s)
  BY DEF First, s, r
<1> QED BY <1>7, <1>12, <1>13 DEF ids, r

\* The document of a session: the nodes are live and of a known kind.
LEMMA DocumentIs ==
  ASSUME NEW s \in Sessions
  PROVE  /\ DocNodes(s) \in Seq(Nodes) /\ ToDocument(s) \in Documents
         /\ \A k \in DOMAIN DocNodes(s) : DocNodes(s)[k].id \in DOMAIN s.records \intersect Live(s)
<1> DEFINE S == DOMAIN s.slots
           out == S \ (DOMAIN s.records \intersect Live(s))
           ids == Without([i \in S |-> i], out)
<1>1. S = 1 .. Len(s.slots) /\ Len(s.slots) \in Nat
  BY DEF Sessions
<1>2. [i \in S |-> i] \in Seq(S)
  BY <1>1
<1>3. ids \in Seq(S \ out)
  <2> HIDE DEF S, out
  <2> QED BY <1>2, WithoutType
<1>4. \A k \in DOMAIN ids : ids[k] \in S /\ ids[k] \in DOMAIN s.records /\ ids[k] \in Live(s)
  BY <1>3
<1>5. DocNodes(s) = [k \in DOMAIN ids |-> [id |-> ids[k], kind |-> s.records[ids[k]].kind,
                                           param |-> s.records[ids[k]].param]]
  BY DEF DocNodes
<1> DEFINE R == S \ out
<1>6. DOMAIN ids = 1 .. Len(ids) /\ Len(ids) \in Nat
  <2>1. ids \in Seq(R)
    BY <1>3
  <2> HIDE DEF R, ids
  <2> QED BY <2>1
<1> HIDE DEF ids
<1>7. \A k \in DOMAIN ids : ids[k] \in Nat /\ s.records[ids[k]] \in Records
  BY <1>1, <1>4, Mapped DEF Sessions
<1>8. \A k \in 1 .. Len(ids) : [id |-> ids[k], kind |-> s.records[ids[k]].kind,
                                param |-> s.records[ids[k]].param] \in Nodes
  BY <1>6, <1>7 DEF Records, Nodes
<1> HIDE DEF S, out
<1>9. DocNodes(s) \in Seq(Nodes)
  BY <1>5, <1>6, <1>8
<1>10. ToDocument(s) \in Documents
  BY <1>9 DEF ToDocument, Documents, Nodes, Sessions
<1> QED BY <1>4, <1>5, <1>9, <1>10

-----------------------------------------------------------------------------
(* Coroutines, the lock and the transports.                                *)

Pcs == {"new", "hello", "greet", "idle", "wait", "work", "ack", "error", "read", "edges", "send", "off"}
Sending == {"hello", "greet", "ack", "error", "send"}
Types == {"none", "undo", "redo", "sync", "chat", "tune", "action", "load"}
Msgs == {m \in [type : Types, action : Actions \union {NoAction}, doc : Documents] :
           m.type = "action" => m.action \in Actions}
Coroutines == [pc : Pcs, msg : Msgs, bound : Nat, doc : Documents, todo : Seq(Clients),
               mine : [id : Nat, stamp : Nat], work : 0 .. MaxWork, known : BOOLEAN]
Mails == [from : Clients, doc : Documents, waits : BOOLEAN]

\* The coroutines that have asked for the lock wait for it or work under it, and one that works has it.
LocksOK(lk, cn) ==
  /\ \A j, k \in 1 .. Len(lk) : lk[j] = lk[k] => j = k
  /\ \A k \in 1 .. Len(lk) : cn[lk[k]].pc \in {"wait", "work"}
  /\ \A c \in Clients : cn[c].pc = "work" => lk # <<>> /\ Head(lk) = c

\* A coroutine sends one thing at a time, and all but a broadcast to its own client.
TidyOK(ob, cn) ==
  /\ \A c \in Clients : \A k \in 1 .. Len(ob[c]) :
       /\ cn[ob[c][k].from].pc \in Sending
       /\ cn[ob[c][k].from].pc # "send" => ob[c][k].from = c
  /\ \A c, d \in Clients : \A j \in 1 .. Len(ob[c]), k \in 1 .. Len(ob[d]) :
       ob[c][j].from = ob[d][k].from => c = d /\ j = k

\* The agents that work go by nodes of theirs; those that wait have none yet.
Has(s, node) == node.id \in Live(s) /\ s.slots[node.id].stamp = node.stamp
AgentsOK(ss, cn) ==
  \A c \in Clients : /\ cn[c].pc = "wait" => cn[c].mine = NoNode
                     /\ cn[c].pc = "work" /\ cn[c].mine # NoNode => Has(ss[cn[c].bound], cn[c].mine)

AllSound(ss, ids) == \A n \in 1 .. Len(ss) : Sound(ss[n], n, ids)

Typed ==
  /\ sessions \in Seq(Sessions) /\ cur \in 1 .. Len(sessions)
  /\ lock \in Seq(Clients)
  /\ conn \in [Clients -> Coroutines]
  /\ \A c \in Clients : conn[c].bound \in 1 .. Len(sessions)
  /\ members \subseteq Clients /\ online \subseteq Clients /\ dirty \subseteq Clients
  /\ outbox \in [Clients -> Seq(Mails)]
  /\ shown \in [Clients -> Documents]
  /\ stamp \in Nat /\ DOMAIN idOf \subseteq 1 .. stamp
  /\ sent \in [Clients -> Nat]

\* The inductive invariant.
IInv ==
  /\ Typed
  /\ AllSound(sessions, idOf)
  /\ LocksOK(lock, conn)
  /\ TidyOK(outbox, conn)
  /\ AgentsOK(sessions, conn)

LEMMA NothingIs == NoMessage \in Msgs /\ NoDoc \in Documents /\ NoNode \in [id : Nat, stamp : Nat]
<1>1. NoDoc \in Documents
  BY DEF NoDoc, Documents
<1>2. NoMessage \in Msgs
  BY <1>1 DEF NoMessage, Msgs, Types
<1> QED BY <1>1, <1>2 DEF NoNode

LEMMA FreshIs == Fresh \in Coroutines /\ Fresh.bound = 1 /\ Fresh.mine = NoNode /\ Fresh.pc = "new"
<1>1. <<>> \in Seq(Clients) /\ 0 \in 0 .. MaxWork
  BY WorkbenchAssumption
<1> QED BY <1>1, NothingIs DEF Fresh, Coroutines, Pcs

LEMMA ServedIs ==
  ASSUME NEW p \in Pcs
  PROVE  Served(p) \in Coroutines /\ Served(p).pc = p /\ Served(p).bound = 1 /\ Served(p).mine = NoNode
<1> DEFINE t == Served(p)
<1>1. t = [Fresh EXCEPT !.pc = p, !.known = TRUE]
  BY DEF Served
<1> HIDE DEF t
<1>2. t \in Coroutines /\ t.pc = p /\ t.bound = 1 /\ t.mine = NoNode
  BY <1>1, FreshIs DEF Coroutines
<1> QED BY <1>2 DEF t

Went(c, p) == [Fresh EXCEPT !.pc = p, !.known = conn[c].known]
LEMMA WentIs ==
  ASSUME NEW c \in Clients, NEW p \in Pcs, conn \in [Clients -> Coroutines]
  PROVE  Went(c, p) \in Coroutines /\ Went(c, p).pc = p /\ Went(c, p).bound = 1 /\ Went(c, p).mine = NoNode
<1> DEFINE t == Went(c, p)
<1>1. conn[c].known \in BOOLEAN
  BY DEF Coroutines
<1>2. t = [Fresh EXCEPT !.pc = p, !.known = conn[c].known]
  BY DEF Went
<1> HIDE DEF t
<1>3. t \in Coroutines /\ t.pc = p /\ t.bound = 1 /\ t.mine = NoNode
  BY <1>1, <1>2, FreshIs DEF Coroutines
<1> QED BY <1>3 DEF t

LEMMA TurnedIs ==
  ASSUME NEW at \in Coroutines, NEW p \in Pcs, NEW t, t = [at EXCEPT !.pc = p]
  PROVE  t \in Coroutines /\ t.pc = p /\ t.bound = at.bound /\ t.mine = at.mine
  BY DEF Coroutines

\* The lock when a coroutine goes on that has not asked for it.
LEMMA LockStays ==
  ASSUME NEW lk \in Seq(Clients), NEW cn, NEW cn2, NEW f \in Clients, LocksOK(lk, cn),
         \A d \in Clients \ {f} : cn2[d] = cn[d],
         cn[f].pc \notin {"wait", "work"}, cn2[f].pc \notin {"wait", "work"}
  PROVE  LocksOK(lk, cn2)
<1>1. \A k \in 1 .. Len(lk) : lk[k] \in Clients
  OBVIOUS
<1>2. \A k \in 1 .. Len(lk) : lk[k] # f
  BY DEF LocksOK
<1> QED BY <1>1, <1>2 DEF LocksOK

\* When one asks for it.
LEMMA LockAsked ==
  ASSUME NEW lk \in Seq(Clients), NEW cn, NEW cn2, NEW f \in Clients, LocksOK(lk, cn),
         \A d \in Clients \ {f} : cn2[d] = cn[d],
         cn[f].pc \notin {"wait", "work"}, cn2[f].pc = "wait"
  PROVE  Append(lk, f) \in Seq(Clients) /\ LocksOK(Append(lk, f), cn2)
<1> DEFINE n == Len(lk)
           q == Append(lk, f)
<1>1. n \in Nat /\ \A k \in 1 .. n : lk[k] \in Clients
  OBVIOUS
<1>2. q \in Seq(Clients) /\ Len(q) = n + 1 /\ q[n + 1] = f /\ \A k \in 1 .. n : q[k] = lk[k]
  OBVIOUS
<1>3. \A k \in 1 .. n : lk[k] # f
  BY DEF LocksOK
<1>4. \A k \in 1 .. n + 1 : k \in 1 .. n \/ k = n + 1
  BY <1>1
<1>5. lk # <<>> => q # <<>> /\ Head(q) = Head(lk)
  OBVIOUS
<1> HIDE DEF n, q
<1>6. \A j, k \in 1 .. n + 1 : q[j] = q[k] => j = k
  <2>1. \A j, k \in 1 .. n : lk[j] = lk[k] => j = k
    BY DEF LocksOK, n
  <2> QED BY <1>2, <1>3, <1>4, <2>1
<1>7. \A k \in 1 .. n + 1 : cn2[q[k]].pc \in {"wait", "work"}
  <2>1. \A k \in 1 .. n : cn[lk[k]].pc \in {"wait", "work"}
    BY DEF LocksOK, n
  <2> QED BY <1>1, <1>2, <1>3, <1>4, <2>1
<1>8. \A c \in Clients : cn2[c].pc = "work" => q # <<>> /\ Head(q) = c
  <2> TAKE c \in Clients
  <2> HAVE cn2[c].pc = "work"
  <2>1. c # f /\ cn[c].pc = "work"
    OBVIOUS
  <2>2. lk # <<>> /\ Head(lk) = c
    BY <2>1 DEF LocksOK
  <2> QED BY <1>5, <2>2
<1>9. LocksOK(q, cn2)
  BY <1>2, <1>6, <1>7, <1>8 DEF LocksOK
<1> QED BY <1>2, <1>9 DEF q

\* When the one that has it starts to work.
LEMMA LockWorked ==
  ASSUME NEW lk \in Seq(Clients), NEW cn, NEW cn2, NEW f \in Clients, LocksOK(lk, cn),
         \A d \in Clients \ {f} : cn2[d] = cn[d], lk # <<>>, Head(lk) = f, cn2[f].pc = "work"
  PROVE  LocksOK(lk, cn2)
<1>1. \A k \in 1 .. Len(lk) : lk[k] \in Clients
  OBVIOUS
<1> QED BY <1>1 DEF LocksOK

\* When it is given back.
LEMMA LockGiven ==
  ASSUME NEW lk \in Seq(Clients), NEW cn, NEW cn2, NEW f \in Clients, LocksOK(lk, cn),
         \A d \in Clients \ {f} : cn2[d] = cn[d], lk # <<>>, Head(lk) = f,
         cn2[f].pc \notin {"wait", "work"}
  PROVE  /\ Tail(lk) \in Seq(Clients) /\ LocksOK(Tail(lk), cn2)
         /\ \A d \in Clients : cn2[d].pc # "work"
<1> DEFINE n == Len(lk)
           q == Tail(lk)
<1>1. n \in Nat /\ n # 0 /\ 1 \in 1 .. n /\ lk[1] = f /\ \A k \in 1 .. n : lk[k] \in Clients
  OBVIOUS
<1>2. q \in Seq(Clients) /\ Len(q) = n - 1 /\ \A k \in 1 .. n - 1 : q[k] = lk[k + 1]
  OBVIOUS
<1> HIDE DEF n, q
<1>3. \A k \in 1 .. n - 1 : k + 1 \in 1 .. n /\ k + 1 # 1
  BY <1>1
<1>4. \A j, k \in 1 .. n : lk[j] = lk[k] => j = k
  BY DEF LocksOK, n
<1>5. \A k \in 1 .. n - 1 : q[k] # f /\ q[k] \in Clients
  BY <1>1, <1>2, <1>3, <1>4
<1>6. \A j, k \in 1 .. n - 1 : q[j] = q[k] => j = k
  <2> TAKE j, k \in 1 .. n - 1
  <2> HAVE q[j] = q[k]
  <2>1. j + 1 = k + 1
    BY <1>2, <1>3, <1>4
  <2> QED BY <1>1, <2>1
<1>7. \A k \in 1 .. n - 1 : cn2[q[k]].pc \in {"wait", "work"}
  <2>1. \A k \in 1 .. n : cn[lk[k]].pc \in {"wait", "work"}
    BY DEF LocksOK, n
  <2> QED BY <1>2, <1>3, <1>5, <2>1
<1>8. \A d \in Clients : cn2[d].pc # "work"
  <2>1. \A d \in Clients \ {f} : cn[d].pc # "work"
    BY DEF LocksOK
  <2> QED BY <2>1
<1>9. LocksOK(q, cn2)
  BY <1>2, <1>6, <1>7, <1>8 DEF LocksOK
<1> QED BY <1>2, <1>8, <1>9 DEF q

Outboxes == [Clients -> Seq(Mails)]

\* Nothing of f's is under way.
Spent(ob, f) == \A c \in Clients : \A k \in 1 .. Len(ob[c]) : ob[c][k].from # f

LEMMA SpentIs ==
  ASSUME NEW ob \in Outboxes, NEW cn, NEW f \in Clients, TidyOK(ob, cn), cn[f].pc \notin Sending
  PROVE  Spent(ob, f)
BY DEF TidyOK, Spent

\* The transports when a coroutine goes on that sends nothing.
LEMMA TidyStays ==
  ASSUME NEW ob \in Outboxes, NEW cn, NEW cn2, NEW f \in Clients, TidyOK(ob, cn), Spent(ob, f),
         \A d \in Clients \ {f} : cn2[d] = cn[d]
  PROVE  TidyOK(ob, cn2)
<1>1. \A c \in Clients : \A k \in 1 .. Len(ob[c]) : ob[c][k] \in Mails
  BY DEF Outboxes
<1>2. \A c \in Clients : \A k \in 1 .. Len(ob[c]) : ob[c][k].from \in Clients \ {f}
  BY <1>1 DEF Spent, Mails
<1> QED BY <1>2 DEF TidyOK

\* When it sends something.
LEMMA TidySent ==
  ASSUME NEW ob \in Outboxes, NEW cn, NEW cn2, NEW f \in Clients, TidyOK(ob, cn), Spent(ob, f),
         \A d \in Clients \ {f} : cn2[d] = cn[d],
         NEW to \in Clients, NEW m \in Mails, m.from = f, cn2[f].pc \in Sending,
         cn2[f].pc # "send" => to = f
  PROVE  /\ [ob EXCEPT ![to] = Append(@, m)] \in Outboxes
         /\ TidyOK([ob EXCEPT ![to] = Append(@, m)], cn2)
<1> DEFINE n == Len(ob[to])
           new == [ob EXCEPT ![to] = Append(@, m)]
<1>1. ob[to] \in Seq(Mails) /\ n \in Nat
  BY DEF Outboxes
<1>2. Append(ob[to], m) \in Seq(Mails)
  BY <1>1
<1>3. new \in Outboxes /\ new[to] = Append(ob[to], m) /\ \A c \in Clients : c # to => new[c] = ob[c]
  BY <1>2 DEF Outboxes
<1>4. /\ Len(new[to]) = n + 1 /\ new[to][n + 1] = m
      /\ \A k \in 1 .. n : new[to][k] = ob[to][k]
  BY <1>1, <1>3
<1> HIDE DEF new
<1>5. TidyOK(ob, cn2)
  BY TidyStays
<1>6. ASSUME NEW c \in Clients, NEW k \in 1 .. Len(new[c])
      PROVE  \/ k \in 1 .. Len(ob[c]) /\ new[c][k] = ob[c][k] /\ new[c][k].from # f
             \/ c = to /\ k = n + 1 /\ new[c][k].from = f
  <2>1. CASE c # to
    <3>1. k \in 1 .. Len(ob[c]) /\ new[c][k] = ob[c][k]
      BY <1>3, <2>1
    <3> QED BY <3>1 DEF Spent
  <2>2. CASE c = to
    <3>1. k \in 1 .. n \/ k = n + 1
      BY <1>1, <1>4, <2>2
    <3>2. CASE k \in 1 .. n
      BY <1>4, <2>2, <3>2 DEF Spent
    <3>3. CASE k = n + 1
      BY <1>4, <2>2, <3>3
    <3> QED BY <3>1, <3>2, <3>3
  <2> QED BY <2>1, <2>2
<1> HIDE DEF n
<1>7. \A c \in Clients : \A k \in 1 .. Len(new[c]) :
        /\ cn2[new[c][k].from].pc \in Sending
        /\ cn2[new[c][k].from].pc # "send" => new[c][k].from = c
  BY <1>5, <1>6 DEF TidyOK
<1>8. \A c, d \in Clients : \A j \in 1 .. Len(new[c]), k \in 1 .. Len(new[d]) :
        new[c][j].from = new[d][k].from => c = d /\ j = k
  <2> TAKE c, d \in Clients
  <2> TAKE j \in 1 .. Len(new[c]), k \in 1 .. Len(new[d])
  <2> HAVE new[c][j].from = new[d][k].from
  <2>1. CASE new[c][j].from = f
    BY <1>6, <2>1
  <2>2. CASE new[c][j].from # f
    <3>1. j \in 1 .. Len(ob[c]) /\ new[c][j] = ob[c][j]
      BY <1>6, <2>2
    <3>2. k \in 1 .. Len(ob[d]) /\ new[d][k] = ob[d][k]
      BY <1>6, <2>2
    <3> QED BY <1>5, <3>1, <3>2 DEF TidyOK
  <2> QED BY <2>1, <2>2
<1>9. TidyOK(new, cn2)
  BY <1>7, <1>8 DEF TidyOK
<1> QED BY <1>3, <1>9 DEF new

\* The place in a sequence, before its element i was taken, of what is at k now.
Was(i, k) == IF k < i THEN k ELSE k + 1
\* The sequence without its element i.
Rest(q, i, r) == /\ r \in Seq(Mails) /\ Len(r) = Len(q) - 1
                 /\ \A k \in 1 .. Len(q) - 1 : r[k] = q[Was(i, k)]

LEMMA RestIs ==
  ASSUME NEW q \in Seq(Mails), NEW i \in 1 .. Len(q)
  PROVE  Rest(q, i, RemoveAt(q, i)) /\ (i = 1 => Rest(q, i, Tail(q)))
<1>1. Len(q) \in Nat /\ i \in Nat /\ \A k \in 1 .. Len(q) : q[k] \in Mails
  OBVIOUS
<1>2. Rest(q, i, RemoveAt(q, i))
  <2> DEFINE a == SubSeq(q, 1, i - 1)
             b == SubSeq(q, i + 1, Len(q))
  <2>1. a \in Seq(Mails) /\ Len(a) = i - 1 /\ \A k \in 1 .. i - 1 : a[k] = q[k]
    BY <1>1
  <2>2. b \in Seq(Mails) /\ Len(b) = Len(q) - i /\ \A k \in 1 .. Len(q) - i : b[k] = q[k + i]
    BY <1>1
  <2>3. RemoveAt(q, i) = a \o b
    BY DEF RemoveAt
  <2> HIDE DEF a, b
  <2>4. a \o b \in Seq(Mails) /\ Len(a \o b) = Len(q) - 1
    <3>1. a \o b \in Seq(Mails) /\ Len(a \o b) = Len(a) + Len(b)
      BY <2>1, <2>2, ConcatProperties
    <3> QED BY <1>1, <2>1, <2>2, <3>1
  <2>5. ASSUME NEW k \in 1 .. Len(q) - 1
        PROVE  (a \o b)[k] = q[Was(i, k)]
    <3>1. CASE k < i
      BY <1>1, <2>1, <2>2, <3>1 DEF Was
    <3>2. CASE ~(k < i)
      <4>1. k - (i - 1) \in 1 .. Len(q) - i /\ (k - (i - 1)) + i = k + 1
        BY <1>1, <3>2
      <4>2. (a \o b)[k] = b[k - (i - 1)]
        BY <1>1, <2>1, <2>2, <3>2
      <4> QED BY <2>2, <3>2, <4>1, <4>2 DEF Was
    <3> QED BY <3>1, <3>2
  <2> QED BY <2>3, <2>4, <2>5 DEF Rest
<1>3. i = 1 => Rest(q, i, Tail(q))
  BY <1>1 DEF Rest, Was
<1> QED BY <1>2, <1>3

\* When a transport has taken a message, or has raised.
LEMMA TidyTaken ==
  ASSUME NEW ob \in Outboxes, NEW cn, TidyOK(ob, cn), NEW c \in Clients, NEW i \in 1 .. Len(ob[c]),
         NEW r, Rest(ob[c], i, r)
  PROVE  /\ ob[c][i] \in Mails /\ ob[c][i].from \in Clients
         /\ cn[ob[c][i].from].pc \in Sending
         /\ cn[ob[c][i].from].pc # "send" => ob[c][i].from = c
         /\ [ob EXCEPT ![c] = r] \in Outboxes
         /\ TidyOK([ob EXCEPT ![c] = r], cn)
         /\ Spent([ob EXCEPT ![c] = r], ob[c][i].from)
<1> DEFINE n == Len(ob[c])
           rest == [ob EXCEPT ![c] = r]
           m == ob[c][i]
<1>1. ob[c] \in Seq(Mails) /\ n \in Nat
  BY DEF Outboxes
<1>2. i \in 1 .. n /\ m = ob[c][i]
  OBVIOUS
<1>3. m \in Mails /\ m.from \in Clients
  <2>1. ob[c][i] \in Mails
    BY <1>1, <1>2
  <2> QED BY <2>1 DEF Mails
<1>4. r \in Seq(Mails) /\ Len(r) = n - 1 /\ \A k \in 1 .. n - 1 : r[k] = ob[c][Was(i, k)]
  BY DEF Rest
<1>5. rest \in Outboxes /\ rest[c] = r /\ \A d \in Clients : d # c => rest[d] = ob[d]
  BY <1>4 DEF Outboxes
<1> HIDE DEF rest
<1>6. cn[m.from].pc \in Sending /\ (cn[m.from].pc # "send" => m.from = c)
  BY <1>2 DEF TidyOK
<1> HIDE DEF m
<1> DEFINE Old(d, k) == IF d = c THEN Was(i, k) ELSE k
<1>7. ASSUME NEW d \in Clients, NEW k \in 1 .. Len(rest[d])
      PROVE  Old(d, k) \in 1 .. Len(ob[d]) /\ rest[d][k] = ob[d][Old(d, k)] /\ ~(d = c /\ Old(d, k) = i)
  <2>1. CASE d = c
    <3>1. k \in 1 .. n - 1
      BY <1>4, <1>5, <2>1
    <3>2. Was(i, k) \in 1 .. n /\ Was(i, k) # i
      BY <1>1, <3>1 DEF Was
    <3> QED BY <1>4, <1>5, <2>1, <3>1, <3>2
  <2>2. CASE d # c
    BY <1>5, <2>2
  <2> QED BY <2>1, <2>2
<1>8. \A d, e \in Clients : \A j \in 1 .. Len(rest[d]), k \in 1 .. Len(rest[e]) :
        d = e /\ Old(d, j) = Old(e, k) => j = k
  <2>1. \A d \in Clients : rest[d] \in Seq(Mails)
    BY <1>5 DEF Outboxes
  <2>2. \A d \in Clients : \A k \in 1 .. Len(rest[d]) : k \in Int
    OBVIOUS
  <2>3. \A j, k \in Int : Was(i, j) = Was(i, k) => j = k
    BY DEF Was
  <2> QED BY <2>2, <2>3
<1> HIDE DEF Old, n
<1>9. Spent(rest, m.from)
  <2>1. ASSUME NEW d \in Clients, NEW k \in 1 .. Len(rest[d]), rest[d][k].from = m.from
        PROVE  FALSE
    <3>1. ob[d][Old(d, k)].from = ob[c][i].from /\ Old(d, k) \in 1 .. Len(ob[d]) /\ i \in 1 .. Len(ob[c])
      BY <1>2, <1>7, <2>1 DEF n
    <3>2. d = c /\ Old(d, k) = i
      BY <3>1 DEF TidyOK
    <3> QED BY <1>7, <3>2
  <2> QED BY <2>1 DEF Spent
<1>10. TidyOK(rest, cn)
  <2>1. \A d \in Clients : \A k \in 1 .. Len(rest[d]) :
          /\ cn[rest[d][k].from].pc \in Sending
          /\ cn[rest[d][k].from].pc # "send" => rest[d][k].from = d
    BY <1>7 DEF TidyOK
  <2>2. \A d, e \in Clients : \A j \in 1 .. Len(rest[d]), k \in 1 .. Len(rest[e]) :
          rest[d][j].from = rest[e][k].from => d = e /\ j = k
    <3> TAKE d, e \in Clients
    <3> TAKE j \in 1 .. Len(rest[d]), k \in 1 .. Len(rest[e])
    <3> HAVE rest[d][j].from = rest[e][k].from
    <3>1. Old(d, j) \in 1 .. Len(ob[d]) /\ rest[d][j] = ob[d][Old(d, j)]
      BY <1>7
    <3>2. Old(e, k) \in 1 .. Len(ob[e]) /\ rest[e][k] = ob[e][Old(e, k)]
      BY <1>7
    <3>3. ob[d][Old(d, j)].from = ob[e][Old(e, k)].from
      BY <3>1, <3>2
    <3>4. d = e /\ Old(d, j) = Old(e, k)
      BY <3>1, <3>2, <3>3 DEF TidyOK
    <3> QED BY <1>8, <3>4
  <2> QED BY <2>1, <2>2 DEF TidyOK
<1> QED BY <1>3, <1>5, <1>6, <1>9, <1>10 DEF rest, m

\* The agents when a coroutine goes on that is none of them.
LEMMA AgentsStay ==
  ASSUME NEW ss, NEW cn, NEW cn2, NEW f \in Clients, AgentsOK(ss, cn),
         \A d \in Clients \ {f} : cn2[d] = cn[d],
         cn2[f].pc \in {"wait", "work"} => cn2[f].mine = NoNode
  PROVE  AgentsOK(ss, cn2)
<1>1. \A d \in Clients : d = f \/ d \in Clients \ {f}
  OBVIOUS
<1> QED BY <1>1 DEF AgentsOK

-----------------------------------------------------------------------------
(* Steps that leave the sessions as they are.                              *)

LEMMA ConnIs ==
  ASSUME conn \in [Clients -> Coroutines], NEW f \in Clients, NEW at \in Coroutines,
         conn' = [conn EXCEPT ![f] = at]
  PROVE  conn' \in [Clients -> Coroutines] /\ conn'[f] = at /\ \A d \in Clients \ {f} : conn'[d] = conn[d]
OBVIOUS

\* What is left to show of a step of coroutine f that is not one under the lock.
LEMMA Still ==
  ASSUME IInv, NEW f \in Clients, NEW at \in Coroutines, conn' = [conn EXCEPT ![f] = at],
         sessions' = sessions, cur' = cur, stamp' = stamp, idOf' = idOf,
         at.bound \in 1 .. Len(sessions),
         at.pc \in {"wait", "work"} => at.mine = NoNode,
         lock' \in Seq(Clients), LocksOK(lock', conn'),
         outbox' \in Outboxes, TidyOK(outbox', conn'),
         members' \subseteq Clients, online' \subseteq Clients, dirty' \subseteq Clients,
         shown' \in [Clients -> Documents], sent' \in [Clients -> Nat]
  PROVE  IInv'
<1>1. conn' \in [Clients -> Coroutines] /\ conn'[f] = at /\ \A d \in Clients \ {f} : conn'[d] = conn[d]
  BY ConnIs DEF IInv, Typed
<1>2. AgentsOK(sessions, conn')
  BY <1>1, AgentsStay DEF IInv
<1>3. \A c \in Clients : conn'[c].bound \in 1 .. Len(sessions)
  <2> TAKE c \in Clients
  <2>1. CASE c = f
    BY <1>1, <2>1
  <2>2. CASE c # f
    BY <1>1, <2>2 DEF IInv, Typed
  <2> QED BY <2>1, <2>2
<1>4. Typed'
  BY <1>1, <1>3 DEF IInv, Typed, Outboxes
<1>5. AllSound(sessions, idOf)' /\ AgentsOK(sessions, conn)'
  BY <1>2 DEF IInv, AllSound
<1> QED BY <1>4, <1>5 DEF IInv

\* A coroutine that sent nothing yet sends a document or a reply.
LEMMA SendsOne ==
  ASSUME IInv, NEW f \in Clients, NEW at \in Coroutines, conn' = [conn EXCEPT ![f] = at],
         NEW ob \in Outboxes, TidyOK(ob, conn), Spent(ob, f), NEW to \in Clients, NEW doc \in Documents,
         outbox' = [ob EXCEPT ![to] = Append(@, Message(f, to, doc))],
         at.pc \in Sending, at.pc # "send" => to = f
  PROVE  outbox' \in Outboxes /\ TidyOK(outbox', conn')
<1>1. conn'[f] = at /\ \A d \in Clients \ {f} : conn'[d] = conn[d]
  BY ConnIs DEF IInv, Typed
<1> DEFINE m == Message(f, to, doc)
<1>2. m \in Mails /\ m.from = f
  BY DEF Message, Mails
<1> HIDE DEF m
<1>3. outbox' = [ob EXCEPT ![to] = Append(@, m)]
  BY DEF m
<1>4. conn'[f].pc \in Sending /\ (conn'[f].pc # "send" => to = f)
  BY <1>1
<1>5. /\ [ob EXCEPT ![to] = Append(@, m)] \in Outboxes
      /\ TidyOK([ob EXCEPT ![to] = Append(@, m)], conn')
  BY <1>1, <1>2, <1>4, TidySent
<1> QED BY <1>3, <1>5

LEMMA Idles ==
  ASSUME IInv, NEW f \in Clients, conn[f].pc \notin Sending
  PROVE  /\ outbox \in Outboxes /\ TidyOK(outbox, conn) /\ Spent(outbox, f)
BY SpentIs DEF IInv, Typed, Outboxes

\* Where nothing is sent, or something is.
LEMMA Silent ==
  ASSUME IInv, NEW f \in Clients, NEW at \in Coroutines, conn' = [conn EXCEPT ![f] = at],
         NEW ob \in Outboxes, TidyOK(ob, conn), Spent(ob, f), outbox' = ob
  PROVE  outbox' \in Outboxes /\ TidyOK(outbox', conn')
<1>1. conn'[f] = at /\ \A d \in Clients \ {f} : conn'[d] = conn[d]
  BY ConnIs DEF IInv, Typed
<1> QED BY <1>1, TidyStays

LEMMA Replies ==
  ASSUME IInv, NEW f \in Clients, NEW at \in Coroutines, conn' = [conn EXCEPT ![f] = at],
         conn[f].pc \notin Sending, Reply(f), at.pc \in Sending
  PROVE  outbox' \in Outboxes /\ TidyOK(outbox', conn')
<1>1. outbox \in Outboxes /\ TidyOK(outbox, conn) /\ Spent(outbox, f)
  BY Idles
<1>2. outbox' = [outbox EXCEPT ![f] = Append(@, Message(f, f, NoDoc))]
  BY DEF Reply, Send
<1> QED BY <1>1, <1>2, NothingIs, SendsOne

\* The lock, by what f does with it.
LEMMA Passes ==
  ASSUME IInv, NEW f \in Clients, NEW at \in Coroutines, conn' = [conn EXCEPT ![f] = at],
         conn[f].pc \notin {"wait", "work"}, at.pc \notin {"wait", "work"}, lock' = lock
  PROVE  lock' \in Seq(Clients) /\ LocksOK(lock', conn')
<1>1. conn'[f] = at /\ \A d \in Clients \ {f} : conn'[d] = conn[d]
  BY ConnIs DEF IInv, Typed
<1>2. lock \in Seq(Clients) /\ LocksOK(lock, conn)
  BY DEF IInv, Typed
<1>3. LocksOK(lock, conn')
  BY <1>1, <1>2, LockStays
<1> QED BY <1>2, <1>3

LEMMA Gives ==
  ASSUME IInv, NEW f \in Clients, NEW at \in Coroutines, conn' = [conn EXCEPT ![f] = at],
         Holds(f), at.pc \notin {"wait", "work"}, lock' = Tail(lock)
  PROVE  lock' \in Seq(Clients) /\ LocksOK(lock', conn') /\ \A d \in Clients : conn'[d].pc # "work"
<1>1. conn'[f] = at /\ \A d \in Clients \ {f} : conn'[d] = conn[d]
  BY ConnIs DEF IInv, Typed
<1>2. lock \in Seq(Clients) /\ LocksOK(lock, conn) /\ lock # <<>> /\ Head(lock) = f
  BY DEF IInv, Typed, Holds
<1>3. conn'[f].pc \notin {"wait", "work"}
  BY <1>1
<1>4. /\ Tail(lock) \in Seq(Clients) /\ LocksOK(Tail(lock), conn')
      /\ \A d \in Clients : conn'[d].pc # "work"
  <2> DEFINE cn == conn
             cn2 == conn'
             lk == lock
  <2>1. /\ lk \in Seq(Clients) /\ LocksOK(lk, cn) /\ lk # <<>> /\ Head(lk) = f
        /\ cn2[f].pc \notin {"wait", "work"} /\ \A d \in Clients \ {f} : cn2[d] = cn[d]
    BY <1>1, <1>2, <1>3
  <2> HIDE DEF cn, cn2, lk
  <2>2. /\ Tail(lk) \in Seq(Clients) /\ LocksOK(Tail(lk), cn2)
        /\ \A d \in Clients : cn2[d].pc # "work"
    BY <2>1, LockGiven
  <2> QED BY <2>2 DEF cn2, lk
<1> QED BY <1>4

\* Where a coroutine goes that starts anew.
LEMMA Anew ==
  ASSUME IInv, NEW c \in Clients, NEW p \in Pcs,
         Goto(c, p) \/ Await(c, Served(p))
  PROVE  \E at \in Coroutines : /\ conn' = [conn EXCEPT ![c] = at]
                                 /\ at.pc = p /\ at.bound \in 1 .. Len(sessions) /\ at.mine = NoNode
<1>1. 1 \in 1 .. Len(sessions) /\ conn \in [Clients -> Coroutines]
  BY DEF IInv, Typed
<1>2. CASE Goto(c, p)
  <2>1. conn' = [conn EXCEPT ![c] = Went(c, p)]
    BY <1>2 DEF Goto, Await, Went
  <2> QED BY <1>1, <2>1, WentIs
<1>3. CASE Await(c, Served(p))
  BY <1>1, <1>3, ServedIs DEF Await
<1> QED BY <1>2, <1>3

LEMMA JoinKeeps ==
  ASSUME IInv, NEW c \in Clients, Join(c)
  PROVE  IInv'
<1>1. conn[c].pc = "new" /\ Goto(c, "hello") /\ Reply(c)
  BY DEF Join
<1>2. PICK at \in Coroutines : /\ conn' = [conn EXCEPT ![c] = at]
                               /\ at.pc = "hello" /\ at.bound \in 1 .. Len(sessions) /\ at.mine = NoNode
  BY <1>1, Anew DEF Pcs
<1>3. outbox' \in Outboxes /\ TidyOK(outbox', conn')
  BY <1>1, <1>2, Replies DEF Sending
<1>4. lock' \in Seq(Clients) /\ LocksOK(lock', conn')
  BY <1>1, <1>2, Passes DEF Join
<1>5. /\ members' \subseteq Clients /\ online' \subseteq Clients /\ dirty' \subseteq Clients
      /\ shown' \in [Clients -> Documents] /\ sent' \in [Clients -> Nat]
      /\ sessions' = sessions /\ cur' = cur /\ stamp' = stamp /\ idOf' = idOf
  BY DEF Join, IInv, Typed
<1> QED BY <1>2, <1>3, <1>4, <1>5, Still

LEMMA NoAgentKeeps ==
  ASSUME IInv, NEW c \in Clients, NoAgent(c)
  PROVE  IInv'
<1>1. conn[c].pc = "idle" /\ Goto(c, "error") /\ Reply(c)
  BY DEF NoAgent, Receiving
<1>2. PICK at \in Coroutines : /\ conn' = [conn EXCEPT ![c] = at]
                               /\ at.pc = "error" /\ at.bound \in 1 .. Len(sessions) /\ at.mine = NoNode
  BY <1>1, Anew DEF Pcs
<1>3. outbox' \in Outboxes /\ TidyOK(outbox', conn')
  BY <1>1, <1>2, Replies DEF Sending
<1>4. lock' \in Seq(Clients) /\ LocksOK(lock', conn')
  BY <1>1, <1>2, Passes DEF NoAgent
<1>5. /\ members' \subseteq Clients /\ online' \subseteq Clients /\ dirty' \subseteq Clients
      /\ shown' \in [Clients -> Documents] /\ sent' \in [Clients -> Nat]
      /\ sessions' = sessions /\ cur' = cur /\ stamp' = stamp /\ idOf' = idOf
  BY DEF NoAgent, Receiving, IInv, Typed
<1> QED BY <1>2, <1>3, <1>4, <1>5, Still

LEMMA DepartKeeps ==
  ASSUME IInv, NEW c \in Clients, Depart(c)
  PROVE  IInv'
<1>1. conn[c].pc = "idle" /\ Await(c, Served("off"))
  BY DEF Depart
<1>2. PICK at \in Coroutines : /\ conn' = [conn EXCEPT ![c] = at]
                               /\ at.pc = "off" /\ at.bound \in 1 .. Len(sessions) /\ at.mine = NoNode
  BY <1>1, Anew DEF Pcs
<1>3. outbox' \in Outboxes /\ TidyOK(outbox', conn')
  <2>1. outbox \in Outboxes /\ TidyOK(outbox, conn) /\ Spent(outbox, c) /\ outbox' = outbox
    BY <1>1, Idles DEF Depart, Sending
  <2> QED BY <1>2, <2>1, Silent
<1>4. lock' \in Seq(Clients) /\ LocksOK(lock', conn')
  BY <1>1, <1>2, Passes DEF Depart
<1>5. /\ members' \subseteq Clients /\ online' \subseteq Clients /\ dirty' \subseteq Clients
      /\ shown' \in [Clients -> Documents] /\ sent' \in [Clients -> Nat]
      /\ sessions' = sessions /\ cur' = cur /\ stamp' = stamp /\ idOf' = idOf
  BY DEF Depart, Forget, IInv, Typed
<1> QED BY <1>2, <1>3, <1>4, <1>5, Still

LEMMA CloseKeeps ==
  ASSUME IInv, NEW c \in Clients, Close(c)
  PROVE  IInv'
BY DEF Close, IInv, Typed, AllSound

LEMMA MessageIs ==
  ASSUME IInv, NEW c \in Clients, NEW m \in Messages(c)
  PROVE  m \in Msgs
<1>1. CASE \E t \in Sends[c] \intersect {"undo", "redo", "sync", "chat", "tune"} : m = [NoMessage EXCEPT !.type = t]
  <2>1. PICK t \in {"undo", "redo", "sync", "chat", "tune"} : m = [NoMessage EXCEPT !.type = t]
    BY <1>1
  <2> QED BY <2>1, NothingIs DEF Msgs, Types
<1>2. CASE \E a \in HandEdits : m = [NoMessage EXCEPT !.type = "action", !.action = a]
  <2>1. PICK a \in Actions : m = [NoMessage EXCEPT !.type = "action", !.action = a]
    BY <1>2, WorkbenchAssumption
  <2> QED BY <2>1, NothingIs DEF Msgs, Types
<1>3. CASE \E d \in Saved \union {shown[c]} : m = [NoMessage EXCEPT !.type = "load", !.doc = d]
  <2>1. Saved \union {shown[c]} \subseteq Documents
    BY WorkbenchAssumption DEF IInv, Typed
  <2>2. PICK d \in Documents : m = [NoMessage EXCEPT !.type = "load", !.doc = d]
    BY <1>3, <2>1
  <2> QED BY <2>2, NothingIs DEF Msgs, Types
<1> QED BY <1>1, <1>2, <1>3 DEF Messages

LEMMA ReceiveKeeps ==
  ASSUME IInv, NEW c \in Clients, NEW m \in Messages(c), Receive(c, m)
  PROVE  IInv'
<1> DEFINE at == [Served("wait") EXCEPT !.msg = m, !.bound = cur]
<1>1. conn[c].pc = "idle" /\ conn' = [conn EXCEPT ![c] = at] /\ lock' = Append(lock, c) /\ outbox' = outbox
  BY DEF Receive, Receiving, GoOn, Await
<1>2. cur \in 1 .. Len(sessions) /\ cur \in Nat /\ conn \in [Clients -> Coroutines]
  BY DEF IInv, Typed
<1>3. at \in Coroutines /\ at.pc = "wait" /\ at.bound = cur /\ at.mine = NoNode
  <2> DEFINE s == Served("wait")
  <2>1. s \in Coroutines /\ s.pc = "wait" /\ s.mine = NoNode
    BY ServedIs DEF Pcs
  <2>2. at = [s EXCEPT !.msg = m, !.bound = cur]
    OBVIOUS
  <2> HIDE DEF s, at
  <2> QED BY <1>2, <2>1, <2>2, MessageIs DEF Coroutines
<1> HIDE DEF at
<1>4. conn'[c] = at /\ \A d \in Clients \ {c} : conn'[d] = conn[d]
  BY <1>1, <1>2, <1>3, ConnIs
<1>5. lock' \in Seq(Clients) /\ LocksOK(lock', conn')
  <2>1. lock \in Seq(Clients) /\ LocksOK(lock, conn) /\ conn[c].pc \notin {"wait", "work"} /\ conn'[c].pc = "wait"
    BY <1>1, <1>3, <1>4 DEF IInv, Typed
  <2>2. Append(lock, c) \in Seq(Clients) /\ LocksOK(Append(lock, c), conn')
    BY <1>4, <2>1, LockAsked
  <2> QED BY <1>1, <2>2
<1>6. outbox' \in Outboxes /\ TidyOK(outbox', conn')
  <2>1. outbox \in Outboxes /\ TidyOK(outbox, conn) /\ Spent(outbox, c)
    BY <1>1, Idles DEF Sending
  <2> QED BY <1>1, <1>3, <2>1, Silent
<1>7. /\ members' \subseteq Clients /\ online' \subseteq Clients /\ dirty' \subseteq Clients
      /\ shown' \in [Clients -> Documents] /\ sent' \in [Clients -> Nat]
      /\ sessions' = sessions /\ cur' = cur /\ stamp' = stamp /\ idOf' = idOf
  BY DEF Receive, Receiving, IInv, Typed
<1> QED BY <1>1, <1>2, <1>3, <1>5, <1>6, <1>7, Still

LEMMA RefuseKeeps ==
  ASSUME IInv, NEW c \in Clients, Refuse(c)
  PROVE  IInv'
<1>1. /\ conn[c].pc = "wait" /\ Holds(c) /\ lock' = Tail(lock) /\ Goto(c, "error") /\ Reply(c)
      /\ UNCHANGED <<sessions, cur, stamp, idOf, dirty, members, online, shown, sent>>
  BY DEF Refuse, Handling
<1>2. PICK at \in Coroutines : /\ conn' = [conn EXCEPT ![c] = at]
                               /\ at.pc = "error" /\ at.bound \in 1 .. Len(sessions) /\ at.mine = NoNode
  BY <1>1, Anew DEF Pcs
<1>3. outbox' \in Outboxes /\ TidyOK(outbox', conn')
  BY <1>1, <1>2, Replies DEF Sending
<1>4. lock' \in Seq(Clients) /\ LocksOK(lock', conn')
  BY <1>1, <1>2, Gives
<1>5. /\ members' \subseteq Clients /\ online' \subseteq Clients /\ dirty' \subseteq Clients
      /\ shown' \in [Clients -> Documents] /\ sent' \in [Clients -> Nat]
      /\ sessions' = sessions /\ cur' = cur /\ stamp' = stamp /\ idOf' = idOf
  BY <1>1 DEF IInv, Typed
<1> QED BY <1>2, <1>3, <1>4, <1>5, Still

LEMMA HandleSyncKeeps ==
  ASSUME IInv, NEW c \in Clients, HandleSync(c)
  PROVE  IInv'
<1> DEFINE at == [conn[c] EXCEPT !.pc = "read"]
<1>1. /\ conn[c].pc = "wait" /\ Holds(c) /\ lock' = Tail(lock) /\ conn' = [conn EXCEPT ![c] = at]
      /\ UNCHANGED <<sessions, cur, outbox, stamp, idOf, dirty, members, online, shown, sent>>
  BY DEF HandleSync, Handling, GoOn
<1>2. conn[c] \in Coroutines /\ conn[c].bound \in 1 .. Len(sessions)
  BY DEF IInv, Typed
<1>3. at \in Coroutines /\ at.pc = "read" /\ at.bound \in 1 .. Len(sessions)
  <2>1. at = [conn[c] EXCEPT !.pc = "read"]
    OBVIOUS
  <2> HIDE DEF at
  <2> QED BY <1>2, <2>1 DEF Coroutines, Pcs
<1> HIDE DEF at
<1>4. outbox' \in Outboxes /\ TidyOK(outbox', conn')
  <2>1. outbox \in Outboxes /\ TidyOK(outbox, conn) /\ Spent(outbox, c)
    BY <1>1, Idles DEF Sending
  <2> QED BY <1>1, <1>3, <2>1, Silent
<1>5. lock' \in Seq(Clients) /\ LocksOK(lock', conn')
  BY <1>1, <1>3, Gives
<1>6. /\ members' \subseteq Clients /\ online' \subseteq Clients /\ dirty' \subseteq Clients
      /\ shown' \in [Clients -> Documents] /\ sent' \in [Clients -> Nat]
      /\ sessions' = sessions /\ cur' = cur /\ stamp' = stamp /\ idOf' = idOf
  BY <1>1 DEF IInv, Typed
<1> QED BY <1>1, <1>3, <1>4, <1>5, <1>6, Still

LEMMA StartWorkKeeps ==
  ASSUME IInv, NEW c \in Clients, StartWork(c)
  PROVE  IInv'
<1> DEFINE b == IF conn[c].msg.type = "tune" THEN cur ELSE conn[c].bound
           at == [conn[c] EXCEPT !.pc = "work", !.bound = b]
<1>1. /\ conn[c].pc = "wait" /\ Holds(c) /\ lock' = lock /\ outbox' = outbox
      /\ UNCHANGED <<sessions, cur, outbox, stamp, idOf, dirty, members, online, shown, sent>>
  BY DEF StartWork, Starting
<1>2. /\ conn[c] \in Coroutines /\ conn[c].bound \in 1 .. Len(sessions) /\ conn[c].bound \in Nat
      /\ cur \in 1 .. Len(sessions) /\ cur \in Nat /\ conn[c].mine = NoNode
  BY <1>1 DEF IInv, Typed, AgentsOK
<1>3. conn' = [conn EXCEPT ![c] = at]
  <2>1. conn' = [conn EXCEPT ![c] = [conn[c] EXCEPT !.pc = "work",
                                       !.bound = IF conn[c].msg.type = "tune" THEN cur ELSE @]]
    BY DEF StartWork, Starting, Await
  <2>2. [conn[c] EXCEPT !.pc = "work", !.bound = IF conn[c].msg.type = "tune" THEN cur ELSE @] = at
    BY <1>2 DEF Coroutines
  <2> QED BY <2>1, <2>2
<1>4. b \in 1 .. Len(sessions) /\ b \in Nat
  BY <1>2
<1> HIDE DEF b
<1>5. at \in Coroutines /\ at.pc = "work" /\ at.bound = b /\ at.mine = NoNode
  <2>1. at = [conn[c] EXCEPT !.pc = "work", !.bound = b]
    OBVIOUS
  <2> HIDE DEF at
  <2> QED BY <1>2, <1>4, <2>1 DEF Coroutines, Pcs
<1> HIDE DEF at
<1>6. outbox' \in Outboxes /\ TidyOK(outbox', conn')
  <2>1. outbox \in Outboxes /\ TidyOK(outbox, conn) /\ Spent(outbox, c)
    BY <1>1, Idles DEF Sending
  <2> QED BY <1>1, <1>3, <1>5, <2>1, Silent
<1>7. lock' \in Seq(Clients) /\ LocksOK(lock', conn')
  <2>1. conn'[c] = at /\ \A d \in Clients \ {c} : conn'[d] = conn[d]
    BY <1>3, <1>5, ConnIs DEF IInv, Typed
  <2>2. lock \in Seq(Clients) /\ LocksOK(lock, conn) /\ lock # <<>> /\ Head(lock) = c /\ conn'[c].pc = "work"
    BY <1>1, <1>5, <2>1 DEF IInv, Typed, Holds
  <2>3. LocksOK(lock, conn')
    BY <2>1, <2>2, LockWorked
  <2> QED BY <1>1, <2>2, <2>3
<1>8. /\ members' \subseteq Clients /\ online' \subseteq Clients /\ dirty' \subseteq Clients
      /\ shown' \in [Clients -> Documents] /\ sent' \in [Clients -> Nat]
      /\ sessions' = sessions /\ cur' = cur /\ stamp' = stamp /\ idOf' = idOf
  BY <1>1 DEF IInv, Typed
<1> QED BY <1>3, <1>4, <1>5, <1>6, <1>7, <1>8, Still

\* A worker has the lock and gives it back.
LEMMA ResumingIs ==
  ASSUME IInv, NEW c \in Clients, Resuming(c)
  PROVE  /\ conn[c].pc = "work" /\ Holds(c) /\ lock' = Tail(lock)
         /\ UNCHANGED <<sessions, cur, stamp, idOf, dirty, members, shown, sent>>
<1>1. conn[c].pc = "work"
  BY DEF Resuming
<1>2. Holds(c)
  BY <1>1 DEF IInv, LocksOK, Holds
<1> QED BY <1>1, <1>2 DEF Resuming

LEMMA ResumeKeeps ==
  ASSUME IInv, NEW c \in Clients, Resuming(c), NEW p \in {"ack", "error"}, Goto(c, p), Reply(c), UNCHANGED online
  PROVE  IInv'
<1>1. /\ conn[c].pc = "work" /\ Holds(c) /\ lock' = Tail(lock)
      /\ UNCHANGED <<sessions, cur, stamp, idOf, dirty, members, shown, sent>>
  BY ResumingIs
<1>2. PICK at \in Coroutines : /\ conn' = [conn EXCEPT ![c] = at]
                               /\ at.pc = p /\ at.bound \in 1 .. Len(sessions) /\ at.mine = NoNode
  BY Anew DEF Pcs
<1>3. outbox' \in Outboxes /\ TidyOK(outbox', conn')
  BY <1>1, <1>2, Replies DEF Sending
<1>4. lock' \in Seq(Clients) /\ LocksOK(lock', conn')
  BY <1>1, <1>2, Gives
<1>5. /\ members' \subseteq Clients /\ online' \subseteq Clients /\ dirty' \subseteq Clients
      /\ shown' \in [Clients -> Documents] /\ sent' \in [Clients -> Nat]
      /\ sessions' = sessions /\ cur' = cur /\ stamp' = stamp /\ idOf' = idOf
  BY <1>1 DEF IInv, Typed
<1> QED BY <1>2, <1>3, <1>4, <1>5, Still

LEMMA WorkRaisesKeeps ==
  ASSUME IInv, NEW c \in Clients, WorkRaises(c)
  PROVE  IInv'
<1>1. /\ conn[c].pc = "work" /\ Holds(c) /\ lock' = Tail(lock)
      /\ UNCHANGED <<sessions, cur, stamp, idOf, dirty, members, shown, sent>>
  BY ResumingIs DEF WorkRaises
<1>2. PICK at \in Coroutines : /\ conn' = [conn EXCEPT ![c] = at]
                               /\ at.pc = "off" /\ at.bound \in 1 .. Len(sessions) /\ at.mine = NoNode
  BY Anew DEF Pcs, WorkRaises
<1>3. outbox' \in Outboxes /\ TidyOK(outbox', conn')
  <2>1. outbox \in Outboxes /\ TidyOK(outbox, conn) /\ Spent(outbox, c) /\ outbox' = outbox
    BY <1>1, Idles DEF Sending, WorkRaises
  <2> QED BY <1>2, <2>1, Silent
<1>4. lock' \in Seq(Clients) /\ LocksOK(lock', conn')
  BY <1>1, <1>2, Gives
<1>5. /\ members' \subseteq Clients /\ online' \subseteq Clients /\ dirty' \subseteq Clients
      /\ shown' \in [Clients -> Documents] /\ sent' \in [Clients -> Nat]
      /\ sessions' = sessions /\ cur' = cur /\ stamp' = stamp /\ idOf' = idOf
  BY <1>1 DEF WorkRaises, IInv, Typed
<1> QED BY <1>2, <1>3, <1>4, <1>5, Still

LEMMA ReadNodesKeeps ==
  ASSUME IInv, NEW c \in Clients, ReadNodes(c)
  PROVE  IInv'
<1> DEFINE d == [conn[c].doc EXCEPT !.nodes = DocNodes(Session)]
           at == [conn[c] EXCEPT !.pc = "edges", !.doc = d]
<1>1. conn[c].pc = "read" /\ lock' = lock /\ outbox' = outbox
  BY DEF ReadNodes
<1>2. /\ conn[c] \in Coroutines /\ conn[c].bound \in 1 .. Len(sessions) /\ conn[c].doc \in Documents
      /\ Session \in Sessions
  BY DEF IInv, Typed, Coroutines, Session
<1>3. conn' = [conn EXCEPT ![c] = at]
  BY DEF ReadNodes, GoOn
<1>4. d \in Documents
  <2>1. DocNodes(Session) \in Seq(Nodes)
    BY <1>2, DocumentIs
  <2> DEFINE q == DocNodes(Session)
  <2>2. d = [conn[c].doc EXCEPT !.nodes = q] /\ q \in Seq(Nodes)
    BY <2>1
  <2> HIDE DEF q, d
  <2> QED BY <1>2, <2>2 DEF Documents, Nodes
<1> HIDE DEF d
<1>5. at \in Coroutines /\ at.pc = "edges" /\ at.bound \in 1 .. Len(sessions)
  <2>1. at = [conn[c] EXCEPT !.pc = "edges", !.doc = d]
    OBVIOUS
  <2> HIDE DEF at
  <2> QED BY <1>2, <1>4, <2>1 DEF Coroutines, Pcs
<1> HIDE DEF at
<1>6. outbox' \in Outboxes /\ TidyOK(outbox', conn')
  <2>1. outbox \in Outboxes /\ TidyOK(outbox, conn) /\ Spent(outbox, c)
    BY <1>1, Idles DEF Sending
  <2> QED BY <1>1, <1>3, <1>5, <2>1, Silent
<1>7. lock' \in Seq(Clients) /\ LocksOK(lock', conn')
  BY <1>1, <1>3, <1>5, Passes
<1>8. /\ members' \subseteq Clients /\ online' \subseteq Clients /\ dirty' \subseteq Clients
      /\ shown' \in [Clients -> Documents] /\ sent' \in [Clients -> Nat]
      /\ sessions' = sessions /\ cur' = cur /\ stamp' = stamp /\ idOf' = idOf
  BY DEF ReadNodes, IInv, Typed
<1> QED BY <1>3, <1>5, <1>6, <1>7, <1>8, Still

\* A broadcast goes to clients there are.
LEMMA AudienceIs ==
  ASSUME NEW c
  PROVE  Audience(c) \in Seq(Clients)
<1>1. Order \in Seq(Clients)
  BY WorkbenchAssumption
<1> DEFINE out == Clients \ members
           q == Without(Order, out)
<1>2. Audience(c) = q
  BY DEF Audience
<1> HIDE DEF out
<1>3. q \in Seq(Clients \ out)
  BY <1>1, WithoutType
<1> HIDE DEF q
<1>4. q \in Seq(Clients)
  BY <1>3
<1> QED BY <1>2, <1>4

LEMMA ReadEdgesKeeps ==
  ASSUME IInv, NEW c \in Clients, ReadEdges(c)
  PROVE  IInv'
<1> DEFINE doc == [conn[c].doc EXCEPT !.edges = Session.edges]
           to == Audience(c)
<1>1. conn[c].pc = "edges" /\ lock' = lock
  BY DEF ReadEdges
<1>2. /\ conn[c] \in Coroutines /\ conn[c].doc \in Documents
      /\ Session \in Sessions /\ 1 \in 1 .. Len(sessions)
  BY DEF IInv, Typed, Coroutines, Session
<1>3. doc \in Documents
  <2> DEFINE d == doc
             e == Session.edges
  <2>1. d = [conn[c].doc EXCEPT !.edges = e] /\ e \in Seq(Nat \X Nat)
    BY <1>2 DEF Sessions
  <2> HIDE DEF d, e
  <2>2. d \in Documents
    BY <1>2, <2>1 DEF Documents
  <2> QED BY <2>2 DEF d
<1>4. to \in Seq(Clients)
  BY AudienceIs
<1>5. \/ Greeting(c) /\ Goto(c, "greet") /\ Send(c, c, doc)
      \/ Await(c, Served("idle")) /\ outbox' = outbox
      \/ /\ to # <<>> /\ Await(c, [Served("send") EXCEPT !.doc = doc, !.todo = Tail(to)])
         /\ Send(c, Head(to), doc)
  BY DEF ReadEdges
<1> HIDE DEF doc, to
<1>6. outbox \in Outboxes /\ TidyOK(outbox, conn) /\ Spent(outbox, c)
  BY <1>1, Idles DEF Sending
<1>7. \E at \in Coroutines : /\ conn' = [conn EXCEPT ![c] = at]
                             /\ at.pc \notin {"wait", "work"} /\ at.bound \in 1 .. Len(sessions)
                             /\ outbox' \in Outboxes /\ TidyOK(outbox', conn')
  <2>1. CASE Goto(c, "greet") /\ Send(c, c, doc)
    <3>1. PICK at \in Coroutines : /\ conn' = [conn EXCEPT ![c] = at]
                                   /\ at.pc = "greet" /\ at.bound \in 1 .. Len(sessions)
      BY <2>1, Anew DEF Pcs
    <3>2. outbox' = [outbox EXCEPT ![c] = Append(@, Message(c, c, doc))]
      BY <2>1 DEF Send
    <3>3. outbox' \in Outboxes /\ TidyOK(outbox', conn')
      BY <1>3, <1>6, <3>1, <3>2, SendsOne DEF Sending
    <3> QED BY <3>1, <3>3
  <2>2. CASE Await(c, Served("idle")) /\ outbox' = outbox
    <3>1. PICK at \in Coroutines : /\ conn' = [conn EXCEPT ![c] = at]
                                   /\ at.pc = "idle" /\ at.bound \in 1 .. Len(sessions)
      BY <2>2, Anew DEF Pcs
    <3>2. outbox' \in Outboxes /\ TidyOK(outbox', conn')
      BY <1>6, <2>2, <3>1, Silent
    <3> QED BY <3>1, <3>2
  <2>3. CASE /\ to # <<>> /\ Await(c, [Served("send") EXCEPT !.doc = doc, !.todo = Tail(to)])
             /\ Send(c, Head(to), doc)
    <3> DEFINE at == [Served("send") EXCEPT !.doc = doc, !.todo = Tail(to)]
    <3>1. conn' = [conn EXCEPT ![c] = at] /\ outbox' = [outbox EXCEPT ![Head(to)] = Append(@, Message(c, Head(to), doc))]
      BY <2>3 DEF Await, Send
    <3>2. Head(to) \in Clients /\ Tail(to) \in Seq(Clients)
      BY <1>4, <2>3
    <3>3. at \in Coroutines /\ at.pc = "send" /\ at.bound = 1
      <4> DEFINE s == Served("send")
                 q == Tail(to)
      <4>1. s \in Coroutines /\ s.pc = "send" /\ s.bound = 1
        BY ServedIs DEF Pcs
      <4>2. at = [s EXCEPT !.doc = doc, !.todo = q] /\ q \in Seq(Clients)
        BY <3>2
      <4> HIDE DEF s, at, q
      <4> QED BY <1>3, <4>1, <4>2 DEF Coroutines
    <3> HIDE DEF at
    <3>4. outbox' \in Outboxes /\ TidyOK(outbox', conn')
      BY <1>3, <1>6, <3>1, <3>2, <3>3, SendsOne DEF Sending
    <3> QED BY <1>2, <3>1, <3>3, <3>4
  <2> QED BY <1>5, <2>1, <2>2, <2>3
<1>8. PICK at \in Coroutines : /\ conn' = [conn EXCEPT ![c] = at]
                               /\ at.pc \notin {"wait", "work"} /\ at.bound \in 1 .. Len(sessions)
                               /\ outbox' \in Outboxes /\ TidyOK(outbox', conn')
  BY <1>7
<1>9. lock' \in Seq(Clients) /\ LocksOK(lock', conn')
  BY <1>1, <1>8, Passes
<1>10. /\ members' \subseteq Clients /\ online' \subseteq Clients /\ dirty' \subseteq Clients
       /\ shown' \in [Clients -> Documents] /\ sent' \in [Clients -> Nat]
       /\ sessions' = sessions /\ cur' = cur /\ stamp' = stamp /\ idOf' = idOf
  BY DEF ReadEdges, IInv, Typed
<1> QED BY <1>8, <1>9, <1>10, Still

LEMMA ReadRaisesKeeps ==
  ASSUME IInv, NEW c \in Clients, ReadRaises(c)
  PROVE  IInv'
<1>1. conn[c].pc = "edges" /\ Await(c, Served("off")) /\ lock' = lock /\ outbox' = outbox
  BY DEF ReadRaises
<1>2. PICK at \in Coroutines : /\ conn' = [conn EXCEPT ![c] = at]
                               /\ at.pc = "off" /\ at.bound \in 1 .. Len(sessions) /\ at.mine = NoNode
  BY <1>1, Anew DEF Pcs
<1>3. outbox' \in Outboxes /\ TidyOK(outbox', conn')
  <2>1. outbox \in Outboxes /\ TidyOK(outbox, conn) /\ Spent(outbox, c)
    BY <1>1, Idles DEF Sending
  <2> QED BY <1>1, <1>2, <2>1, Silent
<1>4. lock' \in Seq(Clients) /\ LocksOK(lock', conn')
  BY <1>1, <1>2, Passes
<1>5. /\ members' \subseteq Clients /\ online' \subseteq Clients /\ dirty' \subseteq Clients
      /\ shown' \in [Clients -> Documents] /\ sent' \in [Clients -> Nat]
      /\ sessions' = sessions /\ cur' = cur /\ stamp' = stamp /\ idOf' = idOf
  BY DEF ReadRaises, IInv, Typed
<1> QED BY <1>2, <1>3, <1>4, <1>5, Still

\* What a sender does when its send is over.
LEMMA Proceeds ==
  ASSUME IInv, NEW f \in Clients, NEW rest \in Outboxes, TidyOK(rest, conn), Spent(rest, f),
         NEW waited, Proceed(f, rest, waited)
  PROVE  \E at \in Coroutines : /\ conn' = [conn EXCEPT ![f] = at]
                                /\ conn[f].pc \notin {"wait", "work"}
                                /\ at.pc \notin {"wait", "work"} /\ at.bound \in 1 .. Len(sessions)
                                /\ outbox' \in Outboxes /\ TidyOK(outbox', conn')
<1>1. conn[f] \in Coroutines /\ conn[f].bound \in 1 .. Len(sessions) /\ 1 \in 1 .. Len(sessions)
  BY DEF IInv, Typed
<1>2. CASE /\ conn[f].pc = "send" /\ conn[f].todo # <<>>
           /\ Await(f, [conn[f] EXCEPT !.todo = Tail(@)])
           /\ outbox' = [rest EXCEPT ![Head(conn[f].todo)] =
                           Append(@, Message(f, Head(conn[f].todo), conn[f].doc))]
  <2> DEFINE q == conn[f].todo
             at == [conn[f] EXCEPT !.todo = Tail(@)]
             doc == conn[f].doc
  <2>1. conn' = [conn EXCEPT ![f] = at]
    BY <1>2 DEF Await
  <2>2. q \in Seq(Clients) /\ q # <<>> /\ doc \in Documents
    BY <1>1, <1>2 DEF Coroutines
  <2>3. at = [conn[f] EXCEPT !.todo = Tail(q)]
    BY <1>1 DEF Coroutines
  <2>4. outbox' = [rest EXCEPT ![Head(q)] = Append(@, Message(f, Head(q), doc))]
    BY <1>2
  <2> HIDE DEF q, at, doc
  <2>5. Head(q) \in Clients /\ Tail(q) \in Seq(Clients)
    BY <2>2
  <2> DEFINE l == Tail(q)
  <2>6. at \in Coroutines /\ at.pc = "send" /\ at.bound = conn[f].bound
    <3>1. at = [conn[f] EXCEPT !.todo = l] /\ l \in Seq(Clients)
      BY <2>3, <2>5
    <3> HIDE DEF l
    <3> QED BY <1>1, <1>2, <3>1 DEF Coroutines
  <2>7. outbox' \in Outboxes /\ TidyOK(outbox', conn')
    BY <2>1, <2>2, <2>4, <2>5, <2>6, SendsOne DEF Sending
  <2> QED BY <1>1, <1>2, <2>1, <2>6, <2>7
<1>3. CASE /\ conn[f].pc \in {"ack", "hello"} /\ outbox' = rest
           /\ conn' = [conn EXCEPT ![f] = [conn[f] EXCEPT !.pc = "read"]]
  <2> DEFINE at == [conn[f] EXCEPT !.pc = "read"]
  <2>1. conn' = [conn EXCEPT ![f] = at]
    BY <1>3
  <2>2. at \in Coroutines /\ at.pc = "read" /\ at.bound = conn[f].bound
    <3>1. at = [conn[f] EXCEPT !.pc = "read"]
      OBVIOUS
    <3> HIDE DEF at
    <3> QED BY <1>1, <3>1 DEF Coroutines, Pcs
  <2> HIDE DEF at
  <2>3. outbox' \in Outboxes /\ TidyOK(outbox', conn')
    BY <1>3, <2>1, <2>2, Silent
  <2> QED BY <1>1, <1>3, <2>1, <2>2, <2>3
<1>4. CASE /\ conn[f].pc \in {"error", "greet", "send"} /\ conn[f].todo = <<>>
           /\ Await(f, Served("idle")) /\ outbox' = rest
  <2>1. PICK at \in Coroutines : /\ conn' = [conn EXCEPT ![f] = at]
                                 /\ at.pc = "idle" /\ at.bound \in 1 .. Len(sessions) /\ at.mine = NoNode
    BY <1>4, Anew DEF Pcs
  <2>2. outbox' \in Outboxes /\ TidyOK(outbox', conn')
    BY <1>4, <2>1, Silent
  <2> QED BY <1>4, <2>1, <2>2
<1>5. Proceed(f, rest, waited) => \/ /\ conn[f].pc \in {"ack", "hello"} /\ outbox' = rest
                                     /\ conn' = [conn EXCEPT ![f] = [conn[f] EXCEPT !.pc = "read"]]
                                  \/ /\ conn[f].pc = "send" /\ conn[f].todo # <<>>
                                     /\ Await(f, [conn[f] EXCEPT !.todo = Tail(@)])
                                     /\ outbox' = [rest EXCEPT ![Head(conn[f].todo)] =
                                          Append(@, Message(f, Head(conn[f].todo), conn[f].doc))]
                                  \/ /\ conn[f].pc \in {"error", "greet", "send"} /\ conn[f].todo = <<>>
                                     /\ Await(f, Served("idle")) /\ outbox' = rest
  BY DEF Proceed, Await, GoOn
<1> QED BY <1>2, <1>3, <1>4, <1>5

LEMMA DeliverKeeps ==
  ASSUME IInv, NEW c \in Clients, Deliver(c)
  PROVE  IInv'
<1> DEFINE m == Head(outbox[c])
           f == m.from
           rest == [outbox EXCEPT ![c] = Tail(@)]
<1>1. outbox \in Outboxes /\ TidyOK(outbox, conn) /\ outbox[c] # <<>>
  BY DEF Deliver, IInv, Typed, Outboxes
<1>2. m \in Mails /\ f \in Clients /\ rest \in Outboxes /\ TidyOK(rest, conn) /\ Spent(rest, f)
  <2>1. outbox[c] \in Seq(Mails) /\ 1 \in 1 .. Len(outbox[c]) /\ m = outbox[c][1]
    BY <1>1 DEF Outboxes
  <2>2. Rest(outbox[c], 1, Tail(outbox[c]))
    BY <2>1, RestIs
  <2> DEFINE t == Tail(outbox[c])
  <2>3. rest = [outbox EXCEPT ![c] = t]
    OBVIOUS
  <2> HIDE DEF t, m, rest
  <2> QED BY <1>1, <2>1, <2>2, <2>3, TidyTaken DEF t
<1>3. Proceed(f, rest, m.waits)
  BY DEF Deliver
<1>4. shown' \in [Clients -> Documents]
  <2>1. m.doc \in Documents /\ shown \in [Clients -> Documents]
    BY <1>2 DEF Mails, IInv, Typed
  <2>2. shown' = shown \/ shown' = [shown EXCEPT ![c] = m.doc]
    BY DEF Deliver
  <2> HIDE DEF m
  <2> QED BY <2>1, <2>2
<1>5. /\ lock' = lock /\ members' \subseteq Clients /\ online' \subseteq Clients /\ dirty' \subseteq Clients
      /\ sent' \in [Clients -> Nat] /\ sessions' = sessions /\ cur' = cur /\ stamp' = stamp /\ idOf' = idOf
  BY DEF Deliver, IInv, Typed
<1> HIDE DEF m, f, rest
<1>6. PICK at \in Coroutines : /\ conn' = [conn EXCEPT ![f] = at]
                               /\ conn[f].pc \notin {"wait", "work"}
                               /\ at.pc \notin {"wait", "work"} /\ at.bound \in 1 .. Len(sessions)
                               /\ outbox' \in Outboxes /\ TidyOK(outbox', conn')
  BY <1>2, <1>3, Proceeds
<1>7. lock' \in Seq(Clients) /\ LocksOK(lock', conn')
  BY <1>2, <1>5, <1>6, Passes
<1> QED BY <1>2, <1>4, <1>5, <1>6, <1>7, Still

LEMMA SendRaisesKeeps ==
  ASSUME IInv, NEW c \in Clients, SendRaises(c)
  PROVE  IInv'
<1>1. outbox \in Outboxes /\ TidyOK(outbox, conn) /\ outbox[c] \in Seq(Mails)
  BY DEF IInv, Typed, Outboxes
<1>2. PICK i \in DOMAIN outbox[c] :
      LET m == outbox[c][i]
          rest == [outbox EXCEPT ![c] = RemoveAt(@, i)]
      IN IF conn[m.from].pc = "send" THEN Proceed(m.from, rest, m.waits)
         ELSE Await(c, Served("off")) /\ outbox' = rest
  BY Zenon DEF SendRaises
<1>3. i \in 1 .. Len(outbox[c])
  BY <1>1, <1>2
<1> DEFINE m == outbox[c][i]
           f == m.from
           rest == [outbox EXCEPT ![c] = RemoveAt(@, i)]
<1>4. /\ f \in Clients /\ rest \in Outboxes /\ TidyOK(rest, conn) /\ Spent(rest, f)
      /\ conn[f].pc \in Sending /\ (conn[f].pc # "send" => f = c)
  <2>1. Rest(outbox[c], i, RemoveAt(outbox[c], i))
    BY <1>1, <1>3, RestIs
  <2> DEFINE t == RemoveAt(outbox[c], i)
  <2>2. rest = [outbox EXCEPT ![c] = t] /\ m = outbox[c][i] /\ f = m.from
    OBVIOUS
  <2>3. Rest(outbox[c], i, t)
    BY <2>1
  <2> HIDE DEF t
  <2>4. /\ outbox[c][i].from \in Clients /\ conn[outbox[c][i].from].pc \in Sending
        /\ conn[outbox[c][i].from].pc # "send" => outbox[c][i].from = c
        /\ [outbox EXCEPT ![c] = t] \in Outboxes
        /\ TidyOK([outbox EXCEPT ![c] = t], conn)
        /\ Spent([outbox EXCEPT ![c] = t], outbox[c][i].from)
    BY <1>1, <1>3, <2>3, TidyTaken
  <2> HIDE DEF rest, m, f
  <2> QED BY <2>2, <2>4
<1>5. \/ Proceed(f, rest, m.waits)
      \/ conn[f].pc # "send" /\ Await(c, Served("off")) /\ outbox' = rest
  BY <1>2
<1>6. /\ lock' = lock /\ members' \subseteq Clients /\ online' \subseteq Clients /\ dirty' \subseteq Clients
      /\ shown' \in [Clients -> Documents] /\ sent' \in [Clients -> Nat]
      /\ sessions' = sessions /\ cur' = cur /\ stamp' = stamp /\ idOf' = idOf
  BY DEF SendRaises, Forget, IInv, Typed
<1> HIDE DEF m, f, rest
<1>7. \E at \in Coroutines : /\ conn' = [conn EXCEPT ![f] = at]
                             /\ conn[f].pc \notin {"wait", "work"}
                             /\ at.pc \notin {"wait", "work"} /\ at.bound \in 1 .. Len(sessions)
                             /\ outbox' \in Outboxes /\ TidyOK(outbox', conn')
  <2>1. CASE Proceed(f, rest, m.waits)
    BY <1>4, <2>1, Proceeds
  <2>2. CASE conn[f].pc # "send" /\ Await(c, Served("off")) /\ outbox' = rest
    <3>1. f = c /\ conn[f].pc \notin {"wait", "work"}
      BY <1>4, <2>2 DEF Sending
    <3>2. PICK at \in Coroutines : /\ conn' = [conn EXCEPT ![f] = at]
                                   /\ at.pc = "off" /\ at.bound \in 1 .. Len(sessions) /\ at.mine = NoNode
      BY <2>2, <3>1, Anew DEF Pcs
    <3>3. outbox' \in Outboxes /\ TidyOK(outbox', conn')
      BY <1>4, <2>2, <3>2, Silent
    <3> QED BY <3>1, <3>2, <3>3
  <2> QED BY <1>5, <2>1, <2>2
<1>8. PICK at \in Coroutines : /\ conn' = [conn EXCEPT ![f] = at]
                               /\ conn[f].pc \notin {"wait", "work"}
                               /\ at.pc \notin {"wait", "work"} /\ at.bound \in 1 .. Len(sessions)
                               /\ outbox' \in Outboxes /\ TidyOK(outbox', conn')
  BY <1>7
<1>9. lock' \in Seq(Clients) /\ LocksOK(lock', conn')
  BY <1>4, <1>6, <1>8, Passes
<1> QED BY <1>4, <1>6, <1>8, <1>9, Still

-----------------------------------------------------------------------------
(* Steps that change a session.                                            *)

LEMMA NotingIs ==
  ASSUME Typed, NEW new, \A t \in DOMAIN new : t \in Nat /\ t > stamp
  PROVE  /\ Extends(idOf, Noting(new)) /\ Extends(new, Noting(new))
         /\ DOMAIN Noting(new) = DOMAIN idOf \union DOMAIN new
<1>1. \A t \in DOMAIN idOf : t \notin DOMAIN new
  <2>1. \A t \in DOMAIN idOf : t \in 1 .. stamp /\ stamp \in Nat
    BY DEF Typed
  <2> QED BY <2>1
<1> QED BY <1>1 DEF Noting, Extends

Swapped(ss, n, t) == [ss EXCEPT ![n] = t]
LEMMA SessionSet ==
  ASSUME NEW ss \in Seq(Sessions), NEW ids, AllSound(ss, ids), NEW n \in 1 .. Len(ss),
         NEW new, Extends(ids, new), NEW t, Sound(t, n, new)
  PROVE  /\ Swapped(ss, n, t) \in Seq(Sessions) /\ Len(Swapped(ss, n, t)) = Len(ss)
         /\ AllSound(Swapped(ss, n, t), new) /\ Swapped(ss, n, t)[n] = t
<1> DEFINE tt == Swapped(ss, n, t)
<1>1. t \in Sessions
  BY DEF Sound
<1>2. /\ tt \in Seq(Sessions) /\ Len(tt) = Len(ss) /\ tt[n] = t
      /\ \A k \in 1 .. Len(ss) : k # n => tt[k] = ss[k]
  BY <1>1 DEF Swapped
<1> HIDE DEF tt
<1>3. ASSUME NEW k \in 1 .. Len(ss)
      PROVE  Sound(tt[k], k, new)
  <2>1. CASE k = n
    BY <1>2, <2>1
  <2>2. CASE k # n
    <3>1. Sound(ss[k], k, ids)
      BY DEF AllSound
    <3> QED BY <1>2, <2>2, <3>1, GrowSound
  <2> QED BY <2>1, <2>2
<1>4. AllSound(tt, new)
  BY <1>2, <1>3 DEF AllSound
<1> QED BY <1>2, <1>4 DEF tt

LEMMA StampedIs ==
  ASSUME NEW a \in Actions, stamp \in Nat
  PROVE  /\ Stamped(a) \in Actions /\ Stamped(a).op = a.op
         /\ a.op = "add" => Stamped(a).stamp = stamp + 1
         /\ a.op # "add" => Stamped(a) = a
<1> DEFINE b == Stamped(a)
<1>1. CASE a.op = "add"
  <2> DEFINE k == stamp + 1
  <2>1. b = [a EXCEPT !.stamp = k] /\ k \in Nat
    BY <1>1 DEF Stamped
  <2> HIDE DEF b, k
  <2>2. b \in Actions /\ b.op = a.op /\ b.stamp = k
    BY <2>1 DEF Actions
  <2> QED BY <1>1, <2>2 DEF b, k
<1>2. CASE a.op # "add"
  BY <1>2 DEF Stamped
<1> QED BY <1>1, <1>2

\* What an edit leaves of the sessions.
Edited(n, a) ==
  /\ sessions' \in Seq(Sessions) /\ Len(sessions') = Len(sessions) /\ AllSound(sessions', idOf')
  /\ sessions'[n] = Apply(sessions[n], Stamped(a)) /\ Accepts(sessions[n], Stamped(a))
  /\ stamp' \in Nat /\ DOMAIN idOf' \subseteq 1 .. stamp'
  /\ a.op = "add" => stamp' = stamp + 1

LEMMA EditIs ==
  ASSUME IInv, NEW n \in 1 .. Len(sessions), NEW a \in Actions, Edit(n, a)
  PROVE  Edited(n, a)
<1> DEFINE b == Stamped(a)
           s == sessions[n]
           after == Apply(s, b)
<1>1. Typed /\ sessions \in Seq(Sessions) /\ stamp \in Nat /\ DOMAIN idOf \subseteq 1 .. stamp
  BY DEF IInv, Typed
<1>2. b \in Actions /\ b.op = a.op /\ (a.op = "add" => b.stamp = stamp + 1)
  BY <1>1, StampedIs
<1>3. Sound(s, n, idOf) /\ s \in Sessions /\ AllSound(sessions, idOf)
  BY <1>1 DEF IInv, AllSound
<1>4. Accepts(s, b) /\ sessions' = Swapped(sessions, n, after)
  BY DEF Edit, Swapped
<1>5. a.op = "add" => /\ stamp' = stamp + 1
                      /\ idOf' = Noting([t \in {stamp + 1} |-> [session |-> n, id |-> Len(after.slots)]])
  BY DEF Edit
<1>6. a.op # "add" => stamp' = stamp /\ idOf' = idOf
  BY DEF Edit
<1> HIDE DEF b, s
<1>7. a.op = "add" => Len(after.slots) = Len(s.slots) + 1
  BY <1>2, <1>3, <1>4, ApplyIs, ExecStamps
<1> HIDE DEF after
<1>8. /\ Extends(idOf, idOf') /\ stamp' \in Nat /\ DOMAIN idOf' \subseteq 1 .. stamp'
      /\ a.op = "add" => b.stamp \in DOMAIN idOf' /\ idOf'[b.stamp] = [session |-> n, id |-> Len(s.slots) + 1]
  <2>1. CASE a.op = "add"
    <3> DEFINE new == [t \in {stamp + 1} |-> [session |-> n, id |-> Len(after.slots)]]
    <3>1. DOMAIN new = {stamp + 1} /\ new[stamp + 1] = [session |-> n, id |-> Len(s.slots) + 1]
      BY <1>7, <2>1
    <3>2. idOf' = Noting(new)
      BY <1>5, <2>1
    <3> HIDE DEF new
    <3>3. \A t \in DOMAIN new : t \in Nat /\ t > stamp
      BY <1>1, <3>1
    <3>4. Extends(idOf, idOf') /\ Extends(new, idOf') /\ DOMAIN idOf' = DOMAIN idOf \union DOMAIN new
      BY <1>1, <3>2, <3>3, NotingIs
    <3>5. idOf'[stamp + 1] = new[stamp + 1] /\ stamp + 1 \in DOMAIN idOf'
      BY <3>1, <3>4 DEF Extends
    <3>6. stamp' = stamp + 1
      BY <1>5, <2>1
    <3>7. DOMAIN idOf' \subseteq 1 .. stamp + 1
      BY <1>1, <3>1, <3>4
    <3> QED BY <1>1, <1>2, <2>1, <3>1, <3>4, <3>5, <3>6, <3>7
  <2>2. CASE a.op # "add"
    BY <1>1, <1>6, <2>2 DEF Extends
  <2> QED BY <2>1, <2>2
<1>9. Sound(after, n, idOf')
  <2>1. b.op = "add" => b.stamp \in DOMAIN idOf' /\ idOf'[b.stamp] = [session |-> n, id |-> Len(s.slots) + 1]
    BY <1>2, <1>8
  <2> QED BY <1>2, <1>3, <1>4, <1>8, <2>1, ApplySound DEF after
<1>10. /\ sessions' \in Seq(Sessions) /\ Len(sessions') = Len(sessions) /\ AllSound(sessions', idOf')
       /\ sessions'[n] = after
  BY <1>1, <1>3, <1>4, <1>8, <1>9, SessionSet
<1> QED BY <1>4, <1>5, <1>8, <1>10 DEF Edited, after, b, s

\* What is left to show of a step that handles a message.
LEMMA Handled ==
  ASSUME IInv, NEW f \in Clients, NEW at \in Coroutines, conn' = [conn EXCEPT ![f] = at],
         Holds(f), lock' = Tail(lock), at.pc \notin {"wait", "work"},
         sessions' \in Seq(Sessions), Len(sessions') >= Len(sessions), cur' \in 1 .. Len(sessions'),
         AllSound(sessions', idOf'), stamp' \in Nat, DOMAIN idOf' \subseteq 1 .. stamp',
         at.bound \in 1 .. Len(sessions),
         outbox' \in Outboxes, TidyOK(outbox', conn'),
         members' = members, online' = online, dirty' \subseteq Clients, shown' = shown, sent' = sent
  PROVE  IInv'
<1>1. conn' \in [Clients -> Coroutines] /\ conn'[f] = at /\ \A d \in Clients \ {f} : conn'[d] = conn[d]
  BY ConnIs DEF IInv, Typed
<1>2. lock' \in Seq(Clients) /\ LocksOK(lock', conn') /\ \A d \in Clients : conn'[d].pc # "work"
  BY Gives
<1>3. AgentsOK(sessions', conn')
  <2>1. \A d \in Clients : conn'[d].pc = "wait" => conn'[d].mine = NoNode
    <3> TAKE d \in Clients
    <3>1. CASE d = f
      BY <1>1, <3>1
    <3>2. CASE d # f
      BY <1>1, <3>2 DEF IInv, AgentsOK
    <3> QED BY <3>1, <3>2
  <2> QED BY <1>2, <2>1 DEF AgentsOK
<1>4. \A c \in Clients : conn'[c].bound \in 1 .. Len(sessions')
  <2>1. 1 .. Len(sessions) \subseteq 1 .. Len(sessions')
    <3>1. Len(sessions) \in Nat /\ Len(sessions') \in Nat
      BY DEF IInv, Typed
    <3> QED BY <3>1
  <2> TAKE c \in Clients
  <2>2. CASE c = f
    BY <1>1, <2>1, <2>2
  <2>3. CASE c # f
    <3>1. conn[c].bound \in 1 .. Len(sessions)
      BY DEF IInv, Typed
    <3> QED BY <1>1, <2>1, <2>3, <3>1
  <2> QED BY <2>2, <2>3
<1>5. Typed'
  BY <1>1, <1>2, <1>4 DEF IInv, Typed, Outboxes
<1> QED BY <1>2, <1>3, <1>5 DEF IInv

\* The same where the reply of an action follows.
LEMMA Answered ==
  ASSUME IInv, NEW c \in Clients, NEW type, Handling(c, type), Changed(c), cur' = cur,
         sessions' \in Seq(Sessions), Len(sessions') = Len(sessions),
         AllSound(sessions', idOf'), stamp' \in Nat, DOMAIN idOf' \subseteq 1 .. stamp'
  PROVE  IInv'
<1>1. /\ conn[c].pc = "wait" /\ Holds(c) /\ lock' = Tail(lock)
      /\ members' = members /\ online' = online /\ shown' = shown /\ sent' = sent
  BY DEF Handling
<1>2. Goto(c, "ack") /\ Reply(c) /\ dirty' \subseteq Clients
  BY DEF Changed, IInv, Typed
<1>3. PICK at \in Coroutines : /\ conn' = [conn EXCEPT ![c] = at]
                               /\ at.pc = "ack" /\ at.bound \in 1 .. Len(sessions) /\ at.mine = NoNode
  BY <1>2, Anew DEF Pcs
<1>4. outbox' \in Outboxes /\ TidyOK(outbox', conn')
  BY <1>1, <1>2, <1>3, Replies DEF Sending
<1>5. cur' \in 1 .. Len(sessions') /\ Len(sessions') >= Len(sessions)
  BY DEF IInv, Typed
<1> QED BY <1>1, <1>2, <1>3, <1>4, <1>5, Handled

LEMMA HandleActionKeeps ==
  ASSUME IInv, NEW c \in Clients, HandleAction(c)
  PROVE  IInv'
<1> DEFINE a == conn[c].msg.action
<1>1. Handling(c, "action") /\ Edit(cur, a) /\ Changed(c) /\ cur' = cur
  BY DEF HandleAction
<1>2. cur \in 1 .. Len(sessions) /\ a \in Actions
  <2>1. conn[c].msg.type = "action"
    BY <1>1 DEF Handling
  <2>2. conn[c] \in Coroutines
    BY DEF IInv, Typed
  <2>3. conn[c].msg \in Msgs
    BY <2>2 DEF Coroutines
  <2> QED BY <2>1, <2>3 DEF Msgs, IInv, Typed
<1> HIDE DEF a
<1>3. Edited(cur, a)
  BY <1>1, <1>2, EditIs
<1>4. /\ sessions' \in Seq(Sessions) /\ Len(sessions') = Len(sessions) /\ AllSound(sessions', idOf')
      /\ stamp' \in Nat /\ DOMAIN idOf' \subseteq 1 .. stamp'
  BY <1>3 DEF Edited
<1> QED BY <1>1, <1>4, Answered

LEMMA HandleUndoKeeps ==
  ASSUME IInv, NEW c \in Clients, HandleUndo(c)
  PROVE  IInv'
<1>1. /\ Handling(c, "undo") /\ Changed(c) /\ cur' = cur /\ stamp' = stamp /\ idOf' = idOf
      /\ sessions' = IF CanUndo(Session) THEN [sessions EXCEPT ![cur] = Undo(sessions[cur])] ELSE sessions
  BY DEF HandleUndo
<1>2. sessions \in Seq(Sessions) /\ cur \in 1 .. Len(sessions) /\ AllSound(sessions, idOf)
  BY DEF IInv, Typed
<1>3. stamp' \in Nat /\ DOMAIN idOf' \subseteq 1 .. stamp'
  BY <1>1 DEF IInv, Typed
<1>4. sessions' \in Seq(Sessions) /\ Len(sessions') = Len(sessions) /\ AllSound(sessions', idOf')
  <2>1. CASE CanUndo(sessions[cur])
    <3> DEFINE t == Undo(sessions[cur])
    <3>1. Sound(sessions[cur], cur, idOf)
      BY <1>2 DEF AllSound
    <3>2. Sound(t, cur, idOf) /\ Extends(idOf, idOf)
      BY <2>1, <3>1, UndoSound DEF Extends
    <3>3. sessions' = Swapped(sessions, cur, t)
      BY <1>1, <2>1 DEF Session, Swapped
    <3> HIDE DEF t
    <3> QED BY <1>1, <1>2, <3>2, <3>3, SessionSet
  <2>2. CASE ~CanUndo(sessions[cur])
    BY <1>1, <1>2, <2>2 DEF Session
  <2> QED BY <2>1, <2>2
<1> QED BY <1>1, <1>3, <1>4, Answered

LEMMA HandleRedoKeeps ==
  ASSUME IInv, NEW c \in Clients, HandleRedo(c)
  PROVE  IInv'
<1>1. /\ Handling(c, "redo") /\ Changed(c) /\ cur' = cur /\ stamp' = stamp /\ idOf' = idOf
      /\ sessions' = IF CanRedo(Session) THEN [sessions EXCEPT ![cur] = Redo(sessions[cur])] ELSE sessions
  BY DEF HandleRedo
<1>2. sessions \in Seq(Sessions) /\ cur \in 1 .. Len(sessions) /\ AllSound(sessions, idOf)
  BY DEF IInv, Typed
<1>3. stamp' \in Nat /\ DOMAIN idOf' \subseteq 1 .. stamp'
  BY <1>1 DEF IInv, Typed
<1>4. sessions' \in Seq(Sessions) /\ Len(sessions') = Len(sessions) /\ AllSound(sessions', idOf')
  <2>1. CASE CanRedo(sessions[cur])
    <3> DEFINE t == Redo(sessions[cur])
    <3>1. Sound(sessions[cur], cur, idOf)
      BY <1>2 DEF AllSound
    <3>2. Sound(t, cur, idOf) /\ Extends(idOf, idOf)
      BY <2>1, <3>1, RedoSound DEF Extends
    <3>3. sessions' = Swapped(sessions, cur, t)
      BY <1>1, <2>1 DEF Session, Swapped
    <3> HIDE DEF t
    <3> QED BY <1>1, <1>2, <3>2, <3>3, SessionSet
  <2>2. CASE ~CanRedo(sessions[cur])
    BY <1>1, <1>2, <2>2 DEF Session
  <2> QED BY <2>1, <2>2
<1> QED BY <1>1, <1>3, <1>4, Answered

LEMMA HandleLoadKeeps ==
  ASSUME IInv, NEW c \in Clients, HandleLoad(c)
  PROVE  IInv'
<1> DEFINE doc == conn[c].msg.doc
           n == Len(sessions) + 1
           s == FromDocument(doc, stamp)
           at == [conn[c] EXCEPT !.pc = "read"]
<1>1. /\ conn[c].pc = "wait" /\ Holds(c) /\ lock' = Tail(lock) /\ Loads(doc)
      /\ sessions' = Append(sessions, s) /\ cur' = n
      /\ stamp' = stamp + Len(s.slots) /\ idOf' = Noting(Born(s, n))
      /\ conn' = [conn EXCEPT ![c] = at] /\ dirty' = dirty \union {c}
      /\ UNCHANGED <<members, online, shown, sent, outbox>>
  BY DEF HandleLoad, Handling, GoOn
<1>2. /\ conn[c] \in Coroutines /\ conn[c].bound \in 1 .. Len(sessions)
      /\ sessions \in Seq(Sessions) /\ Len(sessions) \in Nat /\ stamp \in Nat /\ DOMAIN idOf \subseteq 1 .. stamp
      /\ AllSound(sessions, idOf) /\ Typed
  BY DEF IInv, Typed
<1>3. doc \in Documents
  <2>1. conn[c].msg \in Msgs
    BY <1>2 DEF Coroutines
  <2> QED BY <2>1 DEF Msgs
<1>4. at \in Coroutines /\ at.pc = "read" /\ at.bound \in 1 .. Len(sessions)
  <2>1. at = [conn[c] EXCEPT !.pc = "read"]
    OBVIOUS
  <2> HIDE DEF at
  <2> QED BY <1>2, <2>1 DEF Coroutines, Pcs
<1> HIDE DEF at, doc
<1>5. s \in Loading(n, stamp)
  BY <1>1, <1>2, <1>3, FromDocumentIs
<1> HIDE DEF s
<1> DEFINE born == Born(s, n)
<1>6. Extends(born, born)
  BY DEF Extends
<1>7. s \in Sessions /\ Len(s.slots) \in Nat
  BY <1>5 DEF Loading, Sessions
<1> HIDE DEF n
<1>8. DOMAIN born = stamp + 1 .. stamp + Len(s.slots)
  BY <1>2, <1>5, <1>6, LoadedSound
<1>9. \A t \in DOMAIN born : t \in Nat /\ t > stamp
  BY <1>2, <1>7, <1>8
<1> HIDE DEF born
<1>10. Extends(idOf, idOf') /\ Extends(born, idOf') /\ DOMAIN idOf' = DOMAIN idOf \union DOMAIN born
  BY <1>1, <1>2, <1>9, NotingIs DEF born
<1>11. Sound(s, n, idOf')
  BY <1>2, <1>5, <1>10, LoadedSound DEF born
<1>12. stamp' \in Nat /\ DOMAIN idOf' \subseteq 1 .. stamp'
  BY <1>1, <1>2, <1>7, <1>8, <1>10
<1>13. /\ sessions' \in Seq(Sessions) /\ Len(sessions') = n /\ sessions'[n] = s
       /\ \A k \in 1 .. Len(sessions) : sessions'[k] = sessions[k]
  BY <1>1, <1>2, <1>7 DEF n
<1>14. AllSound(sessions', idOf')
  <2>1. ASSUME NEW k \in 1 .. n
        PROVE  Sound(sessions'[k], k, idOf')
    <3>1. CASE k = n
      BY <1>11, <1>13, <3>1
    <3>2. CASE k # n
      <4>1. k \in 1 .. Len(sessions)
        BY <1>2, <3>2 DEF n
      <4>2. Sound(sessions[k], k, idOf)
        BY <1>2, <4>1 DEF AllSound
      <4> QED BY <1>10, <1>13, <4>1, <4>2, GrowSound
    <3> QED BY <3>1, <3>2
  <2> QED BY <1>13, <2>1 DEF AllSound
<1>15. Len(sessions') >= Len(sessions) /\ cur' \in 1 .. Len(sessions')
  BY <1>1, <1>2, <1>13 DEF n
<1>16. outbox' \in Outboxes /\ TidyOK(outbox', conn')
  <2>1. outbox \in Outboxes /\ TidyOK(outbox, conn) /\ Spent(outbox, c)
    BY <1>1, Idles DEF Sending
  <2> QED BY <1>1, <1>4, <2>1, Silent
<1>17. dirty' \subseteq Clients
  BY <1>1, <1>2 DEF Typed
<1> QED BY <1>1, <1>4, <1>12, <1>13, <1>14, <1>15, <1>16, <1>17, Handled

\* A node that is added is there, and the nodes there are stay unless they are removed.
LEMMA HasAdded ==
  ASSUME NEW s \in Sessions, NEW a \in Actions, Accepts(s, a), a.op = "add"
  PROVE  Has(Apply(s, a), [id |-> Len(Apply(s, a).slots), stamp |-> a.stamp])
<1> DEFINE p == s.slots
           q == Apply(s, a).slots
<1>1. p \in Seq(Slots) /\ Len(p) \in Nat
  BY DEF Sessions
<1>2. q = Append(p, [kind |-> a.kind, stamp |-> a.stamp, live |-> TRUE])
  <2>1. Exec(s, a).slots = Append(s.slots, [kind |-> a.kind, stamp |-> a.stamp, live |-> TRUE])
    BY AddIs
  <2>2. q = Exec(s, a).slots
    BY ApplyIs
  <2> QED BY <2>1, <2>2
<1> HIDE DEF p, q
<1>3. Len(q) \in DOMAIN q /\ q[Len(q)] = [kind |-> a.kind, stamp |-> a.stamp, live |-> TRUE]
  BY <1>1, <1>2
<1> QED BY <1>3 DEF Has, Live, q

LEMMA HasStill ==
  ASSUME NEW s \in Sessions, NEW a \in Actions, Accepts(s, a), a.op \in {"connect", "set"},
         NEW node, Has(s, node)
  PROVE  Has(Apply(s, a), node)
<1>1. Apply(s, a).slots = s.slots
  <2>1. Exec(s, a).slots = s.slots
    BY ConnectIs, SetIs
  <2>2. Apply(s, a).slots = Exec(s, a).slots
    BY ApplyIs
  <2> QED BY <2>1, <2>2
<1> QED BY <1>1 DEF Has, Live

\* What is left to show of an edit of a worker.
LEMMA Worked ==
  ASSUME IInv, NEW c \in Clients, NEW a \in Actions, NEW at \in Coroutines, conn' = [conn EXCEPT ![c] = at],
         conn[c].pc = "work", at.pc = "work", at.bound = conn[c].bound, Edited(conn[c].bound, a),
         at.mine # NoNode => Has(sessions'[at.bound], at.mine),
         dirty' \subseteq Clients,
         UNCHANGED <<cur, lock, members, outbox, online, shown, sent>>
  PROVE  IInv'
<1>1. conn' \in [Clients -> Coroutines] /\ conn'[c] = at /\ \A d \in Clients \ {c} : conn'[d] = conn[d]
  BY ConnIs DEF IInv, Typed
<1>2. lock \in Seq(Clients) /\ LocksOK(lock, conn) /\ lock # <<>> /\ Head(lock) = c /\ conn'[c].pc = "work"
  BY <1>1 DEF IInv, Typed, LocksOK
<1>3. LocksOK(lock, conn')
  BY <1>1, <1>2, LockWorked
<1>4. TidyOK(outbox, conn')
  <2>1. outbox \in Outboxes /\ TidyOK(outbox, conn) /\ Spent(outbox, c)
    BY Idles DEF Sending
  <2> QED BY <1>1, <2>1, TidyStays
<1>5. /\ sessions' \in Seq(Sessions) /\ Len(sessions') = Len(sessions) /\ AllSound(sessions', idOf')
      /\ stamp' \in Nat /\ DOMAIN idOf' \subseteq 1 .. stamp'
  BY DEF Edited
<1>6. AgentsOK(sessions', conn')
  <2>1. ASSUME NEW d \in Clients
        PROVE  /\ conn'[d].pc = "wait" => conn'[d].mine = NoNode
               /\ conn'[d].pc = "work" /\ conn'[d].mine # NoNode => Has(sessions'[conn'[d].bound], conn'[d].mine)
    <3>1. CASE d = c
      BY <1>1, <3>1
    <3>2. CASE d # c
      <4>1. conn'[d] = conn[d] /\ conn[d].pc # "work"
        BY <1>1, <1>2, <3>2 DEF LocksOK
      <4> QED BY <4>1 DEF IInv, AgentsOK
    <3> QED BY <3>1, <3>2
  <2> QED BY <2>1 DEF AgentsOK
<1>7. \A d \in Clients : conn'[d].bound \in 1 .. Len(sessions')
  <2> TAKE d \in Clients
  <2>1. conn[d].bound \in 1 .. Len(sessions)
    BY DEF IInv, Typed
  <2>2. conn'[d].bound = conn[d].bound
    BY <1>1
  <2> QED BY <1>5, <2>1, <2>2
<1>8. Typed'
  BY <1>1, <1>5, <1>7 DEF IInv, Typed
<1> QED BY <1>3, <1>4, <1>5, <1>6, <1>8 DEF IInv

LEMMA AgentEditIs ==
  ASSUME IInv, NEW c \in Clients, NEW a \in AgentEdits(c)
  PROVE  a \in Actions /\ a.op \in {"add", "connect", "remove"}
<1>1. AddNode("sink") \in Actions /\ AddNode("sink").op = "add"
  BY WorkbenchAssumption, ActionTypes
<1>2. conn[c].mine.id \in Nat
  <2>1. conn[c] \in Coroutines
    BY DEF IInv, Typed
  <2> QED BY <2>1 DEF Coroutines
<1>3. Len(First.slots) \in Nat
  BY FirstSound DEF Sound, Sessions
<1> DEFINE i == conn[c].mine.id
           j == Len(First.slots)
<1>4. a \in {AddNode("sink"), Connect(j, i), RemoveNode(i)}
  BY DEF AgentEdits
<1> HIDE DEF i, j
<1>5. Connect(j, i) \in Actions /\ Connect(j, i).op = "connect"
  BY <1>2, <1>3, ActionTypes DEF i, j
<1>6. RemoveNode(i) \in Actions /\ RemoveNode(i).op = "remove"
  BY <1>2, ActionTypes DEF i
<1> QED BY <1>1, <1>4, <1>5, <1>6

LEMMA ChatEditKeeps ==
  ASSUME IInv, NEW c \in Clients, WorkEdit(c), Works(c, "chat"), NEW a \in AgentEdits(c),
         Edit(conn[c].bound, a),
         conn' = [conn EXCEPT ![c].work = @ + 1,
                              ![c].mine = CASE a.op = "add" -> [id |-> Len(sessions'[conn[c].bound].slots),
                                                                stamp |-> stamp']
                                            [] a.op = "remove" -> NoNode
                                            [] OTHER -> @]
  PROVE  IInv'
<1> DEFINE n == conn[c].bound
           mine == CASE a.op = "add" -> [id |-> Len(sessions'[n].slots), stamp |-> stamp']
                     [] a.op = "remove" -> NoNode
                     [] OTHER -> conn[c].mine
           work == conn[c].work + 1
           at == [conn[c] EXCEPT !.work = work, !.mine = mine]
<1>1. conn[c] \in Coroutines /\ n \in 1 .. Len(sessions) /\ conn[c].pc = "work"
  BY DEF IInv, Typed, Works
<1>2. a \in Actions /\ a.op \in {"add", "connect", "remove"}
  BY AgentEditIs
<1>3. Edited(n, a)
  BY <1>1, <1>2, EditIs
<1>4. conn' = [conn EXCEPT ![c] = at]
  <2>1. conn \in [Clients -> Coroutines]
    BY DEF IInv, Typed
  <2> DEFINE m == mine
  <2>2. conn' = [conn EXCEPT ![c].work = work, ![c].mine = m]
    BY <2>1 DEF Coroutines
  <2> HIDE DEF m, work
  <2>3. conn' = [conn EXCEPT ![c] = [conn[c] EXCEPT !.work = work, !.mine = m]]
    BY <1>1, <2>1, <2>2 DEF Coroutines
  <2> QED BY <2>3 DEF m
<1>5. work \in 0 .. MaxWork
  <2>1. conn[c].work \in 0 .. MaxWork /\ conn[c].work < MaxWork /\ MaxWork \in Nat
    BY <1>1, WorkbenchAssumption DEF Coroutines, WorkEdit
  <2> QED BY <2>1
<1>6. mine \in [id : Nat, stamp : Nat] /\ (mine # NoNode => Has(sessions'[n], mine))
  <2>1. sessions[n] \in Sessions /\ stamp \in Nat
    BY <1>1 DEF IInv, Typed
  <2>2. sessions' \in Seq(Sessions) /\ sessions'[n] \in Sessions /\ stamp' \in Nat
    BY <1>1, <1>3 DEF Edited
  <2> DEFINE b == Stamped(a)
             s == sessions[n]
             t == sessions'[n]
  <2>3. /\ b \in Actions /\ b.op = a.op /\ (a.op = "add" => b.stamp = stamp + 1)
    BY <1>2, <2>1, StampedIs
  <2>4. t = Apply(s, b) /\ Accepts(s, b) /\ (a.op = "add" => stamp' = stamp + 1)
    BY <1>3 DEF Edited
  <2> HIDE DEF b, s, t
  <2>5. CASE a.op = "add"
    <3>1. mine = [id |-> Len(t.slots), stamp |-> stamp']
      BY <2>5 DEF t
    <3>2. Len(t.slots) \in Nat
      BY <2>2 DEF Sessions, t
    <3>3. Has(t, [id |-> Len(t.slots), stamp |-> b.stamp])
      BY <2>1, <2>3, <2>4, <2>5, HasAdded DEF s
    <3> QED BY <2>2, <2>3, <2>4, <2>5, <3>1, <3>2, <3>3 DEF t
  <2>6. CASE a.op = "remove"
    BY <2>6, NothingIs
  <2>7. CASE a.op = "connect"
    <3>1. mine = conn[c].mine
      BY <2>7
    <3>2. conn[c].mine \in [id : Nat, stamp : Nat]
      BY <1>1 DEF Coroutines
    <3>3. ASSUME conn[c].mine # NoNode
          PROVE  Has(t, conn[c].mine)
      <4>1. Has(s, conn[c].mine)
        BY <1>1, <3>3 DEF IInv, AgentsOK, s
      <4> QED BY <2>1, <2>3, <2>4, <2>7, <4>1, HasStill DEF s
    <3> QED BY <3>1, <3>2, <3>3 DEF t
  <2> QED BY <1>2, <2>5, <2>6, <2>7
<1> HIDE DEF mine, work
<1>7. at \in Coroutines /\ at.pc = "work" /\ at.bound = n /\ at.mine = mine
  <2>1. at = [conn[c] EXCEPT !.work = work, !.mine = mine]
    OBVIOUS
  <2> HIDE DEF at
  <2> QED BY <1>1, <1>5, <1>6, <2>1 DEF Coroutines
<1> HIDE DEF at
<1>8. dirty' \subseteq Clients /\ UNCHANGED <<cur, lock, members, outbox, online, shown, sent>>
  BY DEF WorkEdit, IInv, Typed
<1> QED BY <1>1, <1>2, <1>3, <1>4, <1>6, <1>7, <1>8, Worked

LEMMA TuneEditKeeps ==
  ASSUME IInv, NEW c \in Clients, WorkEdit(c), Works(c, "tune"), NEW n \in DOMAIN DocNodes(sessions[conn[c].bound]),
         Edit(conn[c].bound, SetParam(DocNodes(sessions[conn[c].bound])[n].id, 2)),
         conn' = [conn EXCEPT ![c].work = @ + 1]
  PROVE  IInv'
<1> DEFINE s == sessions[conn[c].bound]
           i == DocNodes(s)[n].id
           a == SetParam(i, 2)
           work == conn[c].work + 1
           at == [conn[c] EXCEPT !.work = work]
<1>1. /\ conn[c] \in Coroutines /\ conn[c].bound \in 1 .. Len(sessions) /\ conn[c].pc = "work"
      /\ s \in Sessions /\ stamp \in Nat
  BY DEF IInv, Typed, Works
<1>2. Edit(conn[c].bound, a)
  OBVIOUS
<1>3. i \in Nat
  <2>1. i \in DOMAIN s.records /\ s.records \in Maps
    BY <1>1, DocumentIs DEF Sessions
  <2> HIDE DEF i, s
  <2> QED BY <2>1, Mapped
<1> HIDE DEF i
<1>4. a \in Actions /\ a.op = "set"
  BY <1>3, ActionTypes DEF Params
<1> HIDE DEF a
<1>5. Edited(conn[c].bound, a)
  BY <1>1, <1>2, <1>4, EditIs
<1>6. conn' = [conn EXCEPT ![c] = at]
  BY <1>1 DEF Coroutines, IInv, Typed
<1>7. work \in 0 .. MaxWork
  <2>1. conn[c].work \in 0 .. MaxWork /\ conn[c].work < MaxWork /\ MaxWork \in Nat
    BY <1>1, WorkbenchAssumption DEF Coroutines, WorkEdit
  <2> QED BY <2>1
<1> HIDE DEF work
<1>8. at \in Coroutines /\ at.pc = "work" /\ at.bound = conn[c].bound /\ at.mine = conn[c].mine
  <2>1. at = [conn[c] EXCEPT !.work = work]
    OBVIOUS
  <2> HIDE DEF at
  <2> QED BY <1>1, <1>7, <2>1 DEF Coroutines
<1> HIDE DEF at
<1>9. at.mine # NoNode => Has(sessions'[at.bound], at.mine)
  <2>1. Stamped(a) = a
    BY <1>1, <1>4, StampedIs
  <2>2. sessions'[conn[c].bound] = Apply(s, a) /\ Accepts(s, a)
    BY <1>5, <2>1 DEF Edited
  <2>3. conn[c].mine # NoNode => Has(s, conn[c].mine)
    BY <1>1 DEF IInv, AgentsOK
  <2> HIDE DEF s
  <2>4. conn[c].mine # NoNode => Has(Apply(s, a), conn[c].mine)
    BY <1>1, <1>4, <2>2, <2>3, HasStill
  <2> QED BY <1>8, <2>2, <2>4
<1>10. dirty' \subseteq Clients /\ UNCHANGED <<cur, lock, members, outbox, online, shown, sent>>
  BY DEF WorkEdit, IInv, Typed
<1> QED BY <1>1, <1>4, <1>5, <1>6, <1>8, <1>9, <1>10, Worked

LEMMA WorkEditKeeps ==
  ASSUME IInv, NEW c \in Clients, WorkEdit(c)
  PROVE  IInv'
<1>1. CASE Works(c, "chat")
  <2>1. PICK a \in AgentEdits(c) :
          /\ Edit(conn[c].bound, a)
          /\ conn' = [conn EXCEPT ![c].work = @ + 1,
                                  ![c].mine = CASE a.op = "add" -> [id |-> Len(sessions'[conn[c].bound].slots),
                                                                    stamp |-> stamp']
                                                [] a.op = "remove" -> NoNode
                                                [] OTHER -> @]
    BY <1>1 DEF WorkEdit, Works
  <2> QED BY <1>1, <2>1, ChatEditKeeps
<1>2. CASE Works(c, "tune")
  <2>1. PICK n \in DOMAIN DocNodes(sessions[conn[c].bound]) :
          /\ Edit(conn[c].bound, SetParam(DocNodes(sessions[conn[c].bound])[n].id, 2))
          /\ conn' = [conn EXCEPT ![c].work = @ + 1]
    BY <1>2 DEF WorkEdit, Works
  <2> QED BY <1>2, <2>1, TuneEditKeeps
<1> QED BY <1>1, <1>2 DEF WorkEdit

-----------------------------------------------------------------------------
(* Theorems.                                                               *)

LEMMA InitInv == Init => IInv
<1> SUFFICES ASSUME Init
             PROVE  IInv
  OBVIOUS
<1>1. Sound(First, 1, idOf) /\ DOMAIN idOf \subseteq 1 .. Len(FirstLog)
  BY FirstSound DEF Init
<1>2. First \in Sessions
  BY <1>1 DEF Sound
<1>3. sessions = <<First>> /\ sessions \in Seq(Sessions) /\ Len(sessions) = 1 /\ sessions[1] = First
  BY <1>2 DEF Init
<1>4. AllSound(sessions, idOf)
  <2>1. \A n \in 1 .. 1 : n = 1
    OBVIOUS
  <2> QED BY <1>1, <1>3, <2>1 DEF AllSound
<1>5. \A c \in Clients : conn[c] \in Coroutines /\ conn[c].bound = 1 /\ conn[c].mine = NoNode
                         /\ conn[c].pc \in {"new", "idle"}
  <2> TAKE c \in Clients
  <2>1. conn[c] = Served("idle") \/ conn[c] = Fresh
    BY DEF Init
  <2> QED BY <2>1, FreshIs, ServedIs DEF Pcs
<1>6. conn \in [Clients -> Coroutines]
  BY <1>5 DEF Init
<1>7. LocksOK(lock, conn)
  BY <1>5 DEF Init, LocksOK
<1>8. TidyOK(outbox, conn)
  BY DEF Init, TidyOK
<1>9. AgentsOK(sessions, conn)
  BY <1>5 DEF AgentsOK
<1>10. shown \in [Clients -> Documents]
  <2>1. ToDocument(First) \in Documents /\ NoDoc \in Documents
    BY <1>2, DocumentIs, NothingIs
  <2>2. shown = [c \in Clients |-> IF c \in Online THEN ToDocument(First) ELSE NoDoc]
    BY DEF Init
  <2> QED BY <2>1, <2>2
<1>11. stamp \in Nat /\ DOMAIN idOf \subseteq 1 .. stamp
  BY <1>1, WorkbenchAssumption DEF Init
<1>12. outbox \in [Clients -> Seq(Mails)] /\ lock \in Seq(Clients) /\ sent \in [Clients -> Nat]
  BY DEF Init
<1>13. members \subseteq Clients /\ online \subseteq Clients /\ dirty \subseteq Clients
  BY WorkbenchAssumption DEF Init
<1>14. cur = 1 /\ 1 \in 1 .. 1
  BY DEF Init
<1>15. Typed
  BY <1>3, <1>5, <1>6, <1>10, <1>11, <1>12, <1>13, <1>14 DEF Typed
<1> QED BY <1>4, <1>7, <1>8, <1>9, <1>15 DEF IInv

LEMMA NextInv == IInv /\ [Next]_vars => IInv'
<1> SUFFICES ASSUME IInv, [Next]_vars
             PROVE  IInv'
  OBVIOUS
<1>1. CASE UNCHANGED vars
  BY <1>1 DEF vars, IInv, Typed, AllSound
<1>2. ASSUME NEW c \in Clients, Join(c) \/ \E m \in Messages(c) : Receive(c, m)
      PROVE  IInv'
  BY <1>2, JoinKeeps, ReceiveKeeps
<1>3. ASSUME NEW c \in Clients, NoAgent(c) \/ Close(c) \/ Depart(c)
      PROVE  IInv'
  BY <1>3, NoAgentKeeps, CloseKeeps, DepartKeeps
<1>4. ASSUME NEW c \in Clients, HandleAction(c) \/ Refuse(c) \/ HandleUndo(c)
      PROVE  IInv'
  BY <1>4, HandleActionKeeps, RefuseKeeps, HandleUndoKeeps
<1>5. ASSUME NEW c \in Clients, HandleRedo(c) \/ HandleLoad(c) \/ HandleSync(c)
      PROVE  IInv'
  BY <1>5, HandleRedoKeeps, HandleLoadKeeps, HandleSyncKeeps
<1>6. ASSUME NEW c \in Clients, StartWork(c) \/ WorkEdit(c)
      PROVE  IInv'
  BY <1>6, StartWorkKeeps, WorkEditKeeps
<1>7. ASSUME NEW c \in Clients, FinishWork(c) \/ TuneRaises(c)
      PROVE  IInv'
  <2>1. Resuming(c) /\ Reply(c) /\ UNCHANGED online /\ (Goto(c, "ack") \/ Goto(c, "error"))
    BY <1>7 DEF FinishWork, TuneRaises
  <2> QED BY <2>1, ResumeKeeps
<1>8. ASSUME NEW c \in Clients, WorkRaises(c) \/ ReadNodes(c) \/ ReadEdges(c)
      PROVE  IInv'
  BY <1>8, WorkRaisesKeeps, ReadNodesKeeps, ReadEdgesKeeps
<1>9. ASSUME NEW c \in Clients, ReadRaises(c) \/ Deliver(c) \/ SendRaises(c)
      PROVE  IInv'
  BY <1>9, ReadRaisesKeeps, DeliverKeeps, SendRaisesKeeps
<1> QED BY <1>1, <1>2, <1>3, <1>4, <1>5, <1>6, <1>7, <1>8, <1>9 DEF Next

\* Whatever the clients, the agent and the tuner do, and in whatever order: the log of every session there
\* has been rebuilds it, what was undone is there to redo and every slot is known by the add that made it
\* (session.py:136-156); the lock has the coroutines that asked for it, once each, the one that works
\* first (app.py:123, 132, 163); and a coroutine has at most one message on its way (app.py:39-44).
THEOREM Invariance == Spec => []IInv
<1> QED BY InitInv, NextInv, PTL DEF Spec

\* Every piece of the state has its type: no coroutine asks for the lock twice (app.py:163), and a worker is
\* bound to a session there is (app.py:122, 134).
THEOREM TypeCorrect == Spec => []TypeOK
<1>1. IInv => TypeOK
  <2> SUFFICES ASSUME IInv
               PROVE  TypeOK
    OBVIOUS
  <2>1. cur \in DOMAIN sessions /\ \A c \in Clients : conn[c].bound \in DOMAIN sessions
    BY DEF IInv, Typed
  <2>2. IsInjective(lock) /\ ToSet(lock) \subseteq Clients
    <3>1. DOMAIN lock = 1 .. Len(lock) /\ \A k \in 1 .. Len(lock) : lock[k] \in Clients
      BY DEF IInv, Typed
    <3> QED BY <3>1 DEF IInv, LocksOK, IsInjective, ToSet
  <2>3. \A c \in Clients : conn[c].work \in 0 .. MaxWork
    BY DEF IInv, Typed, Coroutines
  <2> QED BY <2>1, <2>2, <2>3 DEF TypeOK, IInv, Typed
<1> QED BY <1>1, Invariance, PTL

\* The log of every session makes its graph again, all the actions undone since are accepted after it, and
\* a node keeps its id through whatever is undone and redone: undo() rebuilds the graph from a shorter log
\* (session.py:136-156), so this is what lets a client go on with the ids it has.
THEOREM LogIsTheGraph == Spec => []LogRebuildsGraph
<1>1. IInv /\ TypeOK => LogRebuildsGraph
  <2> SUFFICES ASSUME IInv, TypeOK
               PROVE  LogRebuildsGraph
    OBVIOUS
  <2>1. ASSUME NEW n \in DOMAIN sessions
        PROVE  /\ Replay(sessions[n].log).ok
               /\ SameGraph(Replay(sessions[n].log).s, sessions[n])
               /\ Replay(sessions[n].log \o Reverse(sessions[n].redo)).ok
               /\ \A i \in DOMAIN sessions[n].slots :
                    idOf[sessions[n].slots[i].stamp] = [session |-> n, id |-> i]
    <3>1. n \in 1 .. Len(sessions) /\ sessions[n] \in Sessions
      BY DEF IInv, Typed
    <3>2. Sound(sessions[n], n, idOf)
      BY <3>1 DEF IInv, AllSound
    <3> DEFINE s == sessions[n]
    <3>3. Replay(s.log).ok /\ SameGraph(Replay(s.log).s, s) /\ Named(s.slots, n, idOf)
      BY <3>2, SoundIs
    <3>4. Replay(s.log \o Reverse(s.redo)).ok
      BY <3>2 DEF Sound, Whole
    <3>5. DOMAIN s.slots = 1 .. Len(s.slots)
      BY <3>1 DEF Sessions
    <3> QED BY <3>3, <3>4, <3>5 DEF Named
  <2> QED BY <2>1 DEF LogRebuildsGraph, SameGraph
<1> QED BY <1>1, Invariance, TypeCorrect, PTL

\* The ids the agent's calls returned are those of its nodes for as long as it works: it has the lock, so
\* no client's undo or load comes between two of its calls (app.py:123-124).
THEOREM AgentKeepsItsIds == Spec => []AgentIdsHold
<1>1. IInv => AgentIdsHold
  BY DEF IInv, AgentsOK, AgentIdsHold, Has
<1> QED BY <1>1, Invariance, PTL
-----------------------------------------------------------------------------
(* The document of a session, loaded again.                                *)

\* A sequence without some elements has the others.
LEMMA WithoutHas ==
  ASSUME NEW S, NEW out, NEW q \in Seq(S)
  PROVE  \A x \in S \ out : (\E i \in 1 .. Len(q) : q[i] = x) =>
           \E k \in 1 .. Len(Without(q, out)) : Without(q, out)[k] = x
<1>0. /\ Without(<<>>, out) = <<>>
      /\ \A r \in Seq(S) : Without(r, out) \in Seq(S \ out)
      /\ \A r \in Seq(S), y \in S : Without(Longer(r, y), out) = Left(Without(r, out), y, out)
  BY WithoutType, WithoutLonger
<1> DEFINE W(r) == Without(r, out)
           Has1(r, x) == \E i \in 1 .. Len(r) : r[i] = x
           T == {r \in Seq(S) : \A x \in S \ out : Has1(r, x) => Has1(W(r), x)}
<1>1. <<>> \in T
  OBVIOUS
<1>2. ASSUME NEW r \in T, NEW y \in S
      PROVE  Append(r, y) \in T
  <2>1. /\ r \in Seq(S) /\ Append(r, y) \in Seq(S) /\ W(r) \in Seq(S \ out)
        /\ W(Append(r, y)) = IF y \in out THEN W(r) ELSE Append(W(r), y)
    BY <1>0, AppendProperties DEF Longer, Left
  <2> DEFINE w == W(r)
             v == W(Append(r, y))
  <2>2. w \in Seq(S \ out) /\ v = IF y \in out THEN w ELSE Append(w, y)
    BY <2>1
  <2>3. \A x \in S \ out : Has1(r, x) => Has1(w, x)
    OBVIOUS
  <2> SUFFICES ASSUME NEW x \in S \ out, Has1(Append(r, y), x)
               PROVE  Has1(v, x)
    BY <2>1
  <2> HIDE DEF w, v, T
  <2>4. CASE y \in out
    <3>1. x # y /\ v = w
      BY <2>2, <2>4
    <3>2. Has1(r, x)
      BY <2>1, <3>1
    <3> QED BY <2>3, <3>1, <3>2
  <2>5. CASE y \notin out /\ x = y
    <3>1. v = Append(w, y) /\ Len(w) \in Nat
      BY <2>2, <2>5
    <3>2. Len(v) = Len(w) + 1 /\ v[Len(w) + 1] = y
      BY <2>2, <2>5, <3>1
    <3> QED BY <2>5, <3>1, <3>2
  <2>6. CASE y \notin out /\ x # y
    <3>1. Has1(r, x)
      BY <2>1, <2>6
    <3>2. PICK k \in 1 .. Len(w) : w[k] = x
      BY <2>3, <3>1
    <3>3. v = Append(w, y) /\ Len(w) \in Nat
      BY <2>2, <2>6
    <3>4. Len(v) = Len(w) + 1 /\ v[k] = x
      BY <2>2, <2>6, <3>2, <3>3
    <3> QED BY <3>2, <3>3, <3>4
  <2> QED BY <2>4, <2>5, <2>6
<1> HIDE DEF W
<1>3. T = Seq(S)
  <2>1. T \in SUBSET Seq(S)
    OBVIOUS
  <2> HIDE DEF T
  <2> QED BY <1>1, <1>2, <2>1, SeqInduction
<1> QED BY <1>3 DEF W

\* Elements in the order of their positions stay so when some are left out.
Rising(q, pos) == \A i, j \in 1 .. Len(q) : i < j => pos[q[i]] < pos[q[j]]

LEMMA WithoutRises ==
  ASSUME NEW S, NEW pos \in [S -> Nat], NEW out, NEW q \in Seq(S), Rising(q, pos)
  PROVE  Rising(Without(q, out), pos)
<1>0. /\ Without(<<>>, out) = <<>>
      /\ \A r \in Seq(S) : Without(r, out) \in Seq(S \ out)
      /\ \A r \in Seq(S), y \in S : Without(Longer(r, y), out) = Left(Without(r, out), y, out)
  BY WithoutType, WithoutLonger
<1> DEFINE W(r) == Without(r, out)
           Below(r, m) == \A i \in 1 .. Len(r) : pos[r[i]] < m
           T == {r \in Seq(S) : Rising(r, pos) => /\ Rising(W(r), pos)
                                                   /\ \A m \in Nat : Below(r, m) => Below(W(r), m)}
<1>1. <<>> \in T
  <2>1. W(<<>>) = <<>>
    BY WithoutType
  <2> QED BY <2>1 DEF Rising
<1>2. ASSUME NEW r \in T, NEW y \in S
      PROVE  Append(r, y) \in T
  <2> DEFINE t == Append(r, y)
             w == W(r)
             v == W(t)
  <2>1. r \in Seq(S) /\ w \in Seq(S \ out) /\ v = IF y \in out THEN w ELSE Append(w, y)
    BY <1>0 DEF Longer, Left
  <2>2. /\ t \in Seq(S) /\ Len(r) \in Nat /\ Len(t) = Len(r) + 1 /\ t[Len(r) + 1] = y
        /\ \A i \in 1 .. Len(r) : t[i] = r[i]
    BY AppendProperties, LenProperties
  <2>3. Rising(r, pos) => Rising(w, pos) /\ \A m \in Nat : Below(r, m) => Below(w, m)
    OBVIOUS
  <2> SUFFICES ASSUME Rising(t, pos)
               PROVE  Rising(v, pos) /\ \A m \in Nat : Below(t, m) => Below(v, m)
    BY <2>2
  <2> HIDE DEF w, v, t, T
  <2>4. Rising(r, pos) /\ Below(r, pos[y])
    <3>1. \A i, j \in 1 .. Len(t) : i < j => pos[t[i]] < pos[t[j]]
      BY DEF Rising
    <3>2. ASSUME NEW i \in 1 .. Len(r)
          PROVE  i \in 1 .. Len(t) /\ Len(r) + 1 \in 1 .. Len(t) /\ i < Len(r) + 1
      BY <2>2
    <3>3. Below(r, pos[y])
      BY <2>2, <3>1, <3>2
    <3> QED BY <2>2, <3>1, <3>2, <3>3 DEF Rising
  <2>5. Rising(w, pos) /\ Below(w, pos[y])
    BY <2>3, <2>4
  <2>6. w \in Seq(S) /\ Len(w) \in Nat /\ \A i \in 1 .. Len(w) : w[i] \in S
    BY <2>1
  <2>7. ASSUME NEW m \in Nat, Below(t, m)
        PROVE  Below(w, m) /\ pos[y] < m
    <3>1. Below(r, m)
      BY <2>2, <2>7
    <3>2. pos[y] < m
      BY <2>2, <2>7
    <3> QED BY <2>3, <2>4, <3>1, <3>2
  <2>8. CASE y \in out
    BY <2>1, <2>5, <2>7, <2>8
  <2>9. CASE y \notin out
    <3>1. v = Append(w, y)
      BY <2>1, <2>9
    <3>2. /\ Len(v) = Len(w) + 1 /\ v[Len(w) + 1] = y
          /\ \A i \in 1 .. Len(w) : v[i] = w[i]
      BY <2>6, <3>1, AppendProperties
    <3>3. ASSUME NEW i \in 1 .. Len(v), NEW j \in 1 .. Len(v), i < j
          PROVE  pos[v[i]] < pos[v[j]]
      <4>1. i \in 1 .. Len(w) /\ v[i] = w[i]
        BY <2>6, <3>2, <3>3
      <4>2. CASE j = Len(w) + 1
        BY <2>5, <3>2, <4>1, <4>2
      <4>3. CASE j # Len(w) + 1
        <5>1. j \in 1 .. Len(w) /\ v[j] = w[j]
          BY <2>6, <3>2, <4>3
        <5> QED BY <2>5, <3>3, <4>1, <5>1 DEF Rising
      <4> QED BY <4>2, <4>3
    <3>4. Rising(v, pos)
      BY <3>3 DEF Rising
    <3>5. ASSUME NEW m \in Nat, Below(t, m)
          PROVE  Below(v, m)
      <4>1. Below(w, m) /\ pos[y] < m
        BY <2>7, <3>5
      <4>2. ASSUME NEW i \in 1 .. Len(v)
            PROVE  pos[v[i]] < m
        <5>1. i = Len(w) + 1 \/ i \in 1 .. Len(w)
          BY <2>6, <3>2
        <5> QED BY <3>2, <4>1, <5>1
      <4> QED BY <4>2
    <3> QED BY <3>4, <3>5
  <2> QED BY <2>8, <2>9
<1> HIDE DEF W
<1>3. T = Seq(S)
  <2>1. T \in SUBSET Seq(S)
    OBVIOUS
  <2> HIDE DEF T
  <2> QED BY <1>1, <1>2, <2>1, SeqInduction
<1> QED BY <1>3 DEF W

\* The order of a sequence of numbers is that of what is left of it.
Increasing(q) == \A i, j \in 1 .. Len(q) : i < j => q[i] < q[j]

LEMMA WithoutIncreases ==
  ASSUME NEW out, NEW q \in Seq(Nat), Increasing(q)
  PROVE  Increasing(Without(q, out))
<1> DEFINE pos == [n \in Nat |-> n]
           w == Without(q, out)
<1>1. pos \in [Nat -> Nat] /\ \A n \in Nat : pos[n] = n
  OBVIOUS
<1>2. w \in Seq(Nat \ out)
  BY WithoutType
<1>3. /\ \A i \in 1 .. Len(q) : q[i] \in Nat
      /\ \A i \in 1 .. Len(w) : w[i] \in Nat
  BY <1>2
<1> HIDE DEF pos
<1>4. Rising(q, pos)
  BY <1>1, <1>3 DEF Increasing, Rising
<1>5. Rising(w, pos)
  BY <1>1, <1>4, WithoutRises
<1> HIDE DEF w
<1>6. Increasing(w)
  BY <1>1, <1>3, <1>5 DEF Increasing, Rising
<1> QED BY <1>6 DEF w

\* A sequence without nothing is the sequence.
LEMMA WithoutNone ==
  ASSUME NEW S, NEW q \in Seq(S)
  PROVE  Without(q, {}) = q
<1>0. /\ Without(<<>>, {}) = <<>>
      /\ \A r \in Seq(S) : Without(r, {}) \in Seq(S \ {})
      /\ \A r \in Seq(S), y \in S : Without(Longer(r, y), {}) = Left(Without(r, {}), y, {})
  BY WithoutType, WithoutLonger
<1> DEFINE T == {r \in Seq(S) : Without(r, {}) = r}
<1>1. <<>> \in T
  BY <1>0
<1>2. ASSUME NEW r \in T, NEW y \in S
      PROVE  Append(r, y) \in T
  <2>1. Without(Append(r, y), {}) = Append(Without(r, {}), y)
    BY <1>0 DEF Longer, Left
  <2> QED BY <2>1, AppendProperties
<1>3. T = Seq(S)
  <2>1. T \in SUBSET Seq(S)
    OBVIOUS
  <2> HIDE DEF T
  <2> QED BY <1>1, <1>2, <2>1, SeqInduction
<1> QED BY <1>3

\* The elements that are left are of the sequence.
LEMMA WithoutIn ==
  ASSUME NEW S, NEW out, NEW q \in Seq(S)
  PROVE  Without(q, out) \in Seq(S)
<1> DEFINE w == Without(q, out)
<1>1. w \in Seq(S \ out)
  BY WithoutType
<1> DEFINE R == S \ out
<1>2. w \in Seq(R) /\ \A x \in R : x \in S
  BY <1>1
<1> HIDE DEF w, R
<1>3. \A k \in 1 .. Len(w) : w[k] \in S
  BY <1>2, LenProperties
<1>4. w \in Seq(S)
  BY <1>2, <1>3
<1> QED BY <1>4 DEF w

\* A graph keeps a record of each of its nodes and edges between them only.
Tied(s) ==
  /\ DOMAIN s.records = Live(s)
  /\ \A k \in 1 .. Len(s.edges) : s.edges[k] \in Live(s) \X Live(s)

LEMMA ExecTied ==
  ASSUME NEW s \in Sessions, NEW a \in Actions, Tied(s), Accepts(s, a)
  PROVE  Tied(Exec(s, a))
<1> DEFINE t == Exec(s, a)
<1> SUFFICES Tied(t)
  OBVIOUS
<1>1. /\ DOMAIN s.slots = 1 .. Len(s.slots) /\ Len(s.slots) \in Nat
      /\ s.slots \in Seq(Slots) /\ s.edges \in Seq(Nat \X Nat) /\ Len(s.edges) \in Nat
  BY DEF Sessions
<1>2. /\ DOMAIN s.records = Live(s)
      /\ \A k \in 1 .. Len(s.edges) : s.edges[k] \in Live(s) \X Live(s)
  BY DEF Tied
<1>3. CASE a.op = "add"
  <2> DEFINE id == Len(s.slots) + 1
             new == [kind |-> a.kind, stamp |-> a.stamp, live |-> TRUE]
  <2>1. t.slots = Append(s.slots, new) /\ t.edges = s.edges /\ DOMAIN t.records = DOMAIN s.records \union {id}
    <3>1. /\ t.slots = Append(s.slots, new) /\ t.edges = s.edges
          /\ t.records = [i \in DOMAIN s.records \union {id} |->
                            IF i = id THEN [kind |-> a.kind, param |-> Unset] ELSE s.records[i]]
      BY <1>3, AddIs
    <3> QED BY <3>1
  <2>2. new.live
    OBVIOUS
  <2> HIDE DEF t, new
  <2>3. Live(t) = Live(s) \union {id}
    <3>1. /\ DOMAIN t.slots = 1 .. id /\ t.slots[id] = new
          /\ \A i \in 1 .. Len(s.slots) : t.slots[i] = s.slots[i]
      BY <1>1, <2>1
    <3>2. 1 .. id = 1 .. Len(s.slots) \union {id}
      BY <1>1
    <3> QED BY <1>1, <2>2, <3>1, <3>2 DEF Live
  <2> QED BY <1>2, <2>1, <2>3 DEF Tied
<1>4. CASE a.op = "remove"
  <2> DEFINE out == {e \in ToSet(s.edges) : a.id \in {e[1], e[2]}}
             w == Without(s.edges, out)
             E == ToSet(s.edges)
  <2>1. /\ a.id \in 1 .. Len(s.slots) /\ t.slots = [s.slots EXCEPT ![a.id].live = FALSE]
        /\ t.edges = w /\ DOMAIN t.records = DOMAIN s.records \ {a.id}
    <3>1. t.records = [i \in DOMAIN s.records \ {a.id} |-> s.records[i]]
      BY <1>4, RemoveIs
    <3>2. DOMAIN t.records = DOMAIN s.records \ {a.id}
      BY <3>1
    <3>3. /\ a.id \in 1 .. Len(s.slots) /\ t.slots = [s.slots EXCEPT ![a.id].live = FALSE]
          /\ t.edges = w
      BY <1>4, RemoveIs
    <3> QED BY <3>2, <3>3
  <2> HIDE DEF t, w
  <2>2. Live(t) = Live(s) \ {a.id}
    <3>1. /\ DOMAIN t.slots = DOMAIN s.slots /\ t.slots[a.id].live = FALSE
          /\ \A i \in DOMAIN s.slots \ {a.id} : t.slots[i] = s.slots[i]
      BY <1>1, <2>1
    <3> QED BY <1>1, <2>1, <3>1 DEF Live
  <2>3. w \in Seq(E \ out)
    <3>0. \A k \in 1 .. Len(s.edges) : s.edges[k] \in E
      BY <1>1 DEF ToSet
    <3>1. s.edges \in Seq(E)
      <4> DEFINE q == s.edges
                 P == Nat \X Nat
      <4>2. q \in Seq(P) /\ \A k \in 1 .. Len(q) : q[k] \in E
        BY <1>1, <3>0
      <4> HIDE DEF q, P, E
      <4>3. q \in Seq(E)
        BY <4>2
      <4> QED BY <4>3 DEF q
    <3> HIDE DEF E, out
    <3> QED BY <3>1, WithoutType DEF w
  <2>4. ASSUME NEW k \in 1 .. Len(w)
        PROVE  w[k] \in Live(t) \X Live(t)
    <3>1. w[k] \in E \ out
      <4> HIDE DEF E, out
      <4> QED BY <2>3, LenProperties
    <3>2. PICK j \in 1 .. Len(s.edges) : w[k] = s.edges[j]
      <4>1. DOMAIN s.edges = 1 .. Len(s.edges)
        BY <1>1
      <4>2. \A e \in E : \E j \in DOMAIN s.edges : e = s.edges[j]
        BY DEF ToSet
      <4> QED BY <3>1, <4>1, <4>2
    <3>3. w[k] \in Live(s) \X Live(s)
      BY <1>2, <3>2
    <3>4. PICK x \in Live(s), y \in Live(s) : w[k] = <<x, y>>
      BY <3>3
    <3>5. a.id # x /\ a.id # y
      BY <3>1, <3>4
    <3> QED BY <2>2, <3>4, <3>5
  <2> QED BY <1>2, <2>1, <2>2, <2>4 DEF Tied
<1>5. CASE a.op = "connect"
  <2>1. t.slots = s.slots /\ t.edges = Append(s.edges, <<a.id, a.dst>>) /\ t.records = s.records
    BY <1>5, ConnectIs
  <2> HIDE DEF t
  <2>2. Live(t) = Live(s)
    BY <2>1 DEF Live
  <2>3. <<a.id, a.dst>> \in Live(s) \X Live(s)
    BY <1>5 DEF Accepts
  <2>4. \A k \in 1 .. Len(t.edges) : t.edges[k] \in Live(s) \X Live(s)
    <3>1. Len(t.edges) = Len(s.edges) + 1 /\ t.edges[Len(s.edges) + 1] = <<a.id, a.dst>>
      BY <1>1, <2>1
    <3>2. \A k \in 1 .. Len(s.edges) : t.edges[k] = s.edges[k]
      BY <1>1, <2>1
    <3>3. \A k \in 1 .. Len(t.edges) : k \in 1 .. Len(s.edges) \/ k = Len(s.edges) + 1
      BY <1>1, <3>1
    <3> QED BY <1>2, <2>3, <3>1, <3>2, <3>3
  <2> QED BY <1>2, <2>1, <2>2, <2>4 DEF Tied
<1>6. CASE a.op = "disconnect"
  <2> DEFINE L == Live(s) \X Live(s)
             w == Without(s.edges, {<<a.id, a.dst>>})
  <2>1. t.slots = s.slots /\ t.edges = w /\ t.records = s.records
    BY <1>6, DisconnectIs
  <2> HIDE DEF t, w
  <2>2. Live(t) = Live(s)
    BY <2>1 DEF Live
  <2>3. w \in Seq(L)
    <3>1. s.edges \in Seq(L)
      <4>1. \A k \in 1 .. Len(s.edges) : s.edges[k] \in L
        BY <1>2
      <4> DEFINE q == s.edges
                 P == Nat \X Nat
      <4>2. q \in Seq(P) /\ \A k \in 1 .. Len(q) : q[k] \in L
        BY <1>1, <4>1
      <4> HIDE DEF q, P, L
      <4>3. q \in Seq(L)
        BY <4>2
      <4> QED BY <4>3 DEF q
    <3> HIDE DEF L
    <3> QED BY <3>1, WithoutIn DEF w
  <2>4. \A k \in 1 .. Len(w) : w[k] \in L
    <3> HIDE DEF L
    <3> QED BY <2>3, LenProperties
  <2> QED BY <1>2, <2>1, <2>2, <2>4 DEF Tied
<1>7. CASE a.op = "set"
  <2>1. t.slots = s.slots /\ t.edges = s.edges /\ t.records = [s.records EXCEPT ![a.id].param = a.value]
    BY <1>7, SetIs
  <2>2. DOMAIN t.records = DOMAIN s.records
    BY <2>1
  <2> HIDE DEF t
  <2>3. Live(t) = Live(s)
    BY <2>1 DEF Live
  <2> QED BY <1>2, <2>1, <2>2, <2>3 DEF Tied
<1>8. a.op \in {"add", "remove", "connect", "disconnect", "set"}
  BY DEF Actions
<1> QED BY <1>3, <1>4, <1>5, <1>6, <1>7, <1>8

LEMMA ReplayTied ==
  ASSUME NEW q \in Seq(Actions), Replay(q).ok
  PROVE  Tied(Replay(q).s)
<1> DEFINE T == {r \in Seq(Actions) : Replay(r).ok => Tied(Replay(r).s)}
<1>1. <<>> \in T
  <2>1. Replay(<<>>).s = Blank
    BY ReplayFacts DEF Begun
  <2>2. Blank.slots = <<>> /\ Blank.edges = <<>> /\ Blank.records = <<>>
    BY DEF Blank
  <2>3. Live(Blank) = {} /\ DOMAIN Blank.records = {} /\ Len(Blank.edges) = 0
    BY <2>2 DEF Live
  <2>4. Tied(Blank)
    BY <2>3 DEF Tied
  <2>5. <<>> \in Seq(Actions)
    OBVIOUS
  <2> QED BY <2>1, <2>4, <2>5
<1>2. ASSUME NEW r \in T, NEW a \in Actions
      PROVE  Append(r, a) \in T
  <2> DEFINE before == Replay(r)
             after == Replay(Append(r, a))
  <2>1. r \in Seq(Actions) /\ Append(r, a) \in Seq(Actions)
    BY AppendProperties
  <2>2. before \in Replays /\ after = Replayed(before, a)
    BY <2>1, ReplayFacts
  <2> SUFFICES ASSUME after.ok PROVE Tied(after.s)
    BY <2>1
  <2>3. before.ok => Tied(before.s)
    OBVIOUS
  <2> HIDE DEF before, after, T
  <2>4. before.s \in Sessions
    BY <2>2 DEF Replays
  <2>5. before.ok /\ Accepts(before.s, a) /\ after.s = Exec(before.s, a)
    BY <2>2, ReplayedIs
  <2> QED BY <2>3, <2>4, <2>5, ExecTied
<1>3. T = Seq(Actions)
  <2>1. T \in SUBSET Seq(Actions)
    OBVIOUS
  <2> HIDE DEF T
  <2> QED BY <1>1, <1>2, <2>1, SeqInduction
<1> QED BY <1>3

LEMMA SoundTied ==
  ASSUME NEW s, NEW n, NEW ids, Sound(s, n, ids)
  PROVE  Tied(s)
<1>1. Replay(s.log).ok /\ SameGraph(Replay(s.log).s, s) /\ s.log \in Seq(Actions)
  BY SoundIs DEF Sound, Sessions
<1>2. Tied(Replay(s.log).s)
  BY <1>1, ReplayTied
<1> QED BY <1>1, <1>2 DEF Tied, SameGraph, Live

\* What a document keeps of a node, and where an edge of it goes in the new session.
RecordOf(x) == [kind |-> x.kind, param |-> x.param]
EdgeOf(doc, e) == <<IdMap(doc, e[1]), IdMap(doc, e[2])>>

\* The last node of t is x, loaded into s.
Loaded(s, t, x) ==
  /\ t.edges = s.edges /\ DOMAIN t.records = DOMAIN s.records \union {Len(s.slots) + 1}
  /\ t.records[Len(s.slots) + 1] = RecordOf(x)
  /\ \A i \in DOMAIN s.records \ {Len(s.slots) + 1} : t.records[i] = s.records[i]

LEMMA LoadNodeRecords ==
  ASSUME NEW n, NEW from \in Nat, NEW s \in Loading(n, from), NEW x \in Loadable
  PROVE  Loaded(s, LoadNode(s, x, from), x)
<1> DEFINE id == Len(s.slots) + 1
           a == [AddNode(x.kind) EXCEPT !.stamp = from + id]
           t == Apply(s, a)
<1>1. s \in Sessions /\ Len(s.slots) \in Nat
  BY DEF Loading, Sessions
<1>2. from + id \in Nat
  BY <1>1
<1>3. a \in Actions /\ a.op = "add" /\ x.kind \in Kinds
  BY <1>2, ActionTypes DEF Loadable
<1>4. a.kind = x.kind
  BY DEF AddNode, NoAction
<1>5. Accepts(s, a)
  BY <1>3, <1>4 DEF Accepts
<1>6. t \in Sessions /\ SameGraph(t, Exec(s, a))
  <2> HIDE DEF a
  <2> QED BY <1>1, <1>3, <1>5, ApplyIs
<1>7. /\ t.edges = s.edges /\ DOMAIN t.records = DOMAIN s.records \union {id}
      /\ t.records[id] = [kind |-> x.kind, param |-> Unset]
      /\ \A i \in DOMAIN s.records \ {id} : t.records[i] = s.records[i]
  <2> HIDE DEF a
  <2>1. /\ Exec(s, a).edges = s.edges
        /\ Exec(s, a).records = [i \in DOMAIN s.records \union {Len(s.slots) + 1} |->
              IF i = Len(s.slots) + 1 THEN [kind |-> a.kind, param |-> Unset] ELSE s.records[i]]
    BY <1>1, <1>3, <1>5, AddIs
  <2> HIDE DEF t
  <2> QED BY <1>4, <1>6, <2>1 DEF SameGraph
<1>8. CASE x.param = Unset
  <2>1. LoadNode(s, x, from) = t
    BY <1>8 DEF LoadNode
  <2> HIDE DEF t
  <2> QED BY <1>7, <1>8, <2>1 DEF Loaded, RecordOf
<1>9. CASE x.param # Unset
  <2> DEFINE v == x.param
             b == SetParam(id, v)
             u == Apply(t, b)
  <2>1. LoadNode(s, x, from) = u
    BY <1>9 DEF LoadNode
  <2>2. b \in Actions /\ b.op = "set" /\ b.id = id /\ b.value = v
    <3>1. v \in Params
      BY DEF Loadable, Nodes
    <3>2. id \in Nat
      BY <1>1
    <3> HIDE DEF v, id
    <3> QED BY <3>1, <3>2, ActionTypes
  <2> HIDE DEF b, t, v
  <2>3. Accepts(t, b)
    BY <1>7, <2>2 DEF Accepts
  <2>4. SameGraph(u, Exec(t, b))
    BY <1>6, <2>2, <2>3, ApplyIs
  <2>5. /\ Exec(t, b).edges = t.edges
        /\ Exec(t, b).records = [t.records EXCEPT ![b.id].param = b.value]
    BY <1>6, <2>2, <2>3, SetIs
  <2> HIDE DEF u
  <2>6. u.edges = t.edges /\ u.records = [t.records EXCEPT ![id].param = v]
    BY <2>2, <2>4, <2>5 DEF SameGraph
  <2> DEFINE r == t.records
             p == u.records
             k == x.kind
  <2>7. p = [r EXCEPT ![id].param = v] /\ r[id] = [kind |-> k, param |-> Unset] /\ id \in DOMAIN r
    BY <1>7, <2>6
  <2> HIDE DEF r, p, k, id
  <2>8. DOMAIN p = DOMAIN r /\ p[id] = [kind |-> k, param |-> v] /\ \A i \in DOMAIN r \ {id} : p[i] = r[i]
    BY <2>7
  <2>9. /\ DOMAIN u.records = DOMAIN t.records /\ u.records[id] = RecordOf(x)
        /\ \A i \in DOMAIN t.records \ {id} : u.records[i] = t.records[i]
    BY <2>8 DEF r, p, k, v, RecordOf
  <2>10. /\ u.edges = s.edges /\ DOMAIN u.records = DOMAIN s.records \union {id}
         /\ \A i \in DOMAIN s.records \ {id} : u.records[i] = s.records[i]
    BY <1>7, <2>6, <2>9
  <2> QED BY <2>1, <2>9, <2>10 DEF Loaded, id
<1> QED BY <1>8, <1>9

\* The nodes of q are those of s, and there is no edge yet.
Filled(s, q) ==
  /\ s.edges = <<>> /\ DOMAIN s.records = 1 .. Len(q)
  /\ \A k \in 1 .. Len(q) : s.records[k] = RecordOf(q[k])

LEMMA FilledOn ==
  ASSUME NEW s, NEW q \in Seq(Loadable), NEW x \in Loadable, NEW t, Filled(s, q), Len(s.slots) = Len(q),
         Loaded(s, t, x)
  PROVE  Filled(t, Longer(q, x))
<1> DEFINE p == Longer(q, x)
<1>1. /\ Len(q) \in Nat /\ Len(p) = Len(q) + 1 /\ p[Len(q) + 1] = x
      /\ \A k \in 1 .. Len(q) : p[k] = q[k]
  BY AppendProperties, LenProperties DEF Longer
<1> SUFFICES Filled(t, p)
  OBVIOUS
<1> HIDE DEF p
<1>2. 1 .. Len(p) = 1 .. Len(q) \union {Len(q) + 1} /\ \A k \in 1 .. Len(q) : k # Len(q) + 1
  BY <1>1
<1> QED BY <1>1, <1>2 DEF Filled, Loaded

LEMMA NodesFilled ==
  ASSUME NEW n, NEW from \in Nat, NEW q \in Seq(Loadable)
  PROVE  Filled(LoadNodes(Blank, from, q), q)
<1> DEFINE U == Loading(n, from)
           F == NodesStep(U, from)
           Done(r) == Total(F, Blank, r)
           T == {r \in Seq(Loadable) : Filled(Done(r), r)}
<1>1. \A s \in U, x \in Loadable : LoadNode(s, x, from) \in U /\ Loaded(s, LoadNode(s, x, from), x)
  BY LoadNodeIs, LoadNodeRecords
<1>2. Blank \in U
  BY BlankLoading
<1>3. \A r \in Seq(Loadable) : Len(LoadNodes(Blank, from, r).slots) = Len(r)
  BY NodesLoaded
<1> HIDE DEF U
<1>4. F \in Steps(U, Loadable) /\ \A s \in U, x \in Loadable : F[<<s, x>>] = LoadNode(s, x, from)
  BY <1>1 DEF NodesStep, Steps
<1>5. \A r \in Seq(Loadable) : LoadNodes(Blank, from, r) = Done(r)
  BY <1>1, <1>2, NodesIs
<1> HIDE DEF F
<1>6. /\ Done(<<>>) = Blank
      /\ \A r \in Seq(Loadable) : Done(r) \in U
      /\ \A r \in Seq(Loadable), x \in Loadable : Done(Append(r, x)) = F[<<Done(r), x>>]
  BY <1>2, <1>4, TotalIs
<1>7. \A r \in Seq(Loadable) : Len(Done(r).slots) = Len(r)
  BY <1>3, <1>5
<1> HIDE DEF Done
<1>8. <<>> \in T
  <2>1. Filled(Blank, <<>>)
    BY DEF Filled, Blank
  <2>2. <<>> \in Seq(Loadable)
    OBVIOUS
  <2> QED BY <1>6, <2>1, <2>2
<1>9. ASSUME NEW r \in T, NEW x \in Loadable
      PROVE  Append(r, x) \in T
  <2>1. r \in Seq(Loadable) /\ Append(r, x) \in Seq(Loadable) /\ Filled(Done(r), r)
    BY AppendProperties
  <2>2. Done(Append(r, x)) = LoadNode(Done(r), x, from) /\ Done(r) \in U
    BY <1>4, <1>6, <2>1
  <2> DEFINE t == Done(Append(r, x))
  <2>3. Loaded(Done(r), t, x)
    BY <1>1, <2>2
  <2> HIDE DEF t, T
  <2>4. Filled(t, Longer(r, x))
    BY <1>7, <2>1, <2>3, FilledOn
  <2> QED BY <2>1, <2>4 DEF T, t, Longer
<1>10. T = Seq(Loadable)
  <2>1. T \in SUBSET Seq(Loadable)
    OBVIOUS
  <2> HIDE DEF T
  <2> QED BY <1>8, <1>9, <2>1, SeqInduction
<1>11. Filled(Done(q), q)
  BY <1>10
<1> QED BY <1>5, <1>11

\* The last edge of t is e, loaded into s.
Attached(s, t, doc, e) ==
  t.slots = s.slots /\ t.records = s.records /\ t.edges = Longer(s.edges, EdgeOf(doc, e))

LEMMA LoadEdgeAttaches ==
  ASSUME NEW n, NEW from \in Nat, NEW s \in Loading(n, from), NEW doc, NEW e,
         doc.nodes \in Seq(Nodes), Len(s.slots) = Len(doc.nodes),
         {e[1], e[2]} \subseteq {doc.nodes[k].id : k \in DOMAIN doc.nodes}
  PROVE  Attached(s, LoadEdge(s, doc, e), doc, e)
<1> DEFINE i == IdMap(doc, e[1])
           j == IdMap(doc, e[2])
           a == Connect(i, j)
           u == Apply(s, a)
<1>1. i \in DOMAIN doc.nodes /\ j \in DOMAIN doc.nodes
  <2>1. \E k \in DOMAIN doc.nodes : doc.nodes[k].id = e[1]
    OBVIOUS
  <2>2. \E k \in DOMAIN doc.nodes : doc.nodes[k].id = e[2]
    OBVIOUS
  <2> QED BY <2>1, <2>2 DEF IdMap
<1>2. LoadEdge(s, doc, e) = u /\ EdgeOf(doc, e) = <<i, j>>
  BY DEF LoadEdge, EdgeOf
<1> HIDE DEF i, j
<1>3. s \in Sessions
  BY DEF Loading
<1>4. i \in 1 .. Len(s.slots) /\ j \in 1 .. Len(s.slots) /\ i \in Nat /\ j \in Nat
  BY <1>1
<1>5. a \in Actions /\ a.op = "connect" /\ a.id = i /\ a.dst = j
  BY <1>4, ActionTypes
<1>6. Accepts(s, a)
  BY <1>4, <1>5 DEF Accepts, Loading
<1> HIDE DEF a
<1>7. SameGraph(u, Exec(s, a))
  BY <1>3, <1>5, <1>6, ApplyIs
<1>8. /\ Exec(s, a).slots = s.slots /\ Exec(s, a).records = s.records
      /\ Exec(s, a).edges = Append(s.edges, <<a.id, a.dst>>)
  BY <1>3, <1>5, ConnectIs
<1> HIDE DEF u
<1>9. u.slots = s.slots /\ u.records = s.records /\ u.edges = Append(s.edges, <<i, j>>)
  BY <1>5, <1>7, <1>8 DEF SameGraph
<1> QED BY <1>2, <1>9 DEF Attached, Longer

\* The edges of t are those of q, and all else is as in s.
Wired(s, t, doc, q) ==
  /\ t.slots = s.slots /\ t.records = s.records
  /\ t.edges \in Seq(Nat \X Nat) /\ Len(t.edges) = Len(q)
  /\ \A k \in 1 .. Len(q) : t.edges[k] = EdgeOf(doc, q[k])

LEMMA WiredOn ==
  ASSUME NEW s, NEW X, NEW q \in Seq(X), NEW e \in X, NEW t, NEW u, NEW doc, Wired(s, t, doc, q),
         u.edges \in Seq(Nat \X Nat), Attached(t, u, doc, e)
  PROVE  Wired(s, u, doc, Longer(q, e))
<1> DEFINE p == Longer(q, e)
           P == Nat \X Nat
           w == t.edges
           v == u.edges
           x == EdgeOf(doc, e)
<1>1. w \in Seq(P) /\ Len(w) = Len(q) /\ v = Append(w, x) /\ v \in Seq(P)
  BY DEF Wired, Attached, Longer
<1>2. /\ Len(q) \in Nat /\ Len(p) = Len(q) + 1 /\ p[Len(q) + 1] = e
      /\ \A k \in 1 .. Len(q) : p[k] = q[k]
  BY AppendProperties, LenProperties DEF Longer
<1> SUFFICES Wired(s, u, doc, p)
  OBVIOUS
<1>3. \A k \in 1 .. Len(q) : w[k] = EdgeOf(doc, q[k])
  BY DEF Wired
<1> HIDE DEF p, P, w, v, x
<1>4. Len(v) = Len(w) + 1 /\ v[Len(w) + 1] = x /\ \A k \in 1 .. Len(w) : v[k] = w[k]
  BY <1>1
<1>5. Len(v) = Len(p) /\ \A k \in 1 .. Len(p) : v[k] = EdgeOf(doc, p[k])
  <2>1. \A k \in 1 .. Len(p) : k \in 1 .. Len(q) \/ k = Len(q) + 1
    BY <1>2
  <2> QED BY <1>1, <1>2, <1>3, <1>4, <2>1 DEF x
<1> QED BY <1>1, <1>5 DEF Wired, Attached, v, P

LEMMA EdgesWired ==
  ASSUME NEW n, NEW from \in Nat, NEW doc, doc.nodes \in Seq(Nodes),
         NEW base \in Loading(n, from), Len(base.slots) = Len(doc.nodes), base.edges = <<>>,
         NEW q \in Seq({e \in Nat \X Nat : {e[1], e[2]} \subseteq {doc.nodes[k].id : k \in DOMAIN doc.nodes}})
  PROVE  Wired(base, LoadEdges(base, doc, q), doc, q)
<1> DEFINE U == {s \in Loading(n, from) : Len(s.slots) = Len(doc.nodes)}
           X == {e \in Nat \X Nat : {e[1], e[2]} \subseteq {doc.nodes[k].id : k \in DOMAIN doc.nodes}}
           F == EdgesStep(U, X, doc)
           Done(r) == Total(F, base, r)
           T == {r \in Seq(X) : Wired(base, Done(r), doc, r)}
<1>1. ASSUME NEW s \in U, NEW e \in X
      PROVE  LoadEdge(s, doc, e) \in U /\ Attached(s, LoadEdge(s, doc, e), doc, e)
  <2>1. s \in Loading(n, from) /\ Len(s.slots) = Len(doc.nodes)
    OBVIOUS
  <2>2. {e[1], e[2]} \subseteq {doc.nodes[k].id : k \in DOMAIN doc.nodes}
    OBVIOUS
  <2>3. LoadEdge(s, doc, e) \in Loading(n, from) /\ Len(LoadEdge(s, doc, e).slots) = Len(s.slots)
    <3> HIDE DEF U, X, F
    <3> QED BY <2>1, <2>2, LoadEdgeIs
  <2>4. Attached(s, LoadEdge(s, doc, e), doc, e)
    <3> HIDE DEF U, X, F
    <3> QED BY <2>1, <2>2, LoadEdgeAttaches
  <2> QED BY <2>1, <2>3, <2>4
<1>2. base \in U /\ q \in Seq(X)
  OBVIOUS
<1>3. \A s \in U : s.edges \in Seq(Nat \X Nat)
  BY DEF Loading, Sessions
<1> HIDE DEF U, X
<1>4. F \in Steps(U, X) /\ \A s \in U, e \in X : F[<<s, e>>] = LoadEdge(s, doc, e)
  BY <1>1 DEF EdgesStep, Steps
<1>5. LoadEdges(base, doc, q) = Done(q)
  BY <1>1, <1>2, EdgesIs
<1> HIDE DEF F
<1>6. /\ Done(<<>>) = base
      /\ \A r \in Seq(X) : Done(r) \in U
      /\ \A r \in Seq(X), e \in X : Done(Append(r, e)) = F[<<Done(r), e>>]
  BY <1>2, <1>4, TotalIs
<1> HIDE DEF Done
<1>7. <<>> \in T
  <2>1. Wired(base, base, doc, <<>>)
    BY DEF Wired
  <2>2. <<>> \in Seq(X)
    OBVIOUS
  <2> QED BY <1>6, <2>1, <2>2
<1>8. ASSUME NEW r \in T, NEW e \in X
      PROVE  Append(r, e) \in T
  <2>1. r \in Seq(X) /\ Append(r, e) \in Seq(X) /\ Wired(base, Done(r), doc, r)
    BY AppendProperties
  <2> DEFINE t == Done(r)
             u == Done(Append(r, e))
  <2>2. u = LoadEdge(t, doc, e) /\ t \in U /\ u \in U
    BY <1>4, <1>6, <2>1
  <2>3. Attached(t, u, doc, e) /\ u.edges \in Seq(Nat \X Nat) /\ Wired(base, t, doc, r)
    BY <1>1, <1>3, <2>1, <2>2
  <2> HIDE DEF t, u, T
  <2>4. Wired(base, u, doc, Longer(r, e))
    BY <2>1, <2>3, WiredOn
  <2> QED BY <2>1, <2>4 DEF T, u, Longer
<1>9. T = Seq(X)
  <2>1. T \in SUBSET Seq(X)
    OBVIOUS
  <2> HIDE DEF T
  <2> QED BY <1>7, <1>8, <2>1, SeqInduction
<1>10. Wired(base, Done(q), doc, q)
  BY <1>2, <1>9
<1> QED BY <1>5, <1>10

\* Where an id stands in a document whose ids increase.
Rank(doc, id) == Cardinality({k \in DOMAIN doc.nodes : doc.nodes[k].id <= id})
Climbing(q) == \A i, j \in 1 .. Len(q) : i < j => q[i].id < q[j].id

LEMMA RankIs ==
  ASSUME NEW doc, doc.nodes \in Seq(Nodes), Climbing(doc.nodes), NEW k \in 1 .. Len(doc.nodes)
  PROVE  Rank(doc, doc.nodes[k].id) = k /\ IdMap(doc, doc.nodes[k].id) = k
<1> DEFINE q == doc.nodes
<1>1. /\ DOMAIN q = 1 .. Len(q) /\ Len(q) \in Nat /\ k \in 1 .. Len(q)
      /\ \A i \in 1 .. Len(q) : q[i].id \in Nat
  <2>1. q \in Seq(Nodes) /\ \A x \in Nodes : x.id \in Nat
    BY DEF Nodes
  <2> HIDE DEF q
  <2>2. \A i \in 1 .. Len(q) : q[i] \in Nodes
    BY <2>1
  <2> QED BY <2>1, <2>2 DEF q
<1>2. \A i, j \in 1 .. Len(q) : i < j => q[i].id < q[j].id
  BY DEF Climbing
<1>3. ASSUME NEW j \in 1 .. Len(q)
      PROVE  (q[j].id <= q[k].id <=> j <= k) /\ (q[j].id = q[k].id => j = k)
  <2> HIDE DEF q
  <2>1. j < k => q[j].id < q[k].id
    BY <1>1, <1>2
  <2>2. k < j => q[k].id < q[j].id
    BY <1>1, <1>2
  <2>3. q[j].id \in Nat /\ q[k].id \in Nat /\ j \in Nat /\ k \in Nat
    BY <1>1
  <2> QED BY <2>1, <2>2, <2>3
<1>4. Rank(doc, q[k].id) = Cardinality({j \in DOMAIN q : q[j].id <= q[k].id})
  BY DEF Rank
<1>5. IdMap(doc, q[k].id) = CHOOSE j \in DOMAIN q : q[j].id = q[k].id
  BY DEF IdMap
<1> HIDE DEF q
<1>6. {j \in DOMAIN q : q[j].id <= q[k].id} = 1 .. k
  <2>1. \A j \in 1 .. Len(q) : j <= k <=> j \in 1 .. k
    BY <1>1
  <2>2. \A j \in 1 .. k : j \in 1 .. Len(q)
    BY <1>1
  <2> QED BY <1>1, <1>3, <2>1, <2>2
<1>7. Cardinality(1 .. k) = k
  BY <1>1, FS_Interval
<1>8. (CHOOSE j \in DOMAIN q : q[j].id = q[k].id) = k
  BY <1>1, <1>3
<1> QED BY <1>4, <1>5, <1>6, <1>7, <1>8 DEF q

\* The document of a session has its live nodes in the order of their ids.
LEMMA DocumentClimbs ==
  ASSUME NEW s \in Sessions, Tied(s)
  PROVE  /\ DocNodes(s) \in Seq(Loadable) /\ Climbing(DocNodes(s))
         /\ \A i \in Live(s) : \E k \in 1 .. Len(DocNodes(s)) : DocNodes(s)[k].id = i
<1> DEFINE S == 1 .. Len(s.slots)
           all == [i \in S |-> i]
           out == S \ (DOMAIN s.records \intersect Live(s))
           ids == Without(all, out)
           q == DocNodes(s)
<1>1. DOMAIN s.slots = S /\ Len(s.slots) \in Nat /\ s.records \in Maps
  BY DEF Sessions
<1>2. q = [k \in DOMAIN ids |-> [id |-> ids[k], kind |-> s.records[ids[k]].kind,
                                 param |-> s.records[ids[k]].param]]
  BY <1>1 DEF DocNodes
<1>3. /\ all \in Seq(S) /\ all \in Seq(Nat) /\ Len(all) = Len(s.slots)
      /\ \A i \in S : all[i] = i
  BY <1>1
<1>4. Live(s) \subseteq S /\ DOMAIN s.records = Live(s) /\ \A i \in Live(s) : i \in S \ out
  BY <1>1 DEF Live, Tied
<1>5. \A i \in S \ out : i \in Live(s) /\ i \in Nat /\ s.records[i] \in Records
  BY <1>1, <1>4, Mapped
<1>6. q \in Seq(Nodes)
  BY DocumentIs
<1> HIDE DEF q, all, out
<1>7. /\ ids \in Seq(S \ out)
      /\ \A x \in S \ out : (\E i \in 1 .. Len(all) : all[i] = x) =>
           \E k \in 1 .. Len(ids) : ids[k] = x
  <2> HIDE DEF S
  <2>1. ids \in Seq(S \ out)
    BY <1>3, WithoutType
  <2>2. \A x \in S \ out : (\E i \in 1 .. Len(all) : all[i] = x) =>
          \E k \in 1 .. Len(ids) : ids[k] = x
    BY <1>3, WithoutHas
  <2> QED BY <2>1, <2>2
<1>8. Increasing(ids)
  <2>1. Increasing(all)
    BY <1>3 DEF Increasing
  <2> QED BY <1>3, <2>1, WithoutIncreases
<1> DEFINE R == S \ out
<1>9. DOMAIN ids = 1 .. Len(ids) /\ Len(ids) \in Nat /\ \A k \in 1 .. Len(ids) : ids[k] \in R
  <2>1. ids \in Seq(R)
    BY <1>7
  <2> HIDE DEF ids, R
  <2> QED BY <2>1
<1> HIDE DEF ids
<1>10. /\ DOMAIN q = 1 .. Len(ids)
       /\ \A k \in 1 .. Len(ids) : q[k].id = ids[k] /\ q[k].kind = s.records[ids[k]].kind
  BY <1>2, <1>9
<1>11. Len(q) = Len(ids)
  <2>1. Len(q) \in Nat /\ DOMAIN q = 1 .. Len(q)
    BY <1>6
  <2> QED BY <1>9, <1>10, <2>1
<1>12. \A k \in 1 .. Len(q) : q[k] \in Loadable
  <2>1. \A k \in 1 .. Len(q) : q[k] \in Nodes
    BY <1>6
  <2>2. \A k \in 1 .. Len(q) : q[k].kind \in Kinds
    BY <1>5, <1>9, <1>10, <1>11 DEF Records
  <2> QED BY <2>1, <2>2 DEF Loadable
<1>13. q \in Seq(Loadable)
  BY <1>6, <1>12
<1>14. Climbing(q)
  BY <1>8, <1>10, <1>11 DEF Increasing, Climbing
<1>15. \A i \in Live(s) : \E k \in 1 .. Len(q) : q[k].id = i
  <2> TAKE i \in Live(s)
  <2>1. i \in S \ out /\ i \in 1 .. Len(all) /\ all[i] = i
    BY <1>1, <1>3, <1>4
  <2>2. PICK k \in 1 .. Len(ids) : ids[k] = i
    BY <1>7, <2>1
  <2> QED BY <1>10, <1>11, <2>2
<1> QED BY <1>13, <1>14, <1>15 DEF q

\* The document of a session without a gap: node k is the k-th.
LEMMA DocumentWhole ==
  ASSUME NEW s \in Sessions, Live(s) = 1 .. Len(s.slots), DOMAIN s.records = Live(s)
  PROVE  DocNodes(s) = [k \in 1 .. Len(s.slots) |-> [id |-> k, kind |-> s.records[k].kind,
                                                    param |-> s.records[k].param]]
<1> DEFINE S == 1 .. Len(s.slots)
           all == [i \in S |-> i]
<1>1. DOMAIN s.slots = S /\ Len(s.slots) \in Nat
  BY DEF Sessions
<1>2. all \in Seq(S) /\ DOMAIN all = S /\ \A i \in S : all[i] = i
  BY <1>1
<1>3. S \ (DOMAIN s.records \intersect Live(s)) = {}
  OBVIOUS
<1>4. Without(all, {}) = all
  <2> HIDE DEF S, all
  <2> QED BY <1>2, WithoutNone
<1> HIDE DEF all
<1>5. DocNodes(s) = [k \in DOMAIN all |-> [id |-> all[k], kind |-> s.records[all[k]].kind,
                                           param |-> s.records[all[k]].param]]
  BY <1>1, <1>3, <1>4 DEF DocNodes, all
<1> QED BY <1>2, <1>5

\* A document with its nodes numbered from 1 on.
Numbered(doc) == [k \in DOMAIN doc.nodes |-> [doc.nodes[k] EXCEPT !.id = Rank(doc, @)]]
Rewired(doc) == [k \in DOMAIN doc.edges |-> <<Rank(doc, doc.edges[k][1]), Rank(doc, doc.edges[k][2])>>]

LEMMA SessionReloads ==
  ASSUME NEW s, NEW n, NEW ids, Sound(s, n, ids), NEW from \in Nat
  PROVE  /\ ToDocument(FromDocument(ToDocument(s), from)).nodes = Numbered(ToDocument(s))
         /\ ToDocument(FromDocument(ToDocument(s), from)).edges = Rewired(ToDocument(s))
<1> DEFINE doc == ToDocument(s)
           N == doc.nodes
           E == doc.edges
           X == {e \in Nat \X Nat : {e[1], e[2]} \subseteq {doc.nodes[k].id : k \in DOMAIN doc.nodes}}
           base == LoadNodes(Blank, from, N)
           t == LoadEdges(base, doc, E)
<1>1. s \in Sessions /\ Tied(s)
  BY SoundTied DEF Sound
<1>2. N = DocNodes(s) /\ E = s.edges
  BY DEF ToDocument
<1>3. /\ N \in Seq(Loadable) /\ N \in Seq(Nodes) /\ Climbing(N)
      /\ \A i \in Live(s) : \E k \in 1 .. Len(N) : N[k].id = i
  BY <1>1, <1>2, DocumentClimbs, DocumentIs
<1>4. DOMAIN N = 1 .. Len(N) /\ Len(N) \in Nat
  <2> HIDE DEF N
  <2> QED BY <1>3
<1>5. E \in Seq(Nat \X Nat) /\ DOMAIN E = 1 .. Len(E) /\ Len(E) \in Nat
  BY <1>1, <1>2 DEF Sessions
<1>6. \A k \in 1 .. Len(E) : \E i, j \in 1 .. Len(N) : E[k] = <<N[i].id, N[j].id>>
  <2> TAKE k \in 1 .. Len(E)
  <2>1. PICK x \in Live(s), y \in Live(s) : E[k] = <<x, y>>
    BY <1>1, <1>2 DEF Tied
  <2>2. PICK i \in 1 .. Len(N) : N[i].id = x
    BY <1>3
  <2>3. PICK j \in 1 .. Len(N) : N[j].id = y
    BY <1>3
  <2> QED BY <2>1, <2>2, <2>3
<1>7. E \in Seq(X)
  <2>1. \A k \in 1 .. Len(E) : E[k] \in X
    <3> TAKE k \in 1 .. Len(E)
    <3>1. PICK i \in 1 .. Len(N), j \in 1 .. Len(N) : E[k] = <<N[i].id, N[j].id>>
      BY <1>6
    <3>2. E[k] \in Nat \X Nat
      BY <1>5
    <3>3. E[k][1] = N[i].id /\ E[k][2] = N[j].id
      BY <3>1
    <3>4. i \in DOMAIN N /\ j \in DOMAIN N
      BY <1>4
    <3> QED BY <3>2, <3>3, <3>4
  <2> HIDE DEF E, X
  <2> QED BY <1>5, <2>1
<1>8. FromDocument(doc, from) = t
  BY DEF FromDocument, LoadEdges, LoadNodes
<1> HIDE DEF base, E, N
<1>9. base \in Loading(n, from) /\ Len(base.slots) = Len(N) /\ Filled(base, N)
  BY <1>3, NodesLoaded, NodesFilled DEF base
<1>10. doc.nodes = N /\ doc.edges = E
  BY DEF N, E
<1> HIDE DEF doc
<1>11. t \in Loading(n, from) /\ Wired(base, t, doc, E)
  <2>1. doc.nodes \in Seq(Nodes) /\ Len(base.slots) = Len(doc.nodes) /\ base.edges = <<>>
    BY <1>3, <1>9, <1>10 DEF Filled
  <2> QED BY <1>7, <1>9, <2>1, EdgesLoaded, EdgesWired
<1> HIDE DEF t, X
<1>12. t \in Sessions /\ Len(t.slots) = Len(N) /\ DOMAIN t.slots = 1 .. Len(N)
  BY <1>9, <1>11 DEF Loading, Wired, Sessions
<1>13. Live(t) = 1 .. Len(t.slots) /\ DOMAIN t.records = Live(t)
  <2>1. \A i \in 1 .. Len(t.slots) : i \in Live(t)
    BY <1>11 DEF Loading
  <2>2. Live(t) = 1 .. Len(N)
    BY <1>12, <2>1 DEF Live
  <2> QED BY <1>9, <1>11, <1>12, <2>2 DEF Filled, Wired
<1>14. \A k \in 1 .. Len(N) : Rank(doc, N[k].id) = k /\ IdMap(doc, N[k].id) = k
  BY <1>3, <1>10, RankIs
<1>15. DocNodes(t) = Numbered(doc)
  <2>1. DocNodes(t) = [k \in 1 .. Len(N) |-> [id |-> k, kind |-> t.records[k].kind,
                                             param |-> t.records[k].param]]
    BY <1>12, <1>13, DocumentWhole
  <2>2. ASSUME NEW k \in 1 .. Len(N)
        PROVE  [id |-> k, kind |-> t.records[k].kind, param |-> t.records[k].param]
                 = [N[k] EXCEPT !.id = Rank(doc, @)]
    <3> DEFINE x == N[k]
               r == t.records[k]
    <3>1. r = RecordOf(x)
      BY <1>9, <1>11 DEF Filled, Wired
    <3>2. x \in Nodes
      <4> HIDE DEF N
      <4> QED BY <1>3
    <3>3. Rank(doc, x.id) = k
      BY <1>14
    <3> HIDE DEF x, r
    <3>4. r.kind = x.kind /\ r.param = x.param
      BY <3>1 DEF RecordOf
    <3>5. [x EXCEPT !.id = Rank(doc, @)] = [x EXCEPT !.id = k]
      BY <3>2, <3>3 DEF Nodes
    <3> DEFINE y == [x EXCEPT !.id = k]
    <3>6. y = [id |-> k, kind |-> x.kind, param |-> x.param]
      <4>1. y = [x EXCEPT !.id = k]
        OBVIOUS
      <4> HIDE DEF y
      <4> QED BY <3>2, <4>1 DEF Nodes
    <3> QED BY <3>4, <3>5, <3>6 DEF x, r
  <2>3. Numbered(doc) = [k \in 1 .. Len(N) |-> [N[k] EXCEPT !.id = Rank(doc, @)]]
    BY <1>4, <1>10 DEF Numbered
  <2> QED BY <2>1, <2>2, <2>3
<1>16. t.edges = Rewired(doc)
  <2>1. Rewired(doc) = [k \in 1 .. Len(E) |-> <<Rank(doc, E[k][1]), Rank(doc, E[k][2])>>]
    BY <1>5, <1>10 DEF Rewired
  <2>2. t.edges \in Seq(Nat \X Nat) /\ Len(t.edges) = Len(E)
    BY <1>11 DEF Wired
  <2>3. ASSUME NEW k \in 1 .. Len(E)
        PROVE  t.edges[k] = <<Rank(doc, E[k][1]), Rank(doc, E[k][2])>>
    <3>1. t.edges[k] = <<IdMap(doc, E[k][1]), IdMap(doc, E[k][2])>>
      BY <1>11 DEF Wired, EdgeOf
    <3>2. PICK i \in 1 .. Len(N), j \in 1 .. Len(N) : E[k] = <<N[i].id, N[j].id>>
      BY <1>6
    <3>3. E[k][1] = N[i].id /\ E[k][2] = N[j].id
      BY <3>2
    <3> QED BY <1>14, <3>1, <3>3
  <2>4. t.edges = [k \in 1 .. Len(E) |-> <<Rank(doc, E[k][1]), Rank(doc, E[k][2])>>]
    <3> DEFINE w == t.edges
    <3>1. w = [k \in 1 .. Len(w) |-> w[k]]
      BY <2>2
    <3> HIDE DEF w
    <3> QED BY <2>2, <2>3, <3>1 DEF w
  <2> QED BY <2>1, <2>4
<1>17. ToDocument(t).nodes = DocNodes(t) /\ ToDocument(t).edges = t.edges
  BY DEF ToDocument
<1> QED BY <1>8, <1>15, <1>16, <1>17 DEF doc

\* A document that is saved and loaded shows the same nodes and edges under ids without gaps, for every
\* graph that actions can make (session.py:160-190).
THEOREM SavedComesBack == Spec => []SavedIsLoaded
<1>1. IInv => SavedIsLoaded
  <2> SUFFICES ASSUME IInv, NEW n \in DOMAIN sessions
               PROVE  LET doc == ToDocument(sessions[n])
                          new == ToDocument(FromDocument(doc, stamp))
                      IN /\ new.nodes = Numbered(doc)
                         /\ new.edges = Rewired(doc)
    BY DEF SavedIsLoaded, Numbered, Rewired, Rank
  <2>1. n \in 1 .. Len(sessions) /\ stamp \in Nat
    BY DEF IInv, Typed
  <2>2. Sound(sessions[n], n, idOf)
    BY <2>1 DEF IInv, AllSound
  <2> DEFINE s == sessions[n]
  <2>3. Sound(s, n, idOf)
    BY <2>2
  <2> HIDE DEF s
  <2> QED BY <2>1, <2>3, SessionReloads DEF s
<1> QED BY <1>1, Invariance, PTL

-----------------------------------------------------------------------------
(* Broadcasts on their way.                                                *)

\* f has a message in the queue q; g has one before f's; f has one that does not wait; all that f has there
\* carry d; nobody has two.
Sits(q, f) == \E k \in 1 .. Len(q) : q[k].from = f
Ahead(q, g, f) == \E j, k \in 1 .. Len(q) : j < k /\ q[j].from = g /\ q[k].from = f
Rash(q, f) == \E k \in 1 .. Len(q) : q[k].from = f /\ ~q[k].waits
Bears(q, f, d) == \A k \in 1 .. Len(q) : q[k].from = f => q[k].doc = d
Lone(q) == \A j, k \in 1 .. Len(q) : q[j].from = q[k].from => j = k

LEMMA QueueIs ==
  ASSUME NEW q \in Seq(Mails), Lone(q), NEW f, NEW g
  PROVE  /\ Ahead(q, g, f) => Sits(q, g) /\ Sits(q, f) /\ ~Ahead(q, f, g) /\ g # f
         /\ Sits(q, f) /\ Sits(q, g) /\ f # g => Ahead(q, f, g) \/ Ahead(q, g, f)
         /\ ~Sits(q, f) => ~Rash(q, f) /\ \A d : Bears(q, f, d)
<1>1. \A k \in 1 .. Len(q) : k \in Int
  OBVIOUS
<1>2. Ahead(q, g, f) => Sits(q, g) /\ Sits(q, f) /\ ~Ahead(q, f, g) /\ g # f
  BY <1>1 DEF Ahead, Sits, Lone
<1>3. Sits(q, f) /\ Sits(q, g) /\ f # g => Ahead(q, f, g) \/ Ahead(q, g, f)
  BY <1>1 DEF Ahead, Sits
<1>4. ~Sits(q, f) => ~Rash(q, f) /\ \A d : Bears(q, f, d)
  BY DEF Sits, Rash, Bears
<1> QED BY <1>2, <1>3, <1>4

\* What a message of f's that is taken from its place, i, leaves.
LEMMA TakenIs ==
  ASSUME NEW q \in Seq(Mails), Lone(q), NEW i \in 1 .. Len(q), NEW r, Rest(q, i, r), NEW f, f = q[i].from
  PROVE  /\ \A g : Sits(r, g) <=> Sits(q, g) /\ g # f
         /\ \A g, h : Ahead(r, g, h) <=> Ahead(q, g, h) /\ g # f /\ h # f
         /\ \A g : Rash(r, g) <=> Rash(q, g) /\ g # f
         /\ \A g, d : Bears(q, g, d) => Bears(r, g, d)
         /\ i = 1 => \A g : Sits(q, g) /\ g # f => Ahead(q, f, g)
<1> DEFINE n == Len(q)
           Now(k) == IF k < i THEN k ELSE k - 1
<1>1. n \in Nat /\ i \in 1 .. n /\ q[i].from = f
  OBVIOUS
<1>2. Len(r) = n - 1 /\ \A k \in 1 .. n - 1 : r[k] = q[Was(i, k)]
  BY DEF Rest
<1>3. \A j, k \in 1 .. n : q[j].from = q[k].from => j = k
  BY DEF Lone
<1> HIDE DEF n
<1>4. \A k \in 1 .. n - 1 : Was(i, k) \in 1 .. n /\ Was(i, k) # i
  BY <1>1 DEF Was
<1>5. \A j, k \in 1 .. n - 1 : j < k => Was(i, j) < Was(i, k)
  BY <1>1 DEF Was
<1>6. \A k \in 1 .. n : k # i => Now(k) \in 1 .. n - 1 /\ Was(i, Now(k)) = k
  BY <1>1 DEF Was
<1>7. \A j, k \in 1 .. n : j < k /\ j # i /\ k # i => Now(j) < Now(k)
  BY <1>1
<1> HIDE DEF Now
<1>8. \A k \in 1 .. n - 1 : r[k] = q[Was(i, k)] /\ q[Was(i, k)].from # f
  BY <1>1, <1>2, <1>3, <1>4
<1>9. \A k \in 1 .. n : q[k].from # f => Now(k) \in 1 .. n - 1 /\ r[Now(k)] = q[k]
  BY <1>1, <1>2, <1>6
<1>10. ASSUME NEW g
       PROVE  Sits(r, g) <=> Sits(q, g) /\ g # f
  <2>1. Sits(r, g) => Sits(q, g) /\ g # f
    BY <1>2, <1>4, <1>8 DEF Sits, n
  <2>2. Sits(q, g) /\ g # f => Sits(r, g)
    BY <1>2, <1>9 DEF Sits, n
  <2> QED BY <2>1, <2>2
<1>11. ASSUME NEW g, NEW h
       PROVE  Ahead(r, g, h) <=> Ahead(q, g, h) /\ g # f /\ h # f
  <2>1. ASSUME Ahead(r, g, h)
        PROVE  Ahead(q, g, h) /\ g # f /\ h # f
    <3>1. PICK j, k \in 1 .. n - 1 : j < k /\ r[j].from = g /\ r[k].from = h
      BY <1>2, <2>1 DEF Ahead
    <3>2. Was(i, j) < Was(i, k) /\ Was(i, j) \in 1 .. n /\ Was(i, k) \in 1 .. n
      BY <1>4, <1>5, <3>1
    <3>3. q[Was(i, j)].from = g /\ q[Was(i, k)].from = h /\ g # f /\ h # f
      BY <1>8, <3>1
    <3> QED BY <3>2, <3>3 DEF Ahead, n
  <2>2. ASSUME Ahead(q, g, h), g # f, h # f
        PROVE  Ahead(r, g, h)
    <3>1. PICK j, k \in 1 .. n : j < k /\ q[j].from = g /\ q[k].from = h
      BY <2>2 DEF Ahead, n
    <3>2. j # i /\ k # i
      BY <1>1, <2>2, <3>1
    <3>3. Now(j) < Now(k)
      BY <1>7, <3>1, <3>2
    <3>4. Now(j) \in 1 .. n - 1 /\ r[Now(j)] = q[j] /\ Now(k) \in 1 .. n - 1 /\ r[Now(k)] = q[k]
      BY <1>9, <2>2, <3>1
    <3> QED BY <1>2, <3>1, <3>3, <3>4 DEF Ahead
  <2> QED BY <2>1, <2>2
<1>12. ASSUME NEW g
       PROVE  Rash(r, g) <=> Rash(q, g) /\ g # f
  <2>1. Rash(r, g) => Rash(q, g) /\ g # f
    BY <1>2, <1>4, <1>8 DEF Rash, n
  <2>2. Rash(q, g) /\ g # f => Rash(r, g)
    BY <1>2, <1>9 DEF Rash, n
  <2> QED BY <2>1, <2>2
<1>13. \A g, d : Bears(q, g, d) => Bears(r, g, d)
  BY <1>2, <1>4, <1>8 DEF Bears, n
<1>14. i = 1 => \A g : Sits(q, g) /\ g # f => Ahead(q, f, g)
  <2> SUFFICES ASSUME i = 1, NEW g, Sits(q, g), g # f
               PROVE  Ahead(q, f, g)
    OBVIOUS
  <2>1. PICK k \in 1 .. n : q[k].from = g
    BY DEF Sits, n
  <2>2. i < k /\ i \in 1 .. n
    BY <1>1, <2>1
  <2> QED BY <1>1, <2>1, <2>2 DEF Ahead, n
<1> QED BY <1>10, <1>11, <1>12, <1>13, <1>14

\* What a message at the end adds.
Put(q, r, m) ==
  /\ \A g : Sits(r, g) <=> Sits(q, g) \/ g = m.from
  /\ \A g, h : Ahead(r, g, h) <=> Ahead(q, g, h) \/ (h = m.from /\ Sits(q, g))
  /\ \A g : Rash(r, g) <=> Rash(q, g) \/ (g = m.from /\ ~m.waits)
  /\ \A g, d : Bears(r, g, d) <=> Bears(q, g, d) /\ (g = m.from => m.doc = d)

LEMMA PutIs ==
  ASSUME NEW q \in Seq(Mails), NEW m \in Mails
  PROVE  Put(q, Append(q, m), m)
<1> DEFINE n == Len(q)
           r == Append(q, m)
           f == m.from
<1>1. n \in Nat /\ Len(r) = n + 1 /\ r[n + 1] = m /\ \A k \in 1 .. n : r[k] = q[k]
  OBVIOUS
<1> HIDE DEF n, r
<1>2. \A k \in 1 .. n : k \in 1 .. n + 1 /\ k < n + 1 /\ k \in Int
  BY <1>1
<1>3. \A k \in 1 .. n + 1 : k \in 1 .. n \/ k = n + 1
  BY <1>1
<1>4. n + 1 \in 1 .. n + 1 /\ n + 1 \in Int
  BY <1>1
<1>5. \A g : Sits(r, g) <=> Sits(q, g) \/ g = f
  BY <1>1, <1>2, <1>3, <1>4 DEF Sits, n
<1>6. ASSUME NEW g, NEW h
      PROVE  Ahead(r, g, h) <=> Ahead(q, g, h) \/ (h = f /\ Sits(q, g))
  <2>1. ASSUME Ahead(r, g, h)
        PROVE  Ahead(q, g, h) \/ (h = f /\ Sits(q, g))
    <3>1. PICK j, k \in 1 .. n + 1 : j < k /\ r[j].from = g /\ r[k].from = h
      BY <1>1, <2>1 DEF Ahead
    <3>2. j \in 1 .. n
      BY <1>1, <3>1
    <3>3. CASE k \in 1 .. n
      BY <1>1, <3>1, <3>2, <3>3 DEF Ahead, n
    <3>4. CASE k = n + 1
      BY <1>1, <3>1, <3>2, <3>4 DEF Sits, n
    <3> QED BY <1>3, <3>3, <3>4
  <2>2. ASSUME Ahead(q, g, h)
        PROVE  Ahead(r, g, h)
    BY <1>1, <1>2, <2>2 DEF Ahead, n
  <2>3. ASSUME h = f, Sits(q, g)
        PROVE  Ahead(r, g, h)
    BY <1>1, <1>2, <1>4, <2>3 DEF Ahead, Sits, n
  <2> QED BY <2>1, <2>2, <2>3
<1>7. \A g : Rash(r, g) <=> Rash(q, g) \/ (g = f /\ ~m.waits)
  BY <1>1, <1>2, <1>3, <1>4 DEF Rash, n
<1>8. \A g, d : Bears(r, g, d) <=> Bears(q, g, d) /\ (g = f => m.doc = d)
  BY <1>1, <1>2, <1>3, <1>4 DEF Bears, n
<1> QED BY <1>5, <1>6, <1>7, <1>8 DEF Put, r, f

\* The same of all transports.
Hasty(ob, f) == \E w \in Clients : Rash(ob[w], f)
Carries(ob, f, d) == \A w \in Clients : Bears(ob[w], f, d)

LEMMA Apart ==
  ASSUME NEW ob \in Outboxes, NEW cn, TidyOK(ob, cn)
  PROVE  /\ \A w \in Clients : ob[w] \in Seq(Mails) /\ Lone(ob[w])
         /\ \A f, v, w \in Clients : Sits(ob[v], f) /\ Sits(ob[w], f) => v = w
         /\ \A f, w \in Clients : Sits(ob[w], f) /\ cn[f].pc # "send" => w = f /\ cn[f].pc \in Sending
<1>1. \A w \in Clients : ob[w] \in Seq(Mails)
  BY DEF Outboxes
<1>2. \A w \in Clients : Lone(ob[w])
  BY DEF TidyOK, Lone
<1>3. \A f, v, w \in Clients : Sits(ob[v], f) /\ Sits(ob[w], f) => v = w
  BY DEF TidyOK, Sits
<1>4. \A f, w \in Clients : Sits(ob[w], f) /\ cn[f].pc # "send" => w = f /\ cn[f].pc \in Sending
  BY DEF TidyOK, Sits
<1> QED BY <1>1, <1>2, <1>3, <1>4

Lost(ob, ob2, f) ==
  /\ \A w, g \in Clients : Sits(ob2[w], g) <=> Sits(ob[w], g) /\ g # f
  /\ \A w, g, h \in Clients : Ahead(ob2[w], g, h) <=> Ahead(ob[w], g, h) /\ g # f /\ h # f
  /\ \A g \in Clients : Hasty(ob2, g) <=> Hasty(ob, g) /\ g # f
  /\ \A g \in Clients : \A d : Carries(ob, g, d) => Carries(ob2, g, d)

LEMMA LostIs ==
  ASSUME NEW ob \in Outboxes, NEW cn, TidyOK(ob, cn), NEW c \in Clients, NEW i \in 1 .. Len(ob[c]),
         NEW r, Rest(ob[c], i, r), NEW f \in Clients, f = ob[c][i].from
  PROVE  /\ Lost(ob, [ob EXCEPT ![c] = r], f) /\ Sits(ob[c], f)
         /\ i = 1 => \A g \in Clients : Sits(ob[c], g) /\ g # f => Ahead(ob[c], f, g)
         /\ ~ob[c][i].waits => Hasty(ob, f)
         /\ \A d : Carries(ob, f, d) => ob[c][i].doc = d
<1> DEFINE new == [ob EXCEPT ![c] = r]
<1>1. new[c] = r /\ \A w \in Clients : w # c => new[w] = ob[w]
  BY DEF Outboxes
<1>2. ob[c] \in Seq(Mails) /\ Lone(ob[c]) /\ \A w \in Clients : ob[w] \in Seq(Mails) /\ Lone(ob[w])
  BY Apart
<1> HIDE DEF new
<1>3. /\ \A g : Sits(r, g) <=> Sits(ob[c], g) /\ g # f
      /\ \A g, h : Ahead(r, g, h) <=> Ahead(ob[c], g, h) /\ g # f /\ h # f
      /\ \A g : Rash(r, g) <=> Rash(ob[c], g) /\ g # f
      /\ \A g, d : Bears(ob[c], g, d) => Bears(r, g, d)
      /\ i = 1 => \A g : Sits(ob[c], g) /\ g # f => Ahead(ob[c], f, g)
  BY <1>2, TakenIs
<1>4. Sits(ob[c], f)
  BY DEF Sits
<1>5. \A w \in Clients : w # c => /\ ~Sits(ob[w], f) /\ ~Rash(ob[w], f)
                                  /\ \A g : ~Ahead(ob[w], f, g) /\ ~Ahead(ob[w], g, f)
  <2> SUFFICES ASSUME NEW w \in Clients, w # c
               PROVE  /\ ~Sits(ob[w], f) /\ ~Rash(ob[w], f)
                      /\ \A g : ~Ahead(ob[w], f, g) /\ ~Ahead(ob[w], g, f)
    OBVIOUS
  <2>1. ~Sits(ob[w], f) /\ ob[w] \in Seq(Mails) /\ Lone(ob[w])
    BY <1>2, <1>4, Apart
  <2>2. ~Rash(ob[w], f)
    BY <2>1 DEF Sits, Rash
  <2>3. \A g : ~Ahead(ob[w], f, g) /\ ~Ahead(ob[w], g, f)
    BY <2>1 DEF Sits, Ahead
  <2> QED BY <2>1, <2>2, <2>3
<1>6. \A w, g \in Clients : Sits(new[w], g) <=> Sits(ob[w], g) /\ g # f
  BY <1>1, <1>3, <1>5
<1>7. \A w, g, h \in Clients : Ahead(new[w], g, h) <=> Ahead(ob[w], g, h) /\ g # f /\ h # f
  <2> SUFFICES ASSUME NEW w \in Clients, NEW g \in Clients, NEW h \in Clients
               PROVE  Ahead(new[w], g, h) <=> Ahead(ob[w], g, h) /\ g # f /\ h # f
    OBVIOUS
  <2>1. CASE w = c
    BY <1>1, <1>3, <2>1
  <2>2. CASE w # c
    <3>1. new[w] = ob[w] /\ ~Ahead(ob[w], f, h) /\ ~Ahead(ob[w], g, f)
      BY <1>1, <1>5, <2>2
    <3> QED BY <3>1
  <2> QED BY <2>1, <2>2
<1>8. \A g \in Clients : Hasty(new, g) <=> Hasty(ob, g) /\ g # f
  <2>1. \A w, g \in Clients : Rash(new[w], g) <=> Rash(ob[w], g) /\ g # f
    BY <1>1, <1>3, <1>5
  <2> QED BY <2>1 DEF Hasty
<1>9. \A g \in Clients : \A d : Carries(ob, g, d) => Carries(new, g, d)
  BY <1>1, <1>3 DEF Carries
<1>10. Lost(ob, new, f)
  BY <1>6, <1>7, <1>8, <1>9 DEF Lost
<1>11. ~ob[c][i].waits => Hasty(ob, f)
  BY DEF Hasty, Rash
<1>12. \A d : Carries(ob, f, d) => ob[c][i].doc = d
  BY DEF Carries, Bears
<1> QED BY <1>3, <1>4, <1>10, <1>11, <1>12 DEF new

Adds(ob, ob2, f, to, m) ==
  /\ \A w, g \in Clients : Sits(ob2[w], g) <=> Sits(ob[w], g) \/ (g = f /\ w = to)
  /\ \A w, g, h \in Clients : Ahead(ob2[w], g, h) <=> Ahead(ob[w], g, h) \/ (h = f /\ w = to /\ Sits(ob[w], g))
  /\ \A g \in Clients : Hasty(ob2, g) <=> Hasty(ob, g) \/ (g = f /\ ~m.waits)
  /\ \A g \in Clients : \A d : Carries(ob2, g, d) <=> Carries(ob, g, d) /\ (g = f => m.doc = d)

LEMMA AddsIs ==
  ASSUME NEW ob \in Outboxes, NEW to \in Clients, NEW m \in Mails, NEW f \in Clients, f = m.from
  PROVE  Adds(ob, [ob EXCEPT ![to] = Append(@, m)], f, to, m)
<1> DEFINE new == [ob EXCEPT ![to] = Append(@, m)]
           r == Append(ob[to], m)
<1>1. new[to] = r /\ \A w \in Clients : w # to => new[w] = ob[w]
  BY DEF Outboxes
<1>2. ob[to] \in Seq(Mails)
  BY DEF Outboxes
<1> HIDE DEF new
<1>3. /\ \A g : Sits(r, g) <=> Sits(ob[to], g) \/ g = f
      /\ \A g, h : Ahead(r, g, h) <=> Ahead(ob[to], g, h) \/ (h = f /\ Sits(ob[to], g))
      /\ \A g : Rash(r, g) <=> Rash(ob[to], g) \/ (g = f /\ ~m.waits)
      /\ \A g, d : Bears(r, g, d) <=> Bears(ob[to], g, d) /\ (g = f => m.doc = d)
  BY <1>2, PutIs DEF Put
<1> HIDE DEF r
<1>4. \A w, g \in Clients : Sits(new[w], g) <=> Sits(ob[w], g) \/ (g = f /\ w = to)
  BY <1>1, <1>3
<1>5. \A w, g, h \in Clients : Ahead(new[w], g, h) <=> Ahead(ob[w], g, h) \/ (h = f /\ w = to /\ Sits(ob[w], g))
  BY <1>1, <1>3
<1>6. \A g \in Clients : Hasty(new, g) <=> Hasty(ob, g) \/ (g = f /\ ~m.waits)
  <2>1. \A w, g \in Clients : Rash(new[w], g) <=> Rash(ob[w], g) \/ (w = to /\ g = f /\ ~m.waits)
    BY <1>1, <1>3
  <2> QED BY <2>1 DEF Hasty
<1>7. \A g \in Clients : \A d : Carries(new, g, d) <=> Carries(ob, g, d) /\ (g = f => m.doc = d)
  <2>1. \A w, g \in Clients : \A d : Bears(new[w], g, d) <=> Bears(ob[w], g, d) /\ (w = to /\ g = f => m.doc = d)
    BY <1>1, <1>3
  <2> QED BY <2>1 DEF Carries
<1>8. Adds(ob, new, f, to, m)
  BY <1>4, <1>5, <1>6, <1>7 DEF Adds
<1> QED BY <1>8 DEF new

\* The place of a client in the order of broadcasts.
Pos(c) == CHOOSE i \in 1 .. Len(Order) : Order[i] = c

LEMMA PosIs ==
  /\ \A c \in Clients : Pos(c) \in 1 .. Len(Order) /\ Order[Pos(c)] = c /\ Pos(c) \in Int
  /\ \A c, d \in Clients : Pos(c) = Pos(d) => c = d
  /\ \A i \in 1 .. Len(Order) : Order[i] \in Clients /\ Pos(Order[i]) = i
<1>1. Order \in Seq(Clients) /\ IsInjective(Order) /\ ToSet(Order) = Clients
  BY WorkbenchAssumption
<1>2. DOMAIN Order = 1 .. Len(Order)
  BY <1>1
<1>3. \A c \in Clients : \E i \in 1 .. Len(Order) : Order[i] = c
  BY <1>1, <1>2 DEF ToSet
<1>4. \A c \in Clients : Pos(c) \in 1 .. Len(Order) /\ Order[Pos(c)] = c
  BY <1>3 DEF Pos
<1>5. \A i \in 1 .. Len(Order) : Order[i] \in Clients /\ Pos(Order[i]) = i
  <2>1. \A i, j \in 1 .. Len(Order) : Order[i] = Order[j] => i = j
    BY <1>1, <1>2 DEF IsInjective
  <2> QED BY <1>1, <1>4, <2>1
<1> QED BY <1>4, <1>5

\* Where a broadcast has yet to go, on from w.
Visits(q) == {q[i] : i \in 1 .. Len(q)}
Onward(q, w) == \A i \in 1 .. Len(q) : /\ Pos(w) < Pos(q[i])
                                       /\ \A j \in 1 .. Len(q) : i < j => Pos(q[i]) < Pos(q[j])

LEMMA VisitsIs ==
  ASSUME NEW q \in Seq(Clients), q # <<>>
  PROVE  /\ Head(q) \in Clients /\ Tail(q) \in Seq(Clients) /\ Visits(q) \subseteq Clients
         /\ Visits(q) = Visits(Tail(q)) \union {Head(q)}
         /\ \A w : Onward(q, w) => /\ Pos(w) < Pos(Head(q)) /\ Onward(Tail(q), Head(q))
                                   /\ \A u \in Visits(Tail(q)) : Pos(Head(q)) < Pos(u)
<1> DEFINE n == Len(q)
           r == Tail(q)
           h == Head(q)
<1>1. /\ n \in Nat /\ n >= 1 /\ 1 \in 1 .. n /\ h = q[1] /\ h \in Clients /\ r \in Seq(Clients)
      /\ Len(r) = n - 1 /\ \A i \in 1 .. n - 1 : r[i] = q[i + 1]
  OBVIOUS
<1>2. \A i \in 1 .. n : q[i] \in Clients
  OBVIOUS
<1> HIDE DEF n, r, h
<1>3. \A i \in 1 .. n - 1 : i + 1 \in 1 .. n /\ 1 < i + 1
  BY <1>1
<1>4. \A i \in 1 .. n : i = 1 \/ (i - 1 \in 1 .. n - 1 /\ (i - 1) + 1 = i)
  BY <1>1
<1>5. Visits(q) \subseteq Clients
  BY <1>2 DEF Visits, n
<1>6. Visits(q) = Visits(r) \union {h}
  <2>1. \A x \in Visits(q) : x \in Visits(r) \union {h}
    <3> SUFFICES ASSUME NEW i \in 1 .. n
                 PROVE  q[i] = h \/ \E j \in 1 .. n - 1 : r[j] = q[i]
      BY <1>1 DEF Visits, n
    <3> QED BY <1>1, <1>4
  <2>2. \A x \in Visits(r) \union {h} : x \in Visits(q)
    BY <1>1, <1>3 DEF Visits, n
  <2> QED BY <2>1, <2>2
<1>7. ASSUME NEW w, Onward(q, w)
      PROVE  Pos(w) < Pos(h) /\ Onward(r, h) /\ \A u \in Visits(r) : Pos(h) < Pos(u)
  <2>1. \A i, j \in 1 .. n : Pos(w) < Pos(q[i]) /\ (i < j => Pos(q[i]) < Pos(q[j]))
    BY <1>7 DEF Onward, n
  <2>2. \A i \in 1 .. n - 1 : Pos(h) < Pos(r[i])
    BY <1>1, <1>3, <2>1
  <2>3. \A i, j \in 1 .. n - 1 : i < j => Pos(r[i]) < Pos(r[j])
    <3> SUFFICES ASSUME NEW i \in 1 .. n - 1, NEW j \in 1 .. n - 1, i < j
                 PROVE  Pos(r[i]) < Pos(r[j])
      OBVIOUS
    <3>1. i + 1 < j + 1
      BY <1>1
    <3> QED BY <1>1, <1>3, <2>1, <3>1
  <2>4. Onward(r, h)
    BY <1>1, <2>2, <2>3 DEF Onward
  <2> QED BY <1>1, <2>1, <2>2, <2>4 DEF Visits
<1> QED BY <1>1, <1>5, <1>6, <1>7 DEF r, h

LEMMA OnwardIs ==
  ASSUME NEW q \in Seq(Clients), NEW w, Onward(q, w)
  PROVE  \A u \in Visits(q) : u \in Clients /\ Pos(w) < Pos(u)
BY DEF Onward, Visits

\* Who a broadcast of f's has still to reach; and whether it is behind that of g.
Rides(ob, cn, f) == cn[f].pc = "send" /\ \E w \in Clients : Sits(ob[w], f)
Awaits(ob, cn, u, f) == Rides(ob, cn, f) /\ (Sits(ob[u], f) \/ u \in Visits(cn[f].todo))
Behind(ob, f, g) ==
  \E w, v \in Clients : /\ Sits(ob[w], f) /\ Sits(ob[v], g)
                        /\ \/ Pos(w) < Pos(v)
                           \/ w = v /\ Ahead(ob[w], g, f)

LEMMA Places ==
  ASSUME NEW ob, \A f, v, w \in Clients : Sits(ob[v], f) /\ Sits(ob[w], f) => v = w,
         NEW f \in Clients, NEW g \in Clients, NEW w \in Clients, NEW v \in Clients,
         Sits(ob[w], f), Sits(ob[v], g)
  PROVE  Behind(ob, f, g) <=> Pos(w) < Pos(v) \/ (w = v /\ Ahead(ob[w], g, f))
BY DEF Behind

\* Of two broadcasts the one behind has still to reach whoever is connected and the other has not reached.
FlowOK(ob, cn, mem) ==
  \A f, g \in Clients : Rides(ob, cn, f) /\ Rides(ob, cn, g) /\ Behind(ob, f, g) =>
    \A u \in mem : Awaits(ob, cn, u, g) => Awaits(ob, cn, u, f)

\* f's broadcast, at w, goes on to another client ...
Shift(ob, cn, ob2, cn2, f, w, to) ==
  /\ \A v, g \in Clients : Sits(ob2[v], g) <=> (Sits(ob[v], g) /\ g # f) \/ (g = f /\ v = to)
  /\ \A v, g, h \in Clients : Ahead(ob2[v], g, h) <=>
       (Ahead(ob[v], g, h) /\ g # f /\ h # f) \/ (h = f /\ v = to /\ Sits(ob[v], g) /\ g # f)
  /\ \A g \in Clients : g # f => cn2[g] = cn[g]
  /\ cn2[f].pc = "send" /\ cn2[f].doc = cn[f].doc
  /\ Visits(cn[f].todo) = Visits(cn2[f].todo) \union {to}
  /\ Pos(w) < Pos(to) /\ \A u \in Visits(cn2[f].todo) : Pos(to) < Pos(u)

\* ... or is over.
Over(ob, cn, ob2, cn2, f) ==
  /\ \A v, g \in Clients : Sits(ob2[v], g) <=> Sits(ob[v], g) /\ g # f
  /\ \A v, g, h \in Clients : Ahead(ob2[v], g, h) <=> Ahead(ob[v], g, h) /\ g # f /\ h # f
  /\ \A g \in Clients : g # f => cn2[g] = cn[g]
  /\ cn2[f].pc # "send" /\ Visits(cn[f].todo) = {}

\* What either leaves of the others, and of who awaits it.
Passed(ob, cn, ob2, cn2, f, w) ==
  /\ \A g \in Clients : Rides(ob2, cn2, g) => Rides(ob, cn, g) /\ cn2[g].doc = cn[g].doc
  /\ \A g \in Clients : g # f /\ Rides(ob, cn, g) => Rides(ob2, cn2, g)
  /\ \A g, h \in Clients : Rides(ob2, cn2, g) /\ Rides(ob2, cn2, h) => (Behind(ob2, g, h) <=> Behind(ob, g, h))
  /\ \A u, g \in Clients : Awaits(ob2, cn2, u, g) <=> Awaits(ob, cn, u, g) /\ ~(g = f /\ u = w)
  /\ \A g \in Clients : g # f /\ Rides(ob, cn, f) /\ Rides(ob, cn, g) /\ Behind(ob, f, g) =>
       /\ ~Awaits(ob, cn, w, g)
       /\ Rides(ob2, cn2, f)

\* Where every broadcast goes on to clients after the one it is at.
Ordered(ob, cn) ==
  /\ \A f, v, w \in Clients : Sits(ob[v], f) /\ Sits(ob[w], f) => v = w
  /\ \A f, w \in Clients : cn[f].pc = "send" /\ Sits(ob[w], f) =>
       \A u \in Visits(cn[f].todo) : u \in Clients /\ Pos(w) < Pos(u)

\* A broadcast that goes on overtakes none: nobody before it waits at the client it leaves, and one that is
\* further on is with a client this one has still to reach.
LEMMA NotOvertaken ==
  ASSUME NEW ob, NEW cn, NEW mem, NEW f \in Clients, NEW w \in Clients, NEW g \in Clients, NEW v \in Clients,
         Ordered(ob, cn), FlowOK(ob, cn, mem),
         cn[f].pc = "send", Sits(ob[w], f), cn[g].pc = "send", Sits(ob[v], g), v \in mem,
         v = w => ~Ahead(ob[w], g, f), Behind(ob, f, g)
  PROVE  v \in Visits(cn[f].todo) /\ Pos(w) < Pos(v) /\ ~Awaits(ob, cn, w, g)
<1>1. Pos(w) < Pos(v)
  BY Places DEF Ordered
<1>2. Awaits(ob, cn, v, g)
  BY DEF Awaits, Rides
<1>3. Awaits(ob, cn, v, f)
  BY <1>2 DEF FlowOK, Rides
<1>4. v # w
  BY <1>1, PosIs
<1>5. v \in Visits(cn[f].todo)
  BY <1>3, <1>4 DEF Awaits, Ordered
<1>6. ~Awaits(ob, cn, w, g)
  <2>1. ~Sits(ob[w], g)
    BY <1>4 DEF Ordered
  <2>2. w \notin Visits(cn[g].todo)
    <3>1. w \in Visits(cn[g].todo) => Pos(v) < Pos(w)
      BY DEF Ordered
    <3> QED BY <1>1, <3>1, PosIs
  <2> QED BY <2>1, <2>2 DEF Awaits
<1> QED BY <1>1, <1>5, <1>6

LEMMA OverIs ==
  ASSUME NEW ob, NEW cn, NEW mem, NEW ob2, NEW cn2, NEW f \in Clients, NEW w \in Clients,
         Ordered(ob, cn), FlowOK(ob, cn, mem), cn[f].pc = "send", Sits(ob[w], f),
         \A g, v \in Clients : g # f /\ cn[g].pc = "send" /\ Sits(ob[v], g) =>
           v \in mem /\ (v = w => ~Ahead(ob[w], g, f)),
         Over(ob, cn, ob2, cn2, f)
  PROVE  Passed(ob, cn, ob2, cn2, f, w)
<1>1. \A g \in Clients : g # f => (Rides(ob2, cn2, g) <=> Rides(ob, cn, g)) /\ cn2[g] = cn[g]
  BY DEF Over, Rides
<1>2. ~Rides(ob2, cn2, f)
  BY DEF Over, Rides
<1>3. \A g, h \in Clients : g # f /\ h # f => (Behind(ob2, g, h) <=> Behind(ob, g, h))
  BY DEF Over, Behind
<1>4. \A u, g \in Clients : Awaits(ob2, cn2, u, g) <=> Awaits(ob, cn, u, g) /\ ~(g = f /\ u = w)
  <2> SUFFICES ASSUME NEW u \in Clients, NEW g \in Clients
               PROVE  Awaits(ob2, cn2, u, g) <=> Awaits(ob, cn, u, g) /\ ~(g = f /\ u = w)
    OBVIOUS
  <2>1. CASE g = f
    <3>1. Awaits(ob, cn, u, f) => u = w
      BY DEF Awaits, Over, Ordered
    <3> QED BY <1>2, <2>1, <3>1 DEF Awaits
  <2>2. CASE g # f
    <3>1. Sits(ob2[u], g) <=> Sits(ob[u], g)
      BY <2>2 DEF Over
    <3> QED BY <1>1, <2>2, <3>1 DEF Awaits
  <2> QED BY <2>1, <2>2
<1>5. ASSUME NEW g \in Clients, g # f, Rides(ob, cn, g), Behind(ob, f, g)
      PROVE  FALSE
  <2>1. PICK v \in Clients : Sits(ob[v], g)
    BY <1>5 DEF Rides
  <2>2. cn[g].pc = "send"
    BY <1>5 DEF Rides
  <2>3. v \in mem /\ (v = w => ~Ahead(ob[w], g, f))
    BY <1>5, <2>1, <2>2
  <2>4. v \in Visits(cn[f].todo)
    BY <1>5, <2>1, <2>2, <2>3, NotOvertaken
  <2> QED BY <2>4 DEF Over
<1> QED BY <1>1, <1>2, <1>3, <1>4, <1>5 DEF Passed

LEMMA ShiftIs ==
  ASSUME NEW ob, NEW cn, NEW mem, NEW ob2, NEW cn2, NEW f \in Clients, NEW w \in Clients, NEW to \in Clients,
         Ordered(ob, cn), FlowOK(ob, cn, mem), cn[f].pc = "send", Sits(ob[w], f),
         \A g, v \in Clients : g # f /\ cn[g].pc = "send" /\ Sits(ob[v], g) =>
           v \in mem /\ (v = w => ~Ahead(ob[w], g, f)),
         \A v, g, h \in Clients : Sits(ob[v], g) /\ Sits(ob[v], h) /\ g # h => Ahead(ob[v], g, h) \/ Ahead(ob[v], h, g),
         \A v, g, h \in Clients : Ahead(ob[v], g, h) => Sits(ob[v], g) /\ Sits(ob[v], h) /\ g # h,
         Shift(ob, cn, ob2, cn2, f, w, to)
  PROVE  Passed(ob, cn, ob2, cn2, f, w)
<1>0. \A g, u, v \in Clients : Sits(ob2[u], g) /\ Sits(ob2[v], g) => u = v
  BY DEF Shift, Ordered
<1>1. \A g \in Clients : g # f => (Rides(ob2, cn2, g) <=> Rides(ob, cn, g)) /\ cn2[g] = cn[g]
  BY DEF Shift, Rides
<1>2. Rides(ob2, cn2, f) /\ Rides(ob, cn, f) /\ cn2[f].doc = cn[f].doc /\ Sits(ob2[to], f)
  BY DEF Shift, Rides
<1>3. \A g, h \in Clients : g # f /\ h # f => (Behind(ob2, g, h) <=> Behind(ob, g, h))
  BY DEF Shift, Behind
<1>4. \A u \in Visits(cn[f].todo) : Pos(to) < Pos(u) \/ u = to
  BY DEF Shift
<1>5. ASSUME NEW g \in Clients, g # f, Rides(ob, cn, g)
      PROVE  /\ Behind(ob2, f, g) <=> Behind(ob, f, g)
             /\ Behind(ob2, g, f) <=> Behind(ob, g, f)
             /\ Behind(ob, f, g) => ~Awaits(ob, cn, w, g)
  <2>1. PICK v \in Clients : Sits(ob[v], g)
    BY <1>5 DEF Rides
  <2>2. cn[g].pc = "send" /\ Sits(ob2[v], g)
    BY <1>5, <2>1 DEF Rides, Shift
  <2>3. v \in mem /\ (v = w => ~Ahead(ob[w], g, f))
    BY <1>5, <2>1, <2>2
  <2>4. Behind(ob, f, g) => v \in Visits(cn[f].todo) /\ Pos(w) < Pos(v) /\ ~Awaits(ob, cn, w, g)
    BY <1>5, <2>1, <2>2, <2>3, NotOvertaken
  <2>5. Pos(w) < Pos(to) /\ Pos(w) \in Int /\ Pos(to) \in Int /\ Pos(v) \in Int
    BY PosIs DEF Shift
  <2>6. Behind(ob, f, g) <=> Pos(w) < Pos(v) \/ (w = v /\ Ahead(ob[w], g, f))
    BY <2>1, Places DEF Ordered
  <2>7. Behind(ob, g, f) <=> Pos(v) < Pos(w) \/ (v = w /\ Ahead(ob[v], f, g))
    BY <2>1, Places DEF Ordered
  <2>8. Behind(ob2, f, g) <=> Pos(to) < Pos(v) \/ (to = v /\ Ahead(ob2[to], g, f))
    BY <1>0, <1>2, <2>2, Places
  <2>9. Behind(ob2, g, f) <=> Pos(v) < Pos(to) \/ (v = to /\ Ahead(ob2[v], f, g))
    BY <1>0, <1>2, <2>2, Places
  <2>10. ~Ahead(ob2[v], f, g) /\ (to = v => Ahead(ob2[to], g, f))
    BY <1>5, <2>1 DEF Shift
  <2>11. v = w => Ahead(ob[v], f, g)
    BY <1>5, <2>1, <2>3
  <2>12. Behind(ob, f, g) => Behind(ob2, f, g)
    BY <1>4, <2>4, <2>8, <2>10
  <2>13. Behind(ob2, f, g) => Behind(ob, f, g)
    BY <2>5, <2>6, <2>8
  <2>14. Behind(ob, g, f) => Behind(ob2, g, f)
    BY <2>5, <2>7, <2>9
  <2>15. Behind(ob2, g, f) => Behind(ob, g, f)
    <3> SUFFICES ASSUME Pos(v) < Pos(to)
                 PROVE  Behind(ob, g, f)
      BY <2>9, <2>10
    <3>1. ~Behind(ob, f, g)
      BY <1>4, <2>4, <2>5
    <3>2. ~(Pos(w) < Pos(v))
      BY <2>6, <3>1
    <3>3. Pos(v) < Pos(w) \/ v = w
      BY <2>5, <3>2, PosIs
    <3> QED BY <2>7, <2>11, <3>3
  <2> QED BY <2>4, <2>12, <2>13, <2>14, <2>15
<1>6. ~Behind(ob, f, f) /\ ~Behind(ob2, f, f)
  <2>1. ~Ahead(ob2[to], f, f)
    BY DEF Shift
  <2>2. ~Ahead(ob[w], f, f) /\ ~(Pos(w) < Pos(w)) /\ ~(Pos(to) < Pos(to))
    BY PosIs
  <2>3. ~Behind(ob2, f, f)
    BY <1>0, <1>2, <2>1, <2>2, Places
  <2>4. ~Behind(ob, f, f)
    BY <2>2, Places DEF Ordered
  <2> QED BY <2>3, <2>4
<1>7. \A u, g \in Clients : Awaits(ob2, cn2, u, g) <=> Awaits(ob, cn, u, g) /\ ~(g = f /\ u = w)
  <2> SUFFICES ASSUME NEW u \in Clients, NEW g \in Clients
               PROVE  Awaits(ob2, cn2, u, g) <=> Awaits(ob, cn, u, g) /\ ~(g = f /\ u = w)
    OBVIOUS
  <2>1. CASE g = f
    <3>1. Sits(ob2[u], f) <=> u = to
      BY DEF Shift
    <3>2. Sits(ob[u], f) <=> u = w
      BY DEF Ordered
    <3>3. w \notin Visits(cn[f].todo)
      <4>1. w \in Visits(cn[f].todo) => Pos(w) < Pos(w)
        BY DEF Ordered
      <4> QED BY <4>1, PosIs
    <3>4. Visits(cn[f].todo) = Visits(cn2[f].todo) \union {to}
      BY DEF Shift
    <3> QED BY <1>2, <2>1, <3>1, <3>2, <3>3, <3>4 DEF Awaits
  <2>2. CASE g # f
    <3>1. Sits(ob2[u], g) <=> Sits(ob[u], g)
      BY <2>2 DEF Shift
    <3> QED BY <1>1, <2>2, <3>1 DEF Awaits
  <2> QED BY <2>1, <2>2
<1> QED BY <1>1, <1>2, <1>3, <1>5, <1>6, <1>7 DEF Passed

-----------------------------------------------------------------------------
(* Broadcasts and the document.                                            *)

\* At most one thing that was sent does not wait, and nothing while a coroutine goes on without an await;
\* between the two halves of a reading nothing else is on the loop.
OneOK(ob) == \A f, g \in Clients : Hasty(ob, f) /\ Hasty(ob, g) => f = g
LoopOK(lp, ob, cn) ==
  /\ lp # None => \A f \in Clients : ~Hasty(ob, f)
  /\ \A c \in Clients : cn[c].pc = "edges" => lp = c

\* Who is connected has joined, and is not forgotten.
MemOK(mem, on, cn) == on \subseteq mem /\ \A c \in mem : cn[c].pc # "new"

\* Whether a coroutine has sent its client the first document.
Knows(at) == /\ at.pc \in {"new", "hello", "greet"} => ~at.known
             /\ at.pc \in {"idle", "wait", "work", "ack", "error", "send"} => at.known
KnownOK(cn) == \A c \in Clients : Knows(cn[c])

\* A change that is not read yet will be, by the coroutine that made it, unless that has ended.
Owes(at) == \/ at.pc = "off"
            \/ at.known /\ (at.pc \in {"ack", "read"} \/ (at.pc = "work" /\ at.work > 0))
DirtyOK(d, cn) == \A c \in d : Owes(cn[c])

\* A broadcast goes on in the order of clients, to some that have joined, and has one document.
TripOK(ob, cn) ==
  \A f, w \in Clients : cn[f].pc = "send" /\ Sits(ob[w], f) =>
    /\ Onward(cn[f].todo, w) /\ cn[w].pc # "new" /\ \A u \in Visits(cn[f].todo) : cn[u].pc # "new"
DocOK(ob, cn) == \A f \in Clients : cn[f].pc = "send" => Carries(ob, f, cn[f].doc)

\* It waits at clients that are not forgotten.
MetOK(ob, cn, mem) ==
  \A f, w \in Clients : cn[f].pc = "send" /\ Sits(ob[w], f) /\ ~Hasty(ob, f) => w \in mem

\* When all changes have been read: a reading that is half done has today's nodes; and unless one is under
\* way the last of the broadcasts has today's document, a client no broadcast has still to reach shows it,
\* and one that is greeted will.
NodesOK(cn, doc) == \A c \in Clients : cn[c].pc = "edges" => cn[c].doc.nodes = doc.nodes
Reading(cn) == \E c \in Clients : cn[c].pc = "edges" /\ cn[c].known
LastOK(ob, cn, doc) ==
  \A f \in Clients : Rides(ob, cn, f) /\ (\A g \in Clients : Rides(ob, cn, g) => ~Behind(ob, g, f)) =>
    cn[f].doc = doc
ShownOK(ob, cn, on, sh, doc) ==
  \A c \in on : cn[c].known /\ (\A f \in Clients : ~Awaits(ob, cn, c, f)) => sh[c] = doc
GreetOK(ob, cn, on, doc) ==
  \A c \in on : cn[c].pc = "greet" /\ (\A f \in Clients : Awaits(ob, cn, c, f) => Ahead(ob[c], f, c)) =>
    Carries(ob, c, doc)
CurrentOK(ob, cn, on, sh, doc) ==
  /\ NodesOK(cn, doc)
  /\ \/ Reading(cn)
     \/ LastOK(ob, cn, doc) /\ ShownOK(ob, cn, on, sh, doc) /\ GreetOK(ob, cn, on, doc)

CastInv ==
  /\ OneOK(outbox) /\ LoopOK(loop, outbox, conn) /\ MemOK(members, online, conn) /\ KnownOK(conn)
  /\ DirtyOK(dirty, conn) /\ TripOK(outbox, conn) /\ DocOK(outbox, conn)
  /\ \/ overtake
     \/ /\ FlowOK(outbox, conn, members) /\ MetOK(outbox, conn, members)
        /\ dirty = {} => CurrentOK(outbox, conn, online, shown, ToDocument(Session))

LEMMA TripOrders ==
  ASSUME NEW ob \in Outboxes, NEW cn \in [Clients -> Coroutines], TidyOK(ob, cn), TripOK(ob, cn)
  PROVE  Ordered(ob, cn)
<1>1. \A f, v, w \in Clients : Sits(ob[v], f) /\ Sits(ob[w], f) => v = w
  BY Apart
<1>2. ASSUME NEW f \in Clients, NEW w \in Clients, cn[f].pc = "send", Sits(ob[w], f)
      PROVE  \A u \in Visits(cn[f].todo) : u \in Clients /\ Pos(w) < Pos(u)
  <2>1. Onward(cn[f].todo, w) /\ cn[f].todo \in Seq(Clients)
    BY <1>2 DEF TripOK, Coroutines
  <2> QED BY <2>1, OnwardIs
<1> QED BY <1>1, <1>2 DEF Ordered

\* What a step that passes leaves of the rest.
LEMMA PassedFlow ==
  ASSUME NEW ob, NEW cn, NEW ob2, NEW cn2, NEW f \in Clients, NEW w, NEW mem, NEW mem2 \in SUBSET Clients,
         Passed(ob, cn, ob2, cn2, f, w), FlowOK(ob, cn, mem),
         \A u \in mem2 : u \in mem \/ \A g \in Clients : ~Awaits(ob, cn, u, g)
  PROVE  FlowOK(ob2, cn2, mem2)
<1> SUFFICES ASSUME NEW g \in Clients, NEW h \in Clients, Rides(ob2, cn2, g), Rides(ob2, cn2, h),
                    Behind(ob2, g, h), NEW u \in mem2, Awaits(ob2, cn2, u, h)
             PROVE  Awaits(ob2, cn2, u, g)
  BY DEF FlowOK
<1>1. Rides(ob, cn, g) /\ Rides(ob, cn, h) /\ Behind(ob, g, h) /\ u \in Clients
  BY DEF Passed
<1>2. Awaits(ob, cn, u, h)
  BY <1>1 DEF Passed
<1>3. Awaits(ob, cn, u, g)
  BY <1>1, <1>2 DEF FlowOK
<1>4. CASE g = f /\ u = w /\ h # f
  BY <1>1, <1>2, <1>4 DEF Passed
<1>5. CASE h = g
  BY <1>5
<1>6. CASE ~(g = f /\ u = w)
  BY <1>1, <1>3, <1>6 DEF Passed
<1> QED BY <1>4, <1>5, <1>6

LEMMA PassedLast ==
  ASSUME NEW ob, NEW cn, NEW ob2, NEW cn2, NEW f \in Clients, NEW w, NEW doc,
         Passed(ob, cn, ob2, cn2, f, w), LastOK(ob, cn, doc)
  PROVE  LastOK(ob2, cn2, doc)
<1> SUFFICES ASSUME NEW h \in Clients, Rides(ob2, cn2, h),
                    \A g \in Clients : Rides(ob2, cn2, g) => ~Behind(ob2, g, h)
             PROVE  cn2[h].doc = doc
  BY DEF LastOK
<1>1. Rides(ob, cn, h) /\ cn2[h].doc = cn[h].doc
  BY DEF Passed
<1>2. ASSUME NEW g \in Clients, Rides(ob, cn, g), Behind(ob, g, h)
      PROVE  FALSE
  <2>1. CASE Rides(ob2, cn2, g)
    BY <1>2, <2>1 DEF Passed
  <2>2. CASE ~Rides(ob2, cn2, g)
    <3>1. g = f /\ h # f
      BY <1>2, <2>2 DEF Passed
    <3> QED BY <1>1, <1>2, <2>2, <3>1 DEF Passed
  <2> QED BY <2>1, <2>2
<1> QED BY <1>1, <1>2 DEF LastOK

\* A client no broadcast has still to reach now either was one before, or was reached by the last of them.
LEMMA PassedShown ==
  ASSUME NEW ob, NEW cn, NEW ob2, NEW cn2, NEW f \in Clients, NEW w \in Clients, NEW doc, NEW mem,
         Passed(ob, cn, ob2, cn2, f, w), FlowOK(ob, cn, mem), LastOK(ob, cn, doc),
         NEW c \in Clients, \A g \in Clients : ~Awaits(ob2, cn2, c, g)
  PROVE  \/ \A g \in Clients : ~Awaits(ob, cn, c, g)
         \/ c = w /\ Rides(ob, cn, f) /\ (c \in mem /\ ~Behind(ob, f, f) => cn[f].doc = doc)
<1> SUFFICES ASSUME NEW g \in Clients, Awaits(ob, cn, c, g)
             PROVE  c = w /\ Rides(ob, cn, f) /\ (c \in mem /\ ~Behind(ob, f, f) => cn[f].doc = doc)
  OBVIOUS
<1>1. g = f /\ c = w
  BY DEF Passed
<1>2. Rides(ob, cn, f)
  BY <1>1 DEF Awaits
<1>3. ASSUME c \in mem, ~Behind(ob, f, f)
      PROVE  cn[f].doc = doc
  <2>1. ASSUME NEW h \in Clients, Rides(ob, cn, h), Behind(ob, h, f)
        PROVE  FALSE
    <3>1. Awaits(ob, cn, c, h)
      BY <1>1, <1>2, <1>3, <2>1 DEF FlowOK
    <3>2. h # f
      BY <1>3, <2>1
    <3> QED BY <3>1, <3>2 DEF Passed
  <2> QED BY <1>2, <2>1 DEF LastOK
<1> QED BY <1>1, <1>2, <1>3

\* A step of a coroutine that broadcasts neither before nor after it.
Beside(ob, cn, ob2, cn2, c) ==
  /\ cn[c].pc # "send" /\ cn2[c].pc # "send"
  /\ \A g \in Clients : g # c => cn2[g] = cn[g]
  /\ \A v, g \in Clients : g # c => (Sits(ob2[v], g) <=> Sits(ob[v], g))
  /\ \A v, g, h \in Clients : g # c /\ h # c => (Ahead(ob2[v], g, h) <=> Ahead(ob[v], g, h))
  /\ \A g \in Clients : g # c => (Hasty(ob2, g) <=> Hasty(ob, g))
  /\ \A g \in Clients : g # c => \A d : Carries(ob, g, d) => Carries(ob2, g, d)

LEMMA BesideIs ==
  ASSUME NEW ob, NEW cn, NEW ob2, NEW cn2, NEW c \in Clients, NEW w, Beside(ob, cn, ob2, cn2, c)
  PROVE  Passed(ob, cn, ob2, cn2, c, w)
<1>1. \A g \in Clients : (Rides(ob2, cn2, g) <=> Rides(ob, cn, g)) /\ (Rides(ob, cn, g) => g # c /\ cn2[g] = cn[g])
  BY DEF Beside, Rides
<1>2. \A g, h \in Clients : g # c /\ h # c => (Behind(ob2, g, h) <=> Behind(ob, g, h))
  BY DEF Beside, Behind
<1>3. \A u, g \in Clients : Awaits(ob2, cn2, u, g) <=> Awaits(ob, cn, u, g)
  <2> SUFFICES ASSUME NEW u \in Clients, NEW g \in Clients
               PROVE  Awaits(ob2, cn2, u, g) <=> Awaits(ob, cn, u, g)
    OBVIOUS
  <2>1. g # c => (Sits(ob2[u], g) <=> Sits(ob[u], g))
    BY DEF Beside
  <2> QED BY <1>1, <2>1 DEF Awaits
<1>4. \A u, g \in Clients : Awaits(ob, cn, u, g) => g # c
  BY <1>1 DEF Awaits
<1>5. ~Rides(ob, cn, c)
  BY <1>1
<1> QED BY <1>1, <1>2, <1>3, <1>4, <1>5 DEF Passed

\* What it leaves of the broadcasts ...
LEMMA BesideTrips ==
  ASSUME NEW ob, NEW cn, NEW ob2, NEW cn2, NEW c \in Clients, Beside(ob, cn, ob2, cn2, c),
         cn2[c].pc # "new", TripOK(ob, cn), DocOK(ob, cn), Ordered(ob, cn)
  PROVE  TripOK(ob2, cn2) /\ DocOK(ob2, cn2)
<1>1. \A u \in Clients : cn[u].pc # "new" => cn2[u].pc # "new"
  BY DEF Beside
<1>2. \A f \in Clients : cn2[f].pc = "send" => cn[f].pc = "send" /\ f # c /\ cn2[f] = cn[f]
  BY DEF Beside
<1>3. TripOK(ob2, cn2)
  <2> SUFFICES ASSUME NEW f \in Clients, NEW w \in Clients, cn2[f].pc = "send", Sits(ob2[w], f)
               PROVE  /\ Onward(cn2[f].todo, w) /\ cn2[w].pc # "new"
                      /\ \A u \in Visits(cn2[f].todo) : cn2[u].pc # "new"
    BY DEF TripOK
  <2>1. cn[f].pc = "send" /\ cn2[f] = cn[f] /\ Sits(ob[w], f)
    BY <1>2 DEF Beside
  <2>2. \A u \in Visits(cn[f].todo) : u \in Clients
    BY <2>1 DEF Ordered
  <2>3. Onward(cn[f].todo, w) /\ cn[w].pc # "new" /\ \A u \in Visits(cn[f].todo) : cn[u].pc # "new"
    BY <2>1 DEF TripOK
  <2> QED BY <1>1, <2>1, <2>2, <2>3
<1>4. DocOK(ob2, cn2)
  BY <1>2 DEF DocOK, Beside
<1> QED BY <1>3, <1>4

LEMMA BesideMet ==
  ASSUME NEW ob, NEW cn, NEW ob2, NEW cn2, NEW c \in Clients, Beside(ob, cn, ob2, cn2, c),
         NEW mem, NEW mem2, MetOK(ob, cn, mem),
         \A v \in mem \ mem2 : \A g \in Clients : cn[g].pc = "send" => ~Sits(ob[v], g)
  PROVE  MetOK(ob2, cn2, mem2)
<1> SUFFICES ASSUME NEW f \in Clients, NEW w \in Clients, cn2[f].pc = "send", Sits(ob2[w], f), ~Hasty(ob2, f)
             PROVE  w \in mem2
  BY DEF MetOK
<1>1. f # c /\ cn[f].pc = "send" /\ Sits(ob[w], f) /\ ~Hasty(ob, f)
  BY DEF Beside
<1> QED BY <1>1 DEF MetOK

\* ... and of the documents.
Greeted(ob, sh, c) == \A d : Carries(ob, c, d) => sh[c] = d
LEMMA BesideCurrent ==
  ASSUME NEW ob, NEW cn, NEW ob2, NEW cn2, NEW c \in Clients, Beside(ob, cn, ob2, cn2, c),
         NEW on \in SUBSET Clients, NEW on2 \in SUBSET Clients, NEW sh, NEW sh2, NEW doc,
         CurrentOK(ob, cn, on, sh, doc),
         cn[c].pc = "edges" => ~cn[c].known, cn2[c].pc = "edges" => cn2[c].doc.nodes = doc.nodes,
         \A u \in on2 : u # c => u \in on /\ sh2[u] = sh[u],
         c \in on2 /\ cn2[c].known =>
           \/ c \in on /\ sh2[c] = sh[c] /\ cn[c].known
           \/ c \in on /\ cn[c].pc = "greet" /\ Greeted(ob, sh2, c),
         c \in on2 /\ cn2[c].pc = "greet" => Carries(ob2, c, doc)
  PROVE  CurrentOK(ob2, cn2, on2, sh2, doc)
<1>1. NodesOK(cn2, doc)
  BY DEF CurrentOK, NodesOK, Beside
<1>2. Reading(cn) => Reading(cn2)
  BY DEF Reading, Beside
<1>3. ASSUME LastOK(ob, cn, doc), ShownOK(ob, cn, on, sh, doc), GreetOK(ob, cn, on, doc)
      PROVE  LastOK(ob2, cn2, doc) /\ ShownOK(ob2, cn2, on2, sh2, doc) /\ GreetOK(ob2, cn2, on2, doc)
  <2>1. Passed(ob, cn, ob2, cn2, c, c)
    BY BesideIs
  <2>2. ~Rides(ob, cn, c)
    BY DEF Rides, Beside
  <2>3. \A u, g \in Clients : Awaits(ob2, cn2, u, g) <=> Awaits(ob, cn, u, g)
    BY <2>1, <2>2 DEF Passed, Awaits
  <2>4. LastOK(ob2, cn2, doc)
    BY <1>3, <2>1, PassedLast
  <2>5. ShownOK(ob2, cn2, on2, sh2, doc)
    <3> SUFFICES ASSUME NEW u \in on2, cn2[u].known, \A f \in Clients : ~Awaits(ob2, cn2, u, f)
                 PROVE  sh2[u] = doc
      BY DEF ShownOK
    <3>1. \A f \in Clients : ~Awaits(ob, cn, u, f)
      BY <2>3
    <3>2. u \in on /\ sh2[u] = sh[u] /\ cn[u].known => sh2[u] = doc
      BY <1>3, <3>1 DEF ShownOK
    <3>3. CASE u # c
      BY <3>2, <3>3 DEF Beside
    <3>4. CASE u = c
      <4>1. CASE c \in on /\ cn[c].pc = "greet" /\ Greeted(ob, sh2, c)
        <5>1. Carries(ob, c, doc)
          BY <1>3, <3>1, <3>4, <4>1 DEF GreetOK
        <5> QED BY <3>4, <4>1, <5>1 DEF Greeted
      <4> QED BY <3>2, <3>4, <4>1
    <3> QED BY <3>3, <3>4
  <2>6. GreetOK(ob2, cn2, on2, doc)
    <3> SUFFICES ASSUME NEW u \in on2, cn2[u].pc = "greet",
                        \A f \in Clients : Awaits(ob2, cn2, u, f) => Ahead(ob2[u], f, u)
                 PROVE  Carries(ob2, u, doc)
      BY DEF GreetOK
    <3>1. CASE u # c
      <4>1. u \in on /\ cn[u].pc = "greet"
        BY <3>1 DEF Beside
      <4>2. \A f \in Clients : Awaits(ob, cn, u, f) => Ahead(ob[u], f, u)
        <5> SUFFICES ASSUME NEW f \in Clients, Awaits(ob, cn, u, f)
                     PROVE  Ahead(ob[u], f, u)
          OBVIOUS
        <5>1. f # c /\ Ahead(ob2[u], f, u)
          BY <2>2, <2>3 DEF Awaits
        <5> QED BY <3>1, <5>1 DEF Beside
      <4>3. Carries(ob, u, doc)
        BY <1>3, <4>1, <4>2 DEF GreetOK
      <4> QED BY <3>1, <4>3 DEF Beside
    <3> QED BY <3>1
  <2> QED BY <2>4, <2>5, <2>6
<1> QED BY <1>1, <1>2, <1>3 DEF CurrentOK

-----------------------------------------------------------------------------
(* The steps that leave the broadcasts as they are.                        *)

LEMMA AddsBeside ==
  ASSUME NEW ob, NEW cn, NEW ob2, NEW cn2, NEW c \in Clients, NEW m, Adds(ob, ob2, c, c, m),
         cn[c].pc # "send", cn2[c].pc # "send", \A g \in Clients : g # c => cn2[g] = cn[g]
  PROVE  Beside(ob, cn, ob2, cn2, c)
BY DEF Adds, Beside

LEMMA LostBeside ==
  ASSUME NEW ob, NEW cn, NEW ob2, NEW cn2, NEW c \in Clients, Lost(ob, ob2, c),
         cn[c].pc # "send", cn2[c].pc # "send", \A g \in Clients : g # c => cn2[g] = cn[g]
  PROVE  Beside(ob, cn, ob2, cn2, c)
BY DEF Lost, Beside

\* What is left to show of such a step.
LEMMA Aside ==
  ASSUME IInv, CastInv, NEW c \in Clients, Beside(outbox, conn, outbox', conn', c),
         conn'[c].pc # "new", Knows(conn'[c]),
         OneOK(outbox'), LoopOK(loop', outbox', conn'), DirtyOK(dirty', conn'),
         members' \in SUBSET Clients, \A v \in members' : v \in members \/ v = c,
         c \in members' /\ c \notin members => conn[c].pc = "new",
         online' \subseteq members', overtake => overtake',
         overtake' \/ \A v \in members \ members' : \A g \in Clients : conn[g].pc = "send" => ~Sits(outbox[v], g),
         ~overtake' /\ dirty' = {} => CurrentOK(outbox', conn', online', shown', ToDocument(Session'))
  PROVE  CastInv'
<1>1. /\ outbox \in Outboxes /\ conn \in [Clients -> Coroutines] /\ TidyOK(outbox, conn)
      /\ members \subseteq Clients
  BY DEF IInv, Typed, Outboxes
<1>2. Ordered(outbox, conn)
  BY <1>1, TripOrders DEF CastInv
<1>3. TripOK(outbox', conn') /\ DocOK(outbox', conn')
  BY <1>2, BesideTrips DEF CastInv
<1>4. \A g \in Clients : g # c => conn'[g] = conn[g]
  BY DEF Beside
<1>5. KnownOK(conn')
  BY <1>4 DEF KnownOK, CastInv
<1>6. MemOK(members', online', conn')
  <2>1. \A v \in members' : conn'[v].pc # "new"
    <3> SUFFICES ASSUME NEW v \in members', v # c
                 PROVE  conn'[v].pc # "new"
      OBVIOUS
    <3>1. v \in members /\ v \in Clients
      OBVIOUS
    <3> QED BY <1>4, <3>1 DEF CastInv, MemOK
  <2> QED BY <2>1 DEF MemOK
<1>7. ASSUME ~overtake'
      PROVE  FlowOK(outbox', conn', members') /\ MetOK(outbox', conn', members')
  <2>1. FlowOK(outbox, conn, members) /\ MetOK(outbox, conn, members)
    BY <1>7 DEF CastInv
  <2>2. Passed(outbox, conn, outbox', conn', c, c)
    BY BesideIs
  <2>3. ASSUME NEW u \in members', u \notin members
        PROVE  \A g \in Clients : ~Awaits(outbox, conn, u, g)
    <3>1. u = c /\ conn[u].pc = "new" /\ u \in Clients
      BY <2>3
    <3> SUFFICES ASSUME NEW g \in Clients, Awaits(outbox, conn, u, g)
                 PROVE  FALSE
      OBVIOUS
    <3>2. PICK w \in Clients : Sits(outbox[w], g) /\ conn[g].pc = "send"
      BY DEF Awaits, Rides
    <3>3. \A v \in Clients : Sits(outbox[v], g) => conn[v].pc # "new"
      BY <3>2 DEF CastInv, TripOK
    <3>4. \A v \in Visits(conn[g].todo) : conn[v].pc # "new"
      BY <3>2 DEF CastInv, TripOK
    <3> QED BY <3>1, <3>3, <3>4 DEF Awaits
  <2>4. FlowOK(outbox', conn', members')
    BY <2>1, <2>2, <2>3, PassedFlow
  <2>5. MetOK(outbox', conn', members')
    BY <1>7, <2>1, BesideMet
  <2> QED BY <2>4, <2>5
<1> QED BY <1>3, <1>5, <1>6, <1>7 DEF CastInv

\* A step of a coroutine that has the loop to itself, and sends its client something or nothing.
LEMMA Alone ==
  ASSUME IInv, CastInv, NEW c \in Clients, NEW at \in Coroutines, conn' = [conn EXCEPT ![c] = at],
         loop \in {None, c}, \A f \in Clients : ~Hasty(outbox, f),
         conn[c].pc \notin Sending, at.pc \notin {"send", "new"}, Knows(at),
         loop' \in {None, c}, at.pc = "edges" => loop' = c,
         \/ outbox' = outbox /\ at.pc # "greet"
         \/ /\ loop' = None
            /\ \E d \in Documents : /\ outbox' = [outbox EXCEPT ![c] = Append(@, Message(c, c, d))]
                                    /\ dirty = {} /\ ~overtake /\ at.pc = "greet" => d = ToDocument(Session),
         \A d \in dirty' : (d \in dirty /\ d # c) \/ (d = c /\ Owes(at)),
         members' \in SUBSET Clients, \A v \in members' : v \in members \/ v = c,
         c \in members' /\ c \notin members => conn[c].pc = "new",
         online' \subseteq members', \A v \in online' : v \in online \/ v = c, overtake => overtake',
         overtake' \/ \A v \in members \ members' : \A g \in Clients : conn[g].pc = "send" => ~Sits(outbox[v], g),
         ~overtake' /\ dirty' = {} =>
           \/ /\ dirty = {} /\ sessions' = sessions /\ cur' = cur /\ shown' = shown
              /\ conn[c].pc = "edges" => ~conn[c].known
              /\ at.pc = "edges" => at.doc.nodes = ToDocument(Session).nodes
              /\ c \in online' /\ at.known => c \in online /\ conn[c].known
           \/ CurrentOK(outbox', conn', online', shown', ToDocument(Session'))
  PROVE  CastInv'
<1>1. /\ outbox \in Outboxes /\ conn \in [Clients -> Coroutines] /\ TidyOK(outbox, conn) /\ Spent(outbox, c)
      /\ dirty \subseteq Clients /\ online \subseteq Clients
  BY Idles DEF IInv, Typed
<1>2. conn'[c] = at /\ \A g \in Clients : g # c => conn'[g] = conn[g]
  BY <1>1
<1>3. conn[c].pc # "send" /\ conn'[c].pc # "send"
  BY <1>2 DEF Sending
<1>4. /\ Beside(outbox, conn, outbox', conn', c) /\ OneOK(outbox')
      /\ outbox' = outbox \/ loop' = None
      /\ at.pc = "greet" /\ dirty = {} /\ ~overtake => Carries(outbox', c, ToDocument(Session))
  <2>1. CASE outbox' = outbox /\ at.pc # "greet"
    <3>1. Beside(outbox, conn, outbox', conn', c)
      BY <1>2, <1>3, <2>1 DEF Beside
    <3>2. OneOK(outbox')
      BY <2>1 DEF OneOK
    <3> QED BY <2>1, <3>1, <3>2
  <2>2. CASE /\ loop' = None
             /\ \E d \in Documents : /\ outbox' = [outbox EXCEPT ![c] = Append(@, Message(c, c, d))]
                                     /\ dirty = {} /\ ~overtake /\ at.pc = "greet" => d = ToDocument(Session)
    <3>1. PICK d \in Documents : /\ outbox' = [outbox EXCEPT ![c] = Append(@, Message(c, c, d))]
                                 /\ dirty = {} /\ ~overtake /\ at.pc = "greet" => d = ToDocument(Session)
      BY <2>2
    <3> DEFINE m == Message(c, c, d)
    <3>2. m \in Mails /\ m.from = c /\ m.doc = d
      BY DEF Message, Mails
    <3>3. outbox' = [outbox EXCEPT ![c] = Append(@, m)]
      BY <3>1
    <3> HIDE DEF m
    <3>4. Adds(outbox, outbox', c, c, m)
      BY <1>1, <3>2, <3>3, AddsIs
    <3>5. Beside(outbox, conn, outbox', conn', c)
      BY <1>2, <1>3, <3>4, AddsBeside
    <3>6. OneOK(outbox')
      BY <3>4 DEF Adds, OneOK
    <3>7. Carries(outbox, c, d)
      BY <1>1 DEF Spent, Carries, Bears
    <3>8. Carries(outbox', c, d)
      BY <3>2, <3>4, <3>7 DEF Adds
    <3> QED BY <2>2, <3>1, <3>5, <3>6, <3>8
  <2> QED BY <2>1, <2>2
<1>5. \A d \in Clients : d # c => conn'[d].pc # "edges"
  <2>1. \A d \in Clients : conn[d].pc = "edges" => loop = d
    BY DEF CastInv, LoopOK
  <2> QED BY <1>2, <2>1, WorkbenchAssumption
<1>6. LoopOK(loop', outbox', conn')
  <2>1. loop' # None => \A f \in Clients : ~Hasty(outbox', f)
    BY <1>4
  <2> QED BY <1>2, <1>5, <2>1 DEF LoopOK
<1>7. DirtyOK(dirty', conn')
  <2> SUFFICES ASSUME NEW d \in dirty'
               PROVE  Owes(conn'[d])
    BY DEF DirtyOK
  <2>1. CASE d = c
    BY <1>2, <2>1
  <2>2. CASE d \in dirty /\ d # c
    <3>1. Owes(conn[d])
      BY <2>2 DEF CastInv, DirtyOK
    <3> QED BY <1>1, <1>2, <2>2, <3>1
  <2> QED BY <2>1, <2>2
<1>8. ASSUME ~overtake', dirty' = {}
      PROVE  CurrentOK(outbox', conn', online', shown', ToDocument(Session'))
  <2> SUFFICES ASSUME /\ dirty = {} /\ sessions' = sessions /\ cur' = cur /\ shown' = shown
                      /\ conn[c].pc = "edges" => ~conn[c].known
                      /\ at.pc = "edges" => at.doc.nodes = ToDocument(Session).nodes
                      /\ c \in online' /\ at.known => c \in online /\ conn[c].known
               PROVE  CurrentOK(outbox', conn', online', shown', ToDocument(Session'))
    BY <1>8
  <2>1. ToDocument(Session') = ToDocument(Session)
    BY DEF Session
  <2>2. CurrentOK(outbox, conn, online, shown, ToDocument(Session))
    BY <1>8 DEF CastInv
  <2> DEFINE doc == ToDocument(Session)
  <2>3. CurrentOK(outbox, conn, online, shown, doc)
    BY <2>2
  <2>4. c \in online' /\ conn'[c].pc = "greet" => Carries(outbox', c, doc)
    BY <1>2, <1>4, <1>8
  <2>5. conn'[c].pc = "edges" => conn'[c].doc.nodes = doc.nodes
    BY <1>2
  <2>6. c \in online' /\ conn'[c].known => c \in online /\ shown'[c] = shown[c] /\ conn[c].known
    BY <1>2
  <2>7. online' \in SUBSET Clients /\ online \in SUBSET Clients
    BY <1>1
  <2>8. \A u \in online' : u # c => u \in online /\ shown'[u] = shown[u]
    OBVIOUS
  <2> HIDE DEF doc
  <2>9. CurrentOK(outbox', conn', online', shown', doc)
    BY <1>4, <2>3, <2>4, <2>5, <2>6, <2>7, <2>8, BesideCurrent
  <2> QED BY <2>1, <2>9 DEF doc
<1>9. conn'[c].pc # "new" /\ Knows(conn'[c])
  BY <1>2
<1> QED BY <1>4, <1>6, <1>7, <1>8, <1>9, Aside

LEMMA TurnIs ==
  ASSUME CastInv, NEW c \in Clients, Turn(c)
  PROVE  loop \in {None, c} /\ \A f \in Clients : ~Hasty(outbox, f)
<1>1. loop \in {None, c} /\ Settled
  BY DEF Turn
<1>2. \A f \in Clients : ~Hasty(outbox, f)
  BY <1>1 DEF Settled, Hasty, Rash
<1> QED BY <1>1, <1>2

LEMMA ServedKnown ==
  ASSUME NEW p \in Pcs
  PROVE  Served(p) \in Coroutines /\ Served(p).pc = p /\ Served(p).known = TRUE /\ Served(p).todo = <<>>
<1> DEFINE t == Served(p)
<1>1. t = [Fresh EXCEPT !.pc = p, !.known = TRUE]
  BY DEF Served
<1>2. Fresh \in Coroutines /\ Fresh.todo = <<>>
  BY FreshIs DEF Fresh
<1> HIDE DEF t
<1>3. t \in Coroutines /\ t.pc = p /\ t.known = TRUE /\ t.todo = <<>>
  BY <1>1, <1>2 DEF Coroutines
<1> QED BY <1>3 DEF t

\* Where a coroutine goes that starts anew, and what it knows.
LEMMA GotoIs ==
  ASSUME IInv, NEW c \in Clients, NEW p \in Pcs, Goto(c, p)
  PROVE  \E at \in Coroutines : /\ conn' = [conn EXCEPT ![c] = at] /\ loop' = None
                                 /\ at.pc = p /\ at.known = conn[c].known
<1> DEFINE t == [Fresh EXCEPT !.pc = p, !.known = conn[c].known]
<1>1. conn' = [conn EXCEPT ![c] = t] /\ loop' = None
  BY DEF Goto, Await
<1>2. conn[c].known \in BOOLEAN
  BY DEF IInv, Typed, Coroutines
<1>3. t = [Fresh EXCEPT !.pc = p, !.known = conn[c].known]
  OBVIOUS
<1> HIDE DEF t
<1>4. t \in Coroutines /\ t.pc = p /\ t.known = conn[c].known
  BY <1>2, <1>3, FreshIs DEF Coroutines
<1> QED BY <1>1, <1>4

LEMMA ServedStep ==
  ASSUME NEW c \in Clients, NEW p \in Pcs, Await(c, Served(p))
  PROVE  \E at \in Coroutines : /\ conn' = [conn EXCEPT ![c] = at] /\ loop' = None
                                 /\ at.pc = p /\ at.known = TRUE
BY ServedKnown DEF Await

\* A turn that neither connects nor reads: the session stays and nothing more is owed, or it may change and a
\* broadcast of it is.
LEMMA Serves ==
  ASSUME IInv, CastInv, NEW c \in Clients, NEW at \in Coroutines, conn' = [conn EXCEPT ![c] = at], Turn(c),
         conn[c].pc \notin Sending, conn[c].pc # "edges", at.pc \notin {"send", "new", "edges", "greet"}, Knows(at),
         members' = members, online' \subseteq online, overtake' = overtake, shown' = shown,
         (outbox' = outbox /\ loop' \in {None, c}) \/ (Reply(c) /\ loop' = None),
         \/ dirty' = dirty \union {c} /\ Owes(at)
         \/ /\ dirty' = dirty /\ sessions' = sessions /\ cur' = cur /\ (c \in dirty => Owes(at))
            /\ c \in online' /\ at.known => conn[c].known
  PROVE  CastInv'
<1>1. loop \in {None, c} /\ \A f \in Clients : ~Hasty(outbox, f)
  BY TurnIs
<1>2. \/ outbox' = outbox /\ at.pc # "greet"
      \/ /\ loop' = None
         /\ \E d \in Documents : /\ outbox' = [outbox EXCEPT ![c] = Append(@, Message(c, c, d))]
                                 /\ dirty = {} /\ ~overtake /\ at.pc = "greet" => d = ToDocument(Session)
  BY NothingIs DEF Reply, Send
<1>3. loop' \in {None, c}
  OBVIOUS
<1>4. members' \in SUBSET Clients /\ online' \subseteq members'
  BY DEF IInv, Typed, CastInv, MemOK
<1>5. \A d \in dirty' : (d \in dirty /\ d # c) \/ (d = c /\ Owes(at))
  OBVIOUS
<1>6. dirty' = {} => /\ dirty = {} /\ sessions' = sessions /\ cur' = cur /\ shown' = shown
                     /\ conn[c].pc = "edges" => ~conn[c].known
                     /\ at.pc = "edges" => at.doc.nodes = ToDocument(Session).nodes
                     /\ c \in online' /\ at.known => c \in online /\ conn[c].known
  OBVIOUS
<1> QED BY <1>1, <1>2, <1>3, <1>4, <1>5, <1>6, Alone

\* What a coroutine knows, by what it does; and that it owes nothing.
LEMMA KnowsIs ==
  ASSUME CastInv, NEW c \in Clients
  PROVE  /\ conn[c].pc \in {"new", "hello", "greet"} => ~conn[c].known
         /\ conn[c].pc \in {"idle", "wait", "work", "ack", "error", "send"} => conn[c].known
         /\ c \in dirty => \/ conn[c].pc = "off"
                           \/ conn[c].pc \in {"ack", "read"} /\ conn[c].known
                           \/ conn[c].pc = "work" /\ conn[c].work > 0
BY DEF CastInv, KnownOK, Knows, DirtyOK, Owes

LEMMA NoAgentCasts ==
  ASSUME IInv, CastInv, NEW c \in Clients, NoAgent(c)
  PROVE  CastInv'
<1>1. /\ Turn(c) /\ conn[c].pc = "idle" /\ Goto(c, "error") /\ Reply(c)
      /\ UNCHANGED <<sessions, cur, members, online, shown, dirty, overtake>>
  BY DEF NoAgent, Receiving
<1>2. PICK at \in Coroutines : /\ conn' = [conn EXCEPT ![c] = at] /\ loop' = None
                               /\ at.pc = "error" /\ at.known = conn[c].known
  BY <1>1, GotoIs DEF Pcs
<1>3. Knows(at) /\ c \notin dirty
  BY <1>1, <1>2, KnowsIs DEF Knows
<1> QED BY <1>1, <1>2, <1>3, Serves DEF Sending

LEMMA ReceiveCasts ==
  ASSUME IInv, CastInv, NEW c \in Clients, NEW m \in Messages(c), Receive(c, m)
  PROVE  CastInv'
<1> DEFINE at == [Served("wait") EXCEPT !.msg = m, !.bound = cur]
<1>1. /\ Turn(c) /\ conn[c].pc = "idle" /\ conn' = [conn EXCEPT ![c] = at] /\ loop' \in {None, c}
      /\ UNCHANGED <<sessions, cur, members, online, shown, dirty, overtake, outbox>>
  BY DEF Receive, Receiving, GoOn, Await
<1>2. at \in Coroutines /\ at.pc = "wait" /\ at.known = TRUE
  <2> DEFINE s == Served("wait")
  <2>1. s \in Coroutines /\ s.pc = "wait" /\ s.known = TRUE
    BY ServedKnown DEF Pcs
  <2>2. at = [s EXCEPT !.msg = m, !.bound = cur] /\ cur \in Nat /\ m \in Msgs
    BY MessageIs DEF IInv, Typed
  <2> HIDE DEF s, at
  <2> QED BY <2>1, <2>2 DEF Coroutines
<1> HIDE DEF at
<1>3. Knows(at) /\ c \notin dirty /\ conn[c].known
  BY <1>1, <1>2, KnowsIs DEF Knows
<1> QED BY <1>1, <1>2, <1>3, Serves DEF Sending

LEMMA RefuseCasts ==
  ASSUME IInv, CastInv, NEW c \in Clients, Refuse(c)
  PROVE  CastInv'
<1>1. /\ Turn(c) /\ conn[c].pc = "wait" /\ Goto(c, "error") /\ Reply(c)
      /\ UNCHANGED <<sessions, cur, members, online, shown, dirty, overtake>>
  BY DEF Refuse, Handling
<1>2. PICK at \in Coroutines : /\ conn' = [conn EXCEPT ![c] = at] /\ loop' = None
                               /\ at.pc = "error" /\ at.known = conn[c].known
  BY <1>1, GotoIs DEF Pcs
<1>3. Knows(at) /\ c \notin dirty
  BY <1>1, <1>2, KnowsIs DEF Knows
<1> QED BY <1>1, <1>2, <1>3, Serves DEF Sending

\* An action that is handled, undone or redone.
LEMMA ChangedCasts ==
  ASSUME IInv, CastInv, NEW c \in Clients, NEW type, Handling(c, type), Changed(c)
  PROVE  CastInv'
<1>1. /\ Turn(c) /\ conn[c].pc = "wait" /\ Goto(c, "ack") /\ Reply(c) /\ dirty' = dirty \union {c}
      /\ UNCHANGED <<members, online, shown, overtake>>
  BY DEF Handling, Changed
<1>2. PICK at \in Coroutines : /\ conn' = [conn EXCEPT ![c] = at] /\ loop' = None
                               /\ at.pc = "ack" /\ at.known = conn[c].known
  BY <1>1, GotoIs DEF Pcs
<1>3. Knows(at) /\ Owes(at)
  BY <1>1, <1>2, KnowsIs DEF Knows, Owes
<1> QED BY <1>1, <1>2, <1>3, Serves DEF Sending

LEMMA TurnedKnown ==
  ASSUME NEW at \in Coroutines, NEW p \in Pcs, NEW t, t = [at EXCEPT !.pc = p]
  PROVE  /\ t \in Coroutines /\ t.pc = p /\ t.known = at.known /\ t.work = at.work
         /\ t.doc = at.doc /\ t.todo = at.todo
  BY DEF Coroutines

LEMMA ToReadCasts ==
  ASSUME IInv, CastInv, NEW c \in Clients, HandleLoad(c) \/ HandleSync(c)
  PROVE  CastInv'
<1> DEFINE at == [conn[c] EXCEPT !.pc = "read"]
<1>1. /\ Turn(c) /\ conn[c].pc = "wait" /\ conn' = [conn EXCEPT ![c] = at] /\ loop' = c /\ outbox' = outbox
      /\ UNCHANGED <<members, online, shown, overtake>>
      /\ dirty' = dirty \union {c} \/ UNCHANGED <<dirty, sessions, cur>>
  BY DEF HandleLoad, HandleSync, Handling, GoOn
<1>2. conn[c] \in Coroutines /\ at = [conn[c] EXCEPT !.pc = "read"]
  BY DEF IInv, Typed
<1> HIDE DEF at
<1>3. at \in Coroutines /\ at.pc = "read" /\ at.known = conn[c].known
  BY <1>2, TurnedKnown DEF Pcs
<1>4. Knows(at) /\ Owes(at) /\ conn[c].known
  BY <1>1, <1>3, KnowsIs DEF Knows, Owes
<1> QED BY <1>1, <1>3, <1>4, Serves DEF Sending

LEMMA StartWorkCasts ==
  ASSUME IInv, CastInv, NEW c \in Clients, StartWork(c)
  PROVE  CastInv'
<1> DEFINE b == IF conn[c].msg.type = "tune" THEN cur ELSE conn[c].bound
           at == [conn[c] EXCEPT !.pc = "work", !.bound = b]
<1>1. /\ Turn(c) /\ conn[c].pc = "wait" /\ outbox' = outbox /\ loop' = None
      /\ UNCHANGED <<sessions, cur, members, online, shown, dirty, overtake>>
  BY DEF StartWork, Starting, Await
<1>2. conn[c] \in Coroutines /\ conn[c].bound \in Nat /\ cur \in Nat
  BY DEF IInv, Typed, Coroutines
<1>3. conn' = [conn EXCEPT ![c] = at]
  <2>1. conn' = [conn EXCEPT ![c] = [conn[c] EXCEPT !.pc = "work",
                                       !.bound = IF conn[c].msg.type = "tune" THEN cur ELSE @]]
    BY DEF StartWork, Starting, Await
  <2>2. [conn[c] EXCEPT !.pc = "work", !.bound = IF conn[c].msg.type = "tune" THEN cur ELSE @] = at
    BY <1>2 DEF Coroutines
  <2> QED BY <2>1, <2>2
<1>4. b \in Nat
  BY <1>2
<1> HIDE DEF b
<1>5. at \in Coroutines /\ at.pc = "work" /\ at.known = conn[c].known
  <2>1. at = [conn[c] EXCEPT !.pc = "work", !.bound = b]
    OBVIOUS
  <2> HIDE DEF at
  <2> QED BY <1>2, <1>4, <2>1 DEF Coroutines, Pcs
<1> HIDE DEF at
<1>6. Knows(at) /\ c \notin dirty
  BY <1>1, <1>5, KnowsIs DEF Knows
<1> QED BY <1>1, <1>3, <1>5, <1>6, Serves DEF Sending

LEMMA ResumeCasts ==
  ASSUME IInv, CastInv, NEW c \in Clients, FinishWork(c) \/ TuneRaises(c)
  PROVE  CastInv'
<1>1. /\ Turn(c) /\ conn[c].pc = "work" /\ Reply(c)
      /\ UNCHANGED <<sessions, cur, members, online, shown, dirty, overtake>>
  BY DEF FinishWork, TuneRaises, Resuming
<1>2. Goto(c, "ack") \/ (Goto(c, "error") /\ conn[c].work = 0)
  BY DEF FinishWork, TuneRaises
<1>3. PICK at \in Coroutines : /\ conn' = [conn EXCEPT ![c] = at] /\ loop' = None /\ at.known = conn[c].known
                               /\ at.pc = "ack" \/ (at.pc = "error" /\ conn[c].work = 0)
  BY <1>2, GotoIs DEF Pcs
<1>4. Knows(at) /\ (c \in dirty => Owes(at))
  BY <1>1, <1>3, KnowsIs DEF Knows, Owes
<1> QED BY <1>1, <1>3, <1>4, Serves DEF Sending

LEMMA WorkRaisesCasts ==
  ASSUME IInv, CastInv, NEW c \in Clients, WorkRaises(c)
  PROVE  CastInv'
<1>1. /\ Turn(c) /\ conn[c].pc = "work" /\ outbox' = outbox /\ online' = online \ {c}
      /\ UNCHANGED <<sessions, cur, members, shown, dirty, overtake>> /\ Await(c, Served("off"))
  BY DEF WorkRaises, Resuming
<1>2. PICK at \in Coroutines : /\ conn' = [conn EXCEPT ![c] = at] /\ loop' = None
                               /\ at.pc = "off" /\ at.known = TRUE
  BY <1>1, ServedStep DEF Pcs
<1>3. Knows(at) /\ Owes(at)
  BY <1>2 DEF Knows, Owes
<1> QED BY <1>1, <1>2, <1>3, Serves DEF Sending

LEMMA JoinCasts ==
  ASSUME IInv, CastInv, NEW c \in Clients, Join(c)
  PROVE  CastInv'
<1>1. /\ Turn(c) /\ conn[c].pc = "new" /\ Goto(c, "hello") /\ Reply(c)
      /\ members' = members \union {c} /\ online' = online \union {c}
      /\ UNCHANGED <<sessions, cur, shown, dirty, overtake>>
  BY DEF Join
<1>2. PICK at \in Coroutines : /\ conn' = [conn EXCEPT ![c] = at] /\ loop' = None
                               /\ at.pc = "hello" /\ at.known = conn[c].known
  BY <1>1, GotoIs DEF Pcs
<1>3. Knows(at) /\ c \notin dirty /\ ~at.known
  BY <1>1, <1>2, KnowsIs DEF Knows
<1>4. loop \in {None, c} /\ \A f \in Clients : ~Hasty(outbox, f)
  BY <1>1, TurnIs
<1>5. \E d \in Documents : outbox' = [outbox EXCEPT ![c] = Append(@, Message(c, c, d))]
  BY <1>1, NothingIs DEF Reply, Send
<1>6. members' \in SUBSET Clients /\ online' \subseteq members' /\ online \subseteq members
  BY <1>1 DEF IInv, Typed, CastInv, MemOK
<1>7. \A d \in dirty' : d \in dirty /\ d # c
  BY <1>1, <1>3
<1>8. members \ members' = {}
  BY <1>1
<1>9. conn[c].pc \notin Sending
  BY <1>1 DEF Sending
<1> QED BY <1>1, <1>2, <1>3, <1>4, <1>5, <1>6, <1>7, <1>8, <1>9, Alone

LEMMA DepartCasts ==
  ASSUME IInv, CastInv, NEW c \in Clients, Depart(c)
  PROVE  CastInv'
<1>1. /\ Turn(c) /\ conn[c].pc = "idle" /\ c \notin online /\ Await(c, Served("off")) /\ outbox' = outbox
      /\ members' = members \ {c}
      /\ overtake' = (overtake \/ \E k \in DOMAIN outbox'[c] : conn[outbox'[c][k].from].pc = "send")
      /\ UNCHANGED <<sessions, cur, online, shown, dirty>>
  BY DEF Depart, Forget
<1>2. PICK at \in Coroutines : /\ conn' = [conn EXCEPT ![c] = at] /\ loop' = None
                               /\ at.pc = "off" /\ at.known = TRUE
  BY <1>1, ServedStep DEF Pcs
<1>3. Knows(at) /\ c \notin dirty
  BY <1>1, <1>2, KnowsIs DEF Knows
<1>4. loop \in {None, c} /\ \A f \in Clients : ~Hasty(outbox, f)
  BY <1>1, TurnIs
<1>5. members' \in SUBSET Clients /\ online' \subseteq members'
  BY <1>1 DEF IInv, Typed, CastInv, MemOK
<1>6. overtake' \/ \A v \in members \ members' : \A g \in Clients : conn[g].pc = "send" => ~Sits(outbox[v], g)
  <2> SUFFICES ASSUME NEW g \in Clients, conn[g].pc = "send", Sits(outbox[c], g)
               PROVE  overtake'
    BY <1>1
  <2>1. DOMAIN outbox[c] = 1 .. Len(outbox[c])
    BY DEF IInv, Typed
  <2>2. \E k \in DOMAIN outbox[c] : conn[outbox[c][k].from].pc = "send"
    BY <2>1 DEF Sits
  <2> QED BY <1>1, <2>2
<1>7. \A d \in dirty' : d \in dirty /\ d # c
  BY <1>1, <1>3
<1>8. conn[c].pc \notin Sending
  BY <1>1 DEF Sending
<1> QED BY <1>1, <1>2, <1>3, <1>4, <1>5, <1>6, <1>7, <1>8, Alone

LEMMA CloseCasts ==
  ASSUME IInv, CastInv, NEW c \in Clients, Close(c)
  PROVE  CastInv'
<1>1. /\ online' \subseteq online
      /\ UNCHANGED <<sessions, cur, loop, conn, members, outbox, shown, dirty, overtake>>
  BY DEF Close
<1>2. MemOK(members, online', conn)
  BY <1>1 DEF CastInv, MemOK
<1>3. ASSUME NEW doc, CurrentOK(outbox, conn, online, shown, doc)
      PROVE  CurrentOK(outbox, conn, online', shown, doc)
  BY <1>1, <1>3 DEF CurrentOK, ShownOK, GreetOK
<1>4. ToDocument(Session') = ToDocument(Session)
  BY <1>1 DEF Session
<1> QED BY <1>1, <1>2, <1>3, <1>4 DEF CastInv

LEMMA WorkEditCasts ==
  ASSUME IInv, CastInv, NEW c \in Clients, WorkEdit(c)
  PROVE  CastInv'
<1>1. /\ conn[c].pc = "work" /\ dirty' = IF conn[c].bound = cur THEN dirty \union {c} ELSE dirty
      /\ UNCHANGED <<cur, loop, members, outbox, online, shown, overtake>>
  BY DEF WorkEdit, Works
<1>2. conn \in [Clients -> Coroutines] /\ conn[c] \in Coroutines /\ conn[c].work \in Nat
  BY DEF IInv, Typed, Coroutines
<1>3. /\ \E a : Edit(conn[c].bound, a)
      /\ \/ conn' = [conn EXCEPT ![c].work = @ + 1]
         \/ \E x : conn' = [conn EXCEPT ![c].work = @ + 1, ![c].mine = x]
  <2>1. CASE Works(c, "chat")
    <3>1. PICK a \in AgentEdits(c) :
            /\ Edit(conn[c].bound, a)
            /\ conn' = [conn EXCEPT ![c].work = @ + 1,
                                    ![c].mine = CASE a.op = "add" -> [id |-> Len(sessions'[conn[c].bound].slots),
                                                                      stamp |-> stamp']
                                                  [] a.op = "remove" -> NoNode
                                                  [] OTHER -> @]
      BY <2>1 DEF WorkEdit, Works
    <3>2. conn' = [conn EXCEPT ![c].work = @ + 1,
                               ![c].mine = CASE a.op = "add" -> [id |-> Len(sessions'[conn[c].bound].slots),
                                                                 stamp |-> stamp']
                                             [] a.op = "remove" -> NoNode
                                             [] OTHER -> conn[c].mine]
      BY <1>2, <3>1 DEF Coroutines
    <3> QED BY <3>1, <3>2
  <2>2. CASE Works(c, "tune")
    BY <2>2 DEF WorkEdit, Works
  <2> QED BY <2>1, <2>2 DEF WorkEdit
<1>4. /\ \A g \in Clients : g # c => conn'[g] = conn[g]
      /\ conn'[c].pc = "work" /\ conn'[c].known = conn[c].known /\ conn'[c].work = conn[c].work + 1
  BY <1>1, <1>2, <1>3 DEF Coroutines
<1>5. Knows(conn'[c]) /\ Owes(conn'[c]) /\ conn'[c].known
  BY <1>1, <1>2, <1>4, KnowsIs DEF Knows, Owes
<1>6. Beside(outbox, conn, outbox', conn', c)
  BY <1>1, <1>4 DEF Beside
<1>7. OneOK(outbox') /\ LoopOK(loop', outbox', conn')
  BY <1>1, <1>4 DEF CastInv, OneOK, LoopOK
<1>8. DirtyOK(dirty', conn')
  <2> SUFFICES ASSUME NEW d \in dirty'
               PROVE  Owes(conn'[d])
    BY DEF DirtyOK
  <2>1. d = c \/ d \in dirty
    BY <1>1
  <2>2. d \in dirty => d \in Clients /\ Owes(conn[d])
    BY DEF CastInv, DirtyOK, IInv, Typed
  <2> QED BY <1>4, <1>5, <2>1, <2>2
<1>9. ASSUME ~overtake', dirty' = {}
      PROVE  CurrentOK(outbox', conn', online', shown', ToDocument(Session'))
  <2>1. conn[c].bound # cur /\ dirty = {}
    BY <1>1, <1>9
  <2>2. sessions'[cur] = sessions[cur]
    <3>1. PICK a : Edit(conn[c].bound, a)
      BY <1>3
    <3>2. sessions' = [sessions EXCEPT ![conn[c].bound] = Apply(sessions[conn[c].bound], Stamped(a))]
      BY <3>1 DEF Edit
    <3>3. sessions \in Seq(Sessions) /\ cur \in 1 .. Len(sessions)
      BY DEF IInv, Typed
    <3> QED BY <2>1, <3>2, <3>3
  <2>3. ToDocument(Session') = ToDocument(Session)
    BY <1>1, <2>2 DEF Session
  <2>4. CurrentOK(outbox, conn, online, shown, ToDocument(Session))
    BY <1>1, <1>9, <2>1 DEF CastInv
  <2> DEFINE doc == ToDocument(Session)
  <2>5. CurrentOK(outbox, conn, online, shown, doc) /\ online \in SUBSET Clients
    BY <2>4 DEF IInv, Typed
  <2> HIDE DEF doc
  <2>6. CurrentOK(outbox', conn', online', shown', doc)
    <3>1. online' \in SUBSET Clients /\ \A u \in online' : u \in online /\ shown'[u] = shown[u]
      BY <1>1, <2>5
    <3>2. conn[c].known
      BY <1>4, <1>5
    <3> QED BY <1>1, <1>4, <1>6, <2>5, <3>1, <3>2, BesideCurrent
  <2> QED BY <2>3, <2>6 DEF doc
<1>10. /\ members' \in SUBSET Clients /\ online' \subseteq members' /\ members \ members' = {}
       /\ members' = members
  BY <1>1 DEF IInv, Typed, CastInv, MemOK
<1>11. conn'[c].pc # "new"
  BY <1>4
<1> QED BY <1>1, <1>5, <1>6, <1>7, <1>8, <1>9, <1>10, <1>11, Aside

-----------------------------------------------------------------------------
(* Reading the document, and the start of a broadcast.                     *)

LEMMA ReadNodesCasts ==
  ASSUME IInv, CastInv, NEW c \in Clients, ReadNodes(c)
  PROVE  CastInv'
<1> DEFINE d == [conn[c].doc EXCEPT !.nodes = DocNodes(Session)]
           at == [conn[c] EXCEPT !.pc = "edges", !.doc = d]
<1>1. /\ Turn(c) /\ conn[c].pc = "read" /\ outbox' = outbox /\ loop' = c
      /\ dirty' = IF ~conn[c].known THEN dirty ELSE {}
      /\ UNCHANGED <<sessions, cur, members, online, shown, overtake>>
  BY DEF ReadNodes, GoOn, Greeting
<1>2. /\ conn \in [Clients -> Coroutines] /\ conn[c] \in Coroutines /\ conn[c].doc \in Documents
      /\ Session \in Sessions
  BY DEF IInv, Typed, Coroutines, Session
<1>3. conn' = [conn EXCEPT ![c] = at]
  BY DEF ReadNodes, GoOn
<1>4. d \in Documents /\ d.nodes = ToDocument(Session).nodes
  <2>1. DocNodes(Session) \in Seq(Nodes)
    BY <1>2, DocumentIs
  <2> DEFINE q == DocNodes(Session)
  <2>2. d = [conn[c].doc EXCEPT !.nodes = q] /\ q \in Seq(Nodes) /\ ToDocument(Session).nodes = q
    BY <2>1 DEF ToDocument
  <2> HIDE DEF q, d
  <2>3. d \in Documents /\ d.nodes = q
    BY <1>2, <2>2 DEF Documents, Nodes
  <2> QED BY <2>2, <2>3
<1> HIDE DEF d
<1>5. at \in Coroutines /\ at.pc = "edges" /\ at.known = conn[c].known /\ at.doc = d
  <2>1. at = [conn[c] EXCEPT !.pc = "edges", !.doc = d]
    OBVIOUS
  <2> HIDE DEF at
  <2> QED BY <1>2, <1>4, <2>1 DEF Coroutines, Pcs
<1> HIDE DEF at
<1>6. Knows(at)
  BY <1>5 DEF Knows
<1>7. loop \in {None, c} /\ \A f \in Clients : ~Hasty(outbox, f)
  BY <1>1, TurnIs
<1>8. members' \in SUBSET Clients /\ online' \subseteq members' /\ members \ members' = {}
  BY <1>1 DEF IInv, Typed, CastInv, MemOK
<1>9. \A x \in dirty' : x \in dirty /\ x # c
  BY <1>1, KnowsIs
<1>10. CASE conn[c].known
  <2>1. conn'[c] = at /\ \A g \in Clients : g # c => conn'[g] = conn[g]
    BY <1>2, <1>3
  <2>2. \A g \in Clients : g # c => conn[g].pc # "edges"
    BY <1>7, WorkbenchAssumption DEF CastInv, LoopOK
  <2>3. NodesOK(conn', ToDocument(Session)) /\ Reading(conn')
    BY <1>4, <1>5, <1>10, <2>1, <2>2 DEF NodesOK, Reading
  <2>4. ToDocument(Session') = ToDocument(Session)
    BY <1>1 DEF Session
  <2>5. CurrentOK(outbox', conn', online', shown', ToDocument(Session'))
    BY <2>3, <2>4 DEF CurrentOK
  <2> QED BY <1>1, <1>3, <1>5, <1>6, <1>7, <1>8, <1>9, <2>5, Alone DEF Sending
<1>11. CASE ~conn[c].known
  <2>1. dirty' = dirty /\ at.doc.nodes = ToDocument(Session).nodes /\ ~at.known
    BY <1>1, <1>4, <1>5, <1>11
  <2>2. dirty' = {} => /\ dirty = {} /\ sessions' = sessions /\ cur' = cur /\ shown' = shown
                       /\ conn[c].pc = "edges" => ~conn[c].known
                       /\ at.pc = "edges" => at.doc.nodes = ToDocument(Session).nodes
                       /\ c \in online' /\ at.known => c \in online /\ conn[c].known
    BY <1>1, <2>1
  <2> QED BY <1>1, <1>3, <1>5, <1>6, <1>7, <1>8, <1>9, <2>2, Alone DEF Sending
<1> QED BY <1>10, <1>11

\* A coroutine that reads has the loop to itself, and owes nothing yet.
LEMMA ReadingIs ==
  ASSUME IInv, CastInv, NEW c \in Clients, conn[c].pc = "edges"
  PROVE  /\ loop = c /\ loop \in {None, c} /\ \A f \in Clients : ~Hasty(outbox, f)
         /\ c \notin dirty /\ conn[c].pc \notin Sending
         /\ \A g \in Clients : g # c => conn[g].pc # "edges"
<1>1. loop = c
  BY DEF CastInv, LoopOK
<1>2. \A f \in Clients : ~Hasty(outbox, f)
  BY <1>1, WorkbenchAssumption DEF CastInv, LoopOK
<1>3. c \notin dirty
  BY KnowsIs
<1>4. \A g \in Clients : g # c => conn[g].pc # "edges"
  BY <1>1 DEF CastInv, LoopOK
<1> QED BY <1>1, <1>2, <1>3, <1>4 DEF Sending

LEMMA ReadRaisesCasts ==
  ASSUME IInv, CastInv, NEW c \in Clients, ReadRaises(c)
  PROVE  CastInv'
<1>1. /\ conn[c].pc = "edges" /\ Await(c, Served("off")) /\ online' = online \ {c} /\ outbox' = outbox
      /\ dirty' = IF ~conn[c].known THEN dirty ELSE dirty \union {c}
      /\ UNCHANGED <<sessions, cur, members, shown, overtake>>
  BY DEF ReadRaises, Greeting
<1>2. PICK at \in Coroutines : /\ conn' = [conn EXCEPT ![c] = at] /\ loop' = None
                               /\ at.pc = "off" /\ at.known = TRUE
  BY <1>1, ServedStep DEF Pcs
<1>3. Knows(at) /\ Owes(at)
  BY <1>2 DEF Knows, Owes
<1>4. /\ loop \in {None, c} /\ \A f \in Clients : ~Hasty(outbox, f)
      /\ c \notin dirty /\ conn[c].pc \notin Sending
  BY <1>1, ReadingIs
<1>5. members' \in SUBSET Clients /\ online' \subseteq members' /\ members \ members' = {} /\ c \notin online'
  BY <1>1 DEF IInv, Typed, CastInv, MemOK
<1>6. \A d \in dirty' : (d \in dirty /\ d # c) \/ (d = c /\ Owes(at))
  BY <1>1, <1>3, <1>4
<1>7. dirty' = {} => dirty = {} /\ ~conn[c].known
  BY <1>1
<1> QED BY <1>1, <1>2, <1>3, <1>4, <1>5, <1>6, <1>7, Alone

\* A broadcast goes to whoever is connected, in order.
LEMMA AudienceGoes ==
  ASSUME NEW c, members \subseteq Clients
  PROVE  /\ Audience(c) \in Seq(Clients) /\ Visits(Audience(c)) = members
         /\ \A i, j \in 1 .. Len(Audience(c)) : i < j => Pos(Audience(c)[i]) < Pos(Audience(c)[j])
<1> DEFINE out == Clients \ members
           q == Without(Order, out)
           pos == [x \in Clients |-> Pos(x)]
<1>1. Order \in Seq(Clients) /\ Audience(c) = q
  BY WorkbenchAssumption DEF Audience
<1>2. Clients \ out = members /\ out \subseteq Clients
  OBVIOUS
<1>3. pos \in [Clients -> Nat] /\ \A x \in Clients : pos[x] = Pos(x)
  BY PosIs
<1> HIDE DEF pos, out
<1>4. q \in Seq(Clients \ out)
  BY <1>1, WithoutType
<1>5. \A x \in Clients \ out : (\E i \in 1 .. Len(Order) : Order[i] = x) => \E k \in 1 .. Len(q) : q[k] = x
  BY <1>1, WithoutHas
<1>6. Rising(Order, pos)
  BY <1>1, <1>3, PosIs DEF Rising
<1>7. Rising(q, pos)
  BY <1>1, <1>3, <1>6, WithoutRises
<1> HIDE DEF q
<1>8. q \in Seq(members) /\ \A k \in 1 .. Len(q) : q[k] \in members
  BY <1>2, <1>4
<1>9. \A x \in members : \E k \in 1 .. Len(q) : q[k] = x
  BY <1>2, <1>5, PosIs
<1>10. Visits(q) = members
  BY <1>8, <1>9 DEF Visits
<1>11. q \in Seq(Clients) /\ \A k \in 1 .. Len(q) : q[k] \in Clients
  <2>1. \A k \in 1 .. Len(q) : q[k] \in Clients
    BY <1>8
  <2> QED BY <1>8, <2>1
<1>12. \A i, j \in 1 .. Len(q) : i < j => Pos(q[i]) < Pos(q[j])
  BY <1>3, <1>7, <1>11 DEF Rising
<1> QED BY <1>1, <1>10, <1>11, <1>12

\* The document that is read, the edges now and the nodes before.
LEMMA ReadIs ==
  ASSUME IInv, NEW c \in Clients, NEW doc, doc = [conn[c].doc EXCEPT !.edges = Session.edges]
  PROVE  doc \in Documents /\ (conn[c].doc.nodes = ToDocument(Session).nodes => doc = ToDocument(Session))
<1>1. conn[c].doc \in Documents /\ Session \in Sessions
  BY DEF IInv, Typed, Coroutines, Session
<1> DEFINE e == Session.edges
           q == DocNodes(Session)
<1>2. e \in Seq(Nat \X Nat) /\ doc = [conn[c].doc EXCEPT !.edges = e]
  BY <1>1 DEF Sessions
<1>3. ToDocument(Session) = [nodes |-> q, edges |-> e]
  BY DEF ToDocument
<1> HIDE DEF e, q
<1>4. doc \in Documents
  BY <1>1, <1>2 DEF Documents
<1>5. conn[c].doc.nodes = q => doc = [nodes |-> q, edges |-> e]
  BY <1>1, <1>2 DEF Documents
<1> QED BY <1>3, <1>4, <1>5

LEMMA GreetCasts ==
  ASSUME IInv, CastInv, NEW c \in Clients, conn[c].pc = "edges", ~conn[c].known,
         NEW doc, doc = [conn[c].doc EXCEPT !.edges = Session.edges], Goto(c, "greet"), Send(c, c, doc),
         UNCHANGED <<sessions, cur, members, online, shown, dirty, overtake>>
  PROVE  CastInv'
<1>1. PICK at \in Coroutines : /\ conn' = [conn EXCEPT ![c] = at] /\ loop' = None
                               /\ at.pc = "greet" /\ at.known = conn[c].known
  BY GotoIs DEF Pcs
<1>2. Knows(at)
  BY <1>1 DEF Knows
<1>3. /\ loop \in {None, c} /\ \A f \in Clients : ~Hasty(outbox, f)
      /\ c \notin dirty /\ conn[c].pc \notin Sending
  BY ReadingIs
<1>4. doc \in Documents /\ (dirty = {} /\ ~overtake => doc = ToDocument(Session))
  <2>1. dirty = {} /\ ~overtake => conn[c].doc.nodes = ToDocument(Session).nodes
    BY DEF CastInv, CurrentOK, NodesOK
  <2> QED BY <2>1, ReadIs
<1>5. outbox' = [outbox EXCEPT ![c] = Append(@, Message(c, c, doc))]
  BY DEF Send
<1>6. members' \in SUBSET Clients /\ online' \subseteq members' /\ members \ members' = {}
  BY DEF IInv, Typed, CastInv, MemOK
<1>7. \A d \in dirty' : d \in dirty /\ d # c
  BY <1>3
<1> QED BY <1>1, <1>2, <1>3, <1>4, <1>5, <1>6, <1>7, Alone

\* Nobody is there to send it to.
LEMMA NobodyCasts ==
  ASSUME IInv, CastInv, NEW c \in Clients, conn[c].pc = "edges", Audience(c) = <<>>,
         Await(c, Served("idle")), outbox' = outbox,
         UNCHANGED <<sessions, cur, members, online, shown, dirty, overtake>>
  PROVE  CastInv'
<1>1. PICK at \in Coroutines : /\ conn' = [conn EXCEPT ![c] = at] /\ loop' = None
                               /\ at.pc = "idle" /\ at.known = TRUE
  BY ServedStep DEF Pcs
<1>2. Knows(at)
  BY <1>1 DEF Knows
<1>3. /\ loop \in {None, c} /\ \A f \in Clients : ~Hasty(outbox, f)
      /\ c \notin dirty /\ conn[c].pc \notin Sending /\ \A g \in Clients : g # c => conn[g].pc # "edges"
  BY ReadingIs
<1>4. conn'[c] = at /\ \A g \in Clients : g # c => conn'[g] = conn[g]
  BY <1>1 DEF IInv, Typed
<1>5. members = {} /\ online = {}
  <2>1. members \subseteq Clients
    BY DEF IInv, Typed
  <2>2. Visits(<<>>) = {}
    BY DEF Visits
  <2>3. members = {}
    BY <2>1, <2>2, AudienceGoes
  <2> QED BY <2>3 DEF CastInv, MemOK
<1>6. ASSUME ~overtake', dirty' = {}
      PROVE  CurrentOK(outbox', conn', online', shown', ToDocument(Session'))
  <2>1. MetOK(outbox, conn, members)
    BY <1>6 DEF CastInv
  <2>2. \A f \in Clients : ~Rides(outbox', conn', f)
    BY <1>1, <1>3, <1>4, <1>5, <2>1 DEF Rides, MetOK
  <2> DEFINE doc == ToDocument(Session')
  <2> HIDE DEF doc
  <2>3. NodesOK(conn', doc)
    BY <1>1, <1>3, <1>4 DEF NodesOK
  <2>4. LastOK(outbox', conn', doc) /\ ShownOK(outbox', conn', online', shown', doc) /\ GreetOK(outbox', conn', online', doc)
    BY <1>5, <2>2 DEF LastOK, ShownOK, GreetOK
  <2> QED BY <2>3, <2>4 DEF CurrentOK, doc
<1>7. members' \in SUBSET Clients /\ online' \subseteq members' /\ members \ members' = {}
  BY <1>5
<1>8. \A d \in dirty' : d \in dirty /\ d # c
  BY <1>3
<1> QED BY <1>1, <1>2, <1>3, <1>6, <1>7, <1>8, Alone

\* What is sent: it waits only at a client whose socket is open.
LEMMA MailIs ==
  ASSUME NEW f \in Clients, NEW to \in Clients, NEW doc \in Documents
  PROVE  /\ Message(f, to, doc) \in Mails /\ Message(f, to, doc).from = f /\ Message(f, to, doc).doc = doc
         /\ Message(f, to, doc).waits => to \in online
<1>1. Message(f, to, doc) \in Mails
  BY DEF Message, Mails
<1>2. Message(f, to, doc).from = f /\ Message(f, to, doc).doc = doc
  BY DEF Message
<1>3. Message(f, to, doc).waits => to \in online
  BY DEF Message
<1> QED BY <1>1, <1>2, <1>3

\* A broadcast starts: it has still to reach whoever is connected, and is behind every other.
LEMMA StartCasts ==
  ASSUME IInv, CastInv, NEW c \in Clients, conn[c].pc = "edges",
         NEW doc, doc = [conn[c].doc EXCEPT !.edges = Session.edges],
         NEW q, q = Audience(c), q # <<>>,
         Await(c, [Served("send") EXCEPT !.doc = doc, !.todo = Tail(q)]), Send(c, Head(q), doc),
         UNCHANGED <<sessions, cur, members, online, shown, dirty, overtake>>
  PROVE  CastInv'
<1> DEFINE to == Head(q)
           l == Tail(q)
           at == [Served("send") EXCEPT !.doc = doc, !.todo = l]
           m == Message(c, to, doc)
<1>1. /\ conn' = [conn EXCEPT ![c] = at] /\ loop' = None
      /\ outbox' = [outbox EXCEPT ![to] = Append(@, m)]
  BY DEF Await, Send
<1>2. /\ \A f \in Clients : ~Hasty(outbox, f)
      /\ c \notin dirty /\ \A g \in Clients : g # c => conn[g].pc # "edges"
  BY ReadingIs
<1>3. /\ outbox \in Outboxes /\ conn \in [Clients -> Coroutines] /\ TidyOK(outbox, conn) /\ Spent(outbox, c)
      /\ members \subseteq Clients /\ dirty \subseteq Clients /\ online \subseteq Clients
  BY Idles DEF IInv, Typed, Sending
<1>4. doc \in Documents /\ (dirty = {} /\ ~overtake => doc = ToDocument(Session))
  <2>1. dirty = {} /\ ~overtake => conn[c].doc.nodes = ToDocument(Session).nodes
    BY DEF CastInv, CurrentOK, NodesOK
  <2> QED BY <2>1, ReadIs
<1>5. /\ q \in Seq(Clients) /\ Visits(q) = members
      /\ \A i, j \in 1 .. Len(q) : i < j => Pos(q[i]) < Pos(q[j])
  BY <1>3, AudienceGoes
<1>6. /\ to \in Clients /\ l \in Seq(Clients) /\ members = Visits(l) \union {to}
  BY <1>5, VisitsIs
<1>7. Onward(l, to) /\ \A u \in Visits(l) : Pos(to) < Pos(u)
  <2>1. \A i \in 1 .. Len(l) : l[i] = q[i + 1] /\ i + 1 \in 1 .. Len(q) /\ 1 \in 1 .. Len(q) /\ to = q[1] /\ 1 < i + 1
    BY <1>5
  <2>2. \A i \in 1 .. Len(l) : Pos(to) < Pos(l[i])
    BY <1>5, <2>1
  <2>3. \A i, j \in 1 .. Len(l) : i < j => i + 1 < j + 1
    OBVIOUS
  <2>4. \A i, j \in 1 .. Len(l) : i < j => Pos(l[i]) < Pos(l[j])
    BY <1>5, <2>1, <2>3
  <2> QED BY <2>2, <2>4 DEF Onward, Visits
<1>8. m \in Mails /\ m.from = c /\ m.doc = doc /\ (m.waits => to \in online)
  BY <1>4, <1>6, MailIs
<1> HIDE DEF to, l, m
<1>9. at \in Coroutines /\ at.pc = "send" /\ at.known = TRUE /\ at.doc = doc /\ at.todo = l
  <2> DEFINE s == Served("send")
  <2>1. s \in Coroutines /\ s.pc = "send" /\ s.known = TRUE
    BY ServedKnown DEF Pcs
  <2>2. at = [s EXCEPT !.doc = doc, !.todo = l]
    OBVIOUS
  <2> HIDE DEF s, at
  <2> QED BY <1>4, <1>6, <2>1, <2>2 DEF Coroutines
<1> HIDE DEF at
<1>10. conn'[c] = at /\ \A g \in Clients : g # c => conn'[g] = conn[g]
  BY <1>1, <1>3
<1>11. Adds(outbox, outbox', c, to, m)
  BY <1>1, <1>3, <1>6, <1>8, AddsIs
<1>12. \A v \in Clients : ~Sits(outbox[v], c)
  BY <1>3 DEF Spent, Sits
<1>13. /\ \A v, g \in Clients : Sits(outbox'[v], g) <=> Sits(outbox[v], g) \/ (g = c /\ v = to)
       /\ \A v, g, h \in Clients : Ahead(outbox'[v], g, h) <=>
            Ahead(outbox[v], g, h) \/ (h = c /\ v = to /\ Sits(outbox[v], g))
       /\ \A g \in Clients : Hasty(outbox', g) => g = c /\ ~m.waits
       /\ \A g \in Clients : g # c => \A d : Carries(outbox', g, d) <=> Carries(outbox, g, d)
  BY <1>2, <1>11 DEF Adds
<1>14. Carries(outbox', c, doc)
  <2>1. Carries(outbox, c, doc)
    BY <1>3 DEF Spent, Carries, Bears
  <2> QED BY <1>8, <1>11, <2>1 DEF Adds
<1>15. \A v, g, h \in Clients : Ahead(outbox[v], g, h) => Sits(outbox[v], g) /\ Sits(outbox[v], h)
  BY <1>3, Apart, QueueIs
<1>16. Ordered(outbox, conn)
  BY <1>3, TripOrders DEF CastInv
<1>17. OneOK(outbox') /\ LoopOK(loop', outbox', conn') /\ MemOK(members', online', conn')
  <2>1. OneOK(outbox')
    BY <1>13 DEF OneOK
  <2>2. LoopOK(loop', outbox', conn')
    BY <1>1, <1>2, <1>9, <1>10 DEF LoopOK
  <2>3. MemOK(members', online', conn')
    BY <1>3, <1>9, <1>10 DEF CastInv, MemOK
  <2> QED BY <2>1, <2>2, <2>3
<1>18. KnownOK(conn') /\ DirtyOK(dirty', conn')
  <2>1. KnownOK(conn')
    BY <1>9, <1>10 DEF CastInv, KnownOK, Knows
  <2>2. DirtyOK(dirty', conn')
    BY <1>2, <1>3, <1>10 DEF CastInv, DirtyOK
  <2> QED BY <2>1, <2>2
<1>19. TripOK(outbox', conn') /\ DocOK(outbox', conn')
  <2>1. \A u \in Clients : conn[u].pc # "new" => conn'[u].pc # "new"
    BY <1>9, <1>10
  <2>2. ASSUME NEW f \in Clients, NEW w \in Clients, conn'[f].pc = "send", Sits(outbox'[w], f)
        PROVE  /\ Onward(conn'[f].todo, w) /\ conn'[w].pc # "new"
               /\ \A u \in Visits(conn'[f].todo) : conn'[u].pc # "new"
    <3>1. CASE f = c
      <4>1. w = to /\ conn'[f].todo = l
        BY <1>9, <1>10, <1>12, <1>13, <2>2, <3>1
      <4>2. \A u \in members : conn'[u].pc # "new"
        BY <1>3, <2>1 DEF CastInv, MemOK
      <4> QED BY <1>6, <1>7, <4>1, <4>2
    <3>2. CASE f # c
      <4>1. conn'[f] = conn[f] /\ conn[f].pc = "send" /\ Sits(outbox[w], f)
        BY <1>10, <1>13, <2>2, <3>2
      <4>2. Onward(conn[f].todo, w) /\ conn[w].pc # "new" /\ \A u \in Visits(conn[f].todo) : conn[u].pc # "new"
        BY <4>1 DEF CastInv, TripOK
      <4>3. \A u \in Visits(conn[f].todo) : u \in Clients
        BY <1>16, <4>1 DEF Ordered
      <4> QED BY <2>1, <4>1, <4>2, <4>3
    <3> QED BY <3>1, <3>2
  <2>3. DocOK(outbox', conn')
    BY <1>9, <1>10, <1>13, <1>14 DEF CastInv, DocOK
  <2> QED BY <2>2, <2>3 DEF TripOK
<1>20. ASSUME ~overtake'
       PROVE  /\ FlowOK(outbox', conn', members') /\ MetOK(outbox', conn', members')
              /\ dirty' = {} => CurrentOK(outbox', conn', online', shown', ToDocument(Session'))
  <2>1. FlowOK(outbox, conn, members) /\ MetOK(outbox, conn, members)
    BY <1>20 DEF CastInv
  <2>2. Sits(outbox'[to], c) /\ Rides(outbox', conn', c)
    BY <1>6, <1>9, <1>10, <1>13 DEF Rides
  <2>3. \A u \in members : Awaits(outbox', conn', u, c)
    BY <1>6, <1>9, <1>10, <2>2 DEF Awaits
  <2>4. \A g \in Clients : g # c => (Rides(outbox', conn', g) <=> Rides(outbox, conn, g)) /\ conn'[g] = conn[g]
    BY <1>10, <1>13 DEF Rides
  <2>5. \A u, g \in Clients : g # c => (Awaits(outbox', conn', u, g) <=> Awaits(outbox, conn, u, g))
    BY <1>10, <1>13, <2>4 DEF Awaits
  <2>6. \A g, h \in Clients : g # c /\ h # c => (Behind(outbox', g, h) <=> Behind(outbox, g, h))
    BY <1>13 DEF Behind
  <2>7. \A f, v, w \in Clients : Sits(outbox'[v], f) /\ Sits(outbox'[w], f) => v = w
    BY <1>12, <1>13, <1>16 DEF Ordered
  <2>8. ASSUME NEW g \in Clients, g # c, Rides(outbox, conn, g)
        PROVE  Behind(outbox', c, g) /\ ~Behind(outbox', g, c)
    <3>1. PICK v \in Clients : Sits(outbox[v], g)
      BY <2>8 DEF Rides
    <3>2. v \in members
      BY <1>2, <2>1, <2>8, <3>1 DEF MetOK, Rides
    <3>3. v = to \/ Pos(to) < Pos(v)
      BY <1>6, <1>7, <3>2
    <3>4. Sits(outbox'[v], g)
      BY <1>13, <3>1
    <3>5. v = to => Ahead(outbox'[to], g, c)
      BY <1>6, <1>13, <3>1
    <3>6. ~Ahead(outbox'[v], c, g)
      BY <1>12, <1>13, <1>15, <2>8
    <3>7. Behind(outbox', c, g) <=> Pos(to) < Pos(v) \/ (to = v /\ Ahead(outbox'[to], g, c))
      BY <1>6, <2>2, <2>7, <3>4, Places
    <3>8. Behind(outbox', g, c) <=> Pos(v) < Pos(to) \/ (v = to /\ Ahead(outbox'[v], c, g))
      BY <1>6, <2>2, <2>7, <3>4, Places
    <3>9. ~(Pos(v) < Pos(to))
      BY <1>6, <3>3, PosIs
    <3> QED BY <3>3, <3>5, <3>6, <3>7, <3>8, <3>9
  <2>9. FlowOK(outbox', conn', members')
    <3> SUFFICES ASSUME NEW f \in Clients, NEW g \in Clients, Rides(outbox', conn', f), Rides(outbox', conn', g),
                        Behind(outbox', f, g), NEW u \in members, Awaits(outbox', conn', u, g)
                 PROVE  Awaits(outbox', conn', u, f)
      BY DEF FlowOK
    <3>1. CASE f = c
      BY <2>3, <3>1
    <3>2. CASE f # c /\ g = c
      BY <2>4, <2>8, <3>2
    <3>3. CASE f # c /\ g # c
      <4>1. u \in Clients /\ Rides(outbox, conn, f) /\ Rides(outbox, conn, g) /\ Behind(outbox, f, g)
        BY <1>3, <2>4, <2>6, <3>3
      <4>2. Awaits(outbox, conn, u, g)
        BY <2>5, <3>3, <4>1
      <4>3. Awaits(outbox, conn, u, f)
        BY <2>1, <4>1, <4>2 DEF FlowOK
      <4> QED BY <2>5, <3>3, <4>1, <4>3
    <3> QED BY <3>1, <3>2, <3>3
  <2>10. MetOK(outbox', conn', members')
    <3> SUFFICES ASSUME NEW f \in Clients, NEW w \in Clients, conn'[f].pc = "send", Sits(outbox'[w], f),
                        ~Hasty(outbox', f)
                 PROVE  w \in members
      BY DEF MetOK
    <3>1. CASE f = c
      BY <1>6, <1>12, <1>13, <3>1
    <3>2. CASE f # c
      BY <1>2, <1>10, <1>13, <2>1, <3>2 DEF MetOK
    <3> QED BY <3>1, <3>2
  <2>11. ASSUME dirty' = {}
         PROVE  CurrentOK(outbox', conn', online', shown', ToDocument(Session'))
    <3>1. doc = ToDocument(Session) /\ ToDocument(Session') = ToDocument(Session)
      BY <1>4, <1>20, <2>11 DEF Session
    <3>2. NodesOK(conn', doc)
      BY <1>2, <1>9, <1>10 DEF NodesOK
    <3>3. LastOK(outbox', conn', doc)
      BY <1>9, <1>10, <2>2, <2>4, <2>8 DEF LastOK
    <3>4. online \subseteq members
      BY DEF CastInv, MemOK
    <3>5. ShownOK(outbox', conn', online', shown', doc)
      BY <1>3, <2>3, <3>4 DEF ShownOK
    <3>6. GreetOK(outbox', conn', online', doc)
      <4> SUFFICES ASSUME NEW u \in online, conn'[u].pc = "greet",
                          \A f \in Clients : Awaits(outbox', conn', u, f) => Ahead(outbox'[u], f, u)
                   PROVE  FALSE
        BY DEF GreetOK
      <4>1. u \in Clients /\ u \in members
        BY <1>3, <3>4
      <4>2. Ahead(outbox'[u], c, u)
        BY <2>3, <4>1
      <4>3. u # c
        BY <1>9, <1>10
      <4>4. Ahead(outbox[u], c, u)
        BY <1>13, <4>1, <4>2, <4>3
      <4> QED BY <1>12, <1>15, <4>1, <4>4
    <3> QED BY <3>1, <3>2, <3>3, <3>5, <3>6 DEF CurrentOK
  <2> QED BY <2>9, <2>10, <2>11
<1> QED BY <1>17, <1>18, <1>19, <1>20 DEF CastInv

LEMMA ReadEdgesCasts ==
  ASSUME IInv, CastInv, NEW c \in Clients, ReadEdges(c)
  PROVE  CastInv'
<1> DEFINE doc == [conn[c].doc EXCEPT !.edges = Session.edges]
           q == Audience(c)
<1>1. /\ conn[c].pc = "edges"
      /\ UNCHANGED <<sessions, cur, members, online, shown, dirty, overtake>>
      /\ \/ ~conn[c].known /\ Goto(c, "greet") /\ Send(c, c, doc)
         \/ q = <<>> /\ Await(c, Served("idle")) /\ outbox' = outbox
         \/ /\ q # <<>> /\ Await(c, [Served("send") EXCEPT !.doc = doc, !.todo = Tail(q)])
            /\ Send(c, Head(q), doc)
  BY DEF ReadEdges, Greeting
<1>2. CASE ~conn[c].known /\ Goto(c, "greet") /\ Send(c, c, doc)
  BY <1>1, <1>2, GreetCasts
<1>3. CASE q = <<>> /\ Await(c, Served("idle")) /\ outbox' = outbox
  BY <1>1, <1>3, NobodyCasts
<1>4. CASE /\ q # <<>> /\ Await(c, [Served("send") EXCEPT !.doc = doc, !.todo = Tail(q)])
           /\ Send(c, Head(q), doc)
  BY <1>1, <1>4, StartCasts
<1> QED BY <1>1, <1>2, <1>3, <1>4

-----------------------------------------------------------------------------
(* What has been sent is taken, or raises.                                 *)

Gone(c, i, m, ob, f) ==
  /\ f \in Clients /\ conn[f].pc \in Sending /\ (conn[f].pc # "send" => f = c)
  /\ Lost(outbox, ob, f) /\ ob \in Outboxes
  /\ Sits(outbox[c], f) /\ (i = 1 => \A g \in Clients : Sits(outbox[c], g) /\ g # f => Ahead(outbox[c], f, g))
  /\ \A g \in Clients : Hasty(outbox, g) => g = f /\ ~m.waits
  /\ \A g \in Clients : conn[g].pc # "edges" /\ ~Hasty(ob, g)
  /\ \A d : Carries(outbox, f, d) => m.doc = d

LEMMA LeftIs ==
  ASSUME IInv, CastInv, NEW c \in Clients, NEW i \in 1 .. Len(outbox[c]), loop = None,
         NEW m, m = outbox[c][i], m.waits => Settled, NEW r, Rest(outbox[c], i, r),
         NEW ob, ob = [outbox EXCEPT ![c] = r], NEW f, f = m.from
  PROVE  Gone(c, i, m, ob, f)
<1>1. outbox \in Outboxes /\ TidyOK(outbox, conn)
  BY DEF IInv, Typed, Outboxes
<1>2. /\ f \in Clients /\ conn[f].pc \in Sending /\ (conn[f].pc # "send" => f = c)
      /\ ob \in Outboxes
  BY <1>1, TidyTaken
<1>3. /\ Lost(outbox, ob, f) /\ Sits(outbox[c], f)
      /\ i = 1 => \A g \in Clients : Sits(outbox[c], g) /\ g # f => Ahead(outbox[c], f, g)
      /\ ~m.waits => Hasty(outbox, f)
      /\ \A d : Carries(outbox, f, d) => m.doc = d
  <2>1. outbox \in Outboxes /\ TidyOK(outbox, conn) /\ Rest(outbox[c], i, r) /\ f \in Clients /\ f = outbox[c][i].from
    BY <1>1, <1>2
  <2>2. /\ Lost(outbox, [outbox EXCEPT ![c] = r], f) /\ Sits(outbox[c], f)
        /\ i = 1 => \A g \in Clients : Sits(outbox[c], g) /\ g # f => Ahead(outbox[c], f, g)
        /\ ~outbox[c][i].waits => Hasty(outbox, f)
        /\ \A d : Carries(outbox, f, d) => outbox[c][i].doc = d
    BY ONLY <2>1, LostIs
  <2> QED BY <2>2
<1>4. m.waits => \A g \in Clients : ~Hasty(outbox, g)
  BY DEF Settled, Hasty, Rash
<1>5. \A g \in Clients : Hasty(outbox, g) => g = f /\ ~m.waits
  BY <1>2, <1>3, <1>4 DEF CastInv, OneOK
<1>6. \A g \in Clients : conn[g].pc # "edges"
  BY WorkbenchAssumption DEF CastInv, LoopOK
<1>7. \A g \in Clients : ~Hasty(ob, g)
  BY <1>3, <1>5 DEF Lost
<1> QED BY <1>2, <1>3, <1>5, <1>6, <1>7 DEF Gone

\* A reply, the manifest or the first document: its coroutine goes on, or has raised.
LEMMA ReplyCasts ==
  ASSUME IInv, CastInv, NEW c \in Clients, NEW at \in Coroutines, conn' = [conn EXCEPT ![c] = at],
         Lost(outbox, outbox', c), \A g \in Clients : conn[g].pc # "edges" /\ ~Hasty(outbox', g),
         conn[c].pc # "send", at.pc \notin {"send", "new", "edges", "greet"}, Knows(at), c \in dirty => Owes(at),
         UNCHANGED <<sessions, cur, online, dirty>>,
         members' \subseteq members, online \subseteq members', overtake => overtake',
         overtake' \/ \A v \in members \ members' : \A g \in Clients : conn[g].pc = "send" => ~Sits(outbox[v], g),
         \/ shown' = shown /\ (c \in online /\ at.known => conn[c].known)
         \/ \E doc : /\ c \in online /\ conn[c].pc = "greet" /\ shown' = [shown EXCEPT ![c] = doc]
                     /\ \A d : Carries(outbox, c, d) => doc = d
  PROVE  CastInv'
<1>1. /\ conn \in [Clients -> Coroutines] /\ members \subseteq Clients /\ online \subseteq Clients
      /\ shown \in [Clients -> Documents] /\ dirty \subseteq Clients
  BY DEF IInv, Typed
<1>2. conn'[c] = at /\ \A g \in Clients : g # c => conn'[g] = conn[g]
  BY <1>1
<1>3. Beside(outbox, conn, outbox', conn', c)
  BY <1>2, LostBeside
<1>4. OneOK(outbox') /\ LoopOK(loop', outbox', conn')
  <2>1. OneOK(outbox')
    BY DEF OneOK
  <2>2. \A g \in Clients : conn'[g].pc # "edges"
    BY <1>2
  <2> QED BY <2>1, <2>2 DEF LoopOK
<1>5. DirtyOK(dirty', conn')
  <2>1. DirtyOK(dirty, conn)
    BY DEF CastInv
  <2> QED BY <1>1, <1>2, <2>1 DEF DirtyOK
<1>6. conn'[c].pc # "new" /\ Knows(conn'[c])
  BY <1>2
<1>7. /\ members' \in SUBSET Clients /\ \A v \in members' : v \in members \/ v = c
      /\ c \in members' /\ c \notin members => conn[c].pc = "new"
      /\ online' \subseteq members'
  BY <1>1
<1>8. ~overtake' /\ dirty' = {} => CurrentOK(outbox', conn', online', shown', ToDocument(Session'))
  <2> SUFFICES ASSUME ~overtake', dirty' = {}
               PROVE  CurrentOK(outbox', conn', online', shown', ToDocument(Session'))
    OBVIOUS
  <2>1. CurrentOK(outbox, conn, online, shown, ToDocument(Session)) /\ Session' = Session
    BY DEF CastInv, Session
  <2>2. conn[c].pc # "edges" /\ conn'[c].pc # "edges" /\ conn'[c].pc # "greet"
    BY <1>2
  <2>3. \A u \in online' : u # c => u \in online /\ shown'[u] = shown[u]
    BY <1>1
  <2>4. c \in online' /\ conn'[c].known =>
          \/ c \in online /\ shown'[c] = shown[c] /\ conn[c].known
          \/ c \in online /\ conn[c].pc = "greet" /\ Greeted(outbox, shown', c)
    <3>1. CASE shown' = shown /\ (c \in online /\ at.known => conn[c].known)
      BY <1>2, <3>1
    <3>2. CASE \E doc : /\ c \in online /\ conn[c].pc = "greet" /\ shown' = [shown EXCEPT ![c] = doc]
                        /\ \A d : Carries(outbox, c, d) => doc = d
      BY <1>1, <3>2 DEF Greeted
    <3> QED BY <3>1, <3>2
  <2>5. online \in SUBSET Clients /\ online' \in SUBSET Clients
    BY <1>1
  <2>8. c \in online' /\ conn'[c].pc = "greet" => Carries(outbox', c, ToDocument(Session))
    BY <2>2
  <2>9. conn[c].pc = "edges" => ~conn[c].known
    BY <2>2
  <2>10. conn'[c].pc = "edges" => conn'[c].doc.nodes = ToDocument(Session).nodes
    BY <2>2
  <2> DEFINE doc == ToDocument(Session)
  <2>6. CurrentOK(outbox, conn, online, shown, doc) /\ ToDocument(Session') = doc
    BY <2>1
  <2>11. /\ c \in online' /\ conn'[c].pc = "greet" => Carries(outbox', c, doc)
         /\ conn'[c].pc = "edges" => conn'[c].doc.nodes = doc.nodes
    BY <2>8, <2>10
  <2> HIDE DEF doc
  <2>12. conn'[c].pc = "edges" => conn'[c].doc.nodes = doc.nodes
    BY <2>11
  <2>13. c \in online' /\ conn'[c].pc = "greet" => Carries(outbox', c, doc)
    BY <2>11
  <2>14. CurrentOK(outbox, conn, online, shown, doc)
    BY <2>6
  <2>7. CurrentOK(outbox', conn', online', shown', doc)
    BY ONLY c \in Clients, <1>3, <2>3, <2>4, <2>5, <2>9, <2>12, <2>13, <2>14, BesideCurrent
  <2> QED BY <2>6, <2>7
<1> QED BY <1>3, <1>4, <1>5, <1>6, <1>7, <1>8, Aside

LEMMA DeliverIs ==
  ASSUME IInv, NEW c \in Clients, Deliver(c), NEW m, m = outbox[c][1], NEW r, r = Tail(outbox[c])
  PROVE  /\ loop = None /\ c \in online /\ 1 \in 1 .. Len(outbox[c]) /\ Rest(outbox[c], 1, r)
         /\ m \in Mails /\ (m.waits => Settled)
         /\ shown' = IF conn[m.from].pc \in {"send", "greet"} THEN [shown EXCEPT ![c] = m.doc] ELSE shown
         /\ Proceed(m.from, [outbox EXCEPT ![c] = r], m.waits)
         /\ UNCHANGED <<sessions, cur, members, online, dirty, overtake>>
<1>1. outbox[c] \in Seq(Mails) /\ outbox[c] # <<>>
  BY DEF Deliver, IInv, Typed
<1>2. 1 \in 1 .. Len(outbox[c]) /\ Rest(outbox[c], 1, r) /\ Head(outbox[c]) = m
  BY <1>1, RestIs
<1>3. m \in Mails
  BY <1>1, <1>2
<1> DEFINE h == Head(outbox[c])
<1>4. /\ loop = None /\ c \in online /\ (h.waits => Settled)
      /\ shown' = IF conn[h.from].pc \in {"send", "greet"} THEN [shown EXCEPT ![c] = h.doc] ELSE shown
      /\ Proceed(h.from, [outbox EXCEPT ![c] = Tail(outbox[c])], h.waits)
      /\ UNCHANGED <<sessions, cur, members, online, dirty, overtake>>
  BY Zenon DEF Deliver
<1>5. h = m
  BY <1>2
<1> HIDE DEF h
<1> QED BY <1>2, <1>3, <1>4, <1>5

\* Where a coroutine that has replied goes on.
LEMMA RepliesOn ==
  ASSUME IInv, CastInv, NEW c \in Clients, NEW rest, NEW waited, Proceed(c, rest, waited), conn[c].pc # "send"
  PROVE  /\ conn[c].pc \in {"ack", "hello", "error", "greet"} /\ outbox' = rest
         /\ \E at \in Coroutines : /\ conn' = [conn EXCEPT ![c] = at] /\ Knows(at) /\ (c \in dirty => Owes(at))
                                   /\ at.pc \in {"read", "idle"}
                                   /\ conn[c].pc # "greet" /\ at.known => conn[c].known
<1>1. \/ /\ conn[c].pc \in {"ack", "hello"} /\ outbox' = rest
         /\ conn' = [conn EXCEPT ![c] = [conn[c] EXCEPT !.pc = "read"]]
      \/ conn[c].pc \in {"error", "greet"} /\ outbox' = rest /\ Await(c, Served("idle"))
  BY DEF Proceed, Await, GoOn
<1>2. CASE /\ conn[c].pc \in {"ack", "hello"}
           /\ conn' = [conn EXCEPT ![c] = [conn[c] EXCEPT !.pc = "read"]]
  <2> DEFINE at == [conn[c] EXCEPT !.pc = "read"]
  <2>1. conn[c] \in Coroutines /\ at = [conn[c] EXCEPT !.pc = "read"] /\ conn' = [conn EXCEPT ![c] = at]
    BY <1>2 DEF IInv, Typed
  <2> HIDE DEF at
  <2>2. at \in Coroutines /\ at.pc = "read" /\ at.known = conn[c].known
    BY <2>1, TurnedKnown DEF Pcs
  <2>3. Knows(at) /\ (c \in dirty => Owes(at))
    BY <1>2, <2>2, KnowsIs DEF Knows, Owes
  <2> QED BY <1>1, <1>2, <2>1, <2>2, <2>3
<1>3. CASE conn[c].pc \in {"error", "greet"} /\ Await(c, Served("idle"))
  <2>1. PICK at \in Coroutines : conn' = [conn EXCEPT ![c] = at] /\ at.pc = "idle" /\ at.known = TRUE
    BY <1>3, ServedStep DEF Pcs
  <2>2. Knows(at) /\ c \notin dirty /\ (conn[c].pc = "error" => conn[c].known)
    BY <1>3, <2>1, KnowsIs DEF Knows
  <2> QED BY <1>1, <1>3, <2>1, <2>2
<1> QED BY <1>1, <1>2, <1>3

LEMMA AnsweredCasts ==
  ASSUME IInv, CastInv, NEW c \in Clients, Deliver(c), conn[outbox[c][1].from].pc # "send"
  PROVE  CastInv'
<1>1. PICK m, r : m = outbox[c][1] /\ r = Tail(outbox[c])
  OBVIOUS
<1>2. /\ loop = None /\ c \in online /\ 1 \in 1 .. Len(outbox[c]) /\ Rest(outbox[c], 1, r)
      /\ m \in Mails /\ (m.waits => Settled)
      /\ shown' = IF conn[m.from].pc \in {"send", "greet"} THEN [shown EXCEPT ![c] = m.doc] ELSE shown
      /\ Proceed(m.from, [outbox EXCEPT ![c] = r], m.waits)
      /\ UNCHANGED <<sessions, cur, members, online, dirty, overtake>>
  BY <1>1, DeliverIs
<1>3. PICK ob : ob = [outbox EXCEPT ![c] = r]
  OBVIOUS
<1>4. PICK f : f = m.from
  OBVIOUS
<1>5. /\ f \in Clients /\ f = c /\ Lost(outbox, ob, f)
      /\ \A g \in Clients : conn[g].pc # "edges" /\ ~Hasty(ob, g)
      /\ \A d : Carries(outbox, f, d) => m.doc = d
  <2>1. /\ 1 \in 1 .. Len(outbox[c]) /\ loop = None /\ m = outbox[c][1] /\ (m.waits => Settled)
        /\ Rest(outbox[c], 1, r) /\ ob = [outbox EXCEPT ![c] = r] /\ f = m.from
    BY <1>1, <1>2, <1>3, <1>4
  <2>2. Gone(c, 1, m, ob, f)
    BY ONLY IInv, CastInv, c \in Clients, <2>1, LeftIs
  <2> QED BY <1>1, <1>4, <2>2 DEF Gone
<1>11. PICK waited : Proceed(c, ob, waited)
  BY <1>2, <1>3, <1>4, <1>5
<1>12. conn[c].pc # "send"
  BY <1>1, <1>4, <1>5
<1>6. /\ outbox' = ob /\ conn[c].pc \in {"ack", "hello", "error", "greet"}
      /\ \E at \in Coroutines : /\ conn' = [conn EXCEPT ![c] = at] /\ Knows(at) /\ (c \in dirty => Owes(at))
                                /\ at.pc \in {"read", "idle"}
                                /\ conn[c].pc # "greet" /\ at.known => conn[c].known
  BY ONLY IInv, CastInv, c \in Clients, <1>11, <1>12, RepliesOn
<1>7. PICK at \in Coroutines : /\ conn' = [conn EXCEPT ![c] = at] /\ Knows(at) /\ (c \in dirty => Owes(at))
                               /\ at.pc \in {"read", "idle"}
                               /\ conn[c].pc # "greet" /\ at.known => conn[c].known
  BY <1>6
<1>8. \/ shown' = shown /\ (c \in online /\ at.known => conn[c].known)
      \/ \E doc : /\ c \in online /\ conn[c].pc = "greet" /\ shown' = [shown EXCEPT ![c] = doc]
                  /\ \A d : Carries(outbox, c, d) => doc = d
  <2>1. CASE conn[c].pc = "greet"
    BY <1>2, <1>4, <1>5, <2>1
  <2>2. CASE conn[c].pc # "greet"
    BY <1>2, <1>4, <1>5, <1>6, <1>7, <2>2
  <2> QED BY <2>1, <2>2
<1>9. /\ members' \subseteq members /\ online \subseteq members' /\ members \ members' = {}
      /\ at.pc \notin {"send", "new", "edges", "greet"} /\ conn[c].pc # "send"
  BY <1>2, <1>6, <1>7 DEF CastInv, MemOK
<1>10. Lost(outbox, outbox', c) /\ \A g \in Clients : conn[g].pc # "edges" /\ ~Hasty(outbox', g)
  BY <1>5, <1>6
<1> QED BY <1>2, <1>7, <1>8, <1>9, <1>10, ReplyCasts

\* The client is no member any more.
Forgotten(c) ==
  /\ members' = members \ {c}
  /\ overtake' \/ \A g \in Clients : conn[g].pc = "send" => ~Sits(outbox'[c], g)

Raised(c, i, m, r, ob) ==
  /\ m = outbox[c][i] /\ Rest(outbox[c], i, r) /\ ob = [outbox EXCEPT ![c] = r]
  /\ loop = None /\ c \notin online /\ (m.waits => Settled)
  /\ IF conn[m.from].pc = "send" THEN Proceed(m.from, ob, m.waits)
     ELSE Await(c, Served("off")) /\ outbox' = ob
  /\ conn[m.from].pc = "send" => Forgotten(c)

LEMMA RaisesIs ==
  ASSUME IInv, NEW c \in Clients, SendRaises(c)
  PROVE  /\ \E i \in 1 .. Len(outbox[c]) : \E m, r, ob : Raised(c, i, m, r, ob)
         /\ UNCHANGED <<sessions, cur, online, shown, dirty>> /\ (overtake => overtake')
         /\ members' = members \/ Forgotten(c)
<1>1. outbox[c] \in Seq(Mails)
  BY DEF IInv, Typed
<1>2. outbox'[c] \in Seq(Mails)
  BY SendRaisesKeeps DEF IInv, Typed
<1>3. PICK i \in DOMAIN outbox[c] :
        LET m == outbox[c][i]
            rest == [outbox EXCEPT ![c] = RemoveAt(@, i)]
        IN /\ loop = None /\ c \notin online /\ (m.waits => i = 1 /\ Settled)
           /\ IF conn[m.from].pc = "send" THEN Proceed(m.from, rest, m.waits)
              ELSE Await(c, Served("off")) /\ outbox' = rest
           /\ IF conn[m.from].pc \in {"hello", "greet"} THEN UNCHANGED <<members, overtake>> ELSE Forget(c)
  BY Zenon DEF SendRaises
<1>4. i \in 1 .. Len(outbox[c])
  BY <1>1, <1>3
<1>5. PICK m, r, ob : m = outbox[c][i] /\ r = RemoveAt(outbox[c], i) /\ ob = [outbox EXCEPT ![c] = r]
  OBVIOUS
<1>6. Rest(outbox[c], i, r)
  BY <1>1, <1>4, <1>5, RestIs
<1>7. Forget(c) => Forgotten(c) /\ (overtake => overtake')
  <2> SUFFICES ASSUME Forget(c)
               PROVE  Forgotten(c) /\ (overtake => overtake')
    OBVIOUS
  <2>1. /\ members' = members \ {c}
        /\ overtake' = (overtake \/ \E k \in DOMAIN outbox'[c] : conn[outbox'[c][k].from].pc = "send")
    BY DEF Forget
  <2>2. ASSUME NEW g \in Clients, conn[g].pc = "send", Sits(outbox'[c], g)
        PROVE  overtake'
    <3>1. \E k \in DOMAIN outbox'[c] : conn[outbox'[c][k].from].pc = "send"
      BY <1>2, <2>2 DEF Sits
    <3> QED BY <2>1, <3>1
  <2> QED BY <2>1, <2>2 DEF Forgotten
<1>8. IF conn[m.from].pc \in {"hello", "greet"} THEN UNCHANGED <<members, overtake>> ELSE Forget(c)
  BY <1>3, <1>5
<1>9. Raised(c, i, m, r, ob)
  BY <1>3, <1>5, <1>6, <1>7, <1>8 DEF Raised
<1>10. UNCHANGED <<sessions, cur, online, shown, dirty>>
  BY DEF SendRaises
<1> QED BY <1>4, <1>7, <1>8, <1>9, <1>10

\* A reply that raises: the coroutine of the client ends.
LEMMA ReplyRaisesCasts ==
  ASSUME IInv, CastInv, NEW c \in Clients, SendRaises(c), NEW i \in 1 .. Len(outbox[c]), NEW m, NEW r, NEW ob,
         Raised(c, i, m, r, ob), conn[m.from].pc # "send"
  PROVE  CastInv'
<1>1. /\ UNCHANGED <<sessions, cur, online, shown, dirty>> /\ (overtake => overtake')
      /\ members' = members \/ Forgotten(c)
  BY RaisesIs
<1>2. PICK f : f = m.from
  OBVIOUS
<1>3. /\ m = outbox[c][i] /\ Rest(outbox[c], i, r) /\ ob = [outbox EXCEPT ![c] = r] /\ f = m.from
      /\ loop = None /\ (m.waits => Settled)
  BY <1>2 DEF Raised
<1>4. c \notin online /\ Await(c, Served("off")) /\ outbox' = ob /\ conn[f].pc # "send"
  BY <1>2 DEF Raised
<1>5. Gone(c, i, m, ob, f)
  BY ONLY IInv, CastInv, c \in Clients, i \in 1 .. Len(outbox[c]), <1>3, LeftIs
<1>6. f = c /\ Lost(outbox, ob, c) /\ \A g \in Clients : conn[g].pc # "edges" /\ ~Hasty(ob, g)
  BY <1>4, <1>5 DEF Gone
<1>7. PICK at \in Coroutines : conn' = [conn EXCEPT ![c] = at] /\ loop' = None /\ at.pc = "off" /\ at.known = TRUE
  BY <1>4, ServedStep DEF Pcs
<1>8. Knows(at) /\ Owes(at) /\ at.pc \notin {"send", "new", "edges", "greet"}
  BY <1>7 DEF Knows, Owes
<1>9. members' \subseteq members /\ online \subseteq members'
  BY <1>1, <1>4 DEF CastInv, MemOK, Forgotten
<1>10. overtake' \/ \A v \in members \ members' : \A g \in Clients : conn[g].pc = "send" => ~Sits(outbox[v], g)
  <2> SUFFICES ASSUME ~overtake', Forgotten(c), NEW g \in Clients, conn[g].pc = "send"
               PROVE  ~Sits(outbox[c], g)
    BY <1>1 DEF Forgotten
  <2>1. ~Sits(ob[c], g) /\ g # c
    BY <1>4, <1>6 DEF Forgotten
  <2> QED BY <1>6, <2>1 DEF Lost
<1>11. /\ shown' = shown /\ (c \in online /\ at.known => conn[c].known)
       /\ Lost(outbox, outbox', c) /\ \A g \in Clients : conn[g].pc # "edges" /\ ~Hasty(outbox', g)
       /\ conn[c].pc # "send"
  BY <1>1, <1>4, <1>6
<1> QED BY <1>1, <1>7, <1>8, <1>9, <1>10, <1>11, ReplyCasts

\* A broadcast that goes on from w to the next client ...
GoesOn(f, w, to, at) ==
  /\ conn' = [conn EXCEPT ![f] = at] /\ at.pc = "send" /\ at.known = TRUE /\ loop' = None
  /\ Shift(outbox, conn, outbox', conn', f, w, to) /\ Onward(at.todo, to) /\ to \in Visits(conn[f].todo)
  /\ Hasty(outbox', f) \/ to \in online
  /\ \A g \in Clients : Hasty(outbox', g) => g = f
  /\ \A g \in Clients : \A d : Carries(outbox, g, d) /\ (g = f => d = conn[f].doc) => Carries(outbox', g, d)

LEMMA RideShifts ==
  ASSUME IInv, CastInv, NEW w \in Clients, NEW i, NEW m, NEW ob, NEW f, Gone(w, i, m, ob, f),
         conn[f].pc = "send", conn[f].todo # <<>>, NEW waited, Proceed(f, ob, waited)
  PROVE  \E to \in Clients, at \in Coroutines : GoesOn(f, w, to, at)
<1>1. /\ f \in Clients /\ Lost(outbox, ob, f) /\ ob \in Outboxes /\ Sits(outbox[w], f)
      /\ \A g \in Clients : ~Hasty(ob, g)
  BY DEF Gone
<1>2. PICK q, doc : q = conn[f].todo /\ doc = conn[f].doc
  OBVIOUS
<1>3. PICK at : at = [conn[f] EXCEPT !.todo = Tail(q)]
  OBVIOUS
<1>4. conn[f] \in Coroutines /\ q \in Seq(Clients) /\ q # <<>> /\ doc \in Documents /\ conn \in [Clients -> Coroutines]
  <2>1. conn[f] \in Coroutines /\ conn \in [Clients -> Coroutines]
    BY <1>1 DEF IInv, Typed
  <2> QED BY <1>2, <2>1 DEF Coroutines
<1>5. /\ conn' = [conn EXCEPT ![f] = at] /\ loop' = None
      /\ outbox' = [ob EXCEPT ![Head(q)] = Append(@, Message(f, Head(q), doc))]
  <2>1. /\ Await(f, [conn[f] EXCEPT !.todo = Tail(@)])
        /\ outbox' = [ob EXCEPT ![Head(conn[f].todo)] = Append(@, Message(f, Head(conn[f].todo), conn[f].doc))]
    BY DEF Proceed
  <2>2. [conn[f] EXCEPT !.todo = Tail(@)] = at
    BY <1>2, <1>3, <1>4 DEF Coroutines
  <2> QED BY <1>2, <2>1, <2>2 DEF Await
<1>6. PICK to, l : to = Head(q) /\ l = Tail(q)
  OBVIOUS
<1>7. PICK n : n = Message(f, to, doc)
  OBVIOUS
<1>8. to \in Clients /\ l \in Seq(Clients) /\ Visits(q) = Visits(l) \union {to}
  BY <1>4, <1>6, VisitsIs
<1>9. Pos(w) < Pos(to) /\ Onward(l, to) /\ \A u \in Visits(l) : Pos(to) < Pos(u)
  <2>1. Onward(q, w)
    BY <1>1, <1>2 DEF CastInv, TripOK
  <2> QED BY <1>4, <1>6, <2>1, VisitsIs
<1>10. n \in Mails /\ n.from = f /\ n.doc = doc /\ (n.waits => to \in online)
  BY <1>1, <1>4, <1>7, <1>8, MailIs
<1>11. at \in Coroutines /\ at.pc = "send" /\ at.doc = doc /\ at.todo = l /\ at.known = TRUE
  <2>1. at = [conn[f] EXCEPT !.todo = l] /\ conn[f].pc = "send" /\ conn[f].doc = doc
    BY <1>2, <1>3, <1>6
  <2>2. conn[f].known \in BOOLEAN /\ conn[f].known
    BY <1>1, <1>4, KnowsIs DEF Coroutines
  <2> QED BY <1>4, <1>8, <2>1, <2>2 DEF Coroutines
<1>12. Adds(ob, outbox', f, to, n)
  BY <1>1, <1>5, <1>6, <1>7, <1>8, <1>10, AddsIs
<1>13. conn'[f] = at /\ \A g \in Clients : g # f => conn'[g] = conn[g]
  BY <1>1, <1>4, <1>5
<1>14. Shift(outbox, conn, outbox', conn', f, w, to)
  <2>1. \A v, g \in Clients : Sits(outbox'[v], g) <=> (Sits(outbox[v], g) /\ g # f) \/ (g = f /\ v = to)
    BY <1>1, <1>12 DEF Lost, Adds
  <2>2. \A v, g, h \in Clients : Ahead(outbox'[v], g, h) <=>
          (Ahead(outbox[v], g, h) /\ g # f /\ h # f) \/ (h = f /\ v = to /\ Sits(outbox[v], g) /\ g # f)
    BY <1>1, <1>12 DEF Lost, Adds
  <2> QED BY <1>2, <1>8, <1>9, <1>11, <1>13, <2>1, <2>2 DEF Shift
<1>15. /\ Hasty(outbox', f) \/ to \in online
       /\ \A g \in Clients : Hasty(outbox', g) => g = f
  BY <1>1, <1>10, <1>12 DEF Adds
<1>16. \A g \in Clients : \A d : Carries(outbox, g, d) /\ (g = f => d = conn[f].doc) => Carries(outbox', g, d)
  BY <1>1, <1>2, <1>10, <1>12 DEF Lost, Adds
<1>17. GoesOn(f, w, to, at)
  BY <1>2, <1>5, <1>8, <1>9, <1>11, <1>14, <1>15, <1>16 DEF GoesOn
<1> QED BY <1>8, <1>11, <1>17

\* ... or is over.
Ends(f, at) ==
  /\ conn' = [conn EXCEPT ![f] = at] /\ at.pc = "idle" /\ at.known = TRUE
  /\ Over(outbox, conn, outbox', conn', f)
  /\ \A g \in Clients : ~Hasty(outbox', g)
  /\ \A g \in Clients : \A d : Carries(outbox, g, d) => Carries(outbox', g, d)

LEMMA RideEnds ==
  ASSUME IInv, CastInv, NEW w \in Clients, NEW i, NEW m, NEW ob, NEW f, Gone(w, i, m, ob, f),
         conn[f].pc = "send", conn[f].todo = <<>>, NEW waited, Proceed(f, ob, waited)
  PROVE  \E at \in Coroutines : Ends(f, at)
<1>1. /\ f \in Clients /\ Lost(outbox, ob, f) /\ \A g \in Clients : ~Hasty(ob, g)
      /\ conn \in [Clients -> Coroutines]
  BY DEF Gone, IInv, Typed
<1>2. Await(f, Served("idle")) /\ outbox' = ob
  BY DEF Proceed
<1>3. PICK at \in Coroutines : conn' = [conn EXCEPT ![f] = at] /\ loop' = None /\ at.pc = "idle" /\ at.known = TRUE
  BY <1>1, <1>2, ServedStep DEF Pcs
<1>4. conn'[f] = at /\ \A g \in Clients : g # f => conn'[g] = conn[g]
  BY <1>1, <1>3
<1>5. Visits(conn[f].todo) = {}
  BY DEF Visits
<1>6. Over(outbox, conn, outbox', conn', f)
  BY <1>1, <1>2, <1>3, <1>4, <1>5 DEF Over, Lost
<1>7. /\ \A g \in Clients : ~Hasty(outbox', g)
      /\ \A g \in Clients : \A d : Carries(outbox, g, d) => Carries(outbox', g, d)
  BY <1>1, <1>2 DEF Lost
<1>8. Ends(f, at)
  BY <1>3, <1>6, <1>7 DEF Ends
<1> QED BY <1>8

\* What its message leaves when it is taken, or raises.
Took(w, i, m) ==
  \/ /\ i = 1 /\ w \in online /\ members' = members /\ overtake' = overtake
     /\ shown' = [shown EXCEPT ![w] = m.doc]
  \/ /\ w \notin online /\ members' = members \ {w} /\ (overtake => overtake') /\ shown' = shown
     /\ overtake' \/ \A g \in Clients : conn[g].pc = "send" => ~Sits(outbox'[w], g)

\* The broadcasts after it, and what holds of them in any case.
LEMMA RideTrips ==
  ASSUME IInv, CastInv, NEW w \in Clients, NEW i, NEW m, NEW ob, NEW f, Gone(w, i, m, ob, f),
         conn[f].pc = "send", NEW to \in Clients, NEW at \in Coroutines, GoesOn(f, w, to, at) \/ Ends(f, at),
         UNCHANGED <<online, dirty>>, members' \subseteq members, online \subseteq members'
  PROVE  /\ OneOK(outbox') /\ LoopOK(loop', outbox', conn') /\ MemOK(members', online', conn')
         /\ KnownOK(conn') /\ DirtyOK(dirty', conn') /\ TripOK(outbox', conn') /\ DocOK(outbox', conn')
<1>1. /\ outbox \in Outboxes /\ conn \in [Clients -> Coroutines] /\ TidyOK(outbox, conn)
      /\ members \subseteq Clients /\ dirty \subseteq Clients /\ f \in Clients
      /\ \A g \in Clients : conn[g].pc # "edges"
  BY DEF IInv, Typed, Outboxes, Gone
<1>2. conn' = [conn EXCEPT ![f] = at] /\ at.pc \in {"send", "idle"} /\ at.known = TRUE
  BY DEF GoesOn, Ends
<1>3. conn'[f] = at /\ \A g \in Clients : g # f => conn'[g] = conn[g]
  BY <1>1, <1>2
<1>4. Ordered(outbox, conn)
  BY <1>1, TripOrders DEF CastInv
<1>5. \A v, g \in Clients : g # f => (Sits(outbox'[v], g) <=> Sits(outbox[v], g))
  BY DEF GoesOn, Ends, Shift, Over
<1>6. OneOK(outbox')
  BY DEF GoesOn, Ends, OneOK
<1>7. LoopOK(loop', outbox', conn')
  <2>1. \A g \in Clients : conn'[g].pc # "edges"
    BY <1>1, <1>2, <1>3
  <2>2. loop' = None \/ \A g \in Clients : ~Hasty(outbox', g)
    BY DEF GoesOn, Ends
  <2> QED BY <2>1, <2>2 DEF LoopOK
<1>8. MemOK(members', online', conn')
  <2>1. \A v \in members : conn[v].pc # "new"
    BY DEF CastInv, MemOK
  <2>2. \A v \in members' : v \in Clients /\ conn'[v].pc # "new"
    BY <1>1, <1>2, <1>3, <2>1
  <2> QED BY <2>2 DEF MemOK
<1>9. KnownOK(conn') /\ DirtyOK(dirty', conn')
  <2>1. Knows(at) /\ f \notin dirty
    BY <1>1, <1>2, KnowsIs DEF Knows
  <2>2. KnownOK(conn')
    BY <1>3, <2>1 DEF CastInv, KnownOK
  <2>3. DirtyOK(dirty', conn')
    BY <1>1, <1>3, <2>1 DEF CastInv, DirtyOK
  <2> QED BY <2>2, <2>3
<1>10. \A u \in Clients : conn[u].pc # "new" => conn'[u].pc # "new"
  BY <1>2, <1>3
<1>11. ASSUME NEW g \in Clients, NEW v \in Clients, conn'[g].pc = "send", Sits(outbox'[v], g)
       PROVE  /\ Onward(conn'[g].todo, v) /\ conn'[v].pc # "new"
              /\ \A u \in Visits(conn'[g].todo) : conn'[u].pc # "new"
  <2>1. CASE g # f
    <3>1. conn'[g] = conn[g] /\ Sits(outbox[v], g)
      BY <1>3, <1>5, <1>11, <2>1
    <3>2. Onward(conn[g].todo, v) /\ conn[v].pc # "new" /\ \A u \in Visits(conn[g].todo) : conn[u].pc # "new"
      BY <1>11, <3>1 DEF CastInv, TripOK
    <3>3. \A u \in Visits(conn[g].todo) : u \in Clients
      BY <1>4, <1>11, <3>1 DEF Ordered
    <3> QED BY <1>10, <3>1, <3>2, <3>3
  <2>2. CASE g = f
    <3>1. GoesOn(f, w, to, at)
      BY <1>3, <1>11, <2>2 DEF Ends
    <3>2. v = to /\ Onward(at.todo, to) /\ to \in Visits(conn[f].todo) /\ Visits(at.todo) \subseteq Visits(conn[f].todo)
      BY <1>1, <1>3, <1>11, <2>2, <3>1 DEF GoesOn, Shift
    <3>3. Sits(outbox[w], f)
      BY DEF Gone
    <3>4. \A u \in Visits(conn[f].todo) : u \in Clients /\ conn[u].pc # "new"
      BY <1>1, <1>4, <3>3 DEF CastInv, TripOK, Ordered
    <3> QED BY <1>3, <1>10, <2>2, <3>2, <3>4
  <2> QED BY <2>1, <2>2
<1>12. TripOK(outbox', conn')
  BY <1>11 DEF TripOK
<1>13. DocOK(outbox', conn')
  <2> SUFFICES ASSUME NEW g \in Clients, conn'[g].pc = "send"
               PROVE  Carries(outbox', g, conn'[g].doc)
    BY DEF DocOK
  <2>1. \A d : g # f /\ Carries(outbox, g, d) => Carries(outbox', g, d)
    BY DEF GoesOn, Ends
  <2>2. CASE g # f
    BY <1>3, <2>1, <2>2 DEF CastInv, DocOK
  <2>3. CASE g = f
    <3>1. GoesOn(f, w, to, at)
      BY <1>3, <2>3 DEF Ends
    <3>2. Carries(outbox, f, conn[f].doc)
      BY <1>1 DEF CastInv, DocOK
    <3>3. Carries(outbox', f, conn[f].doc) /\ conn'[f].doc = conn[f].doc
      BY <1>1, <3>1, <3>2 DEF GoesOn, Shift
    <3> QED BY <2>3, <3>3
  <2> QED BY <2>2, <2>3
<1> QED BY <1>6, <1>7, <1>8, <1>9, <1>12, <1>13

\* It passes: nothing it had to wait for is left behind.
LEMMA RidePasses ==
  ASSUME IInv, CastInv, NEW w \in Clients, NEW i, NEW m, NEW ob, NEW f, Gone(w, i, m, ob, f),
         conn[f].pc = "send", NEW to \in Clients, NEW at \in Coroutines, GoesOn(f, w, to, at) \/ Ends(f, at),
         Took(w, i, m), ~overtake'
  PROVE  /\ Passed(outbox, conn, outbox', conn', f, w)
         /\ FlowOK(outbox', conn', members') /\ MetOK(outbox', conn', members')
<1>1. /\ outbox \in Outboxes /\ conn \in [Clients -> Coroutines] /\ TidyOK(outbox, conn)
      /\ members \subseteq Clients /\ f \in Clients /\ Sits(outbox[w], f)
      /\ \A g \in Clients : Hasty(outbox, g) => g = f
  BY DEF IInv, Typed, Outboxes, Gone
<1>2. ~overtake /\ FlowOK(outbox, conn, members) /\ MetOK(outbox, conn, members)
  BY DEF Took, CastInv
<1>3. Ordered(outbox, conn)
  BY <1>1, TripOrders DEF CastInv
<1>4. \A v \in Clients : outbox[v] \in Seq(Mails) /\ Lone(outbox[v])
  BY <1>1, Apart
<1>5. /\ \A v, g, h \in Clients : Sits(outbox[v], g) /\ Sits(outbox[v], h) /\ g # h =>
           Ahead(outbox[v], g, h) \/ Ahead(outbox[v], h, g)
      /\ \A v, g, h \in Clients : Ahead(outbox[v], g, h) =>
           Sits(outbox[v], g) /\ Sits(outbox[v], h) /\ g # h /\ ~Ahead(outbox[v], h, g)
  BY <1>4, QueueIs
<1>6. \A v, g \in Clients : g # f => (Sits(outbox'[v], g) <=> Sits(outbox[v], g))
  BY DEF GoesOn, Ends, Shift, Over
<1>7. \A g, v \in Clients : g # f /\ conn[g].pc = "send" /\ Sits(outbox[v], g) =>
        v \in members /\ (v = w => ~Ahead(outbox[w], g, f))
  <2> SUFFICES ASSUME NEW g \in Clients, NEW v \in Clients, g # f, conn[g].pc = "send", Sits(outbox[v], g)
               PROVE  v \in members /\ (v = w => ~Ahead(outbox[w], g, f))
    OBVIOUS
  <2>1. v \in members
    BY <1>1, <1>2 DEF MetOK
  <2>2. CASE i = 1
    <3>1. v = w => Ahead(outbox[w], f, g)
      BY <2>2 DEF Gone
    <3> QED BY <1>1, <1>5, <2>1, <3>1
  <2>3. CASE i # 1
    <3>1. ~Sits(outbox'[w], g)
      BY <2>3 DEF Took
    <3> QED BY <1>6, <2>1, <3>1
  <2> QED BY <2>2, <2>3
<1>8. Passed(outbox, conn, outbox', conn', f, w)
  <2>1. CASE GoesOn(f, w, to, at)
    <3>1. Shift(outbox, conn, outbox', conn', f, w, to)
      BY <2>1 DEF GoesOn
    <3>2. \A v, g, h \in Clients : Ahead(outbox[v], g, h) => Sits(outbox[v], g) /\ Sits(outbox[v], h) /\ g # h
      BY <1>5
    <3> QED BY <1>1, <1>2, <1>3, <1>5, <1>7, <3>1, <3>2, ShiftIs
  <2>2. CASE Ends(f, at)
    <3>1. Over(outbox, conn, outbox', conn', f)
      BY <2>2 DEF Ends
    <3> QED BY <1>1, <1>2, <1>3, <1>7, <3>1, OverIs
  <2> QED BY <2>1, <2>2
<1>9. FlowOK(outbox', conn', members')
  <2>1. members' \in SUBSET Clients /\ \A u \in members' : u \in members
    BY <1>1 DEF Took
  <2> QED BY <1>1, <1>2, <1>8, <2>1, PassedFlow
<1>10. MetOK(outbox', conn', members')
  <2> SUFFICES ASSUME NEW g \in Clients, NEW v \in Clients, conn'[g].pc = "send", Sits(outbox'[v], g),
                      ~Hasty(outbox', g)
               PROVE  v \in members'
    BY DEF MetOK
  <2>1. conn' = [conn EXCEPT ![f] = at]
    BY DEF GoesOn, Ends
  <2>2. CASE g # f
    <3>1. conn[g].pc = "send" /\ Sits(outbox[v], g)
      BY <1>1, <1>6, <2>1, <2>2
    <3>2. v \in members
      BY <1>7, <2>2, <3>1
    <3>3. v = w => w \in online \/ ~Sits(outbox'[w], g)
      BY <3>1 DEF Took
    <3>4. v = w => members' = members
      BY <3>3 DEF Took
    <3> QED BY <3>2, <3>4 DEF Took
  <2>3. CASE g = f
    <3>1. GoesOn(f, w, to, at)
      BY <1>1, <2>1, <2>3 DEF Ends
    <3>2. v = to /\ to \in online
      BY <1>1, <2>3, <3>1 DEF GoesOn, Shift
    <3>3. online \subseteq members
      BY DEF CastInv, MemOK
    <3> QED BY <3>2, <3>3 DEF Took
  <2> QED BY <2>2, <2>3
<1> QED BY <1>8, <1>9, <1>10

\* A broadcast is in one place, and not behind itself.
LEMMA BehindOthers ==
  ASSUME NEW ob \in Outboxes, NEW cn, TidyOK(ob, cn), NEW f \in Clients
  PROVE  ~Behind(ob, f, f)
<1> SUFFICES ASSUME NEW w \in Clients, NEW v \in Clients, Sits(ob[w], f), Sits(ob[v], f),
                    Pos(w) < Pos(v) \/ (w = v /\ Ahead(ob[w], f, f))
             PROVE  FALSE
  BY DEF Behind
<1>1. w = v /\ ob[w] \in Seq(Mails) /\ Lone(ob[w])
  BY Apart
<1>2. ~Ahead(ob[w], f, f)
  BY <1>1, QueueIs
<1> QED BY <1>1, <1>2, PosIs

\* A client it reaches shows its document, which is today's if no other has still to reach that client.
LEMMA RideCurrent ==
  ASSUME IInv, CastInv, NEW w \in Clients, NEW i, NEW m, NEW ob, NEW f, Gone(w, i, m, ob, f),
         conn[f].pc = "send", NEW to \in Clients, NEW at \in Coroutines, GoesOn(f, w, to, at) \/ Ends(f, at),
         Took(w, i, m), ~overtake', Passed(outbox, conn, outbox', conn', f, w), online' = online,
         NEW doc, CurrentOK(outbox, conn, online, shown, doc)
  PROVE  CurrentOK(outbox', conn', online', shown', doc)
<1>1. /\ outbox \in Outboxes /\ conn \in [Clients -> Coroutines] /\ TidyOK(outbox, conn)
      /\ online \subseteq Clients /\ online \subseteq members /\ shown \in [Clients -> Documents]
      /\ f \in Clients /\ Sits(outbox[w], f) /\ \A g \in Clients : conn[g].pc # "edges"
  BY DEF IInv, Typed, Outboxes, Gone, CastInv, MemOK
<1>2. /\ conn' = [conn EXCEPT ![f] = at] /\ at.pc \in {"send", "idle"} /\ conn[f].known
  BY <1>1, KnowsIs DEF GoesOn, Ends
<1>3. conn'[f] = at /\ \A g \in Clients : g # f => conn'[g] = conn[g]
  BY <1>1, <1>2
<1>4. FlowOK(outbox, conn, members)
  BY DEF Took, CastInv
<1>5. NodesOK(conn', doc)
  BY <1>1, <1>2, <1>3 DEF NodesOK
<1>6. LastOK(outbox, conn, doc) /\ ShownOK(outbox, conn, online, shown, doc) /\ GreetOK(outbox, conn, online, doc)
  BY <1>1 DEF CurrentOK, Reading
<1>7. LastOK(outbox', conn', doc)
  BY <1>1, <1>6, PassedLast
<1>8. Rides(outbox, conn, f) /\ Awaits(outbox, conn, w, f)
  BY <1>1 DEF Rides, Awaits
<1>9. ShownOK(outbox', conn', online', shown', doc)
  <2> SUFFICES ASSUME NEW u \in online, conn'[u].known, \A g \in Clients : ~Awaits(outbox', conn', u, g)
               PROVE  shown'[u] = doc
    BY DEF ShownOK
  <2>1. u \in Clients /\ u \in members /\ conn[u].known
    BY <1>1, <1>2, <1>3
  <2>2. ~Behind(outbox, f, f)
    BY <1>1, BehindOthers
  <2>3. \/ \A g \in Clients : ~Awaits(outbox, conn, u, g)
        \/ u = w /\ Rides(outbox, conn, f) /\ (u \in members /\ ~Behind(outbox, f, f) => conn[f].doc = doc)
    BY <1>1, <1>4, <1>6, <2>1, PassedShown
  <2>4. CASE \A g \in Clients : ~Awaits(outbox, conn, u, g)
    <3>1. shown[u] = doc
      BY <1>6, <2>1, <2>4 DEF ShownOK
    <3>2. u # w
      BY <1>1, <1>8, <2>4
    <3> QED BY <1>1, <2>1, <3>1, <3>2 DEF Took
  <2>5. CASE u = w /\ conn[f].doc = doc
    <3>1. Carries(outbox, f, conn[f].doc)
      BY <1>1 DEF CastInv, DocOK
    <3>2. m.doc = doc
      BY <2>5, <3>1 DEF Gone
    <3>3. shown' = [shown EXCEPT ![w] = m.doc]
      BY <2>5 DEF Took
    <3> QED BY <1>1, <2>5, <3>2, <3>3
  <2> QED BY <2>1, <2>2, <2>3, <2>4, <2>5
<1>10. GreetOK(outbox', conn', online', doc)
  <2> SUFFICES ASSUME NEW u \in online, conn'[u].pc = "greet",
                      \A g \in Clients : Awaits(outbox', conn', u, g) => Ahead(outbox'[u], g, u)
               PROVE  Carries(outbox', u, doc)
    BY DEF GreetOK
  <2>1. u \in Clients /\ u # f /\ conn[u].pc = "greet"
    BY <1>1, <1>2, <1>3
  <2>2. \A d : Carries(outbox, u, d) => Carries(outbox', u, d)
    BY <2>1 DEF GoesOn, Ends
  <2>3. CASE Sits(outbox[u], u)
    <3>1. ASSUME NEW g \in Clients, Awaits(outbox, conn, u, g)
          PROVE  Ahead(outbox[u], g, u)
      <4>1. CASE g = f /\ u = w
        <5>1. i = 1
          BY <4>1 DEF Took
        <5> QED BY <2>1, <2>3, <4>1, <5>1 DEF Gone
      <4>2. CASE ~(g = f /\ u = w)
        <5>1. Awaits(outbox', conn', u, g)
          BY <2>1, <3>1, <4>2 DEF Passed
        <5>2. Ahead(outbox'[u], g, u)
          BY <5>1
        <5> QED BY <2>1, <5>2 DEF GoesOn, Ends, Shift, Over
      <4> QED BY <4>1, <4>2
    <3>2. Carries(outbox, u, doc)
      BY <1>6, <2>1, <3>1 DEF GreetOK
    <3> QED BY <2>2, <3>2
  <2>4. CASE ~Sits(outbox[u], u)
    <3>1. \A v \in Clients : ~Sits(outbox[v], u)
      BY <1>1, <2>1, <2>4, Apart
    <3>2. Carries(outbox, u, doc)
      BY <3>1 DEF Carries, Bears, Sits
    <3> QED BY <2>2, <3>2
  <2> QED BY <2>3, <2>4
<1> QED BY <1>5, <1>7, <1>9, <1>10 DEF CurrentOK

LEMMA RideCasts ==
  ASSUME IInv, CastInv, NEW w \in Clients, NEW i, NEW m, NEW ob, NEW f, Gone(w, i, m, ob, f),
         conn[f].pc = "send", NEW waited, Proceed(f, ob, waited), Took(w, i, m),
         UNCHANGED <<sessions, cur, online, dirty>>
  PROVE  CastInv'
<1>1. PICK to \in Clients, at \in Coroutines : GoesOn(f, w, to, at) \/ Ends(f, at)
  <2>1. CASE conn[f].todo # <<>>
    BY <2>1, RideShifts
  <2>2. CASE conn[f].todo = <<>>
    <3>1. \E at \in Coroutines : Ends(f, at)
      BY <2>2, RideEnds
    <3> QED BY <3>1
  <2> QED BY <2>1, <2>2
<1>2. members' \subseteq members /\ online \subseteq members'
  BY DEF Took, CastInv, MemOK
<1>3. /\ OneOK(outbox') /\ LoopOK(loop', outbox', conn') /\ MemOK(members', online', conn')
      /\ KnownOK(conn') /\ DirtyOK(dirty', conn') /\ TripOK(outbox', conn') /\ DocOK(outbox', conn')
  BY <1>1, <1>2, RideTrips
<1>4. ASSUME ~overtake'
      PROVE  /\ FlowOK(outbox', conn', members') /\ MetOK(outbox', conn', members')
             /\ dirty' = {} => CurrentOK(outbox', conn', online', shown', ToDocument(Session'))
  <2>1. /\ Passed(outbox, conn, outbox', conn', f, w)
        /\ FlowOK(outbox', conn', members') /\ MetOK(outbox', conn', members')
    BY <1>1, <1>4, RidePasses
  <2>2. ASSUME dirty' = {}
        PROVE  CurrentOK(outbox', conn', online', shown', ToDocument(Session'))
    <3>1. ~overtake /\ dirty = {}
      BY <1>4, <2>2 DEF Took
    <3>2. PICK doc : doc = ToDocument(Session)
      OBVIOUS
    <3>3. CurrentOK(outbox, conn, online, shown, doc)
      BY <3>1, <3>2 DEF CastInv
    <3>4. ToDocument(Session') = doc
      BY <3>2 DEF Session
    <3>5. CurrentOK(outbox', conn', online', shown', doc)
      BY <1>1, <1>4, <2>1, <3>3, RideCurrent
    <3> QED BY <3>4, <3>5
  <2> QED BY <2>1, <2>2
<1> QED BY <1>3, <1>4 DEF CastInv

LEMMA DeliverCasts ==
  ASSUME IInv, CastInv, NEW c \in Clients, Deliver(c)
  PROVE  CastInv'
<1>1. CASE conn[outbox[c][1].from].pc # "send"
  BY <1>1, AnsweredCasts
<1>2. CASE conn[outbox[c][1].from].pc = "send"
  <2>1. PICK m, r : m = outbox[c][1] /\ r = Tail(outbox[c])
    OBVIOUS
  <2>2. /\ loop = None /\ c \in online /\ 1 \in 1 .. Len(outbox[c]) /\ Rest(outbox[c], 1, r)
        /\ m.waits => Settled
        /\ shown' = IF conn[m.from].pc \in {"send", "greet"} THEN [shown EXCEPT ![c] = m.doc] ELSE shown
        /\ Proceed(m.from, [outbox EXCEPT ![c] = r], m.waits)
        /\ UNCHANGED <<sessions, cur, members, online, dirty, overtake>>
    BY <2>1, DeliverIs
  <2>3. PICK ob, f : ob = [outbox EXCEPT ![c] = r] /\ f = m.from
    OBVIOUS
  <2>4. /\ 1 \in 1 .. Len(outbox[c]) /\ loop = None /\ m = outbox[c][1] /\ (m.waits => Settled)
        /\ Rest(outbox[c], 1, r) /\ ob = [outbox EXCEPT ![c] = r] /\ f = m.from
    BY <2>1, <2>2, <2>3
  <2>5. Gone(c, 1, m, ob, f)
    BY ONLY IInv, CastInv, c \in Clients, <2>4, LeftIs
  <2>6. PICK waited : Proceed(f, ob, waited)
    BY <2>2, <2>3
  <2>7. conn[f].pc = "send" /\ Took(c, 1, m)
    BY <1>2, <2>1, <2>2, <2>3 DEF Took
  <2>8. UNCHANGED <<sessions, cur, online, dirty>>
    BY <2>2
  <2> QED BY ONLY IInv, CastInv, c \in Clients, <2>5, <2>6, <2>7, <2>8, RideCasts
<1> QED BY <1>1, <1>2

LEMMA SendRaisesCasts ==
  ASSUME IInv, CastInv, NEW c \in Clients, SendRaises(c)
  PROVE  CastInv'
<1>1. /\ \E i \in 1 .. Len(outbox[c]) : \E m, r, ob : Raised(c, i, m, r, ob)
      /\ UNCHANGED <<sessions, cur, online, shown, dirty>> /\ (overtake => overtake')
  BY RaisesIs
<1>2. PICK i \in 1 .. Len(outbox[c]) : \E m, r, ob : Raised(c, i, m, r, ob)
  BY <1>1
<1>3. PICK m, r, ob : Raised(c, i, m, r, ob)
  BY <1>2
<1>4. CASE conn[m.from].pc # "send"
  BY <1>3, <1>4, ReplyRaisesCasts
<1>5. CASE conn[m.from].pc = "send"
  <2>1. PICK f : f = m.from
    OBVIOUS
  <2>2. /\ m = outbox[c][i] /\ Rest(outbox[c], i, r) /\ ob = [outbox EXCEPT ![c] = r] /\ f = m.from
        /\ loop = None /\ (m.waits => Settled)
    BY <1>3, <2>1 DEF Raised
  <2>3. Gone(c, i, m, ob, f)
    BY ONLY IInv, CastInv, c \in Clients, i \in 1 .. Len(outbox[c]), <2>2, LeftIs
  <2>4. PICK waited : Proceed(f, ob, waited)
    BY <1>3, <1>5, <2>1 DEF Raised
  <2>5. conn[f].pc = "send" /\ Took(c, i, m)
    BY <1>1, <1>3, <1>5, <2>1 DEF Raised, Took, Forgotten
  <2>6. UNCHANGED <<sessions, cur, online, dirty>>
    BY <1>1
  <2> QED BY ONLY IInv, CastInv, c \in Clients, <2>3, <2>4, <2>5, <2>6, RideCasts
<1> QED BY <1>4, <1>5

LEMMA InitCasts == Init => CastInv
<1> SUFFICES ASSUME Init
             PROVE  CastInv
  OBVIOUS
<1>1. /\ cur = 1 /\ sessions = <<First>> /\ loop = None /\ members = Online /\ online = Online /\ dirty = {}
      /\ outbox = [c \in Clients |-> <<>>] /\ Online \subseteq Clients
      /\ conn = [c \in Clients |-> IF c \in Online THEN Served("idle") ELSE Fresh]
      /\ shown = [c \in Clients |-> IF c \in Online THEN ToDocument(First) ELSE NoDoc]
  BY WorkbenchAssumption DEF Init
<1>2. /\ \A c \in Clients : conn[c].pc \in {"idle", "new"} /\ (conn[c].pc = "new" => ~conn[c].known)
                            /\ (conn[c].pc = "idle" => conn[c].known)
      /\ \A c \in Online : conn[c].pc = "idle"
  <2> SUFFICES ASSUME NEW c \in Clients
               PROVE  /\ conn[c].pc \in {"idle", "new"} /\ (conn[c].pc = "new" => ~conn[c].known)
                      /\ conn[c].pc = "idle" => conn[c].known
                      /\ c \in Online => conn[c].pc = "idle"
    BY <1>1
  <2>1. Fresh.pc = "new" /\ Fresh.known = FALSE
    BY DEF Fresh
  <2>2. Served("idle").pc = "idle" /\ Served("idle").known = TRUE
    BY ServedKnown DEF Pcs
  <2>3. conn[c] = IF c \in Online THEN Served("idle") ELSE Fresh
    BY <1>1
  <2>4. CASE c \in Online
    <3>1. conn[c] = Served("idle")
      BY <2>3, <2>4
    <3> QED BY <2>2, <3>1
  <2>5. CASE c \notin Online
    <3>1. conn[c] = Fresh
      BY <2>3, <2>5
    <3> QED BY <2>1, <2>5, <3>1
  <2> QED BY <2>4, <2>5
<1>3. \A w, f \in Clients : ~Sits(outbox[w], f) /\ ~Rash(outbox[w], f)
  BY <1>1 DEF Sits, Rash
<1>4. /\ \A f \in Clients : conn[f].pc \notin {"send", "edges", "greet"} /\ ~Hasty(outbox, f)
      /\ \A f \in Clients : ~Rides(outbox, conn, f)
  BY <1>2, <1>3 DEF Hasty, Rides
<1>5. OneOK(outbox) /\ LoopOK(loop, outbox, conn) /\ MemOK(members, online, conn)
  BY <1>1, <1>2, <1>4 DEF OneOK, LoopOK, MemOK
<1>6. KnownOK(conn) /\ DirtyOK(dirty, conn) /\ TripOK(outbox, conn) /\ DocOK(outbox, conn)
  BY <1>1, <1>2, <1>4 DEF KnownOK, Knows, DirtyOK, TripOK, DocOK
<1>7. FlowOK(outbox, conn, members) /\ MetOK(outbox, conn, members)
  BY <1>4 DEF FlowOK, MetOK
<1>8. CurrentOK(outbox, conn, online, shown, ToDocument(Session))
  <2>1. Session = First
    BY <1>1 DEF Session
  <2>2. \A c \in online : shown[c] = ToDocument(Session)
    BY <1>1, <2>1
  <2> DEFINE doc == ToDocument(Session)
  <2>3. \A c \in online : shown[c] = doc /\ c \in Clients
    BY <1>1, <2>2
  <2> HIDE DEF doc
  <2>4. CurrentOK(outbox, conn, online, shown, doc)
    BY <1>4, <2>3 DEF CurrentOK, NodesOK, LastOK, ShownOK, GreetOK
  <2> QED BY <2>4 DEF doc
<1> QED BY <1>5, <1>6, <1>7, <1>8 DEF CastInv

LEMMA NextCasts == IInv /\ CastInv /\ [Next]_vars => CastInv'
<1> SUFFICES ASSUME IInv, CastInv, [Next]_vars
             PROVE  CastInv'
  OBVIOUS
<1>1. CASE UNCHANGED vars
  BY <1>1 DEF vars, CastInv, Session
<1>2. ASSUME NEW c \in Clients, Join(c) \/ \E m \in Messages(c) : Receive(c, m)
      PROVE  CastInv'
  BY <1>2, JoinCasts, ReceiveCasts
<1>3. ASSUME NEW c \in Clients, NoAgent(c) \/ Close(c) \/ Depart(c)
      PROVE  CastInv'
  BY <1>3, NoAgentCasts, CloseCasts, DepartCasts
<1>4. ASSUME NEW c \in Clients, HandleAction(c) \/ HandleUndo(c) \/ HandleRedo(c)
      PROVE  CastInv'
  <2>1. Changed(c) /\ \E type : Handling(c, type)
    BY <1>4 DEF HandleAction, HandleUndo, HandleRedo
  <2> QED BY <2>1, ChangedCasts
<1>5. ASSUME NEW c \in Clients, Refuse(c) \/ HandleLoad(c) \/ HandleSync(c)
      PROVE  CastInv'
  BY <1>5, RefuseCasts, ToReadCasts
<1>6. ASSUME NEW c \in Clients, StartWork(c) \/ WorkEdit(c)
      PROVE  CastInv'
  BY <1>6, StartWorkCasts, WorkEditCasts
<1>7. ASSUME NEW c \in Clients, FinishWork(c) \/ TuneRaises(c) \/ WorkRaises(c)
      PROVE  CastInv'
  BY <1>7, ResumeCasts, WorkRaisesCasts
<1>8. ASSUME NEW c \in Clients, ReadNodes(c) \/ ReadEdges(c) \/ ReadRaises(c)
      PROVE  CastInv'
  BY <1>8, ReadNodesCasts, ReadEdgesCasts, ReadRaisesCasts
<1>9. ASSUME NEW c \in Clients, Deliver(c) \/ SendRaises(c)
      PROVE  CastInv'
  BY <1>9, DeliverCasts, SendRaisesCasts
<1> QED BY <1>1, <1>2, <1>3, <1>4, <1>5, <1>6, <1>7, <1>8, <1>9 DEF Next

\* When nothing is under way every client that is connected shows the session's document (app.py:170):
\* although a document is read and sent outside the lock, by several coroutines at once, and a transport
\* may be full (app.py:39-44), no broadcast overtakes one that was read after it; unless a change was never
\* broadcast, its coroutine having ended, or a client was forgotten while a broadcast waited for it.
THEOREM ClientsAgree == Spec => []ClientsConverge
<1>1. IInv /\ CastInv => ClientsConverge
  <2> SUFFICES ASSUME IInv, CastInv, Quiet, ~overtake, \A c \in dirty : conn[c].pc # "off",
                      NEW c \in Clients, conn[c].pc = "idle", c \in online
               PROVE  shown[c] = ToDocument(Session)
    BY DEF ClientsConverge
  <2>1. /\ \A f \in Clients : conn[f].pc \in {"new", "idle", "off"} /\ outbox[f] = <<>>
        /\ dirty \subseteq Clients
    BY DEF Quiet, IInv, Typed
  <2>2. dirty = {}
    <3> SUFFICES ASSUME NEW d \in dirty
                 PROVE  FALSE
      OBVIOUS
    <3>1. conn[d].pc \in {"new", "idle"} /\ d \in Clients
      BY <2>1
    <3> QED BY <3>1, KnowsIs
  <2>3. CurrentOK(outbox, conn, online, shown, ToDocument(Session))
    BY <2>2 DEF CastInv
  <2>4. ShownOK(outbox, conn, online, shown, ToDocument(Session))
    BY <2>1, <2>3 DEF CurrentOK, Reading
  <2>5. \A f \in Clients : ~Awaits(outbox, conn, c, f)
    BY <2>1 DEF Awaits, Rides
  <2>6. conn[c].known
    BY KnowsIs
  <2> QED BY <2>4, <2>5, <2>6 DEF ShownOK
<1>2. Spec => []CastInv
  BY Invariance, InitCasts, NextCasts, PTL DEF Spec
<1> QED BY <1>1, <1>2, Invariance, PTL
=============================================================================

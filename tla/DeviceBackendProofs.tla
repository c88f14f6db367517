------------------------- MODULE DeviceBackendProofs -------------------------
(***************************************************************************)
(* Theorems about DeviceBackend, for any number of devices and of opens.   *)
(*                                                                         *)
(* The argument: what the object is doing is told by what is left of the   *)
(* call in progress (Phase), and each fact about object and HAL is kept    *)
(* through the phases that do not make it: the listener is the current     *)
(* device's (Listening), IOProc and aggregate are the current ones         *)
(* (Holding), what plays is the current IOProc (Playing, Sounding) and a   *)
(* flag that is up tells of a death (Reported).  For the blocks: the       *)
(* object's channels and frames are those of the format open() saw last    *)
(* (Known), so what a block moves is bounded by the sum over the buffers   *)
(* of that format, a fold unfolded by induction along the sequence.        *)
(***************************************************************************)
EXTENDS DeviceBackend, WellFoundedInduction, TLAPS

-----------------------------------------------------------------------------
(* The channels of a device: a sum over its buffers.                       *)

LEMMA LeastNatural ==
  ASSUME NEW T \in SUBSET Nat, T # {}
  PROVE  \E m \in T : \A n \in T : m <= n
<1> DEFINE R == OpToRel(<, Nat)
<1>1. IsWellFoundedOn(R, Nat)
  BY NatLessThanWellFounded, Zenon
<1>2. \A n, m \in Nat : n < m => <<n, m>> \in R
  BY Zenon DEF OpToRel
<1> HIDE DEF R
<1>3. PICK m \in T : \A n \in T : ~(<<n, m>> \in R)
  BY <1>1, WFMin
<1>4. ASSUME NEW n \in T PROVE m <= n
  <2>1. ~(n < m)
    BY <1>2, <1>3
  <2> QED BY <2>1
<1> QED BY <1>4

\* Induction, over a set rather than a predicate.
LEMMA Induction ==
  ASSUME NEW T \in SUBSET Nat, 0 \in T, \A n \in T : n + 1 \in T
  PROVE  T = Nat
<1> SUFFICES ASSUME Nat \ T # {} PROVE FALSE
  OBVIOUS
<1>1. PICK m \in Nat \ T : \A n \in Nat \ T : m <= n
  BY LeastNatural
<1>2. m # 0 /\ m - 1 \in Nat /\ m - 1 \in T
  BY <1>1
<1> QED BY <1>1, <1>2

\* The function a fold of + is defined by, up to index n.
Unfolds(f, s, n) ==
  f = [t \in SUBSET (1 .. n) |-> IF t = {} THEN 0 ELSE f[t \ {Max(t)}] + s[Max(t)]]

LEMMA FoldIs ==
  ASSUME NEW s, NEW n, DOMAIN s = 1 .. n
  PROVE  FoldLeft(+, 0, s) = (CHOOSE f : Unfolds(f, s, n))[1 .. n]
  BY DEF FoldLeft, MapThenFoldSet, Unfolds

LEMMA MaxIs ==
  ASSUME NEW n \in Nat, NEW t \in SUBSET (1 .. n), n \in t
  PROVE  Max(t) = n
<1>1. \A y \in t : n >= y
  OBVIOUS
<1>2. \A x \in t : (\A y \in t : x >= y) => x = n
  OBVIOUS
<1> QED BY <1>1, <1>2 DEF Max

\* There is such a function.
LEMMA FoldExists ==
  ASSUME NEW s, NEW n \in Nat
  PROVE  \E f : Unfolds(f, s, n)
<1> DEFINE T == {m \in Nat : \E f : Unfolds(f, s, m)}
<1>1. 0 \in T
  <2> DEFINE f == [t \in SUBSET (1 .. 0) |-> 0]
  <2>1. \A t \in SUBSET (1 .. 0) : t = {}
    OBVIOUS
  <2>2. f = [t \in SUBSET (1 .. 0) |-> IF t = {} THEN 0 ELSE f[t \ {Max(t)}] + s[Max(t)]]
    BY <2>1
  <2> QED BY <2>2 DEF Unfolds
<1>2. ASSUME NEW m \in T
      PROVE  m + 1 \in T
  <2>1. PICK f : Unfolds(f, s, m)
    OBVIOUS
  <2> DEFINE I == 1 .. m
             J == 1 .. (m + 1)
             p == m + 1
             g == [t \in SUBSET J |-> IF p \in t THEN f[t \ {p}] + s[p] ELSE f[t]]
             h == [t \in SUBSET J |-> IF t = {} THEN 0 ELSE g[t \ {Max(t)}] + s[Max(t)]]
  <2>2. m \in Nat /\ p \in Nat /\ J = I \cup {p} /\ p \notin I
    OBVIOUS
  <2>3. f = [t \in SUBSET I |-> IF t = {} THEN 0 ELSE f[t \ {Max(t)}] + s[Max(t)]]
    BY <2>1 DEF Unfolds
  <2>4. \A t \in SUBSET J : p \in t => Max(t) = p
    BY <2>2, MaxIs
  <2> HIDE DEF p, I, J
  <2>5. \A t \in SUBSET J : g[t] = h[t]
    <3> SUFFICES ASSUME NEW t \in SUBSET J PROVE g[t] = h[t]
      OBVIOUS
    <3>1. CASE p \in t
      <4>1. t # {} /\ Max(t) = p /\ t \ {p} \in SUBSET J /\ p \notin t \ {p}
        BY <2>4, <3>1
      <4>2. g[t] = f[t \ {p}] + s[p] /\ g[t \ {p}] = f[t \ {p}]
        BY <3>1, <4>1
      <4>3. h[t] = g[t \ {p}] + s[p]
        BY <4>1
      <4> QED BY <4>2, <4>3
    <3>2. CASE p \notin t
      <4>1. t \in SUBSET I /\ g[t] = f[t]
        BY <2>2, <3>2
      <4>2. CASE t = {}
        <5>1. f[t] = 0
          BY <2>3, <4>1, <4>2
        <5> QED BY <4>1, <4>2, <5>1
      <4>3. CASE t # {}
        <5> DEFINE x == Max(t)
                   u == t \ {x}
        <5>1. u \in SUBSET J /\ p \notin u
          BY <3>2
        <5>2. g[u] = f[u]
          BY <5>1
        <5>3. f[t] = f[u] + s[x]
          BY <2>3, <4>1, <4>3
        <5>4. h[t] = g[u] + s[x]
          BY <4>3
        <5> QED BY <4>1, <5>2, <5>3, <5>4
      <4> QED BY <4>2, <4>3
    <3> QED BY <3>1, <3>2
  <2>6. g = h
    BY <2>5
  <2>7. Unfolds(g, s, p)
    BY <2>6 DEF Unfolds, J, p
  <2> HIDE DEF g
  <2>8. \E ff : Unfolds(ff, s, p)
    BY <2>7
  <2> QED BY <2>2, <2>8 DEF p
<1> HIDE DEF T
<1>3. T \in SUBSET Nat
  BY DEF T
<1>4. T = Nat
  BY <1>1, <1>2, <1>3, Induction
<1> QED BY <1>4 DEF T

\* What is added up so far grows by one element at a time.
LEMMA FoldSteps ==
  ASSUME NEW s, NEW n \in Nat, DOMAIN s = 1 .. n
  PROVE  \E total : /\ total[0] = 0
                    /\ \A k \in 1 .. n : total[k] = total[k - 1] + s[k]
                    /\ FoldLeft(+, 0, s) = total[n]
<1> DEFINE iter == CHOOSE f : Unfolds(f, s, n)
           total == [k \in 0 .. n |-> iter[1 .. k]]
<1>1. Unfolds(iter, s, n)
  BY FoldExists
<1>2. FoldLeft(+, 0, s) = iter[1 .. n]
  BY FoldIs
<1> HIDE DEF iter
<1>3. \A t \in SUBSET (1 .. n) : iter[t] = IF t = {} THEN 0 ELSE iter[t \ {Max(t)}] + s[Max(t)]
  BY <1>1 DEF Unfolds
<1>4. total[0] = 0
  <2>1. 0 \in 0 .. n /\ 1 .. 0 = {} /\ {} \in SUBSET (1 .. n)
    OBVIOUS
  <2> QED BY <1>3, <2>1
<1>5. ASSUME NEW k \in 1 .. n
      PROVE  total[k] = total[k - 1] + s[k]
  <2> DEFINE t == 1 .. k
  <2>1. k \in Nat /\ k \in t /\ k \in 0 .. n /\ k - 1 \in 0 .. n
    OBVIOUS
  <2>2. t \in SUBSET (1 .. n) /\ t # {}
    <3>1. \A y \in 1 .. k : y \in 1 .. n
      OBVIOUS
    <3> QED BY <2>1, <3>1
  <2>3. t \ {k} = 1 .. (k - 1)
    OBVIOUS
  <2>4. Max(t) = k
    BY <2>1, MaxIs
  <2>5. iter[t] = iter[t \ {Max(t)}] + s[Max(t)]
    BY <1>3, <2>2
  <2> QED BY <2>1, <2>3, <2>4, <2>5
<1>6. total[n] = iter[1 .. n]
  OBVIOUS
<1> HIDE DEF total
<1>7. FoldLeft(+, 0, s) = total[n]
  BY <1>2, <1>6
<1> QED BY <1>4, <1>5, <1>7

\* The sum of positive numbers: at least as many as they are, one of them if it is alone.
Sum(s) == FoldLeft(+, 0, s)

LEMMA SumOfPositives ==
  ASSUME NEW s \in Seq(Nat \ {0})
  PROVE  /\ Sum(s) \in Nat /\ Len(s) <= Sum(s)
         /\ Len(s) = 1 => Sum(s) = s[1]
<1> DEFINE n == Len(s)
           sum == Sum(s)
<1>1. n \in Nat /\ DOMAIN s = 1 .. n /\ \A k \in 1 .. n : s[k] \in Nat /\ 0 < s[k]
  OBVIOUS
<1>2. PICK total : /\ total[0] = 0
                   /\ \A k \in 1 .. n : total[k] = total[k - 1] + s[k]
                   /\ sum = total[n]
  BY <1>1, FoldSteps DEF Sum
<1> HIDE DEF n, sum
<1> DEFINE T == {k \in Nat : k <= n => total[k] \in Nat /\ k <= total[k]}
<1>3. 0 \in T
  BY <1>2
<1>4. ASSUME NEW k \in T
      PROVE  k + 1 \in T
  <2>1. k \in Nat
    OBVIOUS
  <2>2. ASSUME k + 1 <= n
        PROVE  total[k + 1] \in Nat /\ k + 1 <= total[k + 1]
    <3>1. k <= n /\ k + 1 \in 1 .. n /\ (k + 1) - 1 = k
      BY <1>1, <2>1, <2>2
    <3>2. total[k + 1] = total[k] + s[k + 1] /\ s[k + 1] \in Nat /\ 0 < s[k + 1]
      BY <1>1, <1>2, <3>1
    <3>3. total[k] \in Nat /\ k <= total[k]
      BY <3>1
    <3> QED BY <2>1, <3>2, <3>3
  <2> QED BY <2>1, <2>2
<1>5. T \in SUBSET Nat
  OBVIOUS
<1>6. n \in T
  <2> HIDE DEF T
  <2> QED BY <1>1, <1>3, <1>4, <1>5, Induction
<1>7. sum \in Nat /\ n <= sum
  BY <1>1, <1>2, <1>6
<1>8. n = 1 => sum = s[1]
  <2> SUFFICES ASSUME n = 1 PROVE sum = s[1]
    OBVIOUS
  <2>1. total[1] = total[0] + s[1] /\ s[1] \in Nat
    <3>1. 1 \in 1 .. n /\ 1 - 1 = 0
      OBVIOUS
    <3> QED BY <1>1, <1>2, <3>1
  <2> QED BY <1>2, <2>1
<1> QED BY <1>7, <1>8 DEF n, sum
-----------------------------------------------------------------------------
(* What can be left of open() and of the destructor.                       *)

FromNegotiate == {<<"negotiate", "create", "arm", "listen">>, <<"create", "arm", "listen">>,
                  <<"arm", "listen">>, <<"listen">>}
OpenTails(k) ==
  IF k = "duplex"
  THEN FromNegotiate \cup {DuplexOpen, <<"pair", "negotiate", "create", "arm", "listen">>}
  ELSE FromNegotiate \cup {OutputOpen, <<"find", "negotiate", "create", "arm", "listen">>}
CloseTails(k) ==
  IF k = "duplex"
  THEN {DuplexClose, <<"unlisten", "free", "dissolve">>, <<"free", "dissolve">>,
        <<"dissolve">>, <<>>}
  ELSE {OutputClose, <<"unlisten", "free">>, <<"free">>, <<>>}

Phase ==
  /\ kind \in {"output", "input", "duplex"}
  /\ b.dying => todo \in CloseTails(kind)
  /\ ~b.dying => todo \in {<<>>} \cup OpenTails(kind)

\* The step that comes next; "none" between two calls.
NextStep == IF todo = <<>> THEN "none" ELSE Head(todo)

\* What comes after each step.
After(k, step, next, dying) ==
  /\ step = "unlisten" => next = IF dying THEN "free" ELSE IF k = "duplex" THEN "pair" ELSE "find"
  /\ step = "find" => next = "negotiate"
  /\ step = "pair" => next = "negotiate"
  /\ step = "negotiate" => next = "create"
  /\ step = "create" => next = "arm"
  /\ step = "arm" => next = "listen"
  /\ step = "listen" => next = "none"
  /\ step = "stop" => next = "unlisten"
  /\ step = "free" => next = IF k = "duplex" THEN "dissolve" ELSE "none"
  /\ step = "dissolve" => next = "none"

\* The steps there are, by phase.
Steps(k, dying) ==
  IF dying THEN {"none", "stop", "unlisten", "free"} \cup (IF k = "duplex" THEN {"dissolve"} ELSE {})
  ELSE {"none", "unlisten", "negotiate", "create", "arm", "listen"}
         \cup (IF k = "duplex" THEN {"pair"} ELSE {"find"})

LEMMA NextStepRange ==
  ASSUME Phase
  PROVE  NextStep \in Steps(kind, b.dying) /\ (todo # <<>> => NextStep # "none")
<1>1. CASE b.dying
  BY <1>1 DEF Phase, NextStep, Steps, CloseTails, DuplexClose, OutputClose
<1>2. CASE ~b.dying
  BY <1>2 DEF Phase, NextStep, Steps, OpenTails, FromNegotiate, DuplexOpen, OutputOpen
<1> QED BY <1>1, <1>2

\* A step that goes on, and one that fails, leave the object in a phase.
LEMMA GoPhase ==
  ASSUME Phase, todo # <<>>, Go, kind' = kind, b'.dying <=> b.dying
  PROVE  Phase' /\ After(kind, NextStep, NextStep', b.dying)
<1>1. CASE b.dying
  <2>1. CASE kind = "duplex"
    <3>1. CASE todo = <<"stop", "unlisten", "free", "dissolve">>
      <4>1. todo' = <<"unlisten", "free", "dissolve">>
        BY <3>1 DEF Go
      <4>2. NextStep = "stop" /\ NextStep' = "unlisten"
        BY <3>1, <4>1 DEF NextStep
      <4> QED BY <1>1, <2>1, <4>1, <4>2 DEF Phase, After, CloseTails, DuplexClose
    <3>2. CASE todo = <<"unlisten", "free", "dissolve">>
      <4>1. todo' = <<"free", "dissolve">>
        BY <3>2 DEF Go
      <4>2. NextStep = "unlisten" /\ NextStep' = "free"
        BY <3>2, <4>1 DEF NextStep
      <4> QED BY <1>1, <2>1, <4>1, <4>2 DEF Phase, After, CloseTails, DuplexClose
    <3>3. CASE todo = <<"free", "dissolve">>
      <4>1. todo' = <<"dissolve">>
        BY <3>3 DEF Go
      <4>2. NextStep = "free" /\ NextStep' = "dissolve"
        BY <3>3, <4>1 DEF NextStep
      <4> QED BY <1>1, <2>1, <4>1, <4>2 DEF Phase, After, CloseTails, DuplexClose
    <3>4. CASE todo = <<"dissolve">>
      <4>1. todo' = <<>>
        BY <3>4 DEF Go
      <4>2. NextStep = "dissolve" /\ NextStep' = "none"
        BY <3>4, <4>1 DEF NextStep
      <4> QED BY <1>1, <2>1, <4>1, <4>2 DEF Phase, After, CloseTails, DuplexClose
    <3> QED BY <1>1, <2>1, <3>1, <3>2, <3>3, <3>4 DEF Phase, CloseTails, DuplexClose
  <2>2. CASE kind # "duplex"
    <3>1. CASE todo = <<"stop", "unlisten", "free">>
      <4>1. todo' = <<"unlisten", "free">>
        BY <3>1 DEF Go
      <4>2. NextStep = "stop" /\ NextStep' = "unlisten"
        BY <3>1, <4>1 DEF NextStep
      <4> QED BY <1>1, <2>2, <4>1, <4>2 DEF Phase, After, CloseTails, OutputClose
    <3>2. CASE todo = <<"unlisten", "free">>
      <4>1. todo' = <<"free">>
        BY <3>2 DEF Go
      <4>2. NextStep = "unlisten" /\ NextStep' = "free"
        BY <3>2, <4>1 DEF NextStep
      <4> QED BY <1>1, <2>2, <4>1, <4>2 DEF Phase, After, CloseTails, OutputClose
    <3>3. CASE todo = <<"free">>
      <4>1. todo' = <<>>
        BY <3>3 DEF Go
      <4>2. NextStep = "free" /\ NextStep' = "none"
        BY <3>3, <4>1 DEF NextStep
      <4> QED BY <1>1, <2>2, <4>1, <4>2 DEF Phase, After, CloseTails, OutputClose
    <3> QED BY <1>1, <2>2, <3>1, <3>2, <3>3 DEF Phase, CloseTails, OutputClose
  <2> QED BY <2>1, <2>2
<1>2. CASE ~b.dying
  <2>1. CASE kind = "duplex"
    <3>1. CASE todo = <<"unlisten", "pair", "negotiate", "create", "arm", "listen">>
      <4>1. todo' = <<"pair", "negotiate", "create", "arm", "listen">>
        BY <3>1 DEF Go
      <4>2. NextStep = "unlisten" /\ NextStep' = "pair"
        BY <3>1, <4>1 DEF NextStep
      <4> QED BY <1>2, <2>1, <4>1, <4>2 DEF Phase, After, OpenTails, FromNegotiate, DuplexOpen
    <3>2. CASE todo = <<"pair", "negotiate", "create", "arm", "listen">>
      <4>1. todo' = <<"negotiate", "create", "arm", "listen">>
        BY <3>2 DEF Go
      <4>2. NextStep = "pair" /\ NextStep' = "negotiate"
        BY <3>2, <4>1 DEF NextStep
      <4> QED BY <1>2, <2>1, <4>1, <4>2 DEF Phase, After, OpenTails, FromNegotiate, DuplexOpen
    <3>3. CASE todo = <<"negotiate", "create", "arm", "listen">>
      <4>1. todo' = <<"create", "arm", "listen">>
        BY <3>3 DEF Go
      <4>2. NextStep = "negotiate" /\ NextStep' = "create"
        BY <3>3, <4>1 DEF NextStep
      <4> QED BY <1>2, <2>1, <4>1, <4>2 DEF Phase, After, OpenTails, FromNegotiate, DuplexOpen
    <3>4. CASE todo = <<"create", "arm", "listen">>
      <4>1. todo' = <<"arm", "listen">>
        BY <3>4 DEF Go
      <4>2. NextStep = "create" /\ NextStep' = "arm"
        BY <3>4, <4>1 DEF NextStep
      <4> QED BY <1>2, <2>1, <4>1, <4>2 DEF Phase, After, OpenTails, FromNegotiate, DuplexOpen
    <3>5. CASE todo = <<"arm", "listen">>
      <4>1. todo' = <<"listen">>
        BY <3>5 DEF Go
      <4>2. NextStep = "arm" /\ NextStep' = "listen"
        BY <3>5, <4>1 DEF NextStep
      <4> QED BY <1>2, <2>1, <4>1, <4>2 DEF Phase, After, OpenTails, FromNegotiate, DuplexOpen
    <3>6. CASE todo = <<"listen">>
      <4>1. todo' = <<>>
        BY <3>6 DEF Go
      <4>2. NextStep = "listen" /\ NextStep' = "none"
        BY <3>6, <4>1 DEF NextStep
      <4> QED BY <1>2, <2>1, <4>1, <4>2 DEF Phase, After, OpenTails, FromNegotiate, DuplexOpen
    <3> QED BY <1>2, <2>1, <3>1, <3>2, <3>3, <3>4, <3>5, <3>6 DEF Phase, OpenTails, FromNegotiate, DuplexOpen
  <2>2. CASE kind # "duplex"
    <3>1. CASE todo = <<"unlisten", "find", "negotiate", "create", "arm", "listen">>
      <4>1. todo' = <<"find", "negotiate", "create", "arm", "listen">>
        BY <3>1 DEF Go
      <4>2. NextStep = "unlisten" /\ NextStep' = "find"
        BY <3>1, <4>1 DEF NextStep
      <4> QED BY <1>2, <2>2, <4>1, <4>2 DEF Phase, After, OpenTails, FromNegotiate, OutputOpen
    <3>2. CASE todo = <<"find", "negotiate", "create", "arm", "listen">>
      <4>1. todo' = <<"negotiate", "create", "arm", "listen">>
        BY <3>2 DEF Go
      <4>2. NextStep = "find" /\ NextStep' = "negotiate"
        BY <3>2, <4>1 DEF NextStep
      <4> QED BY <1>2, <2>2, <4>1, <4>2 DEF Phase, After, OpenTails, FromNegotiate, OutputOpen
    <3>3. CASE todo = <<"negotiate", "create", "arm", "listen">>
      <4>1. todo' = <<"create", "arm", "listen">>
        BY <3>3 DEF Go
      <4>2. NextStep = "negotiate" /\ NextStep' = "create"
        BY <3>3, <4>1 DEF NextStep
      <4> QED BY <1>2, <2>2, <4>1, <4>2 DEF Phase, After, OpenTails, FromNegotiate, OutputOpen
    <3>4. CASE todo = <<"create", "arm", "listen">>
      <4>1. todo' = <<"arm", "listen">>
        BY <3>4 DEF Go
      <4>2. NextStep = "create" /\ NextStep' = "arm"
        BY <3>4, <4>1 DEF NextStep
      <4> QED BY <1>2, <2>2, <4>1, <4>2 DEF Phase, After, OpenTails, FromNegotiate, OutputOpen
    <3>5. CASE todo = <<"arm", "listen">>
      <4>1. todo' = <<"listen">>
        BY <3>5 DEF Go
      <4>2. NextStep = "arm" /\ NextStep' = "listen"
        BY <3>5, <4>1 DEF NextStep
      <4> QED BY <1>2, <2>2, <4>1, <4>2 DEF Phase, After, OpenTails, FromNegotiate, OutputOpen
    <3>6. CASE todo = <<"listen">>
      <4>1. todo' = <<>>
        BY <3>6 DEF Go
      <4>2. NextStep = "listen" /\ NextStep' = "none"
        BY <3>6, <4>1 DEF NextStep
      <4> QED BY <1>2, <2>2, <4>1, <4>2 DEF Phase, After, OpenTails, FromNegotiate, OutputOpen
    <3> QED BY <1>2, <2>2, <3>1, <3>2, <3>3, <3>4, <3>5, <3>6 DEF Phase, OpenTails, FromNegotiate, OutputOpen
  <2> QED BY <2>1, <2>2
<1> QED BY <1>1, <1>2

LEMMA FailPhase ==
  ASSUME Phase, Fail, kind' = kind, ~b.dying, ~b'.dying
  PROVE  Phase' /\ NextStep' = "none"
  BY DEF Phase, Fail, NextStep

-----------------------------------------------------------------------------
(* The invariant.                                                          *)

Shape ==
  /\ DOMAIN b = {"dev", "agg", "proc", "callback", "running", "listening", "disconnected",
                 "channels", "maxFrames", "dying"}
  /\ DOMAIN hal = {"alive", "procs", "playing", "listeners", "format"}
  /\ DOMAIN hist = {"open", "held", "live", "stale", "overlap", "torn", "handled", "format"}
  /\ ~b.dying /\ todo # <<>> => opens \in 1..MaxOpens

\* Between its unlisten step and the end of open(), and after that of the
\* destructor, the object does not listen.
Deaf == NextStep \notin {"none", "stop", "unlisten"} \/ (NextStep = "none" /\ b.dying)
Listening ==
  /\ hal.listeners = IF b.listening THEN {b.dev} ELSE {}
  /\ Deaf => ~b.listening

\* Before the steps that make them the object has neither IOProc nor aggregate.
Unpaired == ~b.dying /\ NextStep \in {"unlisten", "find", "pair"}
Uncreated == ~b.dying /\ NextStep \in {"unlisten", "find", "pair", "negotiate", "create"}
Holding ==
  ~hist.held =>
    /\ Uncreated => b.proc = None
    /\ Unpaired \/ kind # "duplex" => b.agg = None
    /\ hal.procs \subseteq IF b.proc = None THEN {} ELSE {Current}
    /\ hal.alive \subseteq Devices \cup {b.agg}
    /\ NextStep = "dissolve" \/ (NextStep = "none" /\ b.dying) => hal.procs = {}
    /\ NextStep = "none" /\ b.dying => hal.alive \subseteq Devices

\* What runs is the current IOProc; nothing runs while open() does.
Quiescent == NextStep = "none" \/ NextStep = "stop"
Playing ==
  ~hist.live =>
    /\ hal.playing \subseteq IF b.running THEN {Current} ELSE {}
    /\ b.running => Quiescent /\ None \notin {b.dev, b.proc}
    /\ block # NoBlock => block.proc \in hal.playing
Sounding ==
  /\ hist.stale => hist.live
  /\ b.running /\ ~hist.stale =>
       Quiescent /\ None \notin {b.dev, b.proc} /\ (Current \in hal.playing \/ b.dev \notin hal.alive)

\* From the moment the flag is cleared what is said of the device is true.
Armed == NextStep = "listen" \/ (hist.open /\ (NextStep = "none" \/ b.dying))
Reported ==
  /\ Armed /\ ~hist.overlap /\ (b.disconnected \/ (listener = "notify" /\ ~Destroyed)) => b.dev \notin hal.alive
  /\ hist.handled = IF b.disconnected THEN 1 ELSE 0

IInv == TypeOK /\ Shape /\ Phase /\ Listening /\ Holding /\ Playing /\ Sounding /\ Reported

-----------------------------------------------------------------------------
(* The steps of open() and of the destructor.                              *)

LEMMA AtStep ==
  ASSUME IInv, NEW step, step # "none", todo # <<>>, Head(todo) = step
  PROVE  NextStep = step /\ step \in Steps(kind, b.dying)
  BY NextStepRange DEF IInv, NextStep

LEMMA UnlistenStep ==
  ASSUME IInv, todo # <<>>, Head(todo) = "unlisten", Unlisten,
         UNCHANGED <<kind, opens, listener, block>>
  PROVE  IInv'
<1>1. NextStep = "unlisten" /\ TRUE
  BY AtStep DEF Steps
<1>2. Shape'
  BY DEF IInv, Shape, Unlisten, removeAliveListener, Go, Fail
<1>3. Phase' /\ NextStep' = IF b.dying THEN "free" ELSE IF kind = "duplex" THEN "pair" ELSE "find"
  BY <1>1, <1>2, GoPhase DEF IInv, Shape, After, Unlisten, removeAliveListener, Go, Fail
<1>4. TypeOK'
  BY DEF IInv, Shape, TypeOK, Members, Unlisten, removeAliveListener, Go, Fail
<1>5. Listening'
  BY <1>1, <1>3 DEF IInv, Shape, Listening, Deaf, Unlisten, removeAliveListener, Go, Fail
<1>6. Holding'
  BY <1>1, <1>3 DEF IInv, Shape,  Holding, Unpaired, Uncreated, Current, Unlisten, removeAliveListener, Go, Fail
<1>7. Playing'
  BY <1>1, <1>3 DEF IInv, Shape, Playing, Quiescent, Current, Unlisten, removeAliveListener, Go, Fail
<1>8. Sounding'
  BY <1>1, <1>3 DEF IInv, Shape, Sounding, Quiescent, Current, Unlisten, removeAliveListener, Go, Fail
<1>9. Reported'
  BY <1>1, <1>3 DEF IInv, Shape, Reported, Armed, Destroyed, Unlisten, removeAliveListener, Go, Fail
<1> QED BY <1>2, <1>3, <1>4, <1>5, <1>6, <1>7, <1>8, <1>9 DEF IInv

LEMMA FindStep ==
  ASSUME IInv, todo # <<>>, Head(todo) = "find", Find,
         UNCHANGED <<kind, opens, listener, block>>
  PROVE  IInv'
<1>1. NextStep = "find" /\ ~b.dying /\ kind # "duplex"
  BY AtStep DEF Steps
<1>2. Shape'
  BY DEF IInv, Shape, Find, findByUID, allDeviceIds, Go, Fail
<1>3. Phase' /\ (NextStep' = "negotiate" \/ (NextStep' = "none" /\ ~hist'.open))
  <2>1. ~b'.dying /\ (Go \/ Fail)
    BY <1>1 DEF IInv, Shape, Find, findByUID, allDeviceIds
  <2>2. CASE Go
    BY <1>1, <2>1, <2>2, GoPhase DEF IInv, After
  <2>3. CASE Fail
    BY <1>1, <2>1, <2>3, FailPhase DEF IInv, Fail
  <2> QED BY <2>1, <2>2, <2>3
<1>4. TypeOK'
  BY DEF IInv, Shape, TypeOK, Members, Find, findByUID, allDeviceIds, Go, Fail
<1>5. Listening'
  BY <1>1, <1>3 DEF IInv, Shape, Listening, Deaf, Find, findByUID, allDeviceIds, Go, Fail
<1>6. Holding'
  BY <1>1, <1>3 DEF IInv, Shape,  Holding, Unpaired, Uncreated, Current, Find, findByUID, allDeviceIds, Go, Fail
<1>7. Playing'
  BY <1>1, <1>3 DEF IInv, Shape, Playing, Quiescent, Current, Find, findByUID, allDeviceIds, Go, Fail
<1>8. Sounding'
  BY <1>1, <1>3 DEF IInv, Shape, Sounding, Quiescent, Current, Find, findByUID, allDeviceIds, Go, Fail
<1>9. Reported'
  BY <1>1, <1>3 DEF IInv, Shape, Reported, Armed, Destroyed, Find, findByUID, allDeviceIds, Go, Fail
<1> QED BY <1>2, <1>3, <1>4, <1>5, <1>6, <1>7, <1>8, <1>9 DEF IInv

LEMMA PairStep ==
  ASSUME IInv, todo # <<>>, Head(todo) = "pair", Pair,
         UNCHANGED <<kind, opens, listener, block>>
  PROVE  IInv'
<1>1. NextStep = "pair" /\ ~b.dying /\ kind = "duplex"
  BY AtStep DEF Steps
<1>2. Shape'
  BY DEF IInv, Shape, Pair, findByUID, allDeviceIds, createPrivateAggregate, Go, Fail
<1>3. Phase' /\ (NextStep' = "negotiate" \/ (NextStep' = "none" /\ ~hist'.open))
  <2>1. ~b'.dying /\ (Go \/ Fail)
    BY <1>1 DEF IInv, Shape, Pair, findByUID, allDeviceIds, createPrivateAggregate
  <2>2. CASE Go
    BY <1>1, <2>1, <2>2, GoPhase DEF IInv, After
  <2>3. CASE Fail
    BY <1>1, <2>1, <2>3, FailPhase DEF IInv, Fail
  <2> QED BY <2>1, <2>2, <2>3
<1>a. opens \in 1..MaxOpens /\ Aggregate(opens) \in Ids
  BY <1>1 DEF IInv, Shape, Ids
<1>b. b' \in Members
  <2>1. CASE b' = [b EXCEPT !.callback = FALSE] \/ b' = [b EXCEPT !.callback = TRUE]
    BY <2>1 DEF IInv, TypeOK, Members
  <2>2. CASE \E d \in allDeviceIds : b' = [b EXCEPT !.callback = TRUE, !.dev = d]
    BY <2>2 DEF IInv, TypeOK, Members, Ids, allDeviceIds
  <2>3. CASE b' = [b EXCEPT !.callback = TRUE, !.agg = Aggregate(opens), !.dev = Aggregate(opens)]
    BY <1>a, <2>3 DEF IInv, TypeOK, Members
  <2>4. CASE b' = [b EXCEPT !.callback = TRUE, !.agg = None]
    BY <2>4 DEF IInv, TypeOK, Members
  <2> QED BY <2>1, <2>2, <2>3, <2>4 DEF Pair, findByUID, createPrivateAggregate
<1>4. TypeOK'
  <2>1. hal' = hal \/ hal' = [hal EXCEPT !.alive = @ \cup {Aggregate(opens)}]
    BY DEF Pair, createPrivateAggregate
  <2> QED BY <1>a, <1>b, <2>1 DEF IInv, Shape, TypeOK
<1>5. Listening'
  BY <1>1, <1>3 DEF IInv, Shape, Listening, Deaf, Pair, findByUID, allDeviceIds, createPrivateAggregate, Go, Fail
<1>6. Holding'
  <2> SUFFICES ASSUME ~hist.held PROVE Holding'
    BY DEF Holding, Pair, createPrivateAggregate, Go, Fail, IInv, Shape
  <2>1. b.proc = None /\ b.agg = None /\ hal.procs = {} /\ None \notin hal.alive
    BY <1>1, NamesAssumption DEF IInv, Holding, Unpaired, Uncreated, TypeOK, Ids
  <2>2. hal.alive \subseteq Devices
    BY <2>1 DEF IInv, Holding
  <2>3. b'.proc = None /\ ~b'.dying /\ hal'.procs = {}
    BY <1>1, <2>1 DEF IInv, Shape, Pair, createPrivateAggregate
  <2>4. hal' = hal \/ (/\ hal' = [hal EXCEPT !.alive = @ \cup {Aggregate(opens)}]
                      /\ b' = [b EXCEPT !.callback = TRUE, !.agg = Aggregate(opens),
                                         !.dev = Aggregate(opens)])
    BY DEF Pair, createPrivateAggregate
  <2>5. hal'.alive \subseteq Devices \cup {b'.agg}
    <3>1. CASE hal' = hal
      BY <2>2, <3>1
    <3>2. CASE hal' # hal
      <4>1. hal'.alive = hal.alive \cup {Aggregate(opens)} /\ b'.agg = Aggregate(opens)
        BY <2>4, <3>2 DEF IInv, Shape
      <4> QED BY <2>2, <4>1
    <3> QED BY <3>1, <3>2
  <2> QED BY <1>1, <1>3, <2>3, <2>5 DEF Holding, Unpaired, Uncreated
<1>7. Playing'
  BY <1>1, <1>3 DEF IInv, Shape, Playing, Quiescent, Current, Pair, findByUID, allDeviceIds, createPrivateAggregate, Go, Fail
<1>8. Sounding'
  BY <1>1, <1>3 DEF IInv, Shape, Sounding, Quiescent, Current, Pair, findByUID, allDeviceIds, createPrivateAggregate, Go, Fail
<1>9. Reported'
  BY <1>1, <1>3 DEF IInv, Shape, Reported, Armed, Destroyed, Pair, findByUID, allDeviceIds, createPrivateAggregate, Go, Fail
<1> QED BY <1>2, <1>3, <1>4, <1>5, <1>6, <1>7, <1>8, <1>9 DEF IInv

LEMMA NegotiateStep ==
  ASSUME IInv, todo # <<>>, Head(todo) = "negotiate", Negotiate,
         UNCHANGED <<kind, opens, listener, block>>
  PROVE  IInv'
<1>1. NextStep = "negotiate" /\ ~b.dying
  BY AtStep DEF Steps
<1>2. Shape'
  BY DEF IInv, Shape, Negotiate, channelsInScope, bufferFrameSize, Go, Fail
<1>3. Phase' /\ (NextStep' = "create" \/ (NextStep' = "none" /\ ~hist'.open))
  <2>1. ~b'.dying /\ (Go \/ Fail)
    BY <1>1 DEF IInv, Shape, Negotiate, channelsInScope, bufferFrameSize
  <2>2. CASE Go
    BY <1>1, <2>1, <2>2, GoPhase DEF IInv, After
  <2>3. CASE Fail
    BY <1>1, <2>1, <2>3, FailPhase DEF IInv, Fail
  <2> QED BY <2>1, <2>2, <2>3
<1>b. b' \in Members
  <2>1. channelsInScope \in Nat
    <3>1. hal.format.layout \in Seq(Nat \ {0})
      BY BackendAssumption DEF IInv, TypeOK, Format
    <3> QED BY <3>1, SumOfPositives DEF channelsInScope, Sum
  <2>2. bufferFrameSize \in Nat
    BY BackendAssumption DEF IInv, TypeOK, Format, bufferFrameSize
  <2> QED BY <2>1, <2>2 DEF IInv, TypeOK, Members, Negotiate
<1>4. TypeOK'
  BY <1>b DEF IInv, TypeOK, Negotiate
<1>5. Listening'
  BY <1>1, <1>3 DEF IInv, Shape, Listening, Deaf, Negotiate, channelsInScope, bufferFrameSize, Go, Fail
<1>6. Holding'
  BY <1>1, <1>3 DEF IInv, Shape,  Holding, Unpaired, Uncreated, Current, Negotiate, channelsInScope, bufferFrameSize, Go, Fail
<1>7. Playing'
  BY <1>1, <1>3 DEF IInv, Shape, Playing, Quiescent, Current, Negotiate, channelsInScope, bufferFrameSize, Go, Fail
<1>8. Sounding'
  BY <1>1, <1>3 DEF IInv, Shape, Sounding, Quiescent, Current, Negotiate, channelsInScope, bufferFrameSize, Go, Fail
<1>9. Reported'
  BY <1>1, <1>3 DEF IInv, Shape, Reported, Armed, Destroyed, Negotiate, channelsInScope, bufferFrameSize, Go, Fail
<1> QED BY <1>2, <1>3, <1>4, <1>5, <1>6, <1>7, <1>8, <1>9 DEF IInv

LEMMA CreateStep ==
  ASSUME IInv, todo # <<>>, Head(todo) = "create", Create,
         UNCHANGED <<kind, opens, listener, block>>
  PROVE  IInv'
<1>1. NextStep = "create" /\ ~b.dying
  BY AtStep DEF Steps
<1>2. Shape'
  BY DEF IInv, Shape, Create, Go, Fail
<1>3. Phase' /\ (NextStep' = "arm" \/ (NextStep' = "none" /\ ~hist'.open))
  <2>1. ~b'.dying /\ (Go \/ Fail)
    BY <1>1 DEF IInv, Shape, Create
  <2>2. CASE Go
    BY <1>1, <2>1, <2>2, GoPhase DEF IInv, After
  <2>3. CASE Fail
    BY <1>1, <2>1, <2>3, FailPhase DEF IInv, Fail
  <2> QED BY <2>1, <2>2, <2>3
<1>a. opens \in 1..MaxOpens
  BY <1>1 DEF IInv, Shape
<1>b. b' \in Members
  BY <1>a DEF IInv, TypeOK, Members, Create, Fail
<1>4. TypeOK'
  <2>1. hal' = hal \/ (b.dev \in hal.alive /\ hal' = [hal EXCEPT !.procs = @ \cup {<<b.dev, opens>>}])
    BY DEF Create, Fail
  <2> QED BY <1>a, <1>b, <2>1 DEF IInv, Shape, TypeOK
<1>5. Listening'
  BY <1>1, <1>3 DEF IInv, Shape, Listening, Deaf, Create, Go, Fail
<1>6. Holding'
  BY <1>1, <1>3, NamesAssumption DEF IInv, Shape, TypeOK, Ids, Holding, Unpaired, Uncreated, Current, Create, Go, Fail
<1>7. Playing'
  BY <1>1, <1>3 DEF IInv, Shape, Playing, Quiescent, Current, Create, Go, Fail
<1>8. Sounding'
  BY <1>1, <1>3 DEF IInv, Shape, Sounding, Quiescent, Current, Create, Go, Fail
<1>9. Reported'
  BY <1>1, <1>3 DEF IInv, Shape, Reported, Armed, Destroyed, Create, Go, Fail
<1> QED BY <1>2, <1>3, <1>4, <1>5, <1>6, <1>7, <1>8, <1>9 DEF IInv

LEMMA ArmStep ==
  ASSUME IInv, todo # <<>>, Head(todo) = "arm", Arm,
         UNCHANGED <<kind, opens, listener, block>>
  PROVE  IInv'
<1>1. NextStep = "arm" /\ ~b.dying
  BY AtStep DEF Steps
<1>2. Shape'
  BY DEF IInv, Shape, Arm, Go, Fail
<1>3. Phase' /\ NextStep' = "listen"
  BY <1>1, <1>2, GoPhase DEF IInv, Shape, After, Arm, Go, Fail
<1>4. TypeOK'
  BY DEF IInv, Shape, TypeOK, Members, Arm, Go, Fail
<1>5. Listening'
  BY <1>1, <1>3 DEF IInv, Shape, Listening, Deaf, Arm, Go, Fail
<1>6. Holding'
  BY <1>1, <1>3 DEF IInv, Shape,  Holding, Unpaired, Uncreated, Current, Arm, Go, Fail
<1>7. Playing'
  BY <1>1, <1>3 DEF IInv, Shape, Playing, Quiescent, Current, Arm, Go, Fail
<1>8. Sounding'
  BY <1>1, <1>3 DEF IInv, Shape, Sounding, Quiescent, Current, Arm, Go, Fail
<1>9. Reported'
  BY <1>1, <1>3 DEF IInv, Shape, Reported, Armed, Destroyed, Arm, Go, Fail
<1> QED BY <1>2, <1>3, <1>4, <1>5, <1>6, <1>7, <1>8, <1>9 DEF IInv

LEMMA ListenStep ==
  ASSUME IInv, todo # <<>>, Head(todo) = "listen", Listen,
         UNCHANGED <<kind, opens, listener, block>>
  PROVE  IInv'
<1>1. NextStep = "listen" /\ ~b.dying
  BY AtStep DEF Steps
<1>2. Shape'
  BY DEF IInv, Shape, Listen, addAliveListener, Go, Fail
<1>3. Phase' /\ NextStep' = "none"
  BY <1>1, <1>2, GoPhase DEF IInv, Shape, After, Listen, addAliveListener, Go, Fail
<1>4. TypeOK'
  BY DEF IInv, Shape, TypeOK, Members, Listen, addAliveListener, Go, Fail
<1>5. Listening'
  BY <1>1, <1>3 DEF IInv, Shape, Listening, Deaf, Listen, addAliveListener, Go, Fail
<1>6. Holding'
  BY <1>1, <1>3 DEF IInv, Shape,  Holding, Unpaired, Uncreated, Current, Listen, addAliveListener, Go, Fail
<1>7. Playing'
  BY <1>1, <1>3 DEF IInv, Shape, Playing, Quiescent, Current, Listen, addAliveListener, Go, Fail
<1>8. Sounding'
  BY <1>1, <1>3 DEF IInv, Shape, Sounding, Quiescent, Current, Listen, addAliveListener, Go, Fail
<1>9. Reported'
  BY <1>1, <1>3 DEF IInv, Shape, Reported, Armed, Destroyed, Listen, addAliveListener, Go, Fail
<1> QED BY <1>2, <1>3, <1>4, <1>5, <1>6, <1>7, <1>8, <1>9 DEF IInv

LEMMA StopStep ==
  ASSUME IInv, todo # <<>>, Head(todo) = "stop", (StopCurrent /\ Go),
         UNCHANGED <<kind, opens, listener, block>>
  PROVE  IInv'
<1>1. NextStep = "stop" /\ b.dying
  BY AtStep DEF Steps
<1>2. Shape'
  BY DEF IInv, Shape, StopCurrent, Current, Go, Fail
<1>3. Phase' /\ NextStep' = "unlisten"
  BY <1>1, <1>2, GoPhase DEF IInv, Shape, After, StopCurrent, Current, Go, Fail
<1>b. b' \in Members
  BY DEF IInv, TypeOK, Members, StopCurrent
<1>4. TypeOK'
  <2>1. hal' = hal \/ hal' = [hal EXCEPT !.playing = @ \ {Current}]
    BY DEF StopCurrent
  <2> QED BY <1>b, <2>1 DEF IInv, Shape, TypeOK
<1>5. Listening'
  BY <1>1, <1>3 DEF IInv, Shape, Listening, Deaf, StopCurrent, Current, Go, Fail
<1>6. Holding'
  BY <1>1, <1>3 DEF IInv, Shape,  Holding, Unpaired, Uncreated, Current, StopCurrent, Current, Go, Fail
<1>7. Playing'
  BY <1>1, <1>3 DEF IInv, Shape, Playing, Quiescent, Current, StopCurrent, Current, Go, Fail
<1>8. Sounding'
  BY <1>1, <1>3 DEF IInv, Shape, Sounding, Quiescent, Current, StopCurrent, Current, Go, Fail
<1>9. Reported'
  BY <1>1, <1>3 DEF IInv, Shape, Reported, Armed, Destroyed, StopCurrent, Current, Go, Fail
<1> QED BY <1>2, <1>3, <1>4, <1>5, <1>6, <1>7, <1>8, <1>9 DEF IInv

LEMMA FreeStep ==
  ASSUME IInv, todo # <<>>, Head(todo) = "free", Free,
         UNCHANGED <<kind, opens, listener, block>>
  PROVE  IInv'
<1>1. NextStep = "free" /\ b.dying
  BY AtStep DEF Steps
<1>2. Shape'
  BY DEF IInv, Shape, Free, Go, Fail
<1>3. Phase' /\ NextStep' = IF kind = "duplex" THEN "dissolve" ELSE "none"
  BY <1>1, <1>2, GoPhase DEF IInv, Shape, After, Free, Go, Fail
<1>4. TypeOK'
  BY DEF IInv, Shape, TypeOK, Members, Free, Go, Fail
<1>5. Listening'
  BY <1>1, <1>3 DEF IInv, Shape, Listening, Deaf, Free, Go, Fail
<1>6. Holding'
  BY <1>1, <1>3, NamesAssumption DEF IInv, Shape, TypeOK, Ids, Holding, Unpaired, Uncreated, Current, Free, Go, Fail
<1>7. Playing'
  BY <1>1, <1>3 DEF IInv, Shape, Playing, Quiescent, Current, Free, Go, Fail
<1>8. Sounding'
  BY <1>1, <1>3 DEF IInv, Shape, Sounding, Quiescent, Current, Free, Go, Fail
<1>9. Reported'
  BY <1>1, <1>3 DEF IInv, Shape, Reported, Armed, Destroyed, Free, Go, Fail
<1> QED BY <1>2, <1>3, <1>4, <1>5, <1>6, <1>7, <1>8, <1>9 DEF IInv

LEMMA DissolveStep ==
  ASSUME IInv, todo # <<>>, Head(todo) = "dissolve", Dissolve,
         UNCHANGED <<kind, opens, listener, block>>
  PROVE  IInv'
<1>1. NextStep = "dissolve" /\ b.dying /\ kind = "duplex"
  BY AtStep DEF Steps
<1>2. Shape'
  BY DEF IInv, Shape, Dissolve, Without, Go, Fail
<1>3. Phase' /\ NextStep' = "none"
  BY <1>1, <1>2, GoPhase DEF IInv, Shape, After, Dissolve, Without, Go, Fail
<1>4. TypeOK'
  BY DEF IInv, Shape, TypeOK, Members, Dissolve, Without, Go, Fail
<1>5. Listening'
  BY <1>1, <1>3 DEF IInv, Shape, Listening, Deaf, Dissolve, Without, Go, Fail
<1>6. Holding'
  BY <1>1, <1>3, NamesAssumption DEF IInv, Shape, TypeOK, Ids, Holding, Unpaired, Uncreated, Current, Dissolve, Without, Go, Fail
<1>7. Playing'
  BY <1>1, <1>3 DEF IInv, Shape, Playing, Quiescent, Current, Dissolve, Without, Go, Fail
<1>8. Sounding'
  BY <1>1, <1>3 DEF IInv, Shape, Sounding, Quiescent, Current, Dissolve, Without, Go, Fail
<1>9. Reported'
  BY <1>1, <1>3 DEF IInv, Shape, Reported, Armed, Destroyed, Dissolve, Without, Go, Fail
<1> QED BY <1>2, <1>3, <1>4, <1>5, <1>6, <1>7, <1>8, <1>9 DEF IInv

LEMMA StepKeeps == IInv /\ Step => IInv'
<1> SUFFICES ASSUME IInv, Step PROVE IInv'
  OBVIOUS
<1>1. todo # <<>> /\ UNCHANGED <<kind, opens, listener, block>>
  BY DEF Step
<1>2. Head(todo) \in {"stop", "unlisten", "free", "dissolve", "find", "pair", "negotiate",
                      "create", "arm", "listen"}
  BY <1>1, NextStepRange DEF IInv, NextStep, Steps
<1>3. CASE Head(todo) = "unlisten"
  BY <1>1, <1>3, UnlistenStep DEF Step
<1>4. CASE Head(todo) = "find"
  BY <1>1, <1>4, FindStep DEF Step
<1>5. CASE Head(todo) = "pair"
  BY <1>1, <1>5, PairStep DEF Step
<1>6. CASE Head(todo) = "negotiate"
  BY <1>1, <1>6, NegotiateStep DEF Step
<1>7. CASE Head(todo) = "create"
  BY <1>1, <1>7, CreateStep DEF Step
<1>8. CASE Head(todo) = "arm"
  BY <1>1, <1>8, ArmStep DEF Step
<1>9. CASE Head(todo) = "listen"
  BY <1>1, <1>9, ListenStep DEF Step
<1>10. CASE Head(todo) = "stop"
  BY <1>1, <1>10, StopStep DEF Step
<1>11. CASE Head(todo) = "free"
  BY <1>1, <1>11, FreeStep DEF Step
<1>12. CASE Head(todo) = "dissolve"
  BY <1>1, <1>12, DissolveStep DEF Step
<1> QED BY <1>2, <1>3, <1>4, <1>5, <1>6, <1>7, <1>8, <1>9, <1>10, <1>11, <1>12

-----------------------------------------------------------------------------
(* The calls of the control thread.                                        *)

LEMMA MaxOpensIsNat == MaxOpens \in Nat
  BY BackendAssumption

LEMMA OpenPhase ==
  ASSUME Phase, Idle, todo' = OpenSteps[kind], kind' = kind, ~b'.dying
  PROVE  Phase' /\ NextStep' = "unlisten"
<1>1. todo' = IF kind = "duplex" THEN DuplexOpen ELSE OutputOpen
  BY DEF Phase, OpenSteps, InputOpen, OutputOpen
<1> QED BY <1>1 DEF Phase, NextStep, OpenTails, DuplexOpen, OutputOpen

LEMMA ClosePhase ==
  ASSUME Phase, Idle, todo' = CloseSteps[kind], kind' = kind, b'.dying
  PROVE  Phase' /\ NextStep' = "stop"
<1>1. todo' = IF kind = "duplex" THEN DuplexClose ELSE OutputClose
  BY DEF Phase, CloseSteps, InputClose, OutputClose
<1> QED BY <1>1 DEF Phase, NextStep, CloseTails, DuplexClose, OutputClose

LEMMA OpenKeeps == IInv /\ Open => IInv'
<1> SUFFICES ASSUME IInv, Open PROVE IInv'
  OBVIOUS
<1>1. NextStep = "none" /\ ~b.dying
  BY DEF IInv, NextStep, Open, Idle
<1>2. Shape'
  BY MaxOpensIsNat DEF IInv, Shape, TypeOK, Open, Idle
<1>3. Phase' /\ NextStep' = "unlisten"
  BY <1>1, <1>2, OpenPhase DEF IInv, Open
<1>4. TypeOK'
  BY MaxOpensIsNat DEF IInv, TypeOK, Open
<1>5. Listening'
  BY <1>1, <1>3 DEF IInv, Shape, Listening, Deaf, Open, Idle
<1>6. Holding'
  BY <1>1, <1>3 DEF IInv, Shape, Holding, Unpaired, Uncreated, Current, Open, Idle
<1>7. Playing'
  BY <1>1, <1>3 DEF IInv, Shape, Playing, Quiescent, Current, Open, Idle
<1>8. Sounding'
  BY <1>1, <1>3 DEF IInv, Shape, Sounding, Quiescent, Current, Open, Idle
<1>9. Reported'
  BY <1>1, <1>3 DEF IInv, Shape, Reported, Armed, Destroyed, Open, Idle
<1> QED BY <1>2, <1>3, <1>4, <1>5, <1>6, <1>7, <1>8, <1>9 DEF IInv

LEMMA StartKeeps == IInv /\ Start => IInv'
<1> SUFFICES ASSUME IInv, Start PROVE IInv'
  OBVIOUS
<1>1. NextStep = "none" /\ ~b.dying
  BY DEF IInv, NextStep, Start, Idle
<1>2. Shape'
  BY DEF IInv, Shape, Start, StartCurrent
<1>3. Phase' /\ NextStep' = NextStep
  BY <1>2 DEF IInv, Shape, Phase, NextStep, Start, StartCurrent
<1>4. TypeOK'
  <2>1. b' \in Members
    BY DEF IInv, TypeOK, Members, Start, StartCurrent
  <2>2. hal' = hal \/ (Current \in hal.procs /\ hal' = [hal EXCEPT !.playing = @ \cup {Current}])
    BY DEF Start, StartCurrent
  <2> QED BY <2>1, <2>2 DEF IInv, Shape, TypeOK, Start
<1>5. Listening'
  BY <1>1, <1>3 DEF IInv, Shape, Listening, Deaf, Start, StartCurrent
<1>6. Holding'
  BY <1>1, <1>3 DEF IInv, Shape, Holding, Unpaired, Uncreated, Current, Start, StartCurrent
<1>7. Playing'
  BY <1>1, <1>3 DEF IInv, Shape, Playing, Quiescent, Current, Start, StartCurrent
<1>8. Sounding'
  BY <1>1, <1>3 DEF IInv, Shape, Sounding, Quiescent, Current, Start, StartCurrent
<1>9. Reported'
  BY <1>1, <1>3 DEF IInv, Shape, Reported, Armed, Destroyed, Start, StartCurrent
<1> QED BY <1>2, <1>3, <1>4, <1>5, <1>6, <1>7, <1>8, <1>9 DEF IInv

LEMMA StopKeeps == IInv /\ Stop => IInv'
<1> SUFFICES ASSUME IInv, Stop PROVE IInv'
  OBVIOUS
<1>1. NextStep = "none" /\ ~b.dying
  BY DEF IInv, NextStep, Stop, Idle
<1>2. Shape'
  BY DEF IInv, Shape, Stop, StopCurrent
<1>3. Phase' /\ NextStep' = NextStep
  BY <1>2 DEF IInv, Shape, Phase, NextStep, Stop, StopCurrent
<1>4. TypeOK'
  <2>1. b' \in Members
    BY DEF IInv, TypeOK, Members, Stop, StopCurrent
  <2>2. hal' = hal \/ hal' = [hal EXCEPT !.playing = @ \ {Current}]
    BY DEF Stop, StopCurrent
  <2> QED BY <2>1, <2>2 DEF IInv, Shape, TypeOK, Stop
<1>5. Listening'
  BY <1>1, <1>3 DEF IInv, Shape, Listening, Deaf, Stop, StopCurrent
<1>6. Holding'
  BY <1>1, <1>3 DEF IInv, Shape, Holding, Unpaired, Uncreated, Current, Stop, StopCurrent
<1>7. Playing'
  BY <1>1, <1>3 DEF IInv, Shape, Playing, Quiescent, Current, Stop, StopCurrent
<1>8. Sounding'
  BY <1>1, <1>3 DEF IInv, Shape, Sounding, Quiescent, Current, Stop, StopCurrent
<1>9. Reported'
  BY <1>1, <1>3 DEF IInv, Shape, Reported, Armed, Destroyed, Stop, StopCurrent
<1> QED BY <1>2, <1>3, <1>4, <1>5, <1>6, <1>7, <1>8, <1>9 DEF IInv

LEMMA DestroyKeeps == IInv /\ Destroy => IInv'
<1> SUFFICES ASSUME IInv, Destroy PROVE IInv'
  OBVIOUS
<1>1. NextStep = "none" /\ ~b.dying
  BY DEF IInv, NextStep, Destroy, Idle
<1>2. Shape'
  BY DEF IInv, Shape, Destroy, Idle
<1>3. Phase' /\ NextStep' = "stop"
  BY <1>1, <1>2, ClosePhase DEF IInv, Shape, Destroy
<1>4. TypeOK'
  BY DEF IInv, Shape, TypeOK, Members, Destroy, Idle
<1>5. Listening'
  BY <1>1, <1>3 DEF IInv, Shape, Listening, Deaf, Destroy, Idle
<1>6. Holding'
  BY <1>1, <1>3 DEF IInv, Shape, Holding, Unpaired, Uncreated, Current, Destroy, Idle
<1>7. Playing'
  BY <1>1, <1>3 DEF IInv, Shape, Playing, Quiescent, Current, Destroy, Idle
<1>8. Sounding'
  BY <1>1, <1>3 DEF IInv, Shape, Sounding, Quiescent, Current, Destroy, Idle
<1>9. Reported'
  BY <1>1, <1>3 DEF IInv, Shape, Reported, Armed, Destroyed, Destroy, Idle
<1> QED BY <1>2, <1>3, <1>4, <1>5, <1>6, <1>7, <1>8, <1>9 DEF IInv

-----------------------------------------------------------------------------
(* The IO thread, the notification thread and the system.                  *)

LEMMA BlockBeginKeeps == IInv /\ BlockBegin => IInv'
<1> SUFFICES ASSUME IInv, BlockBegin PROVE IInv'
  OBVIOUS
<1>2. Shape'
  BY DEF IInv, Shape, BlockBegin
<1>3. Phase' /\ NextStep' = NextStep
  BY <1>2 DEF IInv, Shape, Phase, NextStep, BlockBegin
<1>4. TypeOK'
  BY DEF IInv, Shape, TypeOK, Members, BlockBegin
<1>5. Listening'
  BY <1>3 DEF IInv, Shape, Listening, Deaf, BlockBegin
<1>6. Holding'
  BY <1>3 DEF IInv, Shape, Holding, Unpaired, Uncreated, Current, BlockBegin
<1>7. Playing'
  BY <1>3 DEF IInv, Shape, Playing, Quiescent, Current, BlockBegin
<1>8. Sounding'
  BY <1>3 DEF IInv, Shape, Sounding, Quiescent, Current, BlockBegin
<1>9. Reported'
  BY <1>3 DEF IInv, Shape, Reported, Armed, Destroyed, BlockBegin
<1> QED BY <1>2, <1>3, <1>4, <1>5, <1>6, <1>7, <1>8, <1>9 DEF IInv

LEMMA BlockEndKeeps == IInv /\ BlockEnd => IInv'
<1> SUFFICES ASSUME IInv, BlockEnd PROVE IInv'
  OBVIOUS
<1>2. Shape'
  BY DEF IInv, Shape, BlockEnd
<1>3. Phase' /\ NextStep' = NextStep
  BY <1>2 DEF IInv, Shape, Phase, NextStep, BlockEnd
<1>4. TypeOK'
  BY DEF IInv, Shape, TypeOK, Members, BlockEnd
<1>5. Listening'
  BY <1>3 DEF IInv, Shape, Listening, Deaf, BlockEnd
<1>6. Holding'
  BY <1>3 DEF IInv, Shape, Holding, Unpaired, Uncreated, Current, BlockEnd
<1>7. Playing'
  BY <1>3 DEF IInv, Shape, Playing, Quiescent, Current, BlockEnd
<1>8. Sounding'
  BY <1>3 DEF IInv, Shape, Sounding, Quiescent, Current, BlockEnd
<1>9. Reported'
  BY <1>3 DEF IInv, Shape, Reported, Armed, Destroyed, BlockEnd
<1> QED BY <1>2, <1>3, <1>4, <1>5, <1>6, <1>7, <1>8, <1>9 DEF IInv

LEMMA CheckAliveKeeps == IInv /\ CheckAlive => IInv'
<1> SUFFICES ASSUME IInv, CheckAlive PROVE IInv'
  OBVIOUS
<1>2. Shape'
  BY DEF IInv, Shape, CheckAlive, deviceIsAlive
<1>3. Phase' /\ NextStep' = NextStep
  BY <1>2 DEF IInv, Shape, Phase, NextStep, CheckAlive
<1>4. TypeOK'
  BY DEF IInv, Shape, TypeOK, Members, CheckAlive, deviceIsAlive
<1>5. Listening'
  BY <1>3 DEF IInv, Shape, Listening, Deaf, CheckAlive, deviceIsAlive
<1>6. Holding'
  BY <1>3 DEF IInv, Shape, Holding, Unpaired, Uncreated, Current, CheckAlive, deviceIsAlive
<1>7. Playing'
  BY <1>3 DEF IInv, Shape, Playing, Quiescent, Current, CheckAlive, deviceIsAlive
<1>8. Sounding'
  BY <1>3 DEF IInv, Shape, Sounding, Quiescent, Current, CheckAlive, deviceIsAlive
<1>9. Reported'
  BY <1>3 DEF IInv, Shape, Reported, Armed, Destroyed, CheckAlive, deviceIsAlive
<1> QED BY <1>2, <1>3, <1>4, <1>5, <1>6, <1>7, <1>8, <1>9 DEF IInv

LEMMA NotifyKeeps == IInv /\ notifyDisconnect => IInv'
<1> SUFFICES ASSUME IInv, notifyDisconnect PROVE IInv'
  OBVIOUS
<1>2. Shape'
  BY DEF IInv, Shape, notifyDisconnect
<1>3. Phase' /\ NextStep' = NextStep
  BY <1>2 DEF IInv, Shape, Phase, NextStep, notifyDisconnect
<1>4. TypeOK'
  BY DEF IInv, Shape, TypeOK, Members, notifyDisconnect
<1>5. Listening'
  BY <1>3 DEF IInv, Shape, Listening, Deaf, notifyDisconnect
<1>6. Holding'
  BY <1>3 DEF IInv, Shape, Holding, Unpaired, Uncreated, Current, notifyDisconnect
<1>7. Playing'
  BY <1>3 DEF IInv, Shape, Playing, Quiescent, Current, notifyDisconnect
<1>8. Sounding'
  BY <1>3 DEF IInv, Shape, Sounding, Quiescent, Current, notifyDisconnect
<1>9. Reported'
  BY <1>3 DEF IInv, Shape, Reported, Armed, Destroyed, notifyDisconnect
<1> QED BY <1>2, <1>3, <1>4, <1>5, <1>6, <1>7, <1>8, <1>9 DEF IInv

LEMMA DieKeeps == IInv /\ Die => IInv'
<1> SUFFICES ASSUME IInv, Die PROVE IInv'
  OBVIOUS
<1>2. Shape'
  BY DEF IInv, Shape, Die, Without
<1>3. Phase' /\ NextStep' = NextStep
  BY <1>2 DEF IInv, Shape, Phase, NextStep, Die
<1>4. TypeOK'
  BY DEF IInv, Shape, TypeOK, Members, Die, Without
<1>5. Listening'
  BY <1>3 DEF IInv, Shape, Listening, Deaf, Die, Without
<1>6. Holding'
  BY <1>3 DEF IInv, Shape, Holding, Unpaired, Uncreated, Current, Die, Without
<1>7. Playing'
  BY <1>3 DEF IInv, Shape, Playing, Quiescent, Current, Die, Without
<1>8. Sounding'
  BY <1>3 DEF IInv, Shape, Sounding, Quiescent, Current, Die, Without
<1>9. Reported'
  BY <1>3 DEF IInv, Shape, Reported, Armed, Destroyed, Die, Without
<1> QED BY <1>2, <1>3, <1>4, <1>5, <1>6, <1>7, <1>8, <1>9 DEF IInv

LEMMA ReformatKeeps == IInv /\ Reformat => IInv'
<1> SUFFICES ASSUME IInv, Reformat PROVE IInv'
  OBVIOUS
<1>2. Shape'
  BY DEF IInv, Shape, Reformat, Format
<1>3. Phase' /\ NextStep' = NextStep
  BY <1>2 DEF IInv, Shape, Phase, NextStep, Reformat
<1>4. TypeOK'
  BY DEF IInv, Shape, TypeOK, Members, Reformat, Format
<1>5. Listening'
  BY <1>3 DEF IInv, Shape, Listening, Deaf, Reformat, Format
<1>6. Holding'
  BY <1>3 DEF IInv, Shape, Holding, Unpaired, Uncreated, Current, Reformat, Format
<1>7. Playing'
  BY <1>3 DEF IInv, Shape, Playing, Quiescent, Current, Reformat, Format
<1>8. Sounding'
  BY <1>3 DEF IInv, Shape, Sounding, Quiescent, Current, Reformat, Format
<1>9. Reported'
  BY <1>3 DEF IInv, Shape, Reported, Armed, Destroyed, Reformat, Format
<1> QED BY <1>2, <1>3, <1>4, <1>5, <1>6, <1>7, <1>8, <1>9 DEF IInv

-----------------------------------------------------------------------------
(* The theorems.                                                           *)

LEMMA InitIInv == Init => IInv
<1> SUFFICES ASSUME Init PROVE IInv
  OBVIOUS
<1>1. PICK f \in Format :
        /\ hal = [alive |-> Devices, procs |-> {}, playing |-> {}, listeners |-> {}, format |-> f]
        /\ hist = [open |-> FALSE, held |-> FALSE, live |-> FALSE, stale |-> FALSE,
                   overlap |-> FALSE, torn |-> FALSE, handled |-> 0, format |-> f]
  BY DEF Init
<1>2. TypeOK
  <2>1. b \in Members
    BY DEF Init, Members
  <2> QED BY <1>1, <2>1, MaxOpensIsNat DEF Init, TypeOK, Ids
<1>3. Shape
  BY <1>1 DEF Init, Shape
<1>4. Phase /\ NextStep = "none"
  BY BackendAssumption DEF Init, Phase, NextStep
<1>5. Listening /\ Holding
  BY <1>1, <1>4 DEF Init, Listening, Deaf, Holding, Unpaired, Uncreated
<1>6. Playing /\ Sounding /\ Reported
  BY <1>1, <1>4 DEF Init, Playing, Sounding, Reported, Armed
<1> QED BY <1>2, <1>3, <1>4, <1>5, <1>6 DEF IInv

LEMMA Inductive == IInv /\ [Next]_vars => IInv'
<1>1. IInv /\ UNCHANGED vars => IInv'
  BY DEF vars, IInv, TypeOK, Ids, Shape, Phase, Listening, Deaf, Destroyed, Holding, Unpaired,
         Uncreated, Playing, Quiescent, Sounding, Reported, Armed, NextStep, Current
<1> QED BY <1>1, StepKeeps, OpenKeeps, StartKeeps, StopKeeps, DestroyKeeps, BlockBeginKeeps,
           BlockEndKeeps, CheckAliveKeeps, NotifyKeeps, DieKeeps, ReformatKeeps DEF Next

\* The invariant of the argument above holds in every reachable state.
THEOREM Invariance == Spec => []IInv
<1>1. Init => IInv
  BY InitIInv
<1>2. IInv /\ [Next]_vars => IInv'
  BY Inductive
<1> QED BY <1>1, <1>2, PTL DEF Spec

\* Through every re-open, failed open and destructor the HAL calls the object back about the
\* device it has open or not at all, and a destroyed object leaves nothing in the system.
THEOREM ListenerFollowsDevice == Spec => []HalInStep
<1>1. IInv => HalInStep
  BY NamesAssumption DEF IInv, HalInStep, Listening, Deaf, Holding, NextStep, Destroyed, Phase
<1> QED BY <1>1, Invariance, PTL

\* With running_ clear no IOProc of the object runs and no block is under way, unless open() was
\* called on a running backend.
THEOREM StopIsFinal == Spec => []StopSilences
<1>1. IInv => StopSilences
  BY DEF IInv, StopSilences, Playing
<1> QED BY <1>1, Invariance, PTL

\* Where start() answers true because running_ is set the current IOProc runs or its device is
\* dead, unless the backend was re-opened while it ran and not stopped since.
THEOREM StartIsTrue == Spec => []StartBegins
<1>1. IInv => StartBegins
  BY DEF IInv, StartBegins, Sounding
<1> QED BY <1>1, Invariance, PTL

\* A disconnect is reported only of a dead device, and once, but for a notification of the device
\* before it that was past its check when open() cleared the flag.
THEOREM DisconnectIsOfTheDevice == Spec => []DisconnectIsReal
<1>1. IInv => DisconnectIsReal
  BY DEF IInv, DisconnectIsReal, Reported, Armed, NextStep
<1> QED BY <1>1, Invariance, PTL

-----------------------------------------------------------------------------
(* What a block moves.                                                     *)

\* channels_ and maxFrames_ are of the format open() saw last, if it saw a device at all.
Known ==
  b.channels # 0 =>
    b.channels = Sum(hist.format.layout) /\ b.maxFrames = hist.format.frames

\* An object without channels has no device to run on, is about to ask it for them, or has
\* no callback.
Mute ==
  b.channels = 0 =>
    b.dev \notin hal.alive \/ NextStep = "negotiate" \/ (kind # "duplex" /\ ~b.callback)

Measured == Known /\ Mute /\ BlocksFit

\* What a step that neither negotiates nor begins a block leaves alone.
Untouched ==
  /\ block' \in {block, NoBlock}
  /\ b'.channels = b.channels /\ b'.maxFrames = b.maxFrames
  /\ hist'.format = hist.format /\ hist'.torn = hist.torn
  /\ hist.live => hist'.live

LEMMA UntouchedKeeps ==
  ASSUME Known, BlocksFit, Untouched
  PROVE  Known' /\ BlocksFit'
<1>1. Known'
  BY DEF Known, Untouched
<1>2. CASE block' = NoBlock
  BY <1>1, <1>2 DEF BlocksFit, Untouched
<1>3. CASE block' = block
  BY <1>1, <1>3 DEF BlocksFit, Untouched
<1> QED BY <1>1, <1>2, <1>3 DEF Untouched

\* None is the name of nothing there is.
LEMMA NoneIsDead ==
  ASSUME IInv
  PROVE  None \notin hal.alive
  BY NamesAssumption DEF IInv, TypeOK, Ids

\* The numbers of a block: frames clamped to the scratch, of which each buffer gets all, or,
\* where there are several, those of the first.
LEMMA FramesClamped ==
  ASSUME NEW m \in Nat, NEW n \in Nat
  PROVE  /\ Min({m, n}) \in Nat /\ Min({m, n}) <= m /\ Min({m, n}) <= n
         /\ m = n => Min({m, n}) = m
<1> DEFINE least == IF m <= n THEN m ELSE n
<1>1. least \in {m, n} /\ \A y \in {m, n} : least <= y
  OBVIOUS
<1>2. \A x \in {m, n} : (\A y \in {m, n} : x <= y) => x = least
  OBVIOUS
<1>3. Min({m, n}) = least
  BY <1>1, <1>2 DEF Min
<1> QED BY <1>3

LEMMA ProductOrder ==
  ASSUME NEW m \in Nat, NEW n \in Nat, NEW p \in Nat, m <= n
  PROVE  m * p <= n * p /\ p * m <= p * n /\ m * p \in Nat /\ n * p \in Nat
<1>1. PICK d \in Nat : n = m + d
  <2>1. n - m \in Nat /\ n = m + (n - m)
    OBVIOUS
  <2> QED BY <2>1
<1>2. n * p = m * p + d * p /\ m * p \in Nat /\ d * p \in Nat /\ p * m = m * p /\ p * n = n * p
  BY <1>1
<1> QED BY <1>2

\* The widths of a layout.
LEMMA Widths ==
  ASSUME NEW layout \in Seq(Nat \ {0}), layout # <<>>
  PROVE  /\ Len(layout) \in Nat /\ 1 <= Len(layout) /\ DOMAIN layout = 1 .. Len(layout)
         /\ 1 \in DOMAIN layout
         /\ \A i \in DOMAIN layout : layout[i] \in Nat /\ 1 <= layout[i]
  OBVIOUS

\* A block of a device with n buffers, the first w channels wide and another x, that begins
\* while the members are those of its format.
Fits(n, w, x, frames, seen, channels, got, moved) ==
  /\ got = Min({seen, IF n > 1 THEN w * frames ELSE frames})
  /\ moved = IF n > 1 THEN got ELSE channels * got
  => /\ frames = seen \/ w <= x => moved <= x * frames
     /\ frames = seen /\ (n = 1 \/ (w = 1 /\ x = 1)) => moved = x * frames

LEMMA BlockFits ==
  ASSUME NEW n \in Nat, NEW w \in Nat, NEW x \in Nat, NEW frames \in Nat, NEW seen \in Nat,
         NEW channels \in Nat, 1 <= n, 1 <= w, 1 <= x, n = 1 => channels = x, NEW got, NEW moved
  PROVE  Fits(n, w, x, frames, seen, channels, got, moved)
<1> SUFFICES ASSUME got = Min({seen, IF n > 1 THEN w * frames ELSE frames}),
                    moved = IF n > 1 THEN got ELSE channels * got
             PROVE  /\ frames = seen \/ w <= x => moved <= x * frames
                    /\ frames = seen /\ (n = 1 \/ (w = 1 /\ x = 1)) => moved = x * frames
  BY DEF Fits
<1> DEFINE whole == w * frames
           size == x * frames
<1>1. whole \in Nat /\ size \in Nat /\ frames <= whole /\ frames <= size
      /\ (w <= x => whole <= size)
  <2>1. 1 * frames <= w * frames /\ 1 * frames <= x * frames /\ w * frames \in Nat
        /\ x * frames \in Nat /\ 1 * frames = frames
    BY ProductOrder
  <2>2. w <= x => w * frames <= x * frames
    BY ProductOrder
  <2> QED BY <2>1, <2>2
<1>2. CASE n > 1
  <2>1. got = Min({seen, whole}) /\ moved = got
    BY <1>2
  <2>2. got \in Nat /\ got <= seen /\ got <= whole
    <3> HIDE DEF whole
    <3> QED BY <1>1, <2>1, FramesClamped
  <2>3. frames = seen \/ w <= x => got <= size
    <3> HIDE DEF whole, size
    <3> QED BY <1>1, <2>2
  <2>4. ASSUME frames = seen, w = 1, x = 1
        PROVE  got = size
    <3>1. whole = frames /\ size = frames
      BY <2>4
    <3>2. Min({seen, frames}) = seen
      BY <2>4, FramesClamped
    <3> QED BY <2>1, <2>4, <3>1, <3>2
  <2> QED BY <1>2, <2>1, <2>2, <2>3, <2>4
<1>3. CASE ~(n > 1)
  <2>1. n = 1 /\ channels = x
    BY <1>3
  <2>2. got = Min({seen, frames}) /\ moved = x * got
    BY <1>3, <2>1
  <2>3. got \in Nat /\ got <= seen /\ got <= frames /\ (frames = seen => got = frames)
    BY <2>2, FramesClamped
  <2>4. x * got <= x * frames
    BY <2>3, ProductOrder
  <2> QED BY <2>2, <2>3, <2>4
<1> QED BY <1>2, <1>3

LEMMA BlockBeginMeasured ==
  ASSUME IInv, Measured, BlockBegin
  PROVE  Measured'
<1>1. UNCHANGED <<kind, b, todo, hal, hist>>
  BY DEF BlockBegin
<1>2. Known' /\ Mute'
  BY <1>1 DEF Measured, Known, Mute, NextStep
<1>3. CASE hist.live
  BY <1>1, <1>2, <1>3 DEF Measured, BlocksFit
<1>4. CASE ~hist.live
  <2>1. PICK p \in hal.playing :
          /\ b.callback
          /\ block' = [proc |-> p, format |-> hal.format,
                       view |-> CASE kind = "output" -> RenderOutput
                                  [] kind = "input"  -> CaptureInput
                                  [] kind = "duplex" -> RenderDuplex]
    BY DEF BlockBegin
  <2>2. b.running /\ p = Current /\ Quiescent
    BY <1>4 DEF IInv, Playing
  <2>3. b.dev \in hal.alive
    BY <2>2 DEF IInv, TypeOK, Current
  <2>4. b.channels # 0
    BY <2>1, <2>2, <2>3 DEF Measured, Mute, Quiescent
  <2>5. b.channels = Sum(hist.format.layout) /\ b.maxFrames = hist.format.frames
    BY <2>4 DEF Measured, Known
  <2>6. block'.format = hal.format /\ block'.view.frames = framesOf /\ block'.view.moved = Moved
    <3>1. kind \in {"output", "input", "duplex"}
      BY DEF IInv, Phase
    <3> QED BY <2>1, <3>1 DEF RenderOutput, CaptureInput, RenderDuplex
  <2> DEFINE layout == hal.format.layout
             frames == hal.format.frames
  <2>7. layout \in Seq(Nat \ {0}) /\ layout # <<>> /\ frames \in Nat /\ b.maxFrames \in Nat
    <3>1. layout \in Layouts /\ frames \in BlockSizes
      BY DEF IInv, TypeOK, Format
    <3>2. b.maxFrames \in Nat
      BY DEF IInv, TypeOK, Members
    <3> QED BY <3>1, <3>2, BackendAssumption
  <2>8. ASSUME NEW i \in DOMAIN layout, b.channels = Sum(layout)
        PROVE  /\ frames = b.maxFrames \/ layout[1] <= layout[i] => Moved[i] <= layout[i] * frames
               /\ frames = b.maxFrames /\ (Len(layout) = 1 \/ \A j \in DOMAIN layout : layout[j] = 1)
                    => Moved[i] = layout[i] * frames
    <3> DEFINE n == Len(layout)
               w == layout[1]
               x == layout[i]
               channels == b.channels
               seen == b.maxFrames
               got == framesOf
               moved == Moved[i]
    <3>1. /\ n \in Nat /\ 1 <= n /\ DOMAIN layout = 1 .. n /\ 1 \in DOMAIN layout
          /\ w \in Nat /\ 1 <= w /\ x \in Nat /\ 1 <= x
      BY <2>7, Widths
    <3>2. channels \in Nat /\ n <= channels /\ (n = 1 => channels = w)
      BY <2>7, <2>8, SumOfPositives
    <3>3. i \in 1 .. n /\ (n = 1 => x = w) /\ i <= channels
      <4>1. i \in 1 .. n
        BY <3>1
      <4>2. n = 1 => i = 1
        <5> HIDE DEF n
        <5> QED BY <4>1
      <4>3. i <= channels
        <5> HIDE DEF n, channels
        <5> QED BY <3>1, <3>2, <4>1
      <4> QED BY <4>1, <4>2, <4>3
    <3>4. got = Min({seen, IF n > 1 THEN w * frames ELSE frames})
      BY DEF framesOf, Planar
    <3>5. moved = IF n > 1 THEN got ELSE channels * got
      BY <3>3 DEF Moved, Planar
    <3>6. (\A j \in DOMAIN layout : layout[j] = 1) => w = 1 /\ x = 1
      BY <3>1
    <3>7. frames \in Nat /\ seen \in Nat
      BY <2>7
    <3> HIDE DEF n, w, x, channels, seen, got, moved, frames
    <3>a. n \in Nat /\ w \in Nat /\ x \in Nat /\ channels \in Nat /\ 1 <= n /\ 1 <= w /\ 1 <= x
      BY <3>1, <3>2
    <3>b. n = 1 => channels = x
      BY <3>2, <3>3
    <3>8. Fits(n, w, x, frames, seen, channels, got, moved)
      BY <3>a, <3>b, <3>7, BlockFits
    <3>9. /\ frames = seen \/ w <= x => moved <= x * frames
          /\ frames = seen /\ (n = 1 \/ (w = 1 /\ x = 1)) => moved = x * frames
      BY <3>4, <3>5, <3>8 DEF Fits
    <3> QED BY <3>6, <3>9 DEF n, w, x, seen, got, moved
  <2>9. framesOf <= b.maxFrames
    <3> DEFINE w == layout[1]
               seen == b.maxFrames
               whole == IF Planar THEN w * frames ELSE frames
    <3>1. w \in Nat /\ frames \in Nat /\ seen \in Nat
      BY <2>7, Widths
    <3>2. framesOf = Min({seen, whole})
      BY DEF framesOf
    <3>3. whole \in Nat
      <4> HIDE DEF w, frames
      <4>1. w * frames \in Nat
        BY <3>1
      <4> QED BY <3>1, <4>1
    <3> HIDE DEF w, frames, seen, whole
    <3>4. framesOf <= seen
      BY <3>1, <3>2, <3>3, FramesClamped
    <3> QED BY <3>4 DEF seen
  <2>10. hist'.live = hist.live /\ ~hist'.torn
    BY <1>1, <1>4 DEF Measured, BlocksFit
  <2>11. block'.view.frames <= b'.maxFrames
    BY <1>1, <2>6, <2>9
  <2>12. ASSUME block'.format.layout = hist'.format.layout
         PROVE  LET l == block'.format.layout
                    sized == block'.format.frames = hist'.format.frames
                IN \A i \in DOMAIN l :
                     LET size == l[i] * block'.format.frames IN
                       /\ sized \/ l[1] <= l[i] => block'.view.moved[i] <= size
                       /\ sized /\ (Len(l) = 1 \/ \A j \in DOMAIN l : l[j] = 1)
                            => block'.view.moved[i] = size
    BY <1>1, <2>5, <2>6, <2>8, <2>12
  <2> QED BY <1>2, <2>10, <2>11, <2>12 DEF Measured, BlocksFit
<1> QED BY <1>3, <1>4

\* While open() looks at the format no block is under way, unless it was called on a running
\* backend.
LEMMA NegotiateMeasured ==
  ASSUME IInv, Measured, todo # <<>>, Head(todo) = "negotiate", Negotiate,
         UNCHANGED <<kind, opens, listener, block>>
  PROVE  Measured'
<1>1. NextStep = "negotiate"
  BY AtStep DEF Steps
<1>2. hist'.live = hist.live /\ (~hist.live => block = NoBlock)
  <2>1. hist'.live = hist.live
    BY DEF IInv, Shape, Negotiate, Fail
  <2>2. ~hist.live => block = NoBlock
    BY <1>1 DEF IInv, Playing, Quiescent
  <2> QED BY <2>1, <2>2
<1>3. BlocksFit'
  <2>1. CASE hist.live
    BY <1>2, <2>1 DEF BlocksFit
  <2>2. CASE ~hist.live
    <3>1. block' = NoBlock /\ ~hist'.torn
      BY <1>2, <2>2 DEF Measured, BlocksFit, IInv, Shape, Negotiate, Fail
    <3> QED BY <1>2, <3>1 DEF BlocksFit
  <2> QED BY <2>1, <2>2
<1>4. CASE channelsInScope = 0
  <2>1. b'.channels = 0 /\ b'.dev = b.dev /\ hal' = hal
    BY <1>4 DEF IInv, Shape, Negotiate
  <2>2. b.dev \notin hal.alive
    <3> SUFFICES ASSUME b.dev \in hal.alive PROVE FALSE
      OBVIOUS
    <3>1. hal.format.layout \in Seq(Nat \ {0}) /\ hal.format.layout # <<>>
      BY BackendAssumption DEF IInv, TypeOK, Format
    <3> DEFINE layout == hal.format.layout
    <3>2. Len(layout) \in Nat /\ 1 <= Len(layout)
      BY <3>1, Widths
    <3>3. Sum(layout) = 0
      BY <1>4 DEF channelsInScope, Sum
    <3>4. Len(layout) <= Sum(layout)
      BY <3>1, SumOfPositives
    <3> HIDE DEF layout
    <3> QED BY <3>2, <3>3, <3>4
  <2> QED BY <1>3, <2>1, <2>2 DEF Measured, Known, Mute
<1>5. CASE channelsInScope # 0
  <2>1. b'.channels = channelsInScope /\ b'.maxFrames = hal.format.frames
        /\ hist'.format = hal.format
    BY <1>5 DEF IInv, Shape, Negotiate, bufferFrameSize
  <2>2. channelsInScope = Sum(hal.format.layout)
    BY <1>5 DEF channelsInScope, Sum
  <2> QED BY <1>3, <1>5, <2>1, <2>2 DEF Measured, Known, Mute
<1> QED BY <1>4, <1>5

LEMMA StepMeasured ==
  ASSUME IInv, Measured, Step
  PROVE  Measured'
<1>1. todo # <<>> /\ UNCHANGED <<kind, opens, listener, block>>
  BY DEF Step
<1>2. NextStep = Head(todo) /\ Head(todo) \in {"stop", "unlisten", "free", "dissolve", "find",
                                               "pair", "negotiate", "create", "arm", "listen"}
  BY <1>1, NextStepRange DEF IInv, NextStep, Steps
<1>3. CASE Head(todo) = "unlisten"
  <2>1. Untouched /\ Mute'
    BY <1>1, <1>2, <1>3 DEF Measured, IInv, Shape, Mute, Untouched, Step, Unlisten, removeAliveListener, Go
  <2> QED BY <2>1, UntouchedKeeps DEF Measured
<1>4. CASE Head(todo) = "find"
  <2>1. kind # "duplex" /\ ~b.dying
    BY <1>1, <1>4, AtStep DEF Steps
  <2>2. PICK callback \in BOOLEAN, d \in findByUID :
          /\ b' = [b EXCEPT !.callback = callback, !.dev = d]
          /\ UNCHANGED hal
          /\ IF d = None \/ ~callback THEN Fail ELSE Go /\ UNCHANGED hist
    BY <1>1, <1>4 DEF Step, Find
  <2>3. Untouched
    BY <1>1, <2>2 DEF IInv, Shape, Untouched, Fail
  <2>4. Mute'
    <3>1. CASE d = None \/ ~callback
      BY <1>1, <2>1, <2>2, <3>1, NoneIsDead DEF IInv, Shape, Mute
    <3>2. CASE ~(d = None \/ ~callback)
      <4>1. NextStep' = "negotiate"
        BY <1>1, <1>2, <1>4, <2>1, <2>2, <3>2, GoPhase DEF IInv, Shape, After
      <4> QED BY <4>1 DEF Mute
    <3> QED BY <3>1, <3>2
  <2> QED BY <2>3, <2>4, UntouchedKeeps DEF Measured
<1>5. CASE Head(todo) = "pair"
  <2>1. kind = "duplex" /\ ~b.dying
    BY <1>1, <1>5, AtStep DEF Steps
  <2>2. Pair
    BY <1>1, <1>5 DEF Step
  <2>3. Untouched
    BY <1>1, <2>2 DEF IInv, Shape, Untouched, Pair, createPrivateAggregate, Fail, Go
  <2>4. (Go /\ b'.dying = b.dying) \/ (b'.dev = b.dev /\ b'.channels = b.channels /\ hal' = hal)
    BY <2>2 DEF IInv, Shape, Pair, createPrivateAggregate
  <2>5. CASE Go /\ b'.dying = b.dying
    <3>1. NextStep' = "negotiate"
      BY <1>1, <1>2, <1>5, <2>1, <2>5, GoPhase DEF IInv, After
    <3> QED BY <2>3, <3>1, UntouchedKeeps DEF Measured, Mute
  <2>6. CASE b'.dev = b.dev /\ b'.channels = b.channels /\ hal' = hal
    BY <1>1, <1>2, <1>5, <2>1, <2>3, <2>6, UntouchedKeeps DEF Measured, Mute
  <2> QED BY <2>4, <2>5, <2>6
<1>6. CASE Head(todo) = "negotiate"
  BY <1>1, <1>6, NegotiateMeasured DEF Step
<1>7. CASE Head(todo) = "create"
  <2>1. Untouched /\ Mute'
    BY <1>1, <1>2, <1>7 DEF Measured, IInv, Shape, Mute, Untouched, Step, Create, Go, Fail
  <2> QED BY <2>1, UntouchedKeeps DEF Measured
<1>8. CASE Head(todo) = "arm"
  <2>1. Untouched /\ Mute'
    BY <1>1, <1>2, <1>8 DEF Measured, IInv, Shape, Mute, Untouched, Step, Arm, Go
  <2> QED BY <2>1, UntouchedKeeps DEF Measured
<1>9. CASE Head(todo) = "listen"
  <2>1. Untouched /\ Mute'
    BY <1>1, <1>2, <1>9 DEF Measured, IInv, Shape, Mute, Untouched, Step, Listen, addAliveListener, Go
  <2> QED BY <2>1, UntouchedKeeps DEF Measured
<1>10. CASE Head(todo) = "stop"
  <2>1. Untouched /\ Mute'
    BY <1>1, <1>2, <1>10 DEF Measured, IInv, Shape, Mute, Untouched, Step, StopCurrent, Go
  <2> QED BY <2>1, UntouchedKeeps DEF Measured
<1>11. CASE Head(todo) = "free"
  <2>1. Untouched /\ Mute'
    BY <1>1, <1>2, <1>11 DEF Measured, IInv, Shape, Mute, Untouched, Step, Free, Go
  <2> QED BY <2>1, UntouchedKeeps DEF Measured
<1>12. CASE Head(todo) = "dissolve"
  <2>1. Untouched
    BY <1>1, <1>12 DEF Untouched, Step, Dissolve
  <2>2. b' = b /\ hal'.alive \subseteq hal.alive
    BY <1>1, <1>12 DEF IInv, Shape, Step, Dissolve, Without
  <2>3. Mute'
    BY <1>1, <1>2, <1>12, <2>2 DEF Measured, Mute
  <2> QED BY <2>1, <2>3, UntouchedKeeps DEF Measured
<1> QED BY <1>2, <1>3, <1>4, <1>5, <1>6, <1>7, <1>8, <1>9, <1>10, <1>11, <1>12

LEMMA MeasuredStep == IInv /\ Measured /\ [Next]_vars => Measured'
<1> SUFFICES ASSUME IInv, Measured, [Next]_vars PROVE Measured'
  OBVIOUS
<1>1. CASE Open
  <2>1. Untouched
    BY <1>1 DEF IInv, Shape, Untouched, Open
  <2>2. Mute'
    BY <1>1 DEF Measured, Mute, NextStep, Open, Idle
  <2> QED BY <2>1, <2>2, UntouchedKeeps DEF Measured
<1>2. CASE Step
  BY <1>2, StepMeasured
<1>3. CASE Start
  <2>1. Untouched /\ Mute'
    BY <1>3 DEF Measured, IInv, Shape, Mute, NextStep, Untouched, Start, StartCurrent
  <2> QED BY <2>1, UntouchedKeeps DEF Measured
<1>4. CASE Stop
  <2>1. Untouched /\ Mute'
    BY <1>4 DEF Measured, IInv, Shape, Mute, NextStep, Untouched, Stop, StopCurrent
  <2> QED BY <2>1, UntouchedKeeps DEF Measured
<1>5. CASE Destroy
  <2>1. Untouched
    BY <1>5 DEF IInv, Shape, Untouched, Destroy
  <2>2. Mute'
    BY <1>5 DEF Measured, IInv, Shape, Mute, NextStep, Destroy, Idle
  <2> QED BY <2>1, <2>2, UntouchedKeeps DEF Measured
<1>6. CASE BlockBegin
  BY <1>6, BlockBeginMeasured
<1>7. CASE BlockEnd
  <2>1. Untouched /\ Mute'
    BY <1>7 DEF Measured, Mute, NextStep, Untouched, BlockEnd
  <2> QED BY <2>1, UntouchedKeeps DEF Measured
<1>8. CASE CheckAlive
  <2>1. Untouched /\ Mute'
    BY <1>8 DEF Measured, Mute, NextStep, Untouched, CheckAlive
  <2> QED BY <2>1, UntouchedKeeps DEF Measured
<1>9. CASE notifyDisconnect
  <2>1. Untouched /\ Mute'
    BY <1>9 DEF Measured, IInv, Shape, Mute, NextStep, Untouched, notifyDisconnect
  <2> QED BY <2>1, UntouchedKeeps DEF Measured
<1>10. CASE Die
  <2>1. Untouched /\ Mute'
    BY <1>10 DEF Measured, IInv, Shape, Mute, NextStep, Untouched, Die, Without
  <2> QED BY <2>1, UntouchedKeeps DEF Measured
<1>11. CASE Reformat
  <2>1. Untouched /\ Mute'
    BY <1>11 DEF Measured, IInv, Shape, Mute, NextStep, Untouched, Reformat
  <2> QED BY <2>1, UntouchedKeeps DEF Measured
<1>12. CASE UNCHANGED vars
  <2>1. Untouched /\ Mute'
    BY <1>12 DEF Measured, Mute, NextStep, Untouched, vars
  <2> QED BY <2>1, UntouchedKeeps DEF Measured
<1> QED BY <1>1, <1>2, <1>3, <1>4, <1>5, <1>6, <1>7, <1>8, <1>9, <1>10, <1>11, <1>12 DEF Next

\* No block finds the scratch reallocated under it, and none moves more than the scratch or a
\* buffer of the device holds, as far as the property says: whatever the device's buffers are,
\* and however often it is opened.
THEOREM BlocksStayInside == Spec => []BlocksFit
<1>1. Init => Measured
  <2> SUFFICES ASSUME Init PROVE Measured
    OBVIOUS
  <2>1. IInv
    BY InitIInv
  <2>2. b.channels = 0 /\ b.dev = None /\ block = NoBlock
    BY DEF Init
  <2>3. hist.torn = FALSE
    BY DEF Init
  <2> QED BY <2>1, <2>2, <2>3, NoneIsDead DEF Measured, Known, Mute, BlocksFit
<1>2. IInv /\ Measured /\ [Next]_vars => Measured'
  BY MeasuredStep
<1>3. Measured => BlocksFit
  BY DEF Measured
<1> QED BY <1>1, <1>2, <1>3, Invariance, PTL DEF Spec
=============================================================================

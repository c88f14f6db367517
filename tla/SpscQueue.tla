----------------------------- MODULE SpscQueue -----------------------------
(***************************************************************************)
(* What a RingBuffer promises its one producer and its one consumer: a     *)
(* bounded FIFO.  Items are numbered in the order in which the queue       *)
(* accepts them, so the number IS the datum.  A call may accept or hand    *)
(* over less than it was asked for; the shortfall is counted and never     *)
(* disturbs what is queued.                                                *)
(***************************************************************************)
EXTENDS Naturals, Sequences

CONSTANTS Room,        \* the most items the queue can hold
          Batches      \* how many items one step may move

VARIABLES queue,       \* accepted, not yet handed over
          accepted,    \* how many items were ever accepted
          refused,     \* how many items were turned away, the queue being full
          missed,      \* how many items were asked for and not there
          got          \* what the consumer's last finished call returned

vars == <<queue, accepted, refused, missed, got>>

Init ==
  /\ queue = <<>> /\ got = <<>>
  /\ accepted = 0 /\ refused = 0 /\ missed = 0

\* The producer publishes n further items, all at once.
Put(n) ==
  /\ Len(queue) + n <= Room
  /\ queue' = queue \o [i \in 1..n |-> accepted + i]
  /\ accepted' = accepted + n
  /\ UNCHANGED <<refused, missed, got>>

Refuse(n) == refused' = refused + n /\ UNCHANGED <<queue, accepted, missed, got>>

\* The consumer takes the n oldest items, all at once.
Take(n) ==
  /\ n <= Len(queue)
  /\ got' = SubSeq(queue, 1, n)
  /\ queue' = SubSeq(queue, n + 1, Len(queue))
  /\ UNCHANGED <<accepted, refused, missed>>

Miss(n) == missed' = missed + n /\ UNCHANGED <<queue, accepted, refused, got>>

Next == \E n \in Batches : Put(n) \/ Refuse(n) \/ Take(n) \/ Miss(n)

Spec == Init /\ [][Next]_vars
=============================================================================

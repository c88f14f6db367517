---------------------------- MODULE MCRingBuffer ----------------------------
(* A ring built for three elements: four slots, three usable, and calls that *)
(* ask for one element (push, pop), for less and for more than the ring holds. *)
EXTENDS RingBuffer

MCCapacity == RoundUpPow2(3 + 1)
MCCounts == {1, 2, 4}
=============================================================================

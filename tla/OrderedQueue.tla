---------------------------- MODULE OrderedQueue ----------------------------
(***************************************************************************)
(* What a queue of blockchain operations promises its producers, whoever   *)
(* processes it and whatever fails: the operations, numbered in the order  *)
(* they were queued, are first attempted in that order, and one leaves the *)
(* queue only as the oldest, after it was attempted; the only others lost  *)
(* are the oldest ones of a queue that holds more than Capacity.  An       *)
(* operation may be attempted again, even after it left.                   *)
(***************************************************************************)
EXTENDS Naturals, FiniteSets

CONSTANT Capacity

VARIABLES queued,       \* how many operations were queued
          pending,      \* those still in the queue
          attempted     \* those that were attempted

vars == <<queued, pending, attempted>>

Init ==
    /\ queued = 0
    /\ pending = {}
    /\ attempted = {}

Enqueue ==
    /\ queued' = queued + 1
    /\ pending' = pending \union {queued + 1}
    /\ UNCHANGED attempted

(* An overflow: the operations up to k are dropped. *)
EnqueueAndTrim(k) ==
    /\ queued' = queued + 1
    /\ pending' = {o \in pending \union {queued + 1} : o > k}
    /\ Cardinality(pending') >= Capacity
    /\ UNCHANGED attempted

Attempt(o) ==
    /\ \A older \in pending : o <= older
    /\ attempted' = attempted \union {o}
    /\ UNCHANGED <<queued, pending>>

Retire(o) ==
    /\ o \in pending \intersect attempted
    /\ \A other \in pending : o <= other
    /\ pending' = pending \ {o}
    /\ UNCHANGED <<queued, attempted>>

Next ==
    \/ Enqueue
    \/ \E k \in 1..queued : EnqueueAndTrim(k)
    \/ \E o \in 1..queued : Attempt(o) \/ Retire(o)

Spec == Init /\ [][Next]_vars
=============================================================================

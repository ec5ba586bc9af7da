----------------------------- MODULE EventQueue -----------------------------
(***************************************************************************)
(* EventQueue of api/events/__init__.py: producers enqueue events with a   *)
(* priority and a delay, consumers dequeue, and ack or nack what they got. *)
(* An event that is not due yet is taken off the queue and put back.       *)
(*                                                                         *)
(* External: asyncio.PriorityQueue(maxsize) as the code uses it.  put and  *)
(* get of a queue with room do not yield; put of a full queue waits.       *)
(* Entries are ordered by priority, then by process_at; the model's clock  *)
(* moves with every enqueue, and where a delay makes two times equal the   *)
(* order is left open.  wait_for runs get in a task of its own, so between *)
(* a get and what dequeue does next others run.                            *)
(***************************************************************************)
EXTENDS Naturals, FiniteSets

CONSTANTS Consumer, Priority, Delay,
          Capacity,     \* max_size
          MaxEvent,     \* bound: events a run enqueues, numbered in that order
          MaxTime       \* bound: the time a run lives through

ASSUME QueueAssumption ==
    /\ Priority \subseteq Nat /\ 0 \in Priority
    /\ Delay \subseteq Nat /\ Capacity \in Nat \ {0}
    /\ MaxEvent \in Nat /\ MaxTime \in Nat

VARIABLES queue,        \* _queue: the entries in it
          waiting,      \* entries whose put waits for room
          pending,      \* _pending: the events by their id
          consumer,     \* consumer[c]: what a consumer is doing
          acked, nacked,
          now

vars == <<queue, waiting, pending, consumer, acked, nacked, now>>

Event == 1..MaxEvent
Entry == [event : Event, priority : Priority, at : Nat]
Idle == [pc |-> "idle"]
Got == [pc : {"got", "returning"}, entry : Entry]
Handling == [pc : {"handling"}, event : Event]

Events(entries) == {x.event : x \in entries}
Returning == {consumer[c].entry : c \in {d \in Consumer : consumer[d].pc \in {"got", "returning"}}}
InHand == {consumer[c].event : c \in {d \in Consumer : consumer[d].pc = "handling"}}
Enqueued == Events(queue \union waiting \union Returning) \union InHand \union acked \union nacked

Full == Cardinality(queue) >= Capacity
Before(x, y) == x.priority < y.priority \/ (x.priority = y.priority /\ x.at < y.at)

TypeOK ==
    /\ queue \subseteq Entry /\ waiting \subseteq Entry
    /\ Cardinality(queue) <= Capacity
    /\ pending \subseteq Event
    /\ consumer \in [Consumer -> Got \union Handling \union {Idle}]
    /\ acked \subseteq Event /\ nacked \subseteq Event
    /\ now \in 0..MaxTime

Init ==
    /\ queue = {} /\ waiting = {} /\ pending = {}
    /\ consumer = [c \in Consumer |-> Idle]
    /\ acked = {} /\ nacked = {}
    /\ now = 0

(* put, and with it the entry in _pending, or the wait for room. *)
Put(x) ==
    IF Full
    THEN waiting' = waiting \union {x} /\ UNCHANGED <<queue, pending>>
    ELSE queue' = queue \union {x} /\ pending' = pending \union {x.event} /\ UNCHANGED waiting

Enqueue(e, priority, delay) ==
    /\ Enqueued = 1..(e - 1)
    /\ now' = now + 1
    /\ now' + delay <= MaxTime
    /\ Put([event |-> e, priority |-> priority, at |-> now' + delay])
    /\ UNCHANGED <<consumer, acked, nacked>>

PutWaiting(x) ==
    /\ x \in waiting /\ ~Full
    /\ queue' = queue \union {x}
    /\ pending' = pending \union {x.event}
    /\ waiting' = waiting \ {x}
    /\ UNCHANGED <<consumer, acked, nacked, now>>

Get(c) ==
    /\ consumer[c] = Idle
    /\ \E x \in queue :
          /\ \A y \in queue : ~Before(y, x)
          /\ queue' = queue \ {x}
          /\ consumer' = [consumer EXCEPT ![c] = [pc |-> "got", entry |-> x]]
    /\ UNCHANGED <<waiting, pending, acked, nacked, now>>

(* Fault: the event that is returned stays in _pending. *)
HandOutKeepsPending(c) ==
    /\ consumer[c].pc = "got" /\ consumer[c].entry.at <= now
    /\ consumer' = [consumer EXCEPT ![c] = [pc |-> "handling", event |-> @.entry.event]]
    /\ UNCHANGED <<queue, waiting, pending, acked, nacked, now>>

(* dequeue returns the event, which leaves _pending. *)
HandOut(c) ==
    /\ consumer[c].pc = "got" /\ consumer[c].entry.at <= now
    /\ consumer' = [consumer EXCEPT ![c] = [pc |-> "handling", event |-> @.entry.event]]
    /\ pending' = pending \ {consumer[c].entry.event}
    /\ UNCHANGED <<queue, waiting, acked, nacked, now>>

(* Fault: the event that is not due is not put back. *)
NotDueForgets(c) ==
    /\ consumer[c].pc = "got" /\ consumer[c].entry.at > now
    /\ consumer' = [consumer EXCEPT ![c] = Idle]
    /\ UNCHANGED <<queue, waiting, pending, acked, nacked, now>>

(* dequeue finds the event not due, puts it back and returns None ... *)
NotDue(c) ==
    /\ consumer[c].pc = "got" /\ consumer[c].entry.at > now
    /\ IF Full
       THEN consumer' = [consumer EXCEPT ![c].pc = "returning"] /\ UNCHANGED queue
       ELSE consumer' = [consumer EXCEPT ![c] = Idle] /\ queue' = queue \union {consumer[c].entry}
    /\ UNCHANGED <<waiting, pending, acked, nacked, now>>

(* Fault: the event is put back without its turn for room. *)
PutBackNoWait(c) ==
    /\ consumer[c].pc = "returning"
    /\ queue' = queue \union {consumer[c].entry}
    /\ consumer' = [consumer EXCEPT ![c] = Idle]
    /\ UNCHANGED <<waiting, pending, acked, nacked, now>>

(* Fault: the event is given up when the queue has filled up. *)
PutBackGivesUp(c) ==
    /\ consumer[c].pc = "returning"
    /\ consumer' = [consumer EXCEPT ![c] = Idle]
    /\ pending' = pending \ {consumer[c].entry.event}
    /\ UNCHANGED <<queue, waiting, acked, nacked, now>>

(* ... if need be after a wait for room, like any put. *)
PutBack(c) ==
    /\ consumer[c].pc = "returning" /\ ~Full
    /\ queue' = queue \union {consumer[c].entry}
    /\ consumer' = [consumer EXCEPT ![c] = Idle]
    /\ UNCHANGED <<waiting, pending, acked, nacked, now>>

Ack(c) ==
    /\ consumer[c].pc = "handling"
    /\ acked' = acked \union {consumer[c].event}
    /\ pending' = pending \ {consumer[c].event}
    /\ consumer' = [consumer EXCEPT ![c] = Idle]
    /\ UNCHANGED <<queue, waiting, nacked, now>>

(* nack with requeue: enqueue again, at priority 0, what _pending has. *)
Nack(c) ==
    /\ consumer[c].pc = "handling"
    /\ nacked' = nacked \union {consumer[c].event}
    /\ IF consumer[c].event \in pending
       THEN Put([event |-> consumer[c].event, priority |-> 0, at |-> now])
       ELSE UNCHANGED <<queue, waiting, pending>>
    /\ consumer' = [consumer EXCEPT ![c] = Idle]
    /\ UNCHANGED <<acked, now>>

Tick ==
    /\ now < MaxTime
    /\ now' = now + 1
    /\ UNCHANGED <<queue, waiting, pending, consumer, acked, nacked>>

Dequeue(c) == Get(c) \/ HandOut(c) \/ NotDue(c) \/ PutBack(c)

Next ==
    \/ \E e \in Event, priority \in Priority, delay \in Delay : Enqueue(e, priority, delay)
    \/ \E x \in waiting : PutWaiting(x)
    \/ \E c \in Consumer : Dequeue(c) \/ Ack(c) \/ Nack(c)
    \/ Tick

Spec == Init /\ [][Next]_vars

(* Consumers keep dequeuing and finish what they handle; time passes. *)
Fairness ==
    /\ \A c \in Consumer : WF_vars(Dequeue(c)) /\ WF_vars(Ack(c) \/ Nack(c))
    /\ WF_vars(\E x \in waiting : PutWaiting(x))
    /\ WF_vars(Tick)

FairSpec == Spec /\ Fairness
-----------------------------------------------------------------------------
(* _pending, which get_stats counts and nack looks up, is the events that  *)
(* dequeue has yet to return: none that a consumer handles, and every one  *)
(* it only took off the queue to put back.                                 *)
PendingAccurate == pending = Events(queue \union Returning)

(* The event a consumer holds, to put it back or to handle it. *)
Held(c) ==
    IF consumer[c].pc \in {"got", "returning"} THEN {consumer[c].entry.event}
    ELSE IF consumer[c].pc = "handling" THEN {consumer[c].event} ELSE {}

(* The queue, the puts that wait, the consumers and the answered events    *)
(* have no event in common.                                                *)
OnePlace ==
    /\ queue \intersect waiting = {}
    /\ \A x, y \in queue \union waiting : x.event = y.event => x = y
    /\ \A c, d \in Consumer : c # d => Held(c) \intersect Held(d) = {}
    /\ \A c \in Consumer : Held(c) \intersect (Events(queue \union waiting) \union acked) = {}
    /\ Events(queue \union waiting) \intersect acked = {}

(* What producers and consumers see of it: put-backs and waits for room    *)
(* show nothing.  A nack answers like an ack, since it queues nothing.     *)
Undelivered == Events(queue \union waiting \union Returning)
Handled == [c \in Consumer |-> IF consumer[c].pc = "handling" THEN {consumer[c].event} ELSE {}]
Delivery == INSTANCE ExclusiveDelivery
    WITH undelivered <- Undelivered, handling <- Handled, answered <- acked \union nacked

(* No event is ever in two places, and none is lost: whether it waits for  *)
(* room, is queued, is taken off to be put back or is being handled, it is *)
(* somewhere, once, until its consumer answers for it; and it is handed to *)
(* one consumer at most, whoever gets, puts back and waits meanwhile.      *)
NothingLost == []OnePlace /\ Delivery!Spec

(* Every event is handed to a consumer in the end, the delayed ones and    *)
(* those behind them too, provided that the queue keeps having room: a     *)
(* queue that fills up with events not due can block its consumers.        *)
Delivered ==
    []<>~Full =>
        \A e \in Event : e \in pending ~> e \in InHand
-----------------------------------------------------------------------------
(* tests/test_events.py:325, "Nacking re-enqueues the event", and the      *)
(* queue_size of 1 it asserts: an event that failed is queued again.  It   *)
(* is not, because dequeue has taken it out of _pending.                   *)
NackRequeues ==
    nacked \subseteq Events(queue \union waiting \union Returning) \union InHand \union acked
=============================================================================

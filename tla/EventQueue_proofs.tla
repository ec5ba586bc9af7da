-------------------------- MODULE EventQueue_proofs --------------------------
(***************************************************************************)
(* No event is lost or doubled between the queue and its consumers, each   *)
(* is handed out once at most, and _pending is what dequeue has yet to     *)
(* return, for any number of events, consumers, priorities and delays.     *)
(***************************************************************************)
EXTENDS EventQueue, FiniteSetTheorems, TLAPS

IInv == TypeOK /\ IsFiniteSet(queue) /\ OnePlace /\ PendingAccurate

LEMMA InitIInv == Init => IInv
<1> SUFFICES ASSUME Init PROVE IInv
  OBVIOUS
<1>1. IsFiniteSet(queue) /\ Cardinality(queue) = 0
  BY FS_EmptySet DEF Init
<1>2. \A c \in Consumer : consumer[c] = Idle /\ consumer[c].pc = "idle"
  BY DEF Init, Idle
<1>3. TypeOK
  BY <1>1, QueueAssumption DEF Init, TypeOK
<1>4. Returning = {}
  BY <1>2 DEF Returning
<1>5. PendingAccurate
  BY <1>4 DEF Init, PendingAccurate, Events
<1>6. OnePlace
  BY <1>2 DEF Init, OnePlace, Held, Events
<1>7. QED
  BY <1>1, <1>3, <1>5, <1>6 DEF IInv

(* How a consumer looks. *)
LEMMA ConsumerShape ==
  ASSUME TypeOK, NEW c \in Consumer
  PROVE  /\ consumer[c].pc \in {"idle", "got", "returning", "handling"}
         /\ consumer[c].pc \in {"got", "returning"} =>
               /\ consumer[c] = [pc |-> consumer[c].pc, entry |-> consumer[c].entry]
               /\ consumer[c].entry \in Entry
               /\ consumer[c].entry.event \in Event
         /\ consumer[c].pc = "handling" => consumer[c].event \in Event
         /\ consumer[c].pc = "idle" => consumer[c] = Idle
  BY DEF TypeOK, Got, Handling, Idle, Entry

(* One entry more or less in a queue that has room for it. *)
LEMMA AddToQueue ==
  ASSUME TypeOK, IsFiniteSet(queue), ~Full, NEW x \in Entry, queue' = queue \union {x}
  PROVE  queue' \subseteq Entry /\ IsFiniteSet(queue') /\ Cardinality(queue') <= Capacity
<1>1. Cardinality(queue) \in Nat /\ Cardinality(queue) < Capacity
  BY FS_CardinalityType, QueueAssumption DEF Full
<1>2. /\ IsFiniteSet(queue \union {x})
      /\ Cardinality(queue \union {x}) = IF x \in queue THEN Cardinality(queue) ELSE Cardinality(queue) + 1
  BY FS_AddElement
<1>3. QED
  BY <1>1, <1>2, QueueAssumption DEF TypeOK

LEMMA RemoveFromQueue ==
  ASSUME TypeOK, IsFiniteSet(queue), NEW x \in queue, queue' = queue \ {x}
  PROVE  queue' \subseteq Entry /\ IsFiniteSet(queue') /\ Cardinality(queue') <= Capacity
<1>1. Cardinality(queue) \in Nat /\ Cardinality(queue) <= Capacity
  BY FS_CardinalityType DEF TypeOK
<1>2. /\ IsFiniteSet(queue \ {x})
      /\ Cardinality(queue \ {x}) = Cardinality(queue) - 1
  BY FS_RemoveElement
<1>3. QED
  BY <1>1, <1>2, QueueAssumption DEF TypeOK

(* An entry whose event is nowhere yet enters the queue or waits. *)
LEMMA EnqueueStep ==
  ASSUME IInv, NEW e \in Event, NEW priority \in Priority, NEW delay \in Delay,
         Enqueue(e, priority, delay)
  PROVE  IInv'
<1> DEFINE x == [event |-> e, priority |-> priority, at |-> now' + delay]
<1> USE DEF IInv
<1>1. /\ e \notin Enqueued
      /\ now' = now + 1 /\ now' + delay <= MaxTime
      /\ Put(x)
      /\ UNCHANGED <<consumer, acked, nacked>>
  BY DEF Enqueue, Event
<1>2. now' \in 0..MaxTime /\ x \in Entry /\ x.event = e
  BY <1>1, QueueAssumption DEF TypeOK, Entry
<1> HIDE DEF x
<1>3. /\ \A y \in queue \union waiting : y.event # e
      /\ \A c \in Consumer : e \notin Held(c)
      /\ e \notin acked
  <2>1. \A y \in queue \union waiting : y.event # e
    BY <1>1 DEF Enqueued, Events
  <2>2. ASSUME NEW c \in Consumer PROVE e \notin Held(c)
    BY <1>1, <2>2 DEF Enqueued, Events, Held, Returning, InHand
  <2>3. QED
    BY <1>1, <2>1, <2>2 DEF Enqueued
<1>4. \A c \in Consumer : Held(c)' = Held(c)
  BY <1>1 DEF Held
<1>5. Returning' = Returning
  BY <1>1 DEF Returning
<1>6. CASE /\ Full
           /\ waiting' = waiting \union {x}
           /\ UNCHANGED <<queue, pending>>
  <2>1. TypeOK' /\ IsFiniteSet(queue)'
    BY <1>1, <1>2, <1>6 DEF TypeOK
  <2>2. OnePlace'
    BY <1>1, <1>2, <1>3, <1>4, <1>6 DEF OnePlace, Events
  <2>3. PendingAccurate'
    BY <1>5, <1>6 DEF PendingAccurate, Events
  <2>5. QED
    BY <2>1, <2>2, <2>3
<1>7. CASE /\ ~Full
           /\ queue' = queue \union {x}
           /\ pending' = pending \union {x.event}
           /\ UNCHANGED waiting
  <2>1. TypeOK' /\ IsFiniteSet(queue)'
    BY <1>1, <1>2, <1>7, AddToQueue DEF TypeOK
  <2>2. OnePlace'
    BY <1>1, <1>2, <1>3, <1>4, <1>7 DEF OnePlace, Events
  <2>3. PendingAccurate'
    BY <1>5, <1>7 DEF PendingAccurate, Events
  <2>5. QED
    BY <2>1, <2>2, <2>3
<1>8. QED
  BY <1>1, <1>6, <1>7 DEF Put

(* A put that waited gets its room. *)
LEMMA PutWaitingStep ==
  ASSUME IInv, NEW x, PutWaiting(x)
  PROVE  IInv'
<1> USE DEF IInv
<1>1. /\ x \in waiting /\ ~Full
      /\ queue' = queue \union {x}
      /\ pending' = pending \union {x.event}
      /\ waiting' = waiting \ {x}
      /\ UNCHANGED <<consumer, acked, nacked, now>>
  BY DEF PutWaiting
<1>2. x \in Entry /\ x.event \in Event
  BY <1>1 DEF TypeOK, Entry
<1>3. TypeOK' /\ IsFiniteSet(queue)'
  BY <1>1, <1>2, AddToQueue DEF TypeOK
<1>4. \A c \in Consumer : Held(c)' = Held(c)
  BY <1>1 DEF Held
<1>5. Returning' = Returning
  BY <1>1 DEF Returning
<1>6. queue' \union waiting' = queue \union waiting
  BY <1>1
<1>7. OnePlace'
  BY <1>1, <1>4, <1>6 DEF OnePlace, Events
<1>8. PendingAccurate'
  BY <1>1, <1>5 DEF PendingAccurate, Events
<1>10. QED
  BY <1>3, <1>7, <1>8

(* get takes an entry off the queue. *)
LEMMA GetStep ==
  ASSUME IInv, NEW c \in Consumer, Get(c)
  PROVE  IInv'
<1> USE DEF IInv
<1>1. PICK x \in queue :
         /\ queue' = queue \ {x}
         /\ consumer' = [consumer EXCEPT ![c] = [pc |-> "got", entry |-> x]]
  BY DEF Get
<1>2. /\ consumer[c].pc = "idle"
      /\ UNCHANGED <<waiting, pending, acked, nacked, now>>
  BY DEF Get, Idle
<1>3. x \in Entry /\ x.event \in Event
  BY DEF TypeOK, Entry
<1>4. /\ consumer'[c].pc = "got" /\ consumer'[c].entry = x
      /\ \A d \in Consumer \ {c} : consumer'[d] = consumer[d] /\ Held(d)' = Held(d)
  BY <1>1 DEF TypeOK, Held
<1>5. Held(c) = {} /\ Held(c)' = {x.event}
  BY <1>2, <1>4 DEF Held
<1>6. TypeOK' /\ IsFiniteSet(queue)'
  <2>1. consumer' \in [Consumer -> Got \union Handling \union {Idle}]
    BY <1>1, <1>3 DEF TypeOK, Got
  <2>2. QED
    BY <1>1, <1>2, <2>1, RemoveFromQueue DEF TypeOK
<1>7. Returning' = Returning \union {x}
  BY <1>2, <1>4 DEF Returning
<1>9. PendingAccurate'
  BY <1>1, <1>2, <1>7 DEF PendingAccurate, Events
<1>10. /\ \A y \in queue' \union waiting' : y \in queue \union waiting /\ y.event # x.event
       /\ \A d \in Consumer \ {c} : x.event \notin Held(d)
       /\ x.event \notin acked
  BY <1>1, <1>2 DEF OnePlace, Events
<1>11. OnePlace'
  <2>1. (queue \intersect waiting = {})'
    BY <1>1, <1>2 DEF OnePlace
  <2>2. (\A y, z \in queue \union waiting : y.event = z.event => y = z)'
    BY <1>10 DEF OnePlace
  <2>3. (\A d, g \in Consumer : d # g => Held(d) \intersect Held(g) = {})'
    BY <1>4, <1>5, <1>10 DEF OnePlace
  <2>4. (\A d \in Consumer : Held(d) \intersect (Events(queue \union waiting) \union acked) = {})'
    BY <1>2, <1>4, <1>5, <1>10 DEF OnePlace, Events
  <2>5. (Events(queue \union waiting) \intersect acked = {})'
    BY <1>2, <1>10 DEF OnePlace, Events
  <2>6. QED
    BY <2>1, <2>2, <2>3, <2>4, <2>5 DEF OnePlace
<1>13. QED
  BY <1>6, <1>9, <1>11

(* dequeue returns the event, and only this one leaves _pending. *)
LEMMA HandOutStep ==
  ASSUME IInv, NEW c \in Consumer, HandOut(c)
  PROVE  IInv'
<1> USE DEF IInv
<1> DEFINE x == consumer[c].entry
<1>1. /\ consumer[c].pc = "got"
      /\ consumer' = [consumer EXCEPT ![c] = [pc |-> "handling", event |-> x.event]]
      /\ pending' = pending \ {x.event}
      /\ UNCHANGED <<queue, waiting, acked, nacked, now>>
  BY DEF HandOut
<1>2. x \in Entry /\ x.event \in Event
  BY <1>1, ConsumerShape
<1>3. /\ consumer'[c].pc = "handling" /\ consumer'[c].event = x.event
      /\ \A d \in Consumer \ {c} : consumer'[d] = consumer[d] /\ Held(d)' = Held(d)
  BY <1>1 DEF TypeOK, Held
<1>4. Held(c)' = Held(c) /\ Held(c) = {x.event}
  BY <1>1, <1>3 DEF Held
<1>5. TypeOK' /\ IsFiniteSet(queue)'
  <2>1. consumer' \in [Consumer -> Got \union Handling \union {Idle}]
    BY <1>1, <1>2 DEF TypeOK, Handling
  <2>2. QED
    BY <1>1, <2>1 DEF TypeOK
<1>6. OnePlace'
  BY <1>1, <1>3, <1>4 DEF OnePlace, Events
<1>7. /\ \A y \in queue : y.event # x.event
      /\ \A d \in Consumer \ {c} : consumer[d].pc \in {"got", "returning"} => consumer[d].entry.event # x.event
  <2>1. \A y \in queue : y.event # x.event
    BY <1>4 DEF OnePlace, Events
  <2>2. ASSUME NEW d \in Consumer \ {c}, consumer[d].pc \in {"got", "returning"}
        PROVE  consumer[d].entry.event # x.event
    <3>1. Held(d) = {consumer[d].entry.event} /\ Held(d) \intersect Held(c) = {}
      BY <2>2 DEF Held, OnePlace
    <3>2. QED
      BY <1>4, <3>1
  <2>3. QED
    BY <2>1, <2>2
<1>8. Returning = Returning' \union {x} /\ \A y \in Returning' : y.event # x.event
  BY <1>1, <1>3, <1>7 DEF Returning
<1> HIDE DEF x
<1>10. PendingAccurate'
  BY <1>1, <1>7, <1>8 DEF PendingAccurate, Events
<1>12. QED
  BY <1>5, <1>6, <1>10

(* An event that is not due is put back, at once or after a wait for room. *)
LEMMA ReturnStep ==
  ASSUME IInv, NEW c \in Consumer, consumer[c].pc \in {"got", "returning"}, ~Full,
         queue' = queue \union {consumer[c].entry},
         consumer' = [consumer EXCEPT ![c] = Idle],
         UNCHANGED <<waiting, pending, acked, nacked, now>>
  PROVE  IInv'
<1> USE DEF IInv
<1> DEFINE x == consumer[c].entry
<1>1. x \in Entry /\ x.event \in Event /\ queue' = queue \union {x}
  BY ConsumerShape
<1>2. /\ consumer'[c] = Idle /\ consumer'[c].pc = "idle"
      /\ \A d \in Consumer \ {c} : consumer'[d] = consumer[d] /\ Held(d)' = Held(d)
  BY DEF TypeOK, Held, Idle
<1>3. Held(c) = {x.event} /\ Held(c)' = {}
  BY <1>2 DEF Held
<1>4. /\ \A y \in queue \union waiting : y.event # x.event
      /\ \A d \in Consumer \ {c} : x.event \notin Held(d)
      /\ x.event \notin acked
  BY <1>3 DEF OnePlace, Events
<1>5. Returning = Returning' \union {x}
  BY <1>2 DEF Returning
<1>7. TypeOK' /\ IsFiniteSet(queue)'
  BY <1>1, AddToQueue DEF TypeOK
<1> HIDE DEF x
<1>8. PendingAccurate'
  BY <1>1, <1>5 DEF PendingAccurate, Events
<1>9. OnePlace'
  <2>1. (queue \intersect waiting = {})'
    BY <1>1, <1>4 DEF OnePlace
  <2>2. (\A y, z \in queue \union waiting : y.event = z.event => y = z)'
    BY <1>1, <1>4 DEF OnePlace
  <2>3. (\A d, g \in Consumer : d # g => Held(d) \intersect Held(g) = {})'
    BY <1>2, <1>3 DEF OnePlace
  <2>4. (\A d \in Consumer : Held(d) \intersect (Events(queue \union waiting) \union acked) = {})'
    BY <1>1, <1>2, <1>3, <1>4 DEF OnePlace, Events
  <2>5. (Events(queue \union waiting) \intersect acked = {})'
    BY <1>1, <1>4 DEF OnePlace, Events
  <2>6. QED
    BY <2>1, <2>2, <2>3, <2>4, <2>5 DEF OnePlace
<1>11. QED
  BY <1>7, <1>8, <1>9

(* The queue has filled up since the get: the consumer waits with it. *)
LEMMA NotDueFullStep ==
  ASSUME IInv, NEW c \in Consumer, consumer[c].pc = "got",
         consumer' = [consumer EXCEPT ![c].pc = "returning"],
         UNCHANGED <<queue, waiting, pending, acked, nacked, now>>
  PROVE  IInv'
<1> USE DEF IInv
<1>1. /\ consumer[c] = [pc |-> "got", entry |-> consumer[c].entry]
      /\ consumer[c].entry \in Entry
  BY ConsumerShape
<1>2. [consumer[c] EXCEPT !.pc = "returning"] = [pc |-> "returning", entry |-> consumer[c].entry]
  BY <1>1
<1>3. consumer' = [consumer EXCEPT ![c] = [pc |-> "returning", entry |-> consumer[c].entry]]
  BY <1>2 DEF TypeOK
<1>4. TypeOK'
  BY <1>1, <1>3 DEF TypeOK, Got
<1>5. /\ consumer'[c].pc = "returning" /\ consumer'[c].entry = consumer[c].entry
      /\ \A d \in Consumer \ {c} : consumer'[d] = consumer[d]
  BY <1>3 DEF TypeOK
<1>6. /\ \A d \in Consumer : Held(d)' = Held(d)
      /\ Returning' = Returning
  BY <1>5 DEF Held, Returning
<1>7. QED
  BY <1>4, <1>6 DEF OnePlace, PendingAccurate, Events

(* A consumer answers for its event, which is not in _pending any more: an *)
(* ack has nothing to remove, and a nack nothing to queue.                 *)
LEMMA AnswerPutsNothing ==
  ASSUME IInv, NEW c \in Consumer, Ack(c) \/ Nack(c)
  PROVE  UNCHANGED <<queue, waiting, pending>>
<1> USE DEF IInv
<1> DEFINE e == consumer[c].event
<1>1. consumer[c].pc = "handling"
  BY DEF Ack, Nack
<1>2. e \in Event /\ Held(c) = {e}
  BY <1>1, ConsumerShape DEF Held
<1>3. e \notin pending
  <2>1. \A x \in queue : x.event # e
    BY <1>2 DEF OnePlace, Events
  <2>2. ASSUME NEW d \in Consumer, consumer[d].pc \in {"got", "returning"}
        PROVE  consumer[d].entry.event # e
    <3>1. d # c /\ Held(d) = {consumer[d].entry.event}
      BY <1>1, <2>2 DEF Held
    <3>2. QED
      BY <1>2, <3>1 DEF OnePlace
  <2>3. \A x \in Returning : x.event # e
    BY <2>2 DEF Returning
  <2>4. QED
    BY <2>1, <2>3 DEF PendingAccurate, Events
<1>4. QED
  BY <1>3 DEF Ack, Nack

LEMMA AnswerStep ==
  ASSUME IInv, NEW c \in Consumer, Ack(c) \/ Nack(c)
  PROVE  IInv'
<1> USE DEF IInv
<1> DEFINE e == consumer[c].event
<1>1. /\ consumer[c].pc = "handling"
      /\ consumer' = [consumer EXCEPT ![c] = Idle]
      /\ now' = now
      /\ \/ acked' = acked \union {e} /\ nacked' = nacked
         \/ acked' = acked /\ nacked' = nacked \union {e}
  BY DEF Ack, Nack
<1>2. e \in Event /\ Held(c) = {e}
  BY <1>1, ConsumerShape DEF Held
<1>4. UNCHANGED <<queue, waiting, pending>>
  BY AnswerPutsNothing
<1>5. /\ consumer'[c] = Idle /\ consumer'[c].pc = "idle"
      /\ \A d \in Consumer \ {c} : consumer'[d] = consumer[d] /\ Held(d)' = Held(d)
  BY <1>1 DEF TypeOK, Held, Idle
<1>6. Held(c)' = {}
  BY <1>5 DEF Held
<1>7. Returning' = Returning
  BY <1>1, <1>5 DEF Returning
<1>9. TypeOK' /\ IsFiniteSet(queue)'
  BY <1>1, <1>2, <1>4 DEF TypeOK
<1>10. PendingAccurate'
  BY <1>4, <1>7 DEF PendingAccurate, Events
<1> HIDE DEF e
<1>11. e \notin Events(queue \union waiting) /\ \A d \in Consumer \ {c} : e \notin Held(d)
  BY <1>2 DEF OnePlace
<1>12. OnePlace'
  BY <1>1, <1>4, <1>5, <1>6, <1>11 DEF OnePlace, Events
<1>14. QED
  BY <1>9, <1>10, <1>12

LEMMA NextIInv == IInv /\ [Next]_vars => IInv'
<1> SUFFICES ASSUME IInv, [Next]_vars PROVE IInv'
  OBVIOUS
<1>1. ASSUME NEW c \in Consumer, Dequeue(c) PROVE IInv'
  <2>1. CASE NotDue(c)
    BY <2>1, ReturnStep, NotDueFullStep DEF NotDue
  <2>2. CASE PutBack(c)
    BY <2>2, ReturnStep DEF PutBack
  <2>3. QED
    BY <1>1, <2>1, <2>2, GetStep, HandOutStep DEF Dequeue
<1>2. CASE Tick \/ UNCHANGED vars
  <2>1. UNCHANGED <<queue, waiting, pending, consumer, acked, nacked>> /\ now' \in 0..MaxTime
    BY <1>2, QueueAssumption DEF Tick, vars, IInv, TypeOK
  <2>2. Returning' = Returning /\ \A c \in Consumer : Held(c)' = Held(c)
    BY <2>1 DEF Returning, Held
  <2>3. QED
    BY <2>1, <2>2 DEF IInv, TypeOK, OnePlace, PendingAccurate, Events
<1>3. QED
  BY <1>1, <1>2, EnqueueStep, PutWaitingStep, AnswerStep DEF Next

LEMMA Invariance == Spec => []IInv
  BY InitIInv, NextIInv, PTL DEF Spec

(* _pending is exactly the events dequeue has yet to return                *)
(* (PendingAccurate), however consumers and producers interleave.          *)
THEOREM PendingIsAccurate == Spec => [](TypeOK /\ PendingAccurate)
<1>1. IInv => TypeOK /\ PendingAccurate
  BY DEF IInv
<1>2. QED
  BY <1>1, Invariance, PTL

-----------------------------------------------------------------------------
(* What ExclusiveDelivery sees of the steps, one by one.                   *)
LEMMA InitDelivers == Init => Delivery!Init
<1> SUFFICES ASSUME Init PROVE Delivery!Init
  OBVIOUS
<1>1. \A c \in Consumer : consumer[c].pc = "idle"
  BY DEF Init, Idle
<1>2. Returning = {}
  BY <1>1 DEF Returning
<1>3. Undelivered = {}
  BY <1>2 DEF Init, Undelivered, Events
<1>4. Handled = [c \in Consumer |-> {}]
  BY <1>1 DEF Handled
<1>5. QED
  BY <1>3, <1>4 DEF Init, Delivery!Init

LEMMA NothingSeen ==
  ASSUME Undelivered' = Undelivered, Handled' = Handled, UNCHANGED <<acked, nacked>>
  PROVE  [Delivery!Next]_Delivery!vars
BY DEF Delivery!vars

LEMMA EnqueueDelivers ==
  ASSUME NEW e \in Event, NEW priority \in Priority, NEW delay \in Delay,
         Enqueue(e, priority, delay)
  PROVE  [Delivery!Next]_Delivery!vars
<1> DEFINE x == [event |-> e, priority |-> priority, at |-> now' + delay]
<1>1. e \notin Enqueued /\ Put(x) /\ UNCHANGED <<consumer, acked, nacked>>
  BY DEF Enqueue, Event
<1>2. x.event = e
  OBVIOUS
<1> HIDE DEF x
<1>3. queue' \union waiting' = (queue \union waiting) \union {x}
  BY <1>1 DEF Put
<1>4. Returning' = Returning /\ Handled' = Handled
  BY <1>1 DEF Returning, Handled
<1>5. Undelivered' = Undelivered \union {e}
  BY <1>2, <1>3, <1>4 DEF Undelivered, Events
<1>6. \A c \in Consumer : e \notin Handled[c]
  BY <1>1 DEF Enqueued, InHand, Handled
<1>7. e \notin Undelivered /\ e \notin acked \union nacked
  BY <1>1 DEF Enqueued, Undelivered
<1>8. Delivery!Enqueue(e)
  <2>1. e \notin Delivery!Known
    BY <1>6, <1>7 DEF Delivery!Known
  <2>2. UNCHANGED <<Handled, acked \union nacked>>
    BY <1>1, <1>4
  <2>3. QED
    BY <1>5, <2>1, <2>2 DEF Delivery!Enqueue
<1>9. QED
  BY <1>8 DEF Delivery!Next

LEMMA GetDelivers ==
  ASSUME IInv, NEW c \in Consumer, Get(c)
  PROVE  [Delivery!Next]_Delivery!vars
<1>1. PICK x \in queue :
         /\ queue' = queue \ {x}
         /\ consumer' = [consumer EXCEPT ![c] = [pc |-> "got", entry |-> x]]
  BY DEF Get
<1>2. consumer[c].pc = "idle" /\ UNCHANGED <<waiting, acked, nacked>>
  BY DEF Get, Idle
<1>3. /\ consumer'[c].pc = "got" /\ consumer'[c].entry = x
      /\ \A d \in Consumer \ {c} : consumer'[d] = consumer[d]
  BY <1>1 DEF IInv, TypeOK
<1>4. Returning' = Returning \union {x}
  BY <1>2, <1>3 DEF Returning
<1>5. Undelivered' = Undelivered
  BY <1>1, <1>2, <1>4 DEF Undelivered, Events
<1>6. Handled' = Handled
  BY <1>2, <1>3 DEF Handled
<1>7. QED
  BY <1>2, <1>5, <1>6, NothingSeen

(* The event that a consumer is handed is nowhere else.                    *)
LEMMA HandOutDelivers ==
  ASSUME IInv, NEW c \in Consumer, HandOut(c)
  PROVE  [Delivery!Next]_Delivery!vars
<1> DEFINE x == consumer[c].entry
<1>1. /\ consumer[c].pc = "got"
      /\ consumer' = [consumer EXCEPT ![c] = [pc |-> "handling", event |-> x.event]]
      /\ UNCHANGED <<queue, waiting, acked, nacked>>
  BY DEF HandOut
<1>2. x.event \in Event /\ Held(c) = {x.event} /\ x \in Returning
  BY <1>1, ConsumerShape DEF IInv, Held, Returning
<1>3. /\ consumer'[c].pc = "handling" /\ consumer'[c].event = x.event
      /\ \A d \in Consumer \ {c} : consumer'[d] = consumer[d]
  BY <1>1 DEF IInv, TypeOK
<1>4. \A y \in queue \union waiting : y.event # x.event
  BY <1>2 DEF IInv, OnePlace, Events
<1>5. \A d \in Consumer \ {c} : consumer[d].pc \in {"got", "returning"} => consumer[d].entry.event # x.event
  <2>1. ASSUME NEW d \in Consumer \ {c}, consumer[d].pc \in {"got", "returning"}
        PROVE  consumer[d].entry.event # x.event
    <3>1. Held(d) = {consumer[d].entry.event} /\ Held(d) \intersect Held(c) = {}
      BY <2>1 DEF IInv, Held, OnePlace
    <3>2. QED
      BY <1>2, <3>1
  <2>2. QED
    BY <2>1
<1>6. Returning = Returning' \union {x} /\ \A y \in Returning' : y.event # x.event
  BY <1>1, <1>3, <1>5 DEF Returning
<1>7. Undelivered' = Undelivered \ {x.event} /\ x.event \in Undelivered
  BY <1>1, <1>2, <1>4, <1>6 DEF Undelivered, Events
<1>8. Handled[c] = {} /\ Handled' = [Handled EXCEPT ![c] = {x.event}]
  BY <1>1, <1>3 DEF Handled
<1>9. Delivery!Deliver(c, x.event)
  BY <1>1, <1>7, <1>8 DEF Delivery!Deliver
<1>10. QED
  BY <1>2, <1>9 DEF Delivery!Next

(* An event that is not due is as undelivered as before.                   *)
LEMMA PutBackDelivers ==
  ASSUME IInv, NEW c \in Consumer, NotDue(c) \/ PutBack(c)
  PROVE  [Delivery!Next]_Delivery!vars
<1>1. /\ consumer[c].pc \in {"got", "returning"} /\ UNCHANGED <<waiting, acked, nacked>>
      /\ \/ consumer' = [consumer EXCEPT ![c].pc = "returning"] /\ UNCHANGED queue
         \/ consumer' = [consumer EXCEPT ![c] = Idle] /\ queue' = queue \union {consumer[c].entry}
  BY DEF NotDue, PutBack
<1>2. /\ consumer[c].entry \in Entry
      /\ consumer[c] = [pc |-> consumer[c].pc, entry |-> consumer[c].entry]
  BY <1>1, ConsumerShape DEF IInv
<1>3. CASE consumer' = [consumer EXCEPT ![c].pc = "returning"] /\ UNCHANGED queue
  <2>1. /\ consumer'[c].pc = "returning" /\ consumer'[c].entry = consumer[c].entry
        /\ \A d \in Consumer \ {c} : consumer'[d] = consumer[d]
    BY <1>2, <1>3 DEF IInv, TypeOK
  <2>2. Returning' = Returning /\ Handled' = Handled
    BY <1>1, <2>1 DEF Returning, Handled
  <2>3. Undelivered' = Undelivered
    BY <1>1, <1>3, <2>2 DEF Undelivered
  <2>4. QED
    BY <1>1, <2>2, <2>3, NothingSeen
<1>4. CASE consumer' = [consumer EXCEPT ![c] = Idle] /\ queue' = queue \union {consumer[c].entry}
  <2>1. consumer'[c].pc = "idle" /\ \A d \in Consumer \ {c} : consumer'[d] = consumer[d]
    BY <1>4 DEF IInv, TypeOK, Idle
  <2>2. Returning = Returning' \union {consumer[c].entry} /\ Handled' = Handled
    BY <1>1, <2>1 DEF Returning, Handled
  <2>3. queue' \union waiting' \union Returning' = queue \union waiting \union Returning
    BY <1>1, <1>4, <2>2
  <2>4. Undelivered' = Undelivered
    BY <2>3 DEF Undelivered
  <2>5. QED
    BY <1>1, <2>2, <2>4, NothingSeen
<1>5. QED
  BY <1>1, <1>3, <1>4

(* An answer takes the event from its consumer and puts it nowhere: what   *)
(* a nack asks _pending for is not there.                                  *)
LEMMA AnswerDelivers ==
  ASSUME IInv, NEW c \in Consumer, Ack(c) \/ Nack(c)
  PROVE  [Delivery!Next]_Delivery!vars
<1> DEFINE e == consumer[c].event
<1>1. /\ consumer[c].pc = "handling"
      /\ consumer' = [consumer EXCEPT ![c] = Idle]
      /\ acked' \union nacked' = (acked \union nacked) \union {e}
  BY DEF Ack, Nack
<1>2. UNCHANGED <<queue, waiting>>
  BY AnswerPutsNothing
<1>3. consumer'[c].pc = "idle" /\ \A d \in Consumer \ {c} : consumer'[d] = consumer[d]
  BY <1>1 DEF IInv, TypeOK, Idle
<1>4. Returning' = Returning
  BY <1>1, <1>3 DEF Returning
<1>5. Undelivered' = Undelivered
  BY <1>2, <1>4 DEF Undelivered
<1>6. Handled[c] = {e} /\ Handled' = [Handled EXCEPT ![c] = {}]
  BY <1>1, <1>3 DEF Handled
<1>7. Delivery!Answer(c)
  BY <1>1, <1>5, <1>6 DEF Delivery!Answer
<1>8. QED
  BY <1>7 DEF Delivery!Next

LEMMA StepDelivers == IInv /\ [Next]_vars => [Delivery!Next]_Delivery!vars
<1> SUFFICES ASSUME IInv, [Next]_vars PROVE [Delivery!Next]_Delivery!vars
  OBVIOUS
<1>1. ASSUME NEW c \in Consumer, Dequeue(c) \/ Ack(c) \/ Nack(c)
      PROVE  [Delivery!Next]_Delivery!vars
  BY <1>1, GetDelivers, HandOutDelivers, PutBackDelivers, AnswerDelivers DEF Dequeue
<1>2. ASSUME NEW x \in waiting, PutWaiting(x) PROVE [Delivery!Next]_Delivery!vars
  <2>1. queue' \union waiting' = queue \union waiting /\ UNCHANGED <<consumer, acked, nacked>>
    BY <1>2 DEF PutWaiting
  <2>2. Returning' = Returning /\ Handled' = Handled
    BY <2>1 DEF Returning, Handled
  <2>3. QED
    BY <2>1, <2>2, NothingSeen DEF Undelivered
<1>3. CASE Tick \/ UNCHANGED vars
  <2>1. UNCHANGED <<queue, waiting, consumer, acked, nacked>>
    BY <1>3 DEF Tick, vars
  <2>2. Returning' = Returning /\ Handled' = Handled
    BY <2>1 DEF Returning, Handled
  <2>3. QED
    BY <2>1, <2>2, NothingSeen DEF Undelivered
<1>4. QED
  BY <1>1, <1>2, <1>3, EnqueueDelivers DEF Next

(* Every event is in one place until its consumer answers for it, and is   *)
(* handed to one consumer only: the queue implements ExclusiveDelivery     *)
(* (NothingLost; EventQueue.enqueue, dequeue, ack, nack).                  *)
THEOREM EventsAccounted == Spec => NothingLost
<1>1. IInv => OnePlace
  BY DEF IInv
<1>2. QED
  BY <1>1, Invariance, InitDelivers, StepDelivers, PTL DEF Spec, NothingLost, Delivery!Spec

(* What ExclusiveDelivery promises of an event that was handed out.        *)
DeliveredOnce ==
    /\ Undelivered \intersect (acked \union nacked) = {}
    /\ \A c \in Consumer : Handled[c] \intersect (Undelivered \union acked \union nacked) = {}
    /\ \A c, d \in Consumer : c # d => Handled[c] \intersect Handled[d] = {}

LEMMA DeliveryKeepsOnce ==
  ASSUME DeliveredOnce, [Delivery!Next]_Delivery!vars
  PROVE  DeliveredOnce'
<1> DEFINE answered == acked \union nacked
<1>1. DOMAIN Handled = Consumer /\ DOMAIN Handled' = Consumer
  BY DEF Handled
<1>2. /\ Undelivered \intersect answered = {}
      /\ \A c \in Consumer : Handled[c] \intersect (Undelivered \union answered) = {}
      /\ \A c, d \in Consumer : c # d => Handled[c] \intersect Handled[d] = {}
  BY DEF DeliveredOnce
<1>3. ASSUME NEW e \in Event, Delivery!Enqueue(e) PROVE DeliveredOnce'
  <2>1. e \notin answered /\ \A c \in Consumer : e \notin Handled[c]
    BY <1>3 DEF Delivery!Enqueue, Delivery!Known
  <2>2. Undelivered' = Undelivered \union {e} /\ Handled' = Handled /\ answered' = answered
    BY <1>3 DEF Delivery!Enqueue
  <2> HIDE DEF answered
  <2>3. /\ Undelivered' \intersect answered' = {}
        /\ \A c \in Consumer : Handled'[c] \intersect (Undelivered' \union answered') = {}
        /\ \A c, d \in Consumer : c # d => Handled'[c] \intersect Handled'[d] = {}
    BY <1>2, <2>1, <2>2
  <2>4. QED
    BY <2>3 DEF DeliveredOnce, answered
<1>4. ASSUME NEW c \in Consumer, NEW e \in Event, Delivery!Deliver(c, e) PROVE DeliveredOnce'
  <2>1. /\ e \in Undelivered /\ Undelivered' = Undelivered \ {e} /\ answered' = answered
        /\ Handled' = [Handled EXCEPT ![c] = {e}]
    BY <1>4 DEF Delivery!Deliver
  <2> HIDE DEF answered
  <2>2. \A d \in Consumer : Handled'[d] = IF d = c THEN {e} ELSE Handled[d]
    BY <1>1, <2>1
  <2>3. /\ Undelivered' \intersect answered' = {}
        /\ \A d \in Consumer : Handled'[d] \intersect (Undelivered' \union answered') = {}
        /\ \A d, g \in Consumer : d # g => Handled'[d] \intersect Handled'[g] = {}
    BY <1>2, <2>1, <2>2
  <2>4. QED
    BY <2>3 DEF DeliveredOnce, answered
<1>5. ASSUME NEW c \in Consumer, Delivery!Answer(c) PROVE DeliveredOnce'
  <2>1. /\ Undelivered' = Undelivered /\ answered' = answered \union Handled[c]
        /\ Handled' = [Handled EXCEPT ![c] = {}]
    BY <1>5 DEF Delivery!Answer
  <2> HIDE DEF answered
  <2>2. \A d \in Consumer : Handled'[d] = IF d = c THEN {} ELSE Handled[d]
    BY <1>1, <2>1
  <2>3. /\ Undelivered' \intersect answered' = {}
        /\ \A d \in Consumer : Handled'[d] \intersect (Undelivered' \union answered') = {}
        /\ \A d, g \in Consumer : d # g => Handled'[d] \intersect Handled'[g] = {}
    BY <1>2, <2>1, <2>2
  <2>4. QED
    BY <2>3 DEF DeliveredOnce, answered
<1>6. CASE UNCHANGED Delivery!vars
  BY <1>6 DEF Delivery!vars, DeliveredOnce
<1>7. QED
  BY <1>3, <1>4, <1>5, <1>6 DEF Delivery!Next

(* An event is with one consumer at most and, once that one has answered,  *)
(* with none and never to be handed out again, after a nack as after an    *)
(* ack (EventQueue.dequeue, ack, nack).                                    *)
THEOREM EachDeliveredOnce == Spec => []DeliveredOnce
<1>1. Init => DeliveredOnce
  <2> SUFFICES ASSUME Init PROVE DeliveredOnce
    OBVIOUS
  <2>1. Undelivered = {} /\ Handled = [c \in Consumer |-> {}]
    BY InitDelivers DEF Delivery!Init
  <2>2. QED
    BY <2>1 DEF DeliveredOnce
<1>2. QED
  BY <1>1, Invariance, StepDelivers, DeliveryKeepsOnce, PTL DEF Spec

(* The priority queue never exceeds its capacity, though put-backs compete *)
(* with producers for its room (EventQueue.enqueue, dequeue).              *)
THEOREM EventsTypeCorrect == Spec => []TypeOK
<1>1. IInv => TypeOK
  BY DEF IInv
<1> QED BY <1>1, Invariance, PTL
=============================================================================

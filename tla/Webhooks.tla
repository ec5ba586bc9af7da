------------------------------ MODULE Webhooks ------------------------------
(***************************************************************************)
(* WebhookService of api/webhooks/service.py and WebhookDeliveryWorker of  *)
(* api/workers/expiry_worker.py.  With a session a webhook is a row of the *)
(* database and an entry of the pending stream, without one it is only the *)
(* entry.  The worker removes entries from the stream, and nothing in the  *)
(* program hands them to deliver_webhook: a caller outside of it does, as  *)
(* often as it likes.                                                      *)
(*                                                                         *)
(* External: Redis streams, whose commands are atomic; the table           *)
(* webhook_deliveries; and the caller, which keeps one WebhookDelivery     *)
(* object, with its count of attempts, for each entry it was told of.      *)
(***************************************************************************)
EXTENDS Naturals, FiniteSets

CONSTANTS Delivery,     \* delivery_ids
          Replayer,     \* concurrent calls of replay_dead_letter
          MaxRetries,   \* MAX_RETRIES
          MaxReplay,    \* bound on replays of one delivery
          MaxAttempts   \* bound on failed attempts with one object

ASSUME WebhookAssumption ==
    /\ MaxRetries \in Nat \ {0} /\ MaxReplay \in Nat
    /\ MaxAttempts \in Nat /\ MaxAttempts >= MaxRetries

VARIABLES row,        \* deliveries with a committed row
          rowless,    \* deliveries queued by a service that has no session
          queueing,   \* queue_webhook between its commit and its XADD
          pending,    \* entries of webhooks:pending
          read,       \* entries that process_pending_webhooks has read
          queued,     \* history: entries added to webhooks:pending
          attempts,   \* delivery.attempts of the object of an entry
          retry,      \* entries of the webhooks:retry streams
          dead,       \* entries of webhooks:dead_letter
          replay,     \* replay[p]: the letter a replay has found, or added
          requeued,   \* history: letters that a replay queued again
          unrecorded  \* history: failures that no stream took

webhookVars == <<row, rowless, queueing, pending, read, queued, attempts, retry, dead,
                 replay, requeued, unrecorded>>

NoReplay == [pc |-> "idle", letters |-> {}]

(* An entry of the pending stream: the first of its delivery, or a replay. *)
Entry == Delivery \X (0..MaxReplay)

(* An entry and the number of its attempts that failed when it was written *)
(* to a retry stream or to the dead letters.                               *)
Letter == Entry \X (1..MaxAttempts)

WebhookTypeOK ==
    /\ \A s \in {row, rowless, queueing} : s \subseteq Delivery
    /\ \A s \in {pending, read, queued} : s \subseteq Entry
    /\ \A s \in {retry, dead, requeued, unrecorded} : s \subseteq Letter
    /\ attempts \in [Entry -> 0..MaxAttempts]
    /\ replay \in [Replayer -> [pc : {"idle", "found", "added"}, letters : SUBSET Letter]]

WebhookInit ==
    /\ row = {} /\ rowless = {} /\ queueing = {}
    /\ pending = {} /\ read = {} /\ queued = {}
    /\ attempts = [e \in Entry |-> 0]
    /\ retry = {} /\ dead = {} /\ requeued = {} /\ unrecorded = {}
    /\ replay = [p \in Replayer |-> NoReplay]

(* With a session: the row is committed, and then the entry is added. *)
CommitRow(d) ==
    /\ d \notin row \union rowless
    /\ row' = row \union {d}
    /\ queueing' = queueing \union {d}
    /\ UNCHANGED <<rowless, pending, read, queued, attempts, retry, dead, replay, requeued, unrecorded>>

AddPending(d) ==
    /\ d \in queueing
    /\ queueing' = queueing \ {d}
    /\ pending' = pending \union {<<d, 0>>}
    /\ queued' = queued \union {<<d, 0>>}
    /\ UNCHANGED <<row, rowless, read, attempts, retry, dead, replay, requeued, unrecorded>>

(* The process ends or Redis fails: a row that no stream has. *)
AddPendingFails(d) ==
    /\ d \in queueing
    /\ queueing' = queueing \ {d}
    /\ UNCHANGED <<row, rowless, pending, read, queued, attempts, retry, dead, replay, requeued, unrecorded>>

(* Without a session (db is None) the entry is all there is. *)
AddWithoutRow(d) ==
    /\ d \notin row \union rowless
    /\ rowless' = rowless \union {d}
    /\ pending' = pending \union {<<d, 0>>}
    /\ queued' = queued \union {<<d, 0>>}
    /\ UNCHANGED <<row, queueing, read, attempts, retry, dead, replay, requeued, unrecorded>>

(* The job every five seconds: a batch is read, and each entry deleted. *)
ReadPending ==
    /\ read = {} /\ pending # {}
    /\ read' = pending
    /\ UNCHANGED <<row, rowless, queueing, pending, queued, attempts, retry, dead, replay, requeued, unrecorded>>

ProcessPending(e) ==
    /\ e \in read
    /\ read' = read \ {e}
    /\ pending' = pending \ {e}
    /\ UNCHANGED <<row, rowless, queueing, queued, attempts, retry, dead, replay, requeued, unrecorded>>

(* deliver_webhook: the caller has the object of an entry that was added.  *)
(* An answer of 2xx returns and writes nothing.  Any other outcome counts  *)
(* an attempt, whatever the count is; MaxAttempts only bounds the count.   *)
Deliverable(e) == e \in queued /\ attempts[e] < MaxAttempts

IsLast(e) == attempts[e] + 1 >= MaxRetries

DeliverFails(e) ==
    /\ Deliverable(e)
    /\ attempts' = [attempts EXCEPT ![e] = @ + 1]
    /\ \/ IsLast(e) /\ dead' = dead \union {<<e, attempts'[e]>>} /\ UNCHANGED retry
       \/ ~IsLast(e) /\ retry' = retry \union {<<e, attempts'[e]>>} /\ UNCHANGED dead
    /\ UNCHANGED <<row, rowless, queueing, pending, read, queued, replay, requeued, unrecorded>>

(* The attempt and then the XADD fail: the exception leaves the call. *)
DeliverUnrecorded(e) ==
    /\ Deliverable(e)
    /\ attempts' = [attempts EXCEPT ![e] = @ + 1]
    /\ unrecorded' = unrecorded \union {<<e, attempts'[e]>>}
    /\ UNCHANGED <<row, rowless, queueing, pending, read, queued, retry, dead, replay, requeued>>

(* The first letter of the delivery in the stream, whichever it is. *)
FindDead(p, l) ==
    /\ replay[p].pc = "idle" /\ l \in dead
    /\ replay' = [replay EXCEPT ![p] = [pc |-> "found", letters |-> {l}]]
    /\ UNCHANGED <<row, rowless, queueing, pending, read, queued, attempts, retry, dead, requeued, unrecorded>>

Delivered(l) == l[1][1]

(* Fault: the dead letter is deleted before it is queued again. *)
ReplayDeletesFirst(p) ==
    /\ replay[p].pc = "found"
    /\ dead' = dead \ replay[p].letters
    /\ replay' = [replay EXCEPT ![p].pc = "added"]
    /\ UNCHANGED <<row, rowless, queueing, pending, read, queued, attempts, retry, requeued, unrecorded>>

(* Queued again, a new entry with no attempts, whether another replay of   *)
(* the letter did so or not ...                                            *)
ReplayAdds(p) ==
    /\ replay[p].pc = "found"
    /\ \E l \in replay[p].letters, n \in 1..MaxReplay :
          /\ <<Delivered(l), n>> \notin queued
          /\ pending' = pending \union {<<Delivered(l), n>>}
          /\ queued' = queued \union {<<Delivered(l), n>>}
    /\ requeued' = requeued \union replay[p].letters
    /\ replay' = [replay EXCEPT ![p].pc = "added"]
    /\ UNCHANGED <<row, rowless, queueing, read, attempts, retry, dead, unrecorded>>

(* ... and then deleted from the dead letters. *)
ReplayDeletes(p) ==
    /\ replay[p].pc = "added"
    /\ dead' = dead \ replay[p].letters
    /\ replay' = [replay EXCEPT ![p] = NoReplay]
    /\ UNCHANGED <<row, rowless, queueing, pending, read, queued, attempts, retry, requeued, unrecorded>>

ReplayLost(p) ==
    /\ replay[p].pc # "idle"
    /\ replay' = [replay EXCEPT ![p] = NoReplay]
    /\ UNCHANGED <<row, rowless, queueing, pending, read, queued, attempts, retry, dead, requeued, unrecorded>>

WebhookNext ==
    \/ ReadPending
    \/ \E d \in Delivery :
          CommitRow(d) \/ AddPending(d) \/ AddPendingFails(d) \/ AddWithoutRow(d)
    \/ \E e \in Entry :
          ProcessPending(e) \/ DeliverFails(e) \/ DeliverUnrecorded(e)
    \/ \E p \in Replayer :
          \/ \E l \in dead : FindDead(p, l)
          \/ ReplayAdds(p) \/ ReplayDeletes(p) \/ ReplayLost(p)

-----------------------------------------------------------------------------
(* Every failed attempt is in the stream that stands for it, unless the    *)
(* XADD failed too: before the last attempt in a retry stream, from then   *)
(* on in the dead letters, until a replay has queued it again, through     *)
(* crashes of a replay and replays at the same time.                       *)
FailureKept ==
    \A e \in Entry : \A k \in 1..attempts[e] :
        \/ <<e, k>> \in unrecorded
        \/ k < MaxRetries /\ <<e, k>> \in retry
        \/ k >= MaxRetries /\ <<e, k>> \in dead \union requeued

(* Every letter is of an entry that was queued, and every entry, of a      *)
(* replay too, of a delivery that has its row, if the service has a        *)
(* session.                                                                *)
StreamHasRow ==
    /\ \A l \in retry \union dead : l[1] \in queued
    /\ \A e \in queued : e[1] \in row \union rowless

WebhooksSafe == FailureKept /\ StreamHasRow
=============================================================================

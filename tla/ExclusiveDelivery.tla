------------------------- MODULE ExclusiveDelivery -------------------------
(***************************************************************************)
(* What a queue of events promises, whatever its order, delays and limits: *)
(* an event that was enqueued is handed to one consumer, which answers for *)
(* it, and never to another, before or after; until then it is there.      *)
(***************************************************************************)
CONSTANTS Event, Consumer

VARIABLES undelivered,  \* enqueued, and not handed out yet
          handling,     \* handling[c]: the event that a consumer was handed
          answered      \* those whose consumer has answered

vars == <<undelivered, handling, answered>>

Known == undelivered \union answered \union (UNION {handling[c] : c \in Consumer})

Init ==
    /\ undelivered = {}
    /\ handling = [c \in Consumer |-> {}]
    /\ answered = {}

Enqueue(e) ==
    /\ e \notin Known
    /\ undelivered' = undelivered \union {e}
    /\ UNCHANGED <<handling, answered>>

Deliver(c, e) ==
    /\ e \in undelivered /\ handling[c] = {}
    /\ undelivered' = undelivered \ {e}
    /\ handling' = [handling EXCEPT ![c] = {e}]
    /\ UNCHANGED answered

Answer(c) ==
    /\ answered' = answered \union handling[c]
    /\ handling' = [handling EXCEPT ![c] = {}]
    /\ UNCHANGED undelivered

Next ==
    \/ \E e \in Event : Enqueue(e)
    \/ \E c \in Consumer : Answer(c) \/ \E e \in Event : Deliver(c, e)

Spec == Init /\ [][Next]_vars
=============================================================================

---------------------------- MODULE EventDispatch ----------------------------
(***************************************************************************)
(* EventBus of api/events/__init__.py, for events of one type: a publish   *)
(* awaits each middleware, takes the handlers that are subscribed then,    *)
(* runs them side by side and counts what they returned; handlers come and *)
(* go meanwhile.                                                           *)
(***************************************************************************)
EXTENDS Naturals, FiniteSets

CONSTANTS Listener,     \* handlers
          Publication,  \* events, each published once
          Middleware    \* middlewares an event goes through

ASSUME BusAssumption == IsFiniteSet(Listener) /\ IsFiniteSet(Publication)

VARIABLES subscribed,   \* _handlers of the type
          wildcard,     \* _wildcard_handlers
          publication,  \* publication[p]: where its publish is
          calls,        \* calls[p]: how the call of each handler ended
          stats,        \* _stats
          throughout    \* history: handlers subscribed all through a publish

busVars == <<subscribed, wildcard, publication, calls, stats, throughout>>

NotPublished == [pc |-> "new", middleware |-> {}]
Subscribers == subscribed \union wildcard

BusTypeOK ==
    /\ subscribed \subseteq Listener /\ wildcard \subseteq Listener
    /\ publication \in [Publication -> [pc : {"new", "middleware", "gather", "done"},
                                        middleware : SUBSET Middleware]]
    /\ calls \in [Publication -> [Listener -> {"none", "running", "handled", "error"}]]
    /\ stats \in [published : Nat, handled : Nat, errors : Nat]
    /\ throughout \in [Publication -> SUBSET Listener]

BusInit ==
    /\ subscribed = {} /\ wildcard = {}
    /\ publication = [p \in Publication |-> NotPublished]
    /\ calls = [p \in Publication |-> [h \in Listener |-> "none"]]
    /\ stats = [published |-> 0, handled |-> 0, errors |-> 0]
    /\ throughout = [p \in Publication |-> {}]

(* A handler is subscribed to the type or to all, and once.                *)
Subscribe(h) ==
    /\ h \notin Subscribers
    /\ subscribed' = subscribed \union {h}
    /\ UNCHANGED <<wildcard, publication, calls, stats, throughout>>

SubscribeAll(h) ==
    /\ h \notin Subscribers
    /\ wildcard' = wildcard \union {h}
    /\ UNCHANGED <<subscribed, publication, calls, stats, throughout>>

Unsubscribe(h) ==
    /\ h \in subscribed
    /\ subscribed' = subscribed \ {h}
    /\ throughout' = [p \in Publication |-> throughout[p] \ {h}]
    /\ UNCHANGED <<wildcard, publication, calls, stats>>

Publish(p) ==
    /\ publication[p].pc = "new"
    /\ publication' = [publication EXCEPT ![p] = [pc |-> "middleware", middleware |-> Middleware]]
    /\ stats' = [stats EXCEPT !.published = @ + 1]
    /\ throughout' = [throughout EXCEPT ![p] = Subscribers]
    /\ UNCHANGED <<subscribed, wildcard, calls>>

(* A middleware returns or raises; either way the next one follows. *)
RunMiddleware(p, m) ==
    /\ publication[p].pc = "middleware" /\ m \in publication[p].middleware
    /\ publication' = [publication EXCEPT ![p].middleware = @ \ {m}]
    /\ UNCHANGED <<subscribed, wildcard, calls, stats, throughout>>

(* Fault: the handlers for all events are left out. *)
ChosenOfType(h) == h \in subscribed

Chosen(h) == h \in Subscribers

Gather(p) ==
    /\ publication[p].pc = "middleware" /\ publication[p].middleware = {}
    /\ publication' = [publication EXCEPT ![p].pc = "gather"]
    /\ calls' = [calls EXCEPT ![p] = [h \in Listener |-> IF Chosen(h) THEN "running" ELSE "none"]]
    /\ UNCHANGED <<subscribed, wildcard, stats, throughout>>

Handle(p, h, outcome) ==
    /\ calls[p][h] = "running"
    /\ calls' = [calls EXCEPT ![p][h] = outcome]
    /\ UNCHANGED <<subscribed, wildcard, publication, stats, throughout>>

Outcomes(p, outcome) == Cardinality({h \in Listener : calls[p][h] = outcome})

(* Fault: one error is all that is counted. *)
ErrorsOnce(p) == IF Outcomes(p, "error") = 0 THEN 0 ELSE 1

Errors(p) == Outcomes(p, "error")

(* gather returns when every call has ended. *)
Publishes(p) ==
    /\ publication[p].pc = "gather" /\ Outcomes(p, "running") = 0
    /\ publication' = [publication EXCEPT ![p].pc = "done"]
    /\ stats' = [stats EXCEPT !.handled = @ + Outcomes(p, "handled"), !.errors = @ + Errors(p)]
    /\ UNCHANGED <<subscribed, wildcard, calls, throughout>>

BusNext ==
    \/ \E h \in Listener : Subscribe(h) \/ SubscribeAll(h) \/ Unsubscribe(h)
    \/ \E p \in Publication :
          \/ Publish(p) \/ Gather(p) \/ Publishes(p)
          \/ \E m \in Middleware : RunMiddleware(p, m)
          \/ \E h \in Listener, outcome \in {"handled", "error"} : Handle(p, h, outcome)
-----------------------------------------------------------------------------
(* Whoever is subscribed all through a publish gets the event, whatever    *)
(* other handlers and the middlewares raise.                               *)
SubscriberCalled ==
    \A p \in Publication : publication[p].pc = "done" =>
        \A h \in throughout[p] : calls[p][h] \in {"handled", "error"}

(* Every call of an event that is published is counted once. *)
CallsCounted ==
    stats.handled + stats.errors =
        Cardinality({x \in Publication \X Listener :
                        publication[x[1]].pc = "done" /\ calls[x[1]][x[2]] # "none"})

BusSafe == SubscriberCalled /\ CallsCounted
=============================================================================

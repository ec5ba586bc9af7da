---------------------------- MODULE TenantBilling ----------------------------
(***************************************************************************)
(* The row of a tenant under Stripe's webhook (api/billing/__init__.py)    *)
(* and the operators' calls (api/tenant/routes.py), as requests that load  *)
(* the row, await, and commit.  A commit writes only the fields that the   *)
(* request changed from what it loaded.                                    *)
(*                                                                         *)
(* External: Stripe, which sends an event until it is answered with        *)
(* success, also twice at once and in any order; the ORM classes of the    *)
(* tables, which the code imports and only migration 004 describes.  Rows  *)
(* of billing_events without a Stripe event are read by no decision and    *)
(* left out, and with them the checkout that adds one.                     *)
(***************************************************************************)
EXTENDS Naturals, FiniteSets

CONSTANTS BillingWorker,  \* requests in progress at one time
          Tenant,         \* slugs, each a tenant once it is created
          Customer,       \* Stripe customers, each with its subscription
          StripeEvent,
          Content         \* what an event may say

Plan == {"free", "paid"}
NoCustomer == "no customer"
EventContent ==
    [kind : {"checkout", "customer"}, customer : Customer, tenant : Tenant]
        \union [kind : {"created", "created_malformed", "canceled", "past_due", "active", "trialing",
                        "deleted", "paid", "failed", "failed_thrice", "other"}, customer : Customer]

ASSUME BillingAssumption == NoCustomer \notin Customer /\ Content \subseteq EventContent

VARIABLES stripe,     \* stripe[e]: the content of an event
          tenant,     \* rows of tenants
          billing,    \* billing_events: the status of the row of an event
          acked,      \* events that Stripe no longer sends
          work,       \* work[w]: what a request has left to do
          applied,    \* history: times an event was committed to a tenant
          unknown     \* history: events that met no tenant of theirs

billingVars == <<stripe, tenant, billing, acked, work, applied, unknown>>

Row == [status : {"TRIAL", "ACTIVE", "SUSPENDED", "CANCELLED"}, plan : Plan,
        customer : Customer \union {NoCustomer}, subscription : Customer \union {NoCustomer}]
NoRow == [status |-> "none"]
Idle == [step |-> "none"]
Work == {Idle} \union [step : {"insert"}, tenant : Tenant, plan : Plan]
            \union [step : {"handle"}, event : StripeEvent]
            \union [step : {"apply"}, event : StripeEvent, tenant : Tenant, loaded : Row]
            \union [step : {"upgrade"}, tenant : Tenant, plan : Plan, loaded : Row]
            \union [step : {"suspend", "reactivate"}, tenant : Tenant, loaded : Row]

BillingTypeOK ==
    /\ stripe \in [StripeEvent -> Content]
    /\ tenant \in [Tenant -> Row \union {NoRow}]
    /\ billing \in [StripeEvent -> {"none", "completed", "error"}]
    /\ acked \subseteq StripeEvent /\ unknown \subseteq StripeEvent
    /\ work \in [BillingWorker -> Work]
    /\ applied \in [StripeEvent -> 0..2]

BillingInit ==
    /\ stripe \in [StripeEvent -> Content]
    /\ tenant = [t \in Tenant |-> NoRow]
    /\ billing = [e \in StripeEvent |-> "none"]
    /\ acked = {} /\ unknown = {}
    /\ work = [w \in BillingWorker |-> Idle]
    /\ applied = [e \in StripeEvent |-> 0]

Tenants == {t \in Tenant : tenant[t] # NoRow}
Proceed(w, to) == work' = [work EXCEPT ![w] = to]
Reply(w) == Proceed(w, Idle)

(* Flush of a changed row: the fields that differ from what was loaded. *)
Flushed(current, loaded, new) ==
    [f \in DOMAIN current |-> IF new[f] = loaded[f] THEN current[f] ELSE new[f]]

(* The unique columns of tenants. *)
Allowed(t, row) ==
    \A u \in Tenants \ {t} :
        /\ row.customer # NoCustomer => tenant[u].customer # row.customer
        /\ row.subscription # NoCustomer => tenant[u].subscription # row.subscription
-----------------------------------------------------------------------------
(* create_tenant: the slug is looked up, then inserted under its unique    *)
(* constraint.                                                             *)
CreateTenant(w, t, plan) ==
    /\ work[w] = Idle /\ t \notin Tenants
    /\ Proceed(w, [step |-> "insert", tenant |-> t, plan |-> plan])
    /\ UNCHANGED <<stripe, tenant, billing, acked, applied, unknown>>

InsertTenant(w) ==
    /\ work[w].step = "insert"
    /\ tenant' = [tenant EXCEPT ![work[w].tenant] =
                     IF @ # NoRow THEN @
                     ELSE [status |-> "TRIAL", plan |-> work[w].plan,
                           customer |-> NoCustomer, subscription |-> NoCustomer]]
    /\ Reply(w)
    /\ UNCHANGED <<stripe, billing, acked, applied, unknown>>

(* The operators' handlers up to the load of the row. *)
UpgradeLoad(w, t, plan) ==
    /\ work[w] = Idle /\ t \in Tenants
    /\ Proceed(w, [step |-> "upgrade", tenant |-> t, plan |-> plan, loaded |-> tenant[t]])
    /\ UNCHANGED <<stripe, tenant, billing, acked, applied, unknown>>

OperatorLoad(w, t, step) ==
    /\ work[w] = Idle /\ t \in Tenants
    /\ Proceed(w, [step |-> step, tenant |-> t, loaded |-> tenant[t]])
    /\ UNCHANGED <<stripe, tenant, billing, acked, applied, unknown>>

Store(w, new) ==
    LET t == work[w].tenant IN
    /\ tenant' = [tenant EXCEPT ![t] = Flushed(@, work[w].loaded, new)]
    /\ Reply(w)
    /\ UNCHANGED <<stripe, billing, acked, applied, unknown>>

UpgradePlan(w) ==
    /\ work[w].step = "upgrade"
    /\ Store(w, [work[w].loaded EXCEPT !.plan = work[w].plan, !.status = "ACTIVE"])

SuspendTenant(w) ==
    /\ work[w].step = "suspend"
    /\ Store(w, [work[w].loaded EXCEPT !.status = "SUSPENDED"])

ReactivateTenant(w) ==
    /\ work[w].step = "reactivate"
    /\ Store(w, [work[w].loaded EXCEPT !.status = "ACTIVE"])
-----------------------------------------------------------------------------
(* The webhook up to its look for a row of the event. *)
StripeWebhook(w, e) ==
    /\ work[w] = Idle /\ e \notin acked
    /\ IF billing[e] # "none" \/ stripe[e].kind = "other"
       THEN acked' = acked \union {e} /\ UNCHANGED work
       ELSE Proceed(w, [step |-> "handle", event |-> e]) /\ UNCHANGED acked
    /\ UNCHANGED <<stripe, tenant, billing, applied, unknown>>

(* Whose event it is: by id in a checkout and at a customer's creation, by *)
(* stripe_customer_id otherwise.                                           *)
TenantsOf(c) ==
    IF c.kind \in {"checkout", "customer"} THEN Tenants \intersect {c.tenant}
    ELSE {t \in Tenants : tenant[t].customer = c.customer}

(* A handler loads its tenant. *)
HandlerLoads(w) ==
    /\ work[w].step = "handle"
    /\ LET e == work[w].event
           c == stripe[e]
       IN  /\ c.kind # "created_malformed"
           /\ IF TenantsOf(c) = {}
              THEN /\ unknown' = unknown \union {e} /\ acked' = acked \union {e}
                   /\ Reply(w)
              ELSE /\ \E t \in TenantsOf(c) :
                         Proceed(w, [step |-> "apply", event |-> e, tenant |-> t, loaded |-> tenant[t]])
                   /\ UNCHANGED <<unknown, acked>>
    /\ UNCHANGED <<stripe, tenant, billing, applied>>

(* A handler raises before it touched the session, as on a subscription    *)
(* whose plan is null: an "error" row under the event's id, and 500.       *)
HandlerRaises(w) ==
    /\ work[w].step = "handle" /\ stripe[work[w].event].kind = "created_malformed"
    /\ billing' = [billing EXCEPT ![work[w].event] = "error"]
    /\ Reply(w)
    /\ UNCHANGED <<stripe, tenant, acked, applied, unknown>>

HandleCheckoutCompleted(row, c) ==
    [row EXCEPT !.customer = c.customer, !.subscription = c.customer, !.status = "ACTIVE"]
HandleSubscriptionCreated(row, c) == [row EXCEPT !.subscription = c.customer, !.status = "ACTIVE"]

(* Fault: Stripe's status is stored as it is. *)
HandleSubscriptionUpdatedRaw(row, c) == [row EXCEPT !.status = c.kind]

HandleSubscriptionUpdated(row, c) ==
    [row EXCEPT !.status = CASE c.kind = "canceled" -> "CANCELLED"
                             [] c.kind = "past_due" -> "SUSPENDED"
                             [] c.kind = "active" -> "ACTIVE"
                             [] OTHER -> row.status]
HandleSubscriptionDeleted(row, c) ==
    [row EXCEPT !.status = "CANCELLED", !.plan = "free", !.subscription = NoCustomer]
HandleInvoicePaid(row, c) == [row EXCEPT !.status = "ACTIVE"]
HandlePaymentFailed(row, c) ==
    IF c.kind = "failed_thrice" THEN [row EXCEPT !.status = "SUSPENDED"] ELSE row
HandleCustomerCreated(row, c) == [row EXCEPT !.customer = c.customer]

Handled(row, c) ==
    CASE c.kind = "checkout" -> HandleCheckoutCompleted(row, c)
      [] c.kind = "created" -> HandleSubscriptionCreated(row, c)
      [] c.kind \in {"canceled", "past_due", "active", "trialing"} -> HandleSubscriptionUpdated(row, c)
      [] c.kind = "deleted" -> HandleSubscriptionDeleted(row, c)
      [] c.kind = "paid" -> HandleInvoicePaid(row, c)
      [] c.kind \in {"failed", "failed_thrice"} -> HandlePaymentFailed(row, c)
      [] c.kind = "customer" -> HandleCustomerCreated(row, c)

(* All handlers but one add the event's row in the transaction: that of    *)
(* customer.created only sets the customer of its tenant, and does it      *)
(* again at each delivery.                                                 *)
AddsRow(c) == c.kind # "customer"

(* Fault: stripe_event_id is not unique. *)
UniqueNot(e, c) == TRUE

Unique(e, c) == AddsRow(c) => billing[e] = "none"

(* A handler commits.  The answer may be lost on its way to Stripe. *)
HandlerCommits(w) ==
    /\ work[w].step = "apply"
    /\ LET e == work[w].event
           c == stripe[e]
           t == work[w].tenant
           row == Flushed(tenant[t], work[w].loaded, Handled(work[w].loaded, c))
       IN  /\ Unique(e, c) /\ Allowed(t, row)
           /\ tenant' = [tenant EXCEPT ![t] = row]
           /\ billing' = [billing EXCEPT ![e] = IF AddsRow(c) THEN "completed" ELSE @]
           /\ applied' = [applied EXCEPT ![e] = IF AddsRow(c) /\ @ < 2 THEN @ + 1 ELSE @]
           /\ acked' \in {acked, acked \union {e}}
    /\ Reply(w)
    /\ UNCHANGED <<stripe, unknown>>

(* Fault: a failed commit is logged and answered with success. *)
CommitFailsQuietly(w) ==
    /\ work[w].step = "apply"
    /\ acked' = acked \union {work[w].event}
    /\ Reply(w)
    /\ UNCHANGED <<stripe, tenant, billing, applied, unknown>>

(* A commit fails, at a unique column or with the database.  The session   *)
(* then also refuses the "error" row, so nothing is stored, and 500.       *)
CommitFails(w) ==
    /\ work[w].step = "apply"
    /\ Reply(w)
    /\ UNCHANGED <<stripe, tenant, billing, acked, applied, unknown>>

BillingNext ==
    \/ \E w \in BillingWorker, t \in Tenant, plan \in Plan :
          CreateTenant(w, t, plan) \/ UpgradeLoad(w, t, plan)
    \/ \E w \in BillingWorker, t \in Tenant, step \in {"suspend", "reactivate"} : OperatorLoad(w, t, step)
    \/ \E w \in BillingWorker, e \in StripeEvent : StripeWebhook(w, e)
    \/ \E w \in BillingWorker :
          \/ InsertTenant(w) \/ UpgradePlan(w) \/ SuspendTenant(w) \/ ReactivateTenant(w)
          \/ HandlerLoads(w) \/ HandlerRaises(w) \/ HandlerCommits(w) \/ CommitFails(w)

BillingSpec == BillingInit /\ [][BillingNext]_billingVars
-----------------------------------------------------------------------------
(* An event changes a tenant once, however often and in how many requests  *)
(* at a time Stripe delivers it; exactly then it has a completed row.  An  *)
(* event whose handler adds no row (customer.created) is not counted: its  *)
(* handler repeats what it did at every delivery.                          *)
StripeEventOnce ==
    \A e \in StripeEvent : applied[e] = IF billing[e] = "completed" THEN 1 ELSE 0

(* Stripe stops sending an event that was committed, that met no tenant,   *)
(* that nobody handles, or whose first handling raised; no failed commit   *)
(* silences an event.                                                      *)
AckedAccounted ==
    \A e \in acked :
        billing[e] # "none" \/ e \in unknown \/ stripe[e].kind \in {"other", "customer"}
=============================================================================

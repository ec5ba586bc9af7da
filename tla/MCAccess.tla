------------------------------- MODULE MCAccess -------------------------------
(* Who may do what, for TLC: the two ways to sign in, and the parts of      *)
(* tenancy.  They share no state, so a behaviour of this run exercises one  *)
(* of them and the others keep an initial state.                            *)
EXTENDS OAuthAccounts, WebAuthn, TenantBilling, TenantMembers, TenantContext,
        RateLimiter, TenantService, TLC

VARIABLE part

vars == <<part, oauthVars, webauthnVars, billingVars, membersVars, contextVars, limiterVars,
          tenantServiceVars>>

CONSTANTS t1, c1, c2, google, microsoft, a1, a2, a3

(* One account of the second provider; two accounts without e-mail. *)
MCProviderOf == (a1 :> google) @@ (a2 :> google) @@ (a3 :> microsoft)

(* Every kind of event about one customer, and the creation of another,    *)
(* which takes the tenant over.                                            *)
MCContent ==
    {[kind |-> k, customer |-> c1] :
        k \in {"created", "created_malformed", "canceled", "past_due", "active", "trialing",
               "deleted", "paid", "failed", "failed_thrice", "other"}}
        \union {[kind |-> "checkout", customer |-> c1, tenant |-> t1],
                [kind |-> "customer", customer |-> c2, tenant |-> t1]}

(* One initial state of every part that the behaviour does not exercise. *)
Init ==
    /\ OAuthInit /\ WebAuthnInit /\ BillingInit /\ MembersInit /\ ContextInit /\ LimiterInit
    /\ TenantServiceInit
    /\ part \in {"oauth", "webauthn", "billing", "members", "context", "limiter", "service"}
    /\ part # "billing" => \A e \in StripeEvent : stripe[e].kind = "other"
    /\ part # "members" => limit = Unlimited
    /\ part # "context" => \A o \in Org : orgStatus[o] = "ACTIVE"
    /\ part # "limiter" => \A l \in TierLimit : tierLimit <= l

(* Every other part keeps its state. *)
Next ==
    /\ UNCHANGED part
    /\ \/ part = "oauth" /\ OAuthNext
       \/ part # "oauth" /\ UNCHANGED oauthVars
    /\ \/ part = "webauthn" /\ WebAuthnNext
       \/ part # "webauthn" /\ UNCHANGED webauthnVars
    /\ \/ part = "billing" /\ BillingNext
       \/ part # "billing" /\ UNCHANGED billingVars
    /\ \/ part = "members" /\ MembersNext
       \/ part # "members" /\ UNCHANGED membersVars
    /\ \/ part = "context" /\ ContextNext
       \/ part # "context" /\ UNCHANGED contextVars
    /\ \/ part = "limiter" /\ LimiterNext
       \/ part # "limiter" /\ UNCHANGED limiterVars
    /\ \/ part = "service" /\ TenantServiceNext
       \/ part # "service" /\ UNCHANGED tenantServiceVars

Spec == Init /\ [][Next]_vars

Symmetry == Permutations(BillingWorker) \union Permutations(StripeEvent)
-----------------------------------------------------------------------------
(* The money of a tenant: events once, and none silenced. *)
BillingSafe == BillingTypeOK /\ StripeEventOnce /\ AckedAccounted

(* What a tenant's requests are let through by: the members it may have,   *)
(* the tenant of the request, the rate limit and the slug.                 *)
TenancySafe ==
    /\ MembersTypeOK /\ ContextTypeOK /\ LimiterTypeOK /\ TenantServiceTypeOK
    /\ MembersSafe /\ ContextOwn /\ LimiterSafe /\ SlugOfOne
=============================================================================

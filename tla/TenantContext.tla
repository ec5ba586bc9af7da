---------------------------- MODULE TenantContext ----------------------------
(***************************************************************************)
(* TenantMiddleware of api/tenant/middleware.py.  TenantContext keeps the  *)
(* tenant of the request in class attributes, one for the whole process:   *)
(* dispatch clears it, awaits the lookup of the tenant, sets it, and the   *)
(* handler reads it later, with requests of other tenants in between.      *)
(***************************************************************************)
EXTENDS FiniteSets

CONSTANTS Call,   \* requests in progress at one time
          Org     \* tenants

NoOrg == "no tenant"
ASSUME ContextAssumption == NoOrg \notin Org

VARIABLES context,    \* TenantContext._current_tenant and what it implies
          orgStatus,  \* status of the rows
          call,       \* call[c]: where a request is and whose it is
          disturbed,  \* history: requests during which another one used the context
          seen        \* seen[c]: what the handler last read from the context

contextVars == <<context, orgStatus, call, disturbed, seen>>

Away == [step |-> "none", org |-> NoOrg]

ContextTypeOK ==
    /\ context \in Org \union {NoOrg}
    /\ orgStatus \in [Org -> {"ACTIVE", "SUSPENDED", "CANCELLED"}]
    /\ call \in [Call -> [step : {"none", "resolve", "handle"}, org : Org \union {NoOrg}]]
    /\ disturbed \subseteq Call
    /\ seen \in [Call -> Org \union {NoOrg}]

ContextInit ==
    /\ context = NoOrg
    /\ orgStatus \in [Org -> {"ACTIVE", "SUSPENDED", "CANCELLED"}]
    /\ call = [c \in Call |-> Away]
    /\ disturbed = {}
    /\ seen = [c \in Call |-> NoOrg]

Others(c) == {d \in Call \ {c} : call[d] # Away}

(* Fault: the context of the last request is kept until the next tenant's. *)
ClearNot(c) == UNCHANGED context /\ disturbed' = (disturbed \ {c}) \union Others(c)

(* TenantContext.clear, first thing in dispatch. *)
Clear(c) == context' = NoOrg /\ disturbed' = (disturbed \ {c}) \union Others(c)

(* dispatch: an excluded path goes to its handler without a tenant, any    *)
(* other one names a tenant by header, subdomain or API key, or none.      *)
DispatchExcluded(c) ==
    /\ call[c] = Away /\ Clear(c)
    /\ call' = [call EXCEPT ![c] = [step |-> "handle", org |-> NoOrg]]
    /\ seen' = [seen EXCEPT ![c] = NoOrg]
    /\ UNCHANGED orgStatus

Dispatch(c, o) ==
    /\ call[c] = Away /\ Clear(c)
    /\ call' = [call EXCEPT ![c] = [step |-> "resolve", org |-> o]]
    /\ seen' = [seen EXCEPT ![c] = o]
    /\ UNCHANGED orgStatus

(* The lookup returns: 403 for a suspended or cancelled tenant, set_tenant *)
(* for another one, and the handler.                                       *)
Resolve(c) ==
    LET o == call[c].org IN
    /\ call[c].step = "resolve"
    /\ IF o # NoOrg /\ orgStatus[o] # "ACTIVE"
       THEN call' = [call EXCEPT ![c] = Away] /\ UNCHANGED <<context, disturbed>>
       ELSE /\ call' = [call EXCEPT ![c].step = "handle"]
            /\ context' = IF o = NoOrg THEN context ELSE o
            /\ disturbed' = IF o = NoOrg THEN disturbed ELSE disturbed \union Others(c)
    /\ UNCHANGED <<orgStatus, seen>>

(* get_current_tenant, require_tenant, require_feature and require_quota,  *)
(* at any time during the handler.                                         *)
GetTenant(c) ==
    /\ call[c].step = "handle"
    /\ seen' = [seen EXCEPT ![c] = context]
    /\ UNCHANGED <<context, orgStatus, call, disturbed>>

(* The response leaves the context as it is. *)
Respond(c) ==
    /\ call[c].step = "handle"
    /\ call' = [call EXCEPT ![c] = Away]
    /\ UNCHANGED <<context, orgStatus, disturbed, seen>>

OrgChanges(o, status) ==
    /\ orgStatus' = [orgStatus EXCEPT ![o] = status]
    /\ UNCHANGED <<context, call, disturbed, seen>>

ContextNext ==
    \/ \E c \in Call : DispatchExcluded(c) \/ Resolve(c) \/ GetTenant(c) \/ Respond(c)
    \/ \E c \in Call, o \in Org \union {NoOrg} : Dispatch(c, o)
    \/ \E o \in Org, status \in {"ACTIVE", "SUSPENDED", "CANCELLED"} : OrgChanges(o, status)

ContextSpec == ContextInit /\ [][ContextNext]_contextVars
-----------------------------------------------------------------------------
(* A handler reads its own tenant, or none if the request has none, unless *)
(* another request used the context while this one was in progress:        *)
(* nothing is left over from the requests that ended before.               *)
ContextOwn ==
    \A c \in Call : call[c].step = "handle" /\ c \notin disturbed => seen[c] = call[c].org
=============================================================================

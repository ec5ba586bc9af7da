---------------------------- MODULE TenantService ----------------------------
(***************************************************************************)
(* TenantService of api/tenant/__init__.py: tenants, an index by slug and  *)
(* usage records in memory, each call one step.  update_tenant sets any    *)
(* attribute, the slug included, and leaves the index as it is.  Its       *)
(* check_quota and the sums of usage are only read, by decorators that no  *)
(* route carries, and are left out.                                        *)
(***************************************************************************)
EXTENDS Naturals, FiniteSets

CONSTANTS Entity,     \* tenants that may be created
          Slug,
          ServicePlan,
          MaxUsage    \* bound on the records of a tenant

NoSlug == "no slug"
NoEntity == "no tenant"

ASSUME TenantServiceAssumption ==
    /\ NoSlug \notin Slug /\ NoEntity \notin Entity
    /\ "free" \in ServicePlan
    /\ MaxUsage \in Nat

VARIABLES entity,     \* _tenants
          slugIndex,  \* _slug_index
          usage,      \* _usage: the number of records of a tenant
          renamed     \* history: tenants whose slug update_tenant changed

tenantServiceVars == <<entity, slugIndex, usage, renamed>>

Absent == [slug |-> NoSlug, plan |-> "free", status |-> "none"]

TenantServiceTypeOK ==
    /\ entity \in [Entity -> [slug : Slug \union {NoSlug}, plan : ServicePlan,
                              status : {"none", "TRIAL", "ACTIVE", "SUSPENDED"}]]
    /\ slugIndex \in [Slug -> Entity \union {NoEntity}]
    /\ usage \in [Entity -> 0..MaxUsage]
    /\ renamed \subseteq Entity

TenantServiceInit ==
    /\ entity = [t \in Entity |-> Absent]
    /\ slugIndex = [s \in Slug |-> NoEntity]
    /\ usage = [t \in Entity |-> 0]
    /\ renamed = {}

Present == {t \in Entity : entity[t] # Absent}
GetTenantBySlug(s) == slugIndex[s]

(* Fault: the slug is looked up among the tenants, not in the index. *)
SlugFreeOfTenants(s) == TRUE

SlugFree(s) == slugIndex[s] = NoEntity

CreateEntity(t, s, plan) ==
    /\ t \notin Present /\ SlugFree(s)
    /\ entity' = [entity EXCEPT ![t] = [slug |-> s, plan |-> plan, status |-> "TRIAL"]]
    /\ slugIndex' = [slugIndex EXCEPT ![s] = t]
    /\ usage' = [usage EXCEPT ![t] = 0]
    /\ UNCHANGED renamed

(* update_tenant with a new slug. *)
UpdateSlug(t, s) ==
    /\ t \in Present /\ entity[t].slug # s
    /\ entity' = [entity EXCEPT ![t].slug = s]
    /\ renamed' = renamed \union {t}
    /\ UNCHANGED <<slugIndex, usage>>

UpgradeEntity(t, plan) ==
    /\ t \in Present
    /\ entity' = [entity EXCEPT ![t].plan = plan, ![t].status = "ACTIVE"]
    /\ UNCHANGED <<slugIndex, usage, renamed>>

SetEntityStatus(t, status) ==
    /\ t \in Present
    /\ entity' = [entity EXCEPT ![t].status = status]
    /\ UNCHANGED <<slugIndex, usage, renamed>>

SuspendEntity(t) == SetEntityStatus(t, "SUSPENDED")
ReactivateEntity(t) == SetEntityStatus(t, "ACTIVE")

(* record_usage: for a tenant that is not there as well, and create_tenant *)
(* starts it again at nothing.                                             *)
RecordUsage(t) ==
    /\ usage[t] < MaxUsage
    /\ usage' = [usage EXCEPT ![t] = @ + 1]
    /\ UNCHANGED <<entity, slugIndex, renamed>>

TenantServiceNext ==
    \/ \E t \in Entity, s \in Slug, plan \in ServicePlan : CreateEntity(t, s, plan)
    \/ \E t \in Entity, s \in Slug : UpdateSlug(t, s)
    \/ \E t \in Entity, plan \in ServicePlan : UpgradeEntity(t, plan)
    \/ \E t \in Entity : SuspendEntity(t) \/ ReactivateEntity(t) \/ RecordUsage(t)

TenantServiceSpec == TenantServiceInit /\ [][TenantServiceNext]_tenantServiceVars
-----------------------------------------------------------------------------
(* A slug leads to the tenant that has it and no other tenant has it,      *)
(* unless update_tenant gave some tenant another slug.                     *)
SlugOfOne ==
    \A t \in Present \ renamed :
        /\ GetTenantBySlug(entity[t].slug) = t
        /\ \A u \in Present \ {t} : entity[u].slug = entity[t].slug => u \in renamed
=============================================================================

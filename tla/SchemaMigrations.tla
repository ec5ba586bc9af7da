-------------------------- MODULE SchemaMigrations --------------------------
(***************************************************************************)
(* The database schema: the nine revisions of api/migrations/versions as   *)
(* sequences of DDL statements, alembic's commands over them (env.py: one  *)
(* transaction per command), and the create_all of api/main.py that every  *)
(* process of the application runs when it starts.  PostgreSQL's rules for *)
(* a statement are external.  Columns are left out but for those that      *)
(* refer to another table.                                                 *)
(***************************************************************************)
EXTENDS Naturals, Sequences, SequencesExt

CONSTANT App                \* processes of the application

VARIABLES schema,       \* the objects of the database
          revision,     \* alembic_version; 0: base
          outcome,      \* of the last alembic command
          app,          \* phase of a process
          missing       \* tables its start found missing

schemaVars == <<schema, revision, outcome, app, missing>>
-----------------------------------------------------------------------------
(* An object: a table, an index of a table, or a column added to one, with *)
(* the tables it refers to and the type of the referring columns, which is *)
(* in this code the type of the table's own id.                            *)
Table(name, refs) == [kind |-> "table", name |-> name, of |-> name, refs |-> refs, key |-> "uuid"]
TextTable(name, refs) == [Table(name, refs) EXCEPT !.key = "text"]
Index(name, of) == [kind |-> "index", name |-> name, of |-> of, refs |-> {}, key |-> "uuid"]
TenantColumn == [kind |-> "column", name |-> "tenant_id", of |-> "data_fiduciaries",
                 refs |-> {"tenants"}, key |-> "uuid"]

Create(object) == [do |-> "create", object |-> object]
Drop(kind, name) == [do |-> "drop", object |-> [kind |-> kind, name |-> name]]
CreateEach(objects) == [i \in 1 .. Len(objects) |-> Create(objects[i])]
TableDrop(name) == Drop("table", name)
IndexDrop(name) == Drop("index", name)
ColumnDrop(name) == Drop("column", name)

(* What each upgrade creates and each downgrade does, in order. *)
Up1 == <<
    Table("data_principals", {}), Index("ix_data_principals_wallet_address", "data_principals"),
    Table("data_fiduciaries", {}),
    Table("consent_records", {"data_principals", "data_fiduciaries"}),
    Index("ix_consent_records_principal_fiduciary", "consent_records"),
    Index("ix_consent_records_status", "consent_records"),
    Table("consent_events", {"consent_records"}),
    Index("ix_consent_events_consent_id", "consent_events"),
    Index("ix_consent_events_created_at", "consent_events"),
    Table("audit_logs", {"data_principals", "data_fiduciaries"}),
    Index("ix_audit_logs_principal", "audit_logs"),
    Index("ix_audit_logs_fiduciary", "audit_logs"),
    Index("ix_audit_logs_created_at", "audit_logs"),
    Table("merkle_roots", {}),
    Table("compliance_reports", {"data_fiduciaries"})>>
Down1 == <<
    TableDrop("compliance_reports"), TableDrop("merkle_roots"),
    TableDrop("audit_logs"), TableDrop("consent_events"),
    TableDrop("consent_records"), TableDrop("data_fiduciaries"),
    TableDrop("data_principals")>>

Up2 == <<
    Table("grievances", {"data_principals", "data_fiduciaries"}),
    Index("ix_grievances_principal_id", "grievances"),
    Index("ix_grievances_fiduciary_id", "grievances"),
    Index("ix_grievances_status", "grievances"),
    Index("ix_grievances_created_at", "grievances"),
    Table("grievance_communications", {"grievances"}),
    Index("ix_grievance_communications_grievance_id", "grievance_communications"),
    Table("guardians", {"data_principals"}),
    Index("ix_guardians_guardian_wallet", "guardians"),
    Index("ix_guardians_principal_id", "guardians"),
    Index("ix_guardians_status", "guardians"),
    Table("guardian_audit", {"guardians"}),
    Index("ix_guardian_audit_guardian_id", "guardian_audit")>>
(* Fault: the guardians go before the audit rows that refer to them. *)
Down2Unordered == <<
    TableDrop("guardians"), TableDrop("guardian_audit"),
    TableDrop("grievance_communications"), TableDrop("grievances")>>
Down2 == <<
    TableDrop("guardian_audit"), TableDrop("guardians"),
    TableDrop("grievance_communications"), TableDrop("grievances")>>

Up3 == <<
    Table("deletion_requests", {"data_principals", "data_fiduciaries"}),
    Index("ix_deletion_principal_status", "deletion_requests"),
    Index("ix_deletion_fiduciary_status", "deletion_requests"),
    Table("consent_templates", {}),
    Index("ix_consent_templates_name", "consent_templates"),
    Index("ix_consent_templates_category", "consent_templates"),
    Index("ix_consent_templates_active", "consent_templates"),
    Table("notifications", {"data_principals"}),
    Index("ix_notifications_principal_id", "notifications"),
    Index("ix_notifications_type", "notifications"),
    Index("ix_notifications_read", "notifications"),
    Index("ix_notifications_created_at", "notifications"),
    Index("ix_notification_principal_read", "notifications"),
    Index("ix_consent_fiduciary_status", "consent_records"),
    Index("ix_consent_principal_status", "consent_records"),
    Index("ix_consent_expires_status", "consent_records"),
    Index("ix_consent_fiduciary_created", "consent_records"),
    Index("ix_event_consent_created", "consent_events"),
    Index("ix_event_type_created", "consent_events")>>
(* Fault: only the tables are dropped, as the downgrade of 002 does. *)
Down3TablesOnly == <<
    TableDrop("notifications"), TableDrop("consent_templates"),
    TableDrop("deletion_requests")>>
Down3 == <<
    IndexDrop("ix_event_type_created"), IndexDrop("ix_event_consent_created"),
    IndexDrop("ix_consent_fiduciary_created"),
    IndexDrop("ix_consent_expires_status"),
    IndexDrop("ix_consent_principal_status"),
    IndexDrop("ix_consent_fiduciary_status"),
    IndexDrop("ix_notification_principal_read"),
    IndexDrop("ix_notifications_created_at"), IndexDrop("ix_notifications_read"),
    IndexDrop("ix_notifications_type"), IndexDrop("ix_notifications_principal_id"),
    TableDrop("notifications"), IndexDrop("ix_consent_templates_active"),
    IndexDrop("ix_consent_templates_category"),
    IndexDrop("ix_consent_templates_name"), TableDrop("consent_templates"),
    IndexDrop("ix_deletion_fiduciary_status"),
    IndexDrop("ix_deletion_principal_status"), TableDrop("deletion_requests")>>

Up4 == <<
    Table("tenants", {}),
    Index("ix_tenants_slug", "tenants"), Index("ix_tenants_plan", "tenants"),
    Index("ix_tenants_status", "tenants"),
    Table("tenant_members", {"tenants"}),
    Index("ix_tenant_members_tenant_id", "tenant_members"),
    Index("ix_tenant_members_user_id", "tenant_members"),
    Index("ix_tenant_members_role", "tenant_members"),
    Table("usage_records", {"tenants"}),
    Index("ix_usage_records_tenant_id", "usage_records"),
    Index("ix_usage_records_resource_type", "usage_records"),
    Index("ix_usage_records_timestamp", "usage_records"),
    Table("billing_events", {}),
    Index("ix_billing_events_tenant_id", "billing_events"),
    Index("ix_billing_events_event_type", "billing_events"),
    TenantColumn, Index("ix_data_fiduciaries_tenant_id", "data_fiduciaries")>>
Down4 == <<
    IndexDrop("ix_data_fiduciaries_tenant_id"), ColumnDrop("tenant_id"),
    TableDrop("billing_events"), TableDrop("usage_records"),
    TableDrop("tenant_members"), TableDrop("tenants")>>

Up5 == <<
    TextTable("cross_border_transfers", {}),
    Index("ix_transfer_fiduciary", "cross_border_transfers"),
    Index("ix_transfer_principal", "cross_border_transfers"),
    Index("ix_fiduciary_api_key_hash", "data_fiduciaries"),
    Index("ix_webhook_sub_fid_active_events", "webhook_subscriptions"),
    Index("ix_grievance_status_resdate", "grievances"),
    Index("ix_deletion_status_created", "deletion_requests"),
    Index("ix_audit_fiduciary_action", "audit_logs")>>
Down5 == <<
    IndexDrop("ix_audit_fiduciary_action"), IndexDrop("ix_deletion_status_created"),
    IndexDrop("ix_grievance_status_resdate"),
    IndexDrop("ix_webhook_sub_fid_active_events"),
    IndexDrop("ix_fiduciary_api_key_hash"), TableDrop("cross_border_transfers")>>

Up6 == <<TextTable("blockchain_operations", {"consent_records"}),
    Index("idx_blockchain_consent", "blockchain_operations"),
    Index("idx_blockchain_status", "blockchain_operations")>>

Up7 == <<TextTable("token_blacklist", {}), Index("idx_token_expires", "token_blacklist")>>

Up8 == <<TextTable("webauthn_credentials", {"data_principals"}),
    Index("ix_webauthn_principal", "webauthn_credentials"),
    Index("ix_webauthn_credential_id", "webauthn_credentials")>>

Up9 == <<TextTable("mobile_devices", {"data_principals"}),
    Index("ix_mobile_device_principal", "mobile_devices"),
    Index("ix_mobile_device_token", "mobile_devices")>>

Upgrades == <<Up1, Up2, Up3, Up4, Up5, Up6, Up7, Up8, Up9>>
Downgrades == <<Down1, Down2, Down3, Down4, Down5,
    <<TableDrop("blockchain_operations")>>, <<TableDrop("token_blacklist")>>,
    <<TableDrop("webauthn_credentials")>>, <<TableDrop("mobile_devices")>>>>
Latest == Len(Upgrades)
-----------------------------------------------------------------------------
Tables(objects) == {o \in objects : o.kind = "table"}
Named(objects, kind, name) == {o \in objects : o.kind = kind /\ o.name = name}

(* PostgreSQL: a created object has a new name, its table exists, and every *)
(* foreign key finds a key of its own type; a table that another one refers *)
(* to is not dropped.                                                      *)
Possible(objects, statement) ==
    LET o == statement.object IN
    IF statement.do = "create"
    THEN /\ Named(objects, o.kind, o.name) = {}
         /\ o.kind # "table" => Named(objects, "table", o.of) # {}
         /\ \A r \in o.refs : \E t \in Tables(objects) : t.name = r /\ t.key = o.key
    ELSE /\ Named(objects, o.kind, o.name) # {}
         /\ o.kind = "table" =>
                \A p \in objects : p.of # o.name => o.name \notin p.refs

Done(objects, statement) ==
    LET o == statement.object IN
    IF statement.do = "create" THEN objects \union {o}
    ELSE IF o.kind = "table" THEN {p \in objects : p.of # o.name}
         ELSE objects \ Named(objects, o.kind, o.name)

(* A transaction so far: nothing more is done once a statement has failed. *)
Start(objects) == [state |-> "open", objects |-> objects]
Executed(run, statement) ==
    IF run.state = "open" /\ Possible(run.objects, statement)
    THEN Start(Done(run.objects, statement))
    ELSE [state |-> "failed", objects |-> run.objects]

(* One statement after the other, up to the first that fails. *)
Execute(run, statements) ==
    LET after[k \in 0 .. Len(statements)] ==
            IF k = 0 THEN run ELSE Executed(after[k - 1], statements[k])
    IN  after
Finished(run, statements) ==
    IF run.state = "open" THEN Execute(run, statements)[Len(statements)] ELSE run

(* The scripts of an alembic command, by the chain of down_revisions. *)
Scripts(from, to) ==
    IF from <= to THEN [i \in 1 .. to - from |-> CreateEach(Upgrades[from + i])]
    ELSE [i \in 1 .. from - to |-> Downgrades[from + 1 - i]]

Command(run, scripts) ==
    LET after[k \in 0 .. Len(scripts)] ==
            IF k = 0 THEN run ELSE Finished(after[k - 1], scripts[k])
    IN  after

(* The tables of api/database.py, as create_all makes them. *)
Models == {Table("data_principals", {}), Table("data_fiduciaries", {}),
           Table("consent_records", {"data_principals", "data_fiduciaries"}),
           Table("consent_events", {"consent_records"}),
           Table("audit_logs", {"data_principals", "data_fiduciaries"}),
           Table("merkle_roots", {}), Table("compliance_reports", {"data_fiduciaries"})}
ModelIndexes == {Index("ix_data_principals_wallet_address", "data_principals")}

(* A table that revision 005 indexes and that nothing here creates. *)
Foreign == {Table("webhook_subscriptions", {})}

SchemaInit ==
    /\ schema \in {{}, Foreign}
    /\ revision = 0 /\ outcome = "none"
    /\ app = [a \in App |-> "down"]
    /\ missing = [a \in App |-> {}]

(* alembic upgrade or downgrade: one transaction, so all of it or nothing. *)
Migrate(to) ==
    /\ to # revision
    /\ \E scripts \in {Scripts(revision, to)} :
       \E run \in {Command(Start(schema), scripts)[Len(scripts)]} :
       \/ /\ run.state = "open"
          /\ schema' = run.objects
          /\ revision' = to
          /\ outcome' = IF to > revision THEN "upgraded" ELSE "downgraded"
       \/ /\ run.state = "failed"
          /\ UNCHANGED <<schema, revision>>
          /\ outcome' = IF to > revision THEN "upgrade refused" ELSE "downgrade refused"
    /\ UNCHANGED <<app, missing>>

(* create_all asks which tables are missing, and then creates those. *)
StartCheck(a) ==
    /\ app[a] = "down"
    /\ app' = [app EXCEPT ![a] = "starting"]
    /\ missing' = [missing EXCEPT ![a] =
           {t \in Models : Named(schema, "table", t.name) = {}}]
    /\ UNCHANGED <<schema, revision, outcome>>

Missed(a) == missing[a] \union {i \in ModelIndexes : \E t \in missing[a] : t.name = i.of}

StartCreate(a) ==
    /\ app[a] = "starting"
    /\ \A o \in Missed(a) : Named(schema, o.kind, o.name) = {}
    /\ schema' = schema \union Missed(a)
    /\ app' = [app EXCEPT ![a] = "up"]
    /\ missing' = [missing EXCEPT ![a] = {}]
    /\ UNCHANGED <<revision, outcome>>

(* Someone created one of them since: the transaction fails, the process   *)
(* ends, and is started again.                                             *)
StartFails(a) ==
    /\ app[a] = "starting"
    /\ \E o \in Missed(a) : Named(schema, o.kind, o.name) # {}
    /\ app' = [app EXCEPT ![a] = "down"]
    /\ missing' = [missing EXCEPT ![a] = {}]
    /\ UNCHANGED <<schema, revision, outcome>>

Stop(a) ==
    /\ app[a] = "up"
    /\ app' = [app EXCEPT ![a] = "down"]
    /\ UNCHANGED <<schema, revision, outcome, missing>>

SchemaNext ==
    \/ \E to \in 0 .. Latest : Migrate(to)
    \/ \E a \in App : StartCheck(a) \/ StartCreate(a) \/ StartFails(a) \/ Stop(a)
-----------------------------------------------------------------------------
SchemaTypeOK ==
    /\ \A o \in schema : o.kind \in {"table", "index", "column"}
    /\ revision \in 0 .. Latest
    /\ outcome \in {"none", "upgraded", "upgrade refused", "downgraded", "downgrade refused"}
    /\ app \in [App -> {"down", "starting", "up"}]
    /\ missing \in [App -> SUBSET Models]

(* Everything that the upgrades up to a revision create. *)
Created(r) == UNION {Range(Upgrades[i]) : i \in 1 .. r}

(* Whatever upgrades and downgrades were run and whenever processes        *)
(* started: above the base the schema is exactly what the upgrades to the  *)
(* revision create, so a downgrade leaves nothing behind that the next     *)
(* upgrade would find there; at the base it is empty or create_all's.      *)
SchemaOfRevision ==
    \/ revision > 0 /\ schema \ Foreign = Created(revision)
    \/ revision = 0 /\ schema \ Foreign \in {{}, Models \union ModelIndexes}

(* No downgrade is refused: none drops a table that another refers to.     *)
SchemaSafe == SchemaTypeOK /\ SchemaOfRevision /\ outcome # "downgrade refused"
=============================================================================

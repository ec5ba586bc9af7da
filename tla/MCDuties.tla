------------------------------- MODULE MCDuties -------------------------------
(* What a fiduciary owes, for TLC: breaches, grievances, guardians and      *)
(* children; the ways a message or a cached answer leaves the server; and   *)
(* the records that are kept and reported.  They share no state, so a       *)
(* behaviour of this run exercises one of them and the others keep an       *)
(* initial state.                                                           *)
EXTENDS Breach, Grievance, Guardian,
        Webhooks, ConsentCache, Channels, PushDevices, EventDispatch,
        SchemaMigrations, ChainClient, AuditLedger, Reports,
        ConsentBatch, SdkClient

VARIABLE duty

caseworkVars == <<breachVars, grievanceVars, guardianVars, childVars>>
deliveryVars == <<webhookVars, cacheVars, channelVars, pushVars, busVars>>
recordsVars == <<schemaVars, chainVars, ledgerVars, reportVars, batchVars, sdkVars>>
vars == <<duty, caseworkVars, deliveryVars, recordsVars>>

(* One initial state of every part that the behaviour does not exercise. *)
Init ==
    /\ BreachInit /\ GrievanceInit /\ GuardianInit /\ ChildInit
    /\ WebhookInit /\ CacheInit /\ ChannelInit /\ PushInit /\ BusInit
    /\ SchemaInit /\ ChainInit /\ LedgerInit /\ ReportsInit
    /\ BatchInit /\ SdkInit
    /\ duty \in {"breach", "grievance", "guardian", "child",
                 "webhook", "cache", "channel", "push", "bus",
                 "schema", "chain", "ledger", "report", "batch", "sdk"}
    /\ duty # "child" => registered = {}
    /\ duty # "cache" => ~redis
    /\ duty # "schema" => schema = {}

(* Every other part keeps its state. *)
Next ==
    /\ UNCHANGED duty
    /\ \/ duty = "breach" /\ BreachNext
       \/ duty # "breach" /\ UNCHANGED breachVars
    /\ \/ duty = "grievance" /\ GrievanceNext
       \/ duty # "grievance" /\ UNCHANGED grievanceVars
    /\ \/ duty = "guardian" /\ GuardianNext
       \/ duty # "guardian" /\ UNCHANGED guardianVars
    /\ \/ duty = "child" /\ ChildNext
       \/ duty # "child" /\ UNCHANGED childVars
    /\ \/ duty = "webhook" /\ WebhookNext
       \/ duty # "webhook" /\ UNCHANGED webhookVars
    /\ \/ duty = "cache" /\ CacheNext
       \/ duty # "cache" /\ UNCHANGED cacheVars
    /\ \/ duty = "channel" /\ ChannelNext
       \/ duty # "channel" /\ UNCHANGED channelVars
    /\ \/ duty = "push" /\ PushNext
       \/ duty # "push" /\ UNCHANGED pushVars
    /\ \/ duty = "bus" /\ BusNext
       \/ duty # "bus" /\ UNCHANGED busVars
    /\ \/ duty = "schema" /\ SchemaNext
       \/ duty # "schema" /\ UNCHANGED schemaVars
    /\ \/ duty = "chain" /\ ChainNext
       \/ duty # "chain" /\ UNCHANGED chainVars
    /\ \/ duty = "ledger" /\ LedgerNext
       \/ duty # "ledger" /\ UNCHANGED ledgerVars
    /\ \/ duty = "report" /\ ReportsNext
       \/ duty # "report" /\ UNCHANGED reportVars
    /\ \/ duty = "batch" /\ BatchNext
       \/ duty # "batch" /\ UNCHANGED batchVars
    /\ \/ duty = "sdk" /\ SdkNext
       \/ duty # "sdk" /\ UNCHANGED sdkVars

Spec == Init /\ [][Next]_vars

-----------------------------------------------------------------------------
(* What the deadline checks and the audit trails say is so, as far as the  *)
(* calls that wrote it did not cross; and each part keeps its type.        *)
CaseworkSafe ==
    /\ BreachTypeOK /\ GrievanceTypeOK /\ GuardianTypeOK /\ ChildTypeOK
    /\ OverdueAlerted /\ DescriptionKept
    /\ SlaReported
    /\ GuardianSafe

(* What is sent reaches its own addressees and no others, what failed is   *)
(* kept where it is looked for, what was invalidated in the cache is not   *)
(* served again; and each part keeps its type.                             *)
DeliverySafe ==
    /\ WebhookTypeOK /\ CacheTypeOK /\ ChannelTypeOK /\ PushTypeOK /\ BusTypeOK
    /\ WebhooksSafe /\ ChannelsSafe /\ PushSafe /\ BusSafe
    /\ FreshAfterInvalidate

(* What is recorded can be relied on: a call of the chain that returned    *)
(* took effect once, what the database says is anchored is, a report has   *)
(* what explains it, a batch reports as created what is, and a client of   *)
(* the API makes and acts on the consents it was answered.                 *)
RecordsSafe ==
    ChainClientSafe /\ LedgerSafe /\ ReportsSafe /\ BatchSafe /\ SdkSafe

(* What a sequence of statements or of hashes builds is what it stands     *)
(* for: the schema is the one of its revision, and the proofs taken from   *)
(* the tree of a row's events verify against its root.                     *)
StructuresSafe == SchemaSafe /\ ProofsOfRows
=============================================================================

# Verification of ConsentChain

ConsentChain keeps records of the consents people give to organisations (data
fiduciaries, under India's DPDP Act): a FastAPI service over PostgreSQL and Redis,
which registers every consent with a smart contract on Algorand. This directory holds
TLA+ models of its core, TLC configurations that check them on small instances, and
proofs that hold for every size. Paths below are relative to `src/`.

Contents: 1 the system, 2 the models, 3 runs and bounds, 4 fairness, 5 proofs,
6 disagreements between code and its documents, 7 observations without a run,
8 not modelled, 9 plan.

## 1. The system

### Components, state, operations

| component | state it keeps | operations |
|---|---|---|
| Registry contract v2 (`contracts_v2/consent_registry.py`) | one box per consent hash, three `uint64` counters | register, revoke, modify, expire, verify |
| Audit trail contract (`contracts_v2/audit_trail.py`), Merkle trees (`core/crypto.py`) | event boxes, the last anchored root, a counter, the last hash; rows of `merkle_roots` | log_event, batch_log_events; generate_merkle_root |
| Chain client (`contracts/client.py`) | transactions on their way | build, sign, send, wait |
| Consent service (`api/services.py`), batches (`api/main.py`) | rows of `consent_records`, `consent_events`, `audit_logs` | create, revoke, modify, verify, query; a batch of creations |
| Expiry and deadline workers (`api/workers/expiry_worker.py`) | the batch of a run | expire what is past its date; remind of and escalate deletion deadlines |
| Blockchain queue (`api/blockchain_queue.py`) | a Redis stream, a dead-letter stream, one lock key | enqueue, the processor loop, status |
| Circuit breaker (`api/resilience/circuit_breaker.py`) | state, counters, time of the last transition | call, reset |
| Graceful shutdown (`api/lifecycle/shutdown.py`) | phase, the set of active requests, handlers | request_context, initiate_shutdown |
| Data deletion (`api/deletion/`) | one row per request; the rows it erases | create, verify, execute, schedule |
| Event queue and bus (`api/events/`) | a priority queue, the dictionary `_pending`, subscriptions | enqueue, dequeue, ack, nack; subscribe, publish |
| Webhooks (`api/webhooks/`) | delivery rows, pending, retry and dead-letter streams | queue, process, deliver, replay |
| Breach, grievance, guardian, children (`api/breach/`, `api/grievance/`, `api/guardian/`, `api/routes/children.py`) | status rows with deadlines and audit trails | report/notify, submit/acknowledge/escalate/resolve, register/verify/revoke, grant/verify |
| Identity (`api/oauth/`, `api/webauthn/`) | OAuth states, links, challenges and sign counters | authorize, callback, link, unlink; register, authenticate, remove |
| Cache, rate limits (`api/cache/`, `api/middleware/rate_limiting.py`) | Redis keys, a local dictionary | get/set/invalidate; admit |
| Tenants and billing (`api/tenant/`, `api/billing/`) | rows of tenants, members and billing events; a context shared by requests; an in-memory service | create, upgrade, suspend, invite, remove; Stripe's webhook |
| Web sockets and devices (`api/websocket/`, `api/mobile/`) | sockets by party; devices and lists of users | connect, broadcast; register, push |
| Schema (`api/database.py`, `api/migrations/`) | the tables of the database and its revision | upgrade, downgrade, create_all |
| Reports (`api/portability/`, `api/regulator/`, `api/routes/dpo.py`, `api/services.py`) | what their queries have returned so far | export, trail, dashboard, audit, compliance report |
| SDK client (`sdk/client.py`) | a call: its attempt, the consents it was shown | create_consent with retries; check a consent, then act |
| The rest | none of interest | routes, templates, i18n, front ends |

### Interactions

Routes call services; each request has its own database session
(`expire_on_commit=False`, PostgreSQL through asyncpg, READ COMMITTED, no row locks,
no version columns). The consent service calls the registry through a client in a
thread (`asyncio.to_thread`) and then commits: chain first, database second, nothing
atomic over both. The expiry worker is a scheduled job that writes the same rows. A
deletion erases rows the service and the worker may hold in their sessions. The
breaker, the shutdown manager, the blockchain queue, the event queue and the deletion
scheduler are library classes that `api/main.py` does not wire up; they are exported
and tested, and are modelled with any number of users, as their documents promise.
The routers of tenants and billing are not mounted either.

Many modules import classes of `api/database.py` that it does not define
(`BreachRecordDB`, `DeletionRequestDB`, `WebhookDeliveryDB`, `OAuthAccountDB`, `TenantDB`
and others), and the file itself uses `metadata` as a column, a name that SQLAlchemy
reserves. The modules here model the handlers against the table that their statements
describe, or that a migration creates, and call it external: no uniqueness is assumed
that neither gives.

### What is hard here

- **Stale sessions.** A request decides by a row loaded before an await (the chain
  call, a flush) and writes it back after it: two requests, a request and the worker, or
  either and a deletion cross each other.
- **Two stores.** The chain call takes effect and the commit fails, or the call raises
  after its transaction was confirmed.
- **A lock with a lease.** A queue instance dies, hangs or loses its connection between
  any two Redis commands, and the lock expires under it.
- **Late answers.** A breaker call outlives the state it was admitted in; a request
  outlives the drain of a shutdown; an event outlives its place in the queue.
- **Order of legal calls.** Register over an existing box, modify then revoke, nack
  after dequeue.
- **Shared objects between awaits.** The tenant context, the sockets of a broadcast, the
  subscribers of a publication, the one-time OAuth state, a cache entry being filled.
- **Two deliveries of one thing.** Stripe repeats an event, two replays take one dead
  letter, two workers start on one empty database, a client repeats a creation.
- **Columns written from a stale load.** The unit of work writes what differs from what
  was loaded, so crossing calls mix their columns.
- **Limits.** `uint64` counters that must not underflow, a trimmed stream, a bounded
  queue whose puts wait.

### What makes each modelled component correct

- Registry: the counters never underflow (an underflow would reject a withdrawal); what
  verifies was registered and neither withdrawn, changed nor expired since.
- Service and worker: the database never runs ahead of the chain, nor behind it unless
  something failed; a withdrawal settles; what is past its date expires, if the driver
  compares the dates.
- Deletion: a COMPLETED request left nothing; a failed one all or nothing; nothing
  brings an erased record back.
- Blockchain queue: one processor at a time while no operation outlasts its lease, and one
  more for each that does; no operation is gone that was not completed, trimmed or buried;
  first attempts in order; the queue drains.
- Breaker: thresholds act at once, an open circuit holds, it recovers with its service.
- Shutdown: the cleanup waits for the requests, no wake-up is lost, every handler runs,
  it completes.
- Event queue: no event is lost or doubled between the queue and its consumers, and
  every one is delivered.

- Identity: a state is exchanged once, an account and a principal are linked to one
  another only, a challenge is accepted once, a cloned authenticator is found.
- Tenancy: an event of Stripe is applied once and no failed commit silences one; limits
  are exceeded by concurrent invitations at most; a request that no other one disturbed
  reads its own tenant.
- Casework: a missed deadline is reported, whoever set the status; audit trails end with
  the status of the row; a revoked guardian stays revoked.
- Delivery: a failed attempt is in a stream until it is queued again; a socket gets what
  its owner may see, a device what is for users that list it or what a request names it
  for; an invalidated entry is not shown again.
- Records: the schema is the one of its revision, a returned call took effect once, a
  root in the database is anchored, a report has what explains it, a batch reports as
  created what is, a client's call leaves no consent it was not answered for but by
  attempts without an answer, and acts on no consent withdrawn before it was verified.

## 2. The models

| module | models | relation |
|---|---|---|
| `ConsentLifecycle` | abstract: consents come into force only by a counted registration | implemented by `ConsentRegistry` |
| `ConsentRegistry` | the v2 contract | |
| `ConsentService` | requests and expiry worker over the rows and the chain | |
| `DataDeletion` | deletion beside them | extends `ConsentService`: its steps, with an executor's cleared events kept up to date |
| `OrderedQueue` | abstract: first attempts in order, removal after the attempt | implemented by `BlockchainQueue` |
| `ExclusiveDelivery` | abstract: an event is handed to one consumer, once | implemented by `EventQueue` |
| `BlockchainQueue` | producers, stream, lock, processors | |
| `CircuitBreaker` | one breaker and its calls | |
| `GracefulShutdown` | one shutdown and the requests | |
| `EventQueue` | producers, the bounded priority queue, consumers | |
| `DeletionDeadline` | the deadline jobs over deletion requests | beside `ConsentService` in `MCWorkers` |
| `OAuthAccounts`, `WebAuthn` | signing in, linking, credentials | in `MCAccess` |
| `TenantBilling`, `TenantMembers`, `TenantContext`, `TenantService`, `RateLimiter` | a tenant's row under Stripe and operators, its members, its requests, its slug, its rate | in `MCAccess` |
| `Breach`, `Grievance`, `Guardian` (with parental consent) | cases, each under concurrent calls | in `MCDuties` |
| `Webhooks`, `ConsentCache`, `Channels`, `PushDevices`, `EventDispatch` | what leaves the server | in `MCDuties` |
| `SchemaMigrations`, `ChainClient`, `AuditLedger`, `Reports`, `ConsentBatch`, `SdkClient` | what is kept, anchored and reported | in `MCDuties` |
| `Consents_proofs` | theorems of `ConsentService`, `DataDeletion`, `DeletionDeadline` | extends `MCWorkers`' parts |
| `Access_proofs`, `Duties_proofs` | theorems of the modules of `MCAccess` and `MCDuties` | extend them |
| the other `*_proofs` | theorems of the module in their name | extend it |

`MCAccess`, `MCDuties` and `MCWorkers` put modules that share no state side by side. A
variable of theirs (`part`, `duty`, `worker`) is chosen in the initial state and says
which module moves; the others keep an initial state. One run thus checks each module
alone, and its states are the sum, not the product, of theirs.

Definitions marked `Fault:` in their comment are not part of any specification. Each
is a plausible bug of the definition it stands before, and each property was shown to
fail when the one replaces the other.

**ConsentRegistry.** `box`, `total`, `active`, `revoked` are the contract's boxes and
`total_consents`, `active_consents`, `revoked_consents`; `round` is `Global.round`.
`Register`, `Revoke`, `Modify`, `Expire` are the ABI methods, one transaction each: an
`assert` or an arithmetic error rejects the transaction, so it is a guard. `Verify` is
the read-only method. Fields the contract writes and never reads are left out.

**ConsentService.** `record` is a row's status and `expires_at` (in days), `logged` the
events of its `consent_events` rows, `chain` the contract calls that took effect,
`req` a request's session, `batch` what the worker's query returned. A request is
`Load*` (everything up to its first await that lets others in), `CallChain` or
`CallChainFails`, and `Commit*` or `CommitFails`. SQLAlchemy writes only columns that
changed since the load, which is why `seen`, the loaded status, decides whether
`CommitModify` writes the status. `WorkerSelect` and `WorkerCommit` are
`process_expired_consents`; the status is set before the event is built and an
exception between them is caught per record, so any subset of the batch gets an event.
`AwareDates` says whether the driver compares `expires_at`, declared without a time zone,
with the aware date of the worker's query. asyncpg, which the deployment names, refuses
it: without `AwareDates` the query never answers, and its exception is only logged.
`revoke_consent` hands the client a wallet address where it expects a private key
(`contracts/client.py:307`), so as shipped the call raises; both outcomes are modelled.

**DataDeletion.** `deletion` is the request's row, `covers` the consents of the
principal and fiduciary at its creation, `exec` an execution's session: `ExecLoad`,
`ExecStart` (IN_PROGRESS committed), `ExecList` (consents listed, their events
deleted, uncommitted), `ExecDelete` or `ExecBlocked` (the foreign key of
`consent_events`), `ExecFinish`, or `ExecStepFails`/`ExecAborts`. As shipped
`clear_caches` imports a name `api.main` does not have, so that every execution ends
in `ExecStepFails` after the deletion; with a `redis_client` wired it reaches
`ExecFinish`. Both are modelled.

**BlockchainQueue.** Every Redis command of the processor loop is a step: `Read`
(XREAD), `Acquire` (SET NX EX), `Run` (process_fn), `Complete` (XDEL) or `Bury` (XADD
to the dead letters) then `Drop`, `Release` (DEL). Each may fail, and the instance may
crash between any two. The 60-second lease ends in two ways: `Expire` when its holder is
gone, and `Overrun` under a holder that is still running, since `process_fn` has no
timeout and nothing renews the lock; `overruns` counts the latter. `Release` deletes the
lock whoever holds it. Both streams are trimmed: `trimmed` are the operations that
`EnqueueAndTrim` dropped, `forgotten` those that `AddDeadLetter` did.

**CircuitBreaker.** `Admit` is the locked part of `call`, `Succeed`, `Fail` and
`Cancel` the end of a call with `_record_success`/`_record_failure`, `Elapse` the
recovery timeout. A call remembers the state it was admitted in only to state
properties; the code does not look at it. Calls of an admitted state may end in any
later one.

**GracefulShutdown.** `Enter`, `Refuse`, `Exit` are `request_context`; `Initiate`,
`DrainDone`, `DrainTimeout`, `HandlerRuns`, `HandlerFails`, `Finish` are
`initiate_shutdown` from await to await. `GracefulShutdown.timeout` is never read by
the code and so not modelled.

**EventQueue.** `queue` is the `asyncio.PriorityQueue`, `waiting` producers whose put
waits for room, `pending` the dictionary `_pending`. `Get`, `HandOut`, `NotDue`,
`PutBack` are one `dequeue`: under Python 3.11 `wait_for` runs the get in its own
task, so others run between the get and what follows. Two entries of equal priority
and time would make the heap compare `Event` objects and raise; the model's clock
moves with every enqueue, and what remains of such ties is left to either order.

**DeletionDeadline.** `erasure` is a request's row, `selected` and `marked` the batch of
a run of `process_overdue_requests`, which commits its marks once, at the end.

**OAuthAccounts.** `request[w]` is what a handler has left to do after its await: the
exchange with the provider, the two lookups of a link, the insert. `states` is the
dictionary `_states`; `exchange_code` deletes a state before it awaits.

**WebAuthn.** No handler awaits, so each is a step. `users` and `credentials` point to
`object`s, as the two dictionaries of the service share `WebAuthnUser` instances.

**TenantBilling, TenantMembers, TenantContext, TenantService, RateLimiter.** A commit is
`Flushed(row, loaded, new)`: of the row as it is, the columns in which `new` differs
from `loaded`. Stripe sends an event until it is answered with success, so `acked` is
what it no longer sends. `TenantContext` keeps class attributes, one set for the
process: `disturbed` are the requests during which another one used them.
`RateLimiter` has INCRBY and EXPIRE as the two commands they are.

**Breach, Grievance, Guardian.** Each call is its load, its assignments
and its commit. History variables (`byHand`, `reversed`, `crossed`, `mixed`, `lost`)
name the circumstances under which the code does not keep its promise; the property
says that there are no others. Parental consent is the second part of `Guardian`.

**Webhooks, ConsentCache, Channels, PushDevices, EventDispatch.** Each Redis command,
each send of a broadcast and each middleware of a publication is a step. An `Entry` of the
pending stream is the first of its delivery or a replay of it, a `Letter` an entry with
the number of its failed attempt. A `WebhookService` without a session adds an entry with
no row (`AddWithoutRow`). `deliver_webhook` has no caller in the program; the model takes
one that keeps the object of each entry it was told of, and calls as often as it likes.
`SendPush` takes the device ids of the request, which nobody compares with the user's.

**SchemaMigrations.** `Up1`..`Up9` are the objects that the upgrades create, in their
order, and `Downgrades` what the downgrades drop; `Scripts` are those of one command by
the chain of revisions, `Execute` runs one script and `Command` the scripts of a command,
up to the first statement that PostgreSQL refuses, and `Migrate` commits all or nothing. `StartCheck` and `StartCreate` are `create_all` in its two halves. A foreign
key to a column of another type is refused, which stops revisions 006, 008 and 009.

**ChainClient.** A transaction is valid for `Validity` rounds from those its parameters
named, and waited for during a few. The node refuses what it already has. The methods of
the client share one shape, of which `register_consent` is the example in the map.

**AuditLedger.** A hash is the tuple of what was hashed, so that different inputs have
different hashes. `Tree`, `GetProof` and `VerifyProof` are the functions of
`core/crypto.py`, their loops recursive functions over a level or a step of the proof
(`Levels`, `Path`, `Climb`), as many as a list of that length can need; `Collect`, `Anchor` and `CommitRoot` are `generate_merkle_root`;
`EventsOf` is its query, which finds the events of the ids that exist.

**Reports.** `Queries` gives each kind of report its queries in order; between two of
them `Change`, `Expire` and a deletion commit (READ COMMITTED). The deletion is one
transaction of two statements, `EraseRecords` and `EraseLogs`, and its commit: a consent
that is committed between the two keeps its row and loses its logs (`stripped`).

**ConsentBatch.** One item after the other in one session; a failed flush or commit
breaks it for those that follow, since nobody calls rollback.

**SdkClient.** `server[i][n]` is what became of the n-th request of a call: on its way,
answered, or without anyone who waits for the answer; the handler goes on after its
client has given up. `Query`, `Choose`, `Verify` and `Act` are the steps of
`verify_and_execute`; `modified` and `ended` remember what happened to the chosen consent
since the query and since the verification. A page is the set of the newest rows that
match: the loop over it takes any that passes its test. Commits are one step here; how
sessions cross is `ConsentService`'s.

## 3. Runs and bounds

| run | instance | shows | distinct states |
|---|---|---|---|
| `registry` | 2 hashes, 2 accounts, rounds 0..2, counters to 4 | no underflow, consistent statistics, refinement of `ConsentLifecycle` | 16 091 |
| `workers` | 1 consent, 2 requests, worker, 3 days, 1 fault; 2 deletion requests, 4 days, 1 fault | ChainFirst, ChainAnswered, RevocationSettles, GrantedExpires; DeadlineSafe, OverdueEscalated | 184 258 |
| `deletion` | 2 consents, 1 request, worker, 2 executions, 3 days, 1 fault | ErasedWhenCompleted, AllOrNothing, NoResurrection | 2.9 million |
| `queue` | 2 processors, 3 operations, streams of 2, 1 fault, 1 overrun | HoldersBounded, NothingVanishes, refinement of `OrderedQueue`, Drains | 729 474 |
| `breaker` | 3 calls, thresholds of 2 | ThresholdsAct, OpenHolds, Recovers | 602 |
| `shutdown` | 3 requests, 2 handlers | CleanupAfterDrain, NoLostWakeup, HandlersAccounted, ShutdownCompletes | 1 001 |
| `events` | 4 events, 2 consumers, queue of 2, 2 priorities, delays 0 and 4 | PendingAccurate, NothingLost with the refinement of `ExclusiveDelivery`, Delivered | 147 805 |
| `access` | 2 requests at a time, 3 OAuth states, 3 accounts of 2 providers, 2 wallets; 2 users and credentials, 4 challenges; 1 tenant, 2 Stripe events of 13 kinds; 2 invitations, limits 1 and 2; 2 requests of 2 tenants; 2 checks, limits 1 and 3 | OAuthSafe, CredentialSafe, BillingSafe, TenancySafe | 1.02 million |
| `duties` | two calls, replays, readers, broadcasts, processes or callers at a time on one or two cases of each part; trees of up to 5 leaves; 3 items of a batch; a creation of 2 attempts beside a checked action | CaseworkSafe, DeliverySafe, RecordsSafe, StructuresSafe | 2.1 million |
| `queue_once`, `service_final`, `events_nack` | as small as shows it | the disagreements of section 6 | |

The four names of `access` and of `duties` are conjunctions of the named properties of
their modules, each with its own comment there. `StructuresSafe` is what loops over data
of any size compute: the schema of a revision, the proof of a leaf.

Why these bounds are enough to make the interesting cases happen:

- *registry*: two hashes let one consent's counter be spent by another; counters to 4
  with two boxes let registrations over existing boxes reach the overflow guard.
- *workers*: one consent is enough because no operation reads another's row (the
  worker's batch is a set, exercised with two consents in `deletion`); two requests
  give every pair of operations; three days give before, at and after an end date.
- *deletion*: two consents make "some but not all" possible, two executions run one
  through the other, one request and the worker interfere with both. Symmetry holds
  because consents and executions are interchangeable; the view drops what no step
  and no property of the run tells apart (which events and calls a record has, and of
  a loaded status all but whether it is the one to be written).
- *queue*: streams of two with three operations overflow, the dead letters too. One fault
  and one overrun meet in every order; an overrun lets the second processor in beside the
  first, which then deletes a lock that is not its own. Two processors show every race
  over one lock. The proofs bound neither faults nor overruns.
- *breaker*: three calls let two late outcomes meet one trial call; no run is cut
  off, the counters stop at their thresholds as the code's comparison does.
- *events*: a queue of two with four events is full while two consumers each hold one
  that is not due, the only way the put-back can block.

- *access*: every race in these modules is of two requests. Two events of every kind
  include two of one kind and an event that takes the tenant to another customer;
  limits of 1 and 2 with three rows let two invitations exceed one.
- *duties*: crossing needs two calls. Two replays and two attempts reach a dead letter that
  is taken twice; attempts after the last one of `MAX_RETRIES` are left to the proof.
  Two consents of one pair let a deletion erase one and strip the other of its logs. Validity 3 and waits of 1 and 2 rounds keep the order of 1000, 4 and
  10, which is all that matters: a call gives up before its transaction expires
  (`ChainAssumption`). Trees of 3 and 5 leaves have a lone leaf whose path
  has one and two lone nodes; size 6 asks for an event that is not there, size 0 is the
  empty list. In a batch of three
  one item can fail between two others. Two attempts instead of three are enough for an
  unanswered one before an answered one, and for the end of the loop; the second consent
  that they may leave is the one `Choose` can fall back on.

Bounds are named constants in guards (`MaxRound`, `MaxUint`, `MaxTime`, `MaxFaults`,
`MaxOps`, `MaxOverruns`, `MaxAttempts`, `MaxEvent`, `MaxCalls`, `MaxLogs`, `MaxCrossed`, `MaxReplay`, `MaxVersion`,
`MaxDay`, `MaxObject`, `MaxChallenge`, `MaxCount`, `MaxMember`, `MaxCounter`,
`MaxUsage`, `MaxDate`, `MaxJobFaults`, `MaxRow`, `MaxConsents`, `MaxSdkDay`); `MaxUint` is a real limit of the contract, 2^64 - 1, and
`MaxLen` and `MaxDead` are those of the two streams of the queue, 10000 and 1000. Deadlock is
not checked in runs where time and faults are used up or where the system really ends
(a shutdown); it is checked in `breaker`.

## 4. Fairness

- `breaker`: time passes (`Elapse`), requests keep coming (`Admit`), and a call is not
  for ever cancelled just before its answer (`SF` of `Succeed`; `asyncio.wait_for`
  ends every call). Nothing is assumed of failures.
- `shutdown`: the timers of `wait_for` fire (`DrainTimeout`, `HandlerFails`) and the
  coroutine is resumed (`Finish`). No request needs to end, no handler to return.
- `queue`: the processors keep looping, `process_fn` ends, Redis expires keys. Faults
  and overruns are never fair, and each is one of finitely many.
- `workers`: the scheduler runs both workers' jobs again and again and a started job
  goes on and ends; requests end. No one needs to make a request, and neither clock is
  fair: nothing is assumed of time. A failure is one of finitely many, but for the query
  of a driver that refuses its dates, which fails each time: `GrantedExpires` is about the
  other drivers.
- `access` and `duties` check invariants only and assume no fairness.
- `events`: consumers keep calling dequeue and answer for what they get, a waiting put
  gets its turn, time passes. `Delivered` assumes that the queue has room again and
  again; without that the stall of section 7 refutes it.

## 5. Proofs

All proofs are checked by TLAPS, for every value of the constants that satisfies the
module's `ASSUME`.

| theorem | states | inductive invariant |
|---|---|---|
| `TypeCorrect`, `ActiveNeverUnderflows`, `StatsAreConsistent` | registry invariants | `TypeOK /\ ActiveCoversGranted /\ StatsConsistent`: revoking needs the counter to cover its box, and a registration over a box must not lose the surplus; `StatsConsistent` alone would not survive a revoke. Cardinalities through `InStatusCardinality`: a box's change moves one hash in or out of a status |
| `RegistryImplementsLifecycle` | refinement of `ConsentLifecycle` | the type invariant; each action maps to a registration, a lapse or a stutter |
| `DatabaseFollowsChain` | `ChainFirst` | `... /\ Prepared`: a session about to commit a creation or withdrawal has its chain call behind it |
| `WithdrawalsSettle` | `RevocationSettles` | a step lemma: REVOKED with no older session (`Final`) is kept by every step, since every `Load` refuses a revoked record |
| `CallsAreAnswered` | `ChainAnswered` | itself with `TypeOK`: a session about to commit is the answer until it commits; only a fault takes it away |
| `CompletionErases`, `DeletionIsAtomic`, `ErasureIsFinal` | `ErasedWhenCompleted`, `AllOrNothing`, `NoResurrection` | `DeletionTypeOK /\ Stores /\ Sessions /\ Progress`: no session creates a consent the request covers (`Fresh`), events do not outlive their record (`NoOrphans`), an execution past its deletion has erased what is covered (`Gone`) |
| `OperationsAccounted` | `NothingVanishes`, dead letters that were trimmed named as such | `... /\ Ordered /\ Recorded /\ Locked`: what a processor has read is older than what remains, and one about to delete has its effect or its dead letter recorded |
| `OverrunsAdmitOne`, `LockExcludes` | `HoldersBounded`, with no assumption on how long an operation lasts; `OneAtATime` **while** no lease ended under its holder; without that it is false: a lease is not a lock | `Locked`: those between SET and DEL are at most as many as the overruns, and one more while the lock is set. An overrun frees the lock and raises the bound; a DEL, its own lock's or another's, frees it and takes one holder away |
| `QueueImplementsOrder`, `AttemptsInOrder` | refinement of `OrderedQueue`; what it promises of first attempts | the same invariant |
| `OneInstanceCompletesOnce` | `CompletedOnce`, **if** there is one processor and no overflow | `ReadIsQueued`: what it read stays queued until it takes the lock. `queue_once` shows it false of two processors, without an overflow |
| `BreakerThresholds`, `OpenCircuitHolds` | `ThresholdsAct`, `OpenHolds` | `TypeOK /\ ThresholdsAct` |
| `CleanupWaits`, `WakeupsArrive` | `CleanupAfterDrain`, `NoLostWakeup` | `Draining`: a set event means no active request once the drain has begun, since no request enters then |
| `PendingIsAccurate`, `EventsAccounted` | `PendingAccurate`, `NothingLost` | both with `TypeOK` and the finiteness of the queue: that `_pending` loses only the returned event needs it to be in one place. A put-back, and a wait for room, is a stutter of `ExclusiveDelivery`; a nack is an answer, since what it asks `_pending` for is never there |
| `EachDeliveredOnce` | an event is with one consumer at most, and after its answer with none again | `DeliveredOnce`, an invariant of `ExclusiveDelivery`, through the refinement |
| `HandlersAllRun` | `HandlersAccounted` | `Counts`: runs and errors add up to the handlers passed |
| `BatchReportsCreated` | `BatchSafe`, a conjunct of `RecordsSafe` | `... /\ OrphanInv`: the orphan is the item about to be committed or the one whose commit broke the session, after which no item reaches the chain |
| `OverdueIsLate` | `DeadlineSafe` | `DeadlineTypeOK /\ Late /\ Idling`: what a run selected or marked exists and is past its date, since no step moves a creation or the clock back; a job that is not running holds nothing |
| `SignInIsSafe` | `OAuthSafe` | `... /\ Alone`: unless two links were checked at once, one that passed a lookup still finds what the lookup found |
| `CredentialsAreSafe` | `CredentialSafe` | no two users share a pending challenge and none is above `issued`; two credentials of one object are known as `shared`; of any other the object's counter is the last one accepted |
| `BillingIsSafe` | `BillingSafe` | `Requests /\ Ledger`: a request past its lookups is about an event it may handle; a completed event is one that could be; `StripeEventOnce`, `AckedAccounted` |
| `TenancyIsSafe` | `TenancySafe` | `MembersInv`: the rows and the invitations about to insert exceed the highest limit by less than the number of inviters (cardinalities); `ContextKept`: a request that was not disturbed finds the class attributes as it left them; `LimiterInv`: admissions never exceed the counter; `Indexed`: the slug of a tenant that was not renamed leads to it |
| `CaseworkIsSafe` | `CaseworkSafe` | `StampsFollow`: the status of a breach says what its stamps say; `StatusFollows`: an open grievance has no resolution; `Audited`: an active guardian's verification is logged, lost or on its way |
| `CacheIsFresh` | `FreshAfterInvalidate`, a conjunct of `DeliverySafe` | `FillsFresh`: a fill that no invalidation crossed holds the present value |
| `DeliveryIsSafe` | `DeliverySafe` | with `CacheInv`: what a replay has added is among the letters queued again and each attempt's failure in one of the places `FailureKept` names; `CopiesOwn` (a broadcast's copy has only sockets of its addressees), `CallsFollow` (a publication's stage bounds the state of each handler's call, so that the outcomes can be counted) |
| `RecordsAreSafe` | `RecordsSafe` | `ChainInv`: pool and ledger are disjoint, each transaction takes effect once and is waited for by one call; `LedgerInv`: the last hash is that of the last link, an anchored request is about an anchored batch; `ReportsInv`: what a report has listed is still there or was erased during it, a row without its logs was stripped by a deletion, an uncrossed dashboard counts one state; `SdkInv`: every consent a call made is of its answered attempt or of one without an answer; `BatchInv` |
| `StructuresAreSafe` | `StructuresSafe` | for the schema `SchemaInv`: `SchemaSafe`, and a start finds all of the tables missing or none; were it some, a process could create tables above the base. For the proofs `LedgerInv`, in which a row's root is that of its events |
| `DowngradesUndo` | of each revision: its downgrade finds and drops all that its upgrade creates, in an order the references allow, and nothing else | none: of the statements. `Downgraded` and `Upgraded` carry it through a command of any length |
| `ProofOfEvent` | of a list of any length: a Merkle proof is accepted for the event at its position and for no other | none: by induction over the levels, `HasHeight` keeping a leaf apart from an inner node |
| `BreakerTypeCorrect`, `ShutdownTypeCorrect`, `QueueTypeCorrect`, `ServiceTypeCorrect`, `DeletionTypeCorrect`, `EventsTypeCorrect` | the type invariants | the same invariants; that of the queue says that what was tried had been queued, that of the event queue that the capacity holds |

The proofs use these assumptions on constants: sets that are counted are finite
(`Inviter`, `Listener`, `Publication`, `Record`, `Event`, `Hash`), what bounds a counter
is a natural number (`MaxDate`, `MaxDay`, `MaxRound`, `MaxCalls`, `MaxLogs`,
`MaxConsents`, `MaxSdkDay`; `MaxVersion` a positive one), and a call gives up before its
transaction expires, as 4 and 10 rounds do before 1000. None of these bounds is
a limit of the code's but `MaxUint`: a theorem holds whatever the bound is. Each inductive invariant
was an invariant of a TLC run before it was proved.

`MCAccess` and `MCDuties` are proved part by part: every part has a lemma that its
invariant holds initially and one that its own steps keep it, and a step of the whole
is a step of one part or leaves it unchanged. The theorems are about the specification
the runs check, and need nothing of the choice between the parts; the lemmas hold of
each part alone.

Induction over data is over sets of numbers here: no prover can instantiate the library's
induction rules, but that a nonempty set of naturals has a least element follows from
`WFMin`, and from it `EveryNatural` and `EveryUpTo`, whose variable is the set of the
positions at which the claim holds. That the recursive functions of `AuditLedger` and
`SchemaMigrations` exist, and so satisfy their equations, is proved with them
(`LevelsFollow`, `PathFollows`, `ClimbFollows`, `ExecuteFollows`, `CommandFollows`).

Only model-checked: the liveness properties (`Recovers`, `ShutdownCompletes`, `Drains`,
`GrantedExpires`, `Delivered`, `OverdueEscalated`), which fairness and ENABLED put
outside the prover's reach. Every invariant, action property and refinement of a passing
run is proved; `OneAtATime`, which no run checks, under the condition its row names.

## 6. Disagreements

Each of these runs asks one property that a document, a comment or a test states, and
TLC shows an execution of the code that breaks it.

- `queue_once`: `IMPLEMENTATION_SUMMARY.md:350` "Safe horizontal scaling". An entry is
  read before the lock is taken; an entry another instance completed meanwhile runs
  again. No fault is needed.
- `service_final`: `api/services.py:257` raises "Cannot modify revoked consent". A
  modification loaded before the withdrawal's commit overwrites it.
- `events_nack`: `tests/test_events.py:325` "Nacking re-enqueues the event". dequeue has
  taken it out of `_pending`, where nack looks for it.

## 7. Observations without a run

Met while modelling; listed so that later work can turn them into properties.

- Registering over an existing box counts it again (`ARCHITECTURE.md:164`); the
  statistics are an upper bound, which is what `StatsConsistent` states.
- `expires_at = 0` is "never" to `verify_consent` and expired to `expire_consent`
  (`contracts_v2/consent_registry.py:146`, `ARCHITECTURE.md:177`).
- An operation that outlasts the lease of 60 seconds is still running when another
  instance takes the lock, and its `DEL` releases that one's lock; a failed SET is taken
  to mean "Another instance is processing" (`api/blockchain_queue.py:104`). So one at a
  time is not promised; `HoldersBounded` says how far it can go.
- Dead letters are trimmed to 1000 (`api/blockchain_queue.py:130`), so a failed operation
  may leave no trace; `NothingVanishes` admits that, and trimmed operations, and nothing
  else. `BLOCKCHAIN_QUEUE_MAX_RETRIES` is never read.
- `verify_consent` marks EXPIRED without an event; an extension committed between the
  load and the commit of such a write is lost.
- The worker's event uses `EventTypeDB.CONSENT_EXPIRY`, which the enum lacks, so as
  shipped every expiry is committed without its event (`api/workers/expiry_worker.py:110`).
- A half-open circuit is re-opened by the failure of a call admitted before it opened.
- COMPLETED may be overwritten with FAILED, IN_PROGRESS or VERIFICATION_IN_PROGRESS by a
  session that loaded the request before; `execute` asks neither for a verification nor
  for the delay of 24 hours, and ignores what the legal-hold check answers.
- `DeletionScheduler` keeps its schedule in memory and drops requests that failed.
- The event queue can stall: full of events that are not due, with every consumer
  waiting to put one back.
- A consent changed by `modify_consent` is MODIFIED, and `revoke_consent` asserts GRANTED
  (`contracts_v2/consent_registry.py:71`), against `docs/USE_CASES.md:62` "User can
  revoke consent at any time". The worker selects GRANTED records only
  (`api/workers/expiry_worker.py:94`), so a MODIFIED one stays past its date unless it
  is verified, against `docs/DPDP_COMPLIANCE.md:79` "Auto-expiry enforcement".
- The worker's `consent.principal.wallet_address` is a lazy load in an async session.
- The query of the expiry job binds an aware date (`api/workers/expiry_worker.py:89`) to a
  column without a time zone (`api/database.py:73`). asyncpg, which `docker-compose.yml:43`
  names, refuses it, `_safe_process_expired` logs the exception, and the next run ends
  alike: as deployed, no granted consent is expired by the worker, against
  `docs/DPDP_COMPLIANCE.md:79` "Auto-expiry enforcement". `GrantedExpires` is what holds
  with a driver that compares the two, as that of the tests does (`tests/conftest.py:12`); the safety properties of `workers` and `deletion`
  hold with either, for the worker then takes fewer steps.
- Aware dates meet columns without a time zone elsewhere too: the SLA check of grievances
  (`api/grievance/__init__.py:198`, `:344`) and the deadline jobs, whose table
  `deletion_requests` has naive dates and no `extra_data`, and whose class
  `DeletionRequestDB` `api/database.py` does not define. Their modules take the comparison
  to answer.
- `delete_database_records` deletes records and audit logs in two statements
  (`api/deletion/__init__.py:178`, `:188`): a consent committed between them stays without
  its logs.
- A cleanup handler that lets a cancellation through, or raises what is no `Exception`,
  ends the loop over the handlers (`api/lifecycle/shutdown.py:155`); `GracefulShutdown`
  leaves that out.

*The chain and what is anchored*

- A call of the client that raised may take effect later: it waits 10 rounds (4 for
  `fund_account`), the transaction is valid for 1000.
- The client sends "register", "batch_log" and the like as first argument, which match
  no selector of the v2 contracts. `log_event` of the audit contract has no check of the
  sender and writes over the box of an equal hash.
- An empty list of events has no root and raises; the proof of a leaf with a lone node on
  its way leaves that step out and does not verify (`core/crypto.py:223`); the trees of
  [1, 2, 3] and [1, 2, 3, 3] have one root, which `merkle_roots` accepts once.
- `create_consent` for an unknown wallet fails: the row has no `email_hash`
  (`api/services.py:122`). In a batch its flush also breaks the session of the items
  after it. `routes/consent.py` passes `skip_signature_verification`, which the method
  does not take; `register_fiduciary` of `api/main.py` uses one constant for the unique
  `wallet_address`, so a second registration fails.
- "PARTIAL" of the regulator's on-chain check cannot occur, since its query asks for rows
  with a transaction only; a trail whose period ended earlier shows the present status
  without the events after it. The dashboard counts grievances that are "PENDING", a
  status no grievance has.

*Schema*

- `alembic upgrade head` (`README.md:125`) fails: revision 005 puts an index on
  `webhook_subscriptions`, which nothing creates, and 006, 008 and 009 refer with
  `String(36)` columns to UUID keys. After `create_all` on an empty database every
  upgrade is refused.

*Identity and tenancy*

- The OAuth callback with an e-mail address fails: `session.execute` is not awaited
  (`api/oauth/routes.py:228`).
- A registration or removal that ends in a shared `WebAuthnUser` sets the sign counter of
  another credential back.
- A paid checkout never sets the plan. An event whose first handling raised is answered
  with success when Stripe repeats it, unprocessed. `customer.created` adds no row
  (`api/billing/__init__.py:414`), so every delivery repeats what its handler did;
  `StripeEventOnce` is about the other kinds. An upgrade that crosses the deletion
  of a subscription can be lost, or can lose it.
- `require_quota` asks the in-memory service, which knows no tenant of the database. The
  CSRF check is not awaited. `api/cache.py` is shadowed by the package `api/cache/`.

*Casework and delivery*

- `notify_authority` stamps without sending; the breach is stamped as notified to
  principals even if every mail failed, as it does: principals have no e-mail column.
- A grievance that was never acknowledged has no due date, and an escalated one is not
  looked at. Two ACTIVE guardian rows make `can_guardian_act` raise.
- A parental grant stores nothing, and its verification accepts any GRANTED consent.
- The webhook worker takes entries off the stream without delivering them; the retry
  streams have no reader; a row whose XADD failed is in no stream.
- `invalidate_consent`'s pattern misses the lists of a principal. A listen that was
  cancelled leaves its socket registered. `send_push` takes device ids from its request
  and does not compare them with the user's list (`api/mobile/__init__.py:162`). A device
  registered by a second user stays in both lists; `tests/test_mobile.py:135` calls it
  associated with the second one only, and does not look at the first one's list.
- `_request` of the SDK repeats `create_consent` with nothing that tells the server it is
  the same one, so a lost answer leaves two consents. The check before an action does not
  compare the verified data types with those asked for, and looks at one page.

## 8. Not modelled

Signatures, encodings and hashes as numbers; HTTP, authentication headers, logging,
statistics no decision reads; validation of purposes and durations; mail and SMS; the
content of certificates and reports. `refresh_token` and `revoke_token` of the OAuth
service, which no handler calls. The v1 PyTeal contracts: their audit trail puts an
assignment into `Seq`, which PyTeal refuses, and the registry compares a text with a
32-byte sender. Reports of usage, templates, analytics, the AI assistant, i18n,
telemetry, IPFS, GDPR texts: answers computed from their input. Front ends, the
asynchronous and TypeScript SDKs and deployment: no state transitions of interest.

## 9. Plan

Reached: the core with its proofs, deletion and its deadlines, identity, tenancy,
casework, delivery, schema, chain client, audit ledger, reports, batches, SDK client, and
the proofs of every invariant, action property and refinement that the runs check. Next, the most important first.

1. More action properties of the parts of `access` and `duties`, where a step may undo
   what an earlier one promised: a revoked guardian, an anchored row, a used state.
2. An abstract specification for the webhooks (at most one owner of an entry), as
   `OrderedQueue` and `ExclusiveDelivery` are for the two queues.
3. The service behind the `CircuitBreaker`, once `api/main.py` wires it up. A composition
   of `ConsentService` with `ConsentRegistry` would not be faithful as things stand: the
   client's calls match no selector of the v2 contract (section 7), which is why `chain`
   is a variable of the service's model and what a call does there an assumption.
4. The usage rows of tenants and idempotency keys, once a caller of them exists.

Small components share a run where one model can state both, so that the number of runs
stays that of the questions asked.

--------------------------- MODULE ConsentService ---------------------------
(***************************************************************************)
(* The consent records of the API: ConsentService of api/services.py, one  *)
(* database session per request, and the ConsentExpiryWorker of            *)
(* api/workers/expiry_worker.py.  A session loads a record, decides by     *)
(* what it loaded, may call the chain (asyncio.to_thread), and commits;    *)
(* each of these is an await, and nothing locks a record or compares its   *)
(* version between the load and the commit.  SQLAlchemy writes only the    *)
(* columns that differ from what was loaded.  Events and audit log entries *)
(* are added to the session and commit with it.                            *)
(*                                                                         *)
(* External: the registry contract as its client shows it (a call takes    *)
(* effect or raises, possibly both), the database (a commit is atomic, or  *)
(* fails and rolls back), and its driver, which may refuse to compare a    *)
(* column of naive dates with an aware one.                                *)
(***************************************************************************)
EXTENDS Naturals

CONSTANTS Consent,      \* consent records, by their uuid4
          Request,      \* concurrent requests
          MaxTime,      \* bound: the days a run lives through
          MaxFaults,    \* bound: failed chain calls and commits
          AwareDates    \* whether the driver takes an aware date for expires_at

ASSUME ServiceAssumption == MaxTime \in Nat /\ MaxFaults \in Nat /\ AwareDates \in BOOLEAN

VARIABLES record,       \* record[c]: the row's status and expires_at
          logged,       \* logged[c]: new_status of the ConsentEventDB rows
          chain,        \* chain[c]: the calls that took effect on the chain
          req,          \* req[r]: a request's session
          batch,        \* the records the expiry worker has loaded
          now,
          faults

vars == <<record, logged, chain, req, batch, now, faults>>

Status == {"GRANTED", "REVOKED", "EXPIRED", "MODIFIED"}
Expiry == 0..(MaxTime + 1)      \* MaxTime + 1: later than any run lives
Idle == [pc |-> "idle"]

(* What a session is about to do: "chain" or "commit", for which operation *)
(* on which record, whose status it has loaded.                            *)
Session == [pc : {"chain"}, op : {"create", "revoke"}, consent : Consent,
            seen : Status \union {"NONE"}]
     \union [pc : {"commit"}, op : {"create", "revoke", "modify", "verify"},
             consent : Consent, seen : Status \union {"NONE"}]

Exists(c) == record[c].status # "NONE"
Expired(c) == record[c].expires < now
Busy(r) == req[r] # Idle
At(r, pc, op) == Busy(r) /\ req[r].pc = pc /\ req[r].op = op

TypeOK ==
    /\ record \in [Consent -> [status : Status \union {"NONE"}, expires : Expiry]]
    /\ logged \in [Consent -> SUBSET Status]
    /\ chain \in [Consent -> SUBSET {"create", "revoke"}]
    /\ req \in [Request -> Session \union {Idle}]
    /\ batch \subseteq {c \in Consent : Exists(c)}
    /\ now \in 0..MaxTime
    /\ faults \in 0..MaxFaults

Init ==
    /\ record = [c \in Consent |-> [status |-> "NONE", expires |-> 0]]
    /\ logged = [c \in Consent |-> {}]
    /\ chain = [c \in Consent |-> {}]
    /\ req = [r \in Request |-> Idle]
    /\ batch = {}
    /\ now = 0
    /\ faults = 0

Fault == faults < MaxFaults /\ faults' = faults + 1

Load(r, pc, op, c) ==
    /\ ~Busy(r)
    /\ req' = [req EXCEPT ![r] = [pc |-> pc, op |-> op, consent |-> c,
                                  seen |-> record[c].status]]
    /\ UNCHANGED <<record, logged, chain, batch, now, faults>>

End(r) == req' = [req EXCEPT ![r] = Idle]

(* An UPDATE must find its row, or the commit raises StaleDataError. *)
RowThere(r) == req[r].op = "create" \/ Exists(req[r].consent)

(* create_consent up to its chain call: a fresh uuid and consent hash. *)
LoadCreate(r, c) ==
    /\ ~Exists(c) /\ chain[c] = {}
    /\ \A q \in Request : Busy(q) => req[q].consent # c
    /\ Load(r, "chain", "create", c)

(* Fault: the database is written before the chain. *)
LoadRevokeCommitFirst(r, c) ==
    /\ Exists(c) /\ record[c].status # "REVOKED"
    /\ Load(r, "commit", "revoke", c)

(* revoke_consent up to its chain call; "Consent already revoked" ends it. *)
LoadRevoke(r, c) ==
    /\ Exists(c) /\ record[c].status # "REVOKED"
    /\ Load(r, "chain", "revoke", c)

(* Fault: modify_consent without its check for a revoked consent. *)
LoadModifyRevoked(r, c) ==
    /\ Exists(c)
    /\ Load(r, "commit", "modify", c)

(* modify_consent up to its commit; it never calls the chain. *)
LoadModify(r, c) ==
    /\ Exists(c) /\ record[c].status # "REVOKED"
    /\ Load(r, "commit", "modify", c)

(* verify_consent of a record past its expires_at, up to its commit; every *)
(* other verification only answers.                                        *)
LoadVerify(r, c) ==
    /\ Exists(c) /\ record[c].status \notin {"REVOKED", "EXPIRED"}
    /\ Expired(c)
    /\ Load(r, "commit", "verify", c)

(* register_consent or revoke_consent of the contract's client returns ... *)
CallChain(r) ==
    /\ Busy(r) /\ req[r].pc = "chain"
    /\ chain' = [chain EXCEPT ![req[r].consent] = @ \union {req[r].op}]
    /\ req' = [req EXCEPT ![r].pc = "commit"]
    /\ UNCHANGED <<record, logged, batch, now, faults>>

(* ... or raises, the transaction confirmed or not; the request fails. *)
CallChainFails(r) ==
    /\ Busy(r) /\ req[r].pc = "chain"
    /\ Fault
    /\ chain' \in {chain, [chain EXCEPT ![req[r].consent] = @ \union {req[r].op}]}
    /\ End(r)
    /\ UNCHANGED <<record, logged, batch, now>>

CommitCreate(r, expires) ==
    /\ At(r, "commit", "create")
    /\ expires > now
    /\ record' = [record EXCEPT ![req[r].consent] = [status |-> "GRANTED", expires |-> expires]]
    /\ logged' = [logged EXCEPT ![req[r].consent] = @ \union {"GRANTED"}]
    /\ End(r)
    /\ UNCHANGED <<chain, batch, now, faults>>

(* Fault: the withdrawal is committed without its event. *)
CommitRevokeUnlogged(r) ==
    /\ At(r, "commit", "revoke") /\ RowThere(r)
    /\ record' = [record EXCEPT ![req[r].consent].status = "REVOKED"]
    /\ End(r)
    /\ UNCHANGED <<logged, chain, batch, now, faults>>

CommitRevoke(r) ==
    /\ At(r, "commit", "revoke") /\ RowThere(r)
    /\ record' = [record EXCEPT ![req[r].consent].status = "REVOKED"]
    /\ logged' = [logged EXCEPT ![req[r].consent] = @ \union {"REVOKED"}]
    /\ End(r)
    /\ UNCHANGED <<chain, batch, now, faults>>

(* The UPDATE names the status only if it was not loaded as MODIFIED, and  *)
(* expires_at only if new_duration_days was given.                         *)
CommitModify(r, expires) ==
    /\ At(r, "commit", "modify") /\ RowThere(r)
    /\ expires > now \/ expires = record[req[r].consent].expires
    /\ record' = [record EXCEPT
                    ![req[r].consent].status = IF req[r].seen = "MODIFIED" THEN @ ELSE "MODIFIED",
                    ![req[r].consent].expires = expires]
    /\ logged' = [logged EXCEPT ![req[r].consent] = @ \union {"MODIFIED"}]
    /\ End(r)
    /\ UNCHANGED <<chain, batch, now, faults>>

(* verify_consent marks the record, without an event. *)
CommitVerify(r) ==
    /\ At(r, "commit", "verify") /\ RowThere(r)
    /\ record' = [record EXCEPT ![req[r].consent].status = "EXPIRED"]
    /\ End(r)
    /\ UNCHANGED <<logged, chain, batch, now, faults>>

CommitFails(r) ==
    /\ Busy(r) /\ req[r].pc = "commit"
    /\ Fault
    /\ End(r)
    /\ UNCHANGED <<record, logged, chain, batch, now>>

(* Fault: the worker's query without its condition on the status. *)
WorkerSelectsAll ==
    /\ AwareDates
    /\ batch = {}
    /\ batch' = {c \in Consent : Expired(c)}
    /\ batch' # {}
    /\ UNCHANGED <<record, logged, chain, req, now, faults>>

(* process_expired_consents: the query of a five-minute interval, which    *)
(* compares expires_at, a column without a time zone, with an aware now.   *)
(* SQLite takes it; asyncpg raises before it asks the server, and          *)
(* _safe_process_expired swallows that on every interval.                  *)
WorkerSelect ==
    /\ AwareDates
    /\ batch = {}
    /\ batch' = {c \in Consent : record[c].status = "GRANTED" /\ Expired(c)}
    /\ batch' # {}
    /\ UNCHANGED <<record, logged, chain, req, now, faults>>

(* Fault: the status is set after the event, so not when the event raises. *)
WorkerCommitLogged(written) ==
    /\ batch # {}
    /\ batch \subseteq {c \in Consent : Exists(c)}
    /\ written \subseteq batch
    /\ record' = [c \in Consent |->
                    IF c \in written THEN [record[c] EXCEPT !.status = "EXPIRED"] ELSE record[c]]
    /\ logged' = [c \in Consent |->
                    IF c \in written THEN logged[c] \union {"EXPIRED"} ELSE logged[c]]
    /\ batch' = {}
    /\ UNCHANGED <<chain, req, now, faults>>

(* The loop over the batch and its commit: a record's status is set before *)
(* its event is built, and an exception in between is caught, so only      *)
(* those in written get their event.                                       *)
WorkerCommit(written) ==
    /\ batch # {}
    /\ batch \subseteq {c \in Consent : Exists(c)}
    /\ written \subseteq batch
    /\ record' = [c \in Consent |->
                    IF c \in batch THEN [record[c] EXCEPT !.status = "EXPIRED"] ELSE record[c]]
    /\ logged' = [c \in Consent |->
                    IF c \in written THEN logged[c] \union {"EXPIRED"} ELSE logged[c]]
    /\ batch' = {}
    /\ UNCHANGED <<chain, req, now, faults>>

(* _safe_process_expired swallows the error; the next interval tries again. *)
WorkerFails ==
    /\ batch # {}
    /\ Fault
    /\ batch' = {}
    /\ UNCHANGED <<record, logged, chain, req, now>>

Tick ==
    /\ now < MaxTime
    /\ now' = now + 1
    /\ UNCHANGED <<record, logged, chain, req, batch, faults>>

LoadAny(r) ==
    \E c \in Consent : LoadCreate(r, c) \/ LoadRevoke(r, c) \/ LoadModify(r, c) \/ LoadVerify(r, c)

CommitAny(r) ==
    \/ \E expires \in Expiry : CommitCreate(r, expires) \/ CommitModify(r, expires)
    \/ CommitRevoke(r) \/ CommitVerify(r)

Next ==
    \/ \E r \in Request :
          LoadAny(r) \/ CallChain(r) \/ CallChainFails(r) \/ CommitAny(r) \/ CommitFails(r)
    \/ WorkerSelect \/ (\E written \in SUBSET Consent : WorkerCommit(written)) \/ WorkerFails
    \/ Tick

Spec == Init /\ [][Next]_vars

(* The scheduler keeps running the worker, a job that runs ends, and so    *)
(* does a request; nobody needs to make one.                               *)
Fairness ==
    /\ \A r \in Request : WF_vars(CallChain(r)) /\ WF_vars(CommitAny(r))
    /\ WF_vars(WorkerSelect)
    /\ WF_vars(\E written \in SUBSET Consent : WorkerCommit(written))

FairSpec == Spec /\ Fairness
-----------------------------------------------------------------------------
(* The database never runs ahead of the chain: a record exists only for a  *)
(* registration on the chain, and a withdrawal is recorded, in the status  *)
(* or in an event, only after the chain has it.                            *)
ChainFirst ==
    \A c \in Consent :
        /\ Exists(c) => "create" \in chain[c]
        /\ record[c].status = "REVOKED" \/ "REVOKED" \in logged[c] => "revoke" \in chain[c]

(* Nor does it fall behind unless a call or a commit fails: whatever the   *)
(* requests overwrite of each other, every chain call is soon answered by  *)
(* its event, and no other is lost.                                        *)
ChainAnswered ==
    faults = 0 =>
        \A c \in Consent :
            /\ "create" \in chain[c] =>
                  "GRANTED" \in logged[c] \/ \E r \in Request : At(r, "commit", "create")
                                                             /\ req[r].consent = c
            /\ "revoke" \in chain[c] =>
                  "REVOKED" \in logged[c] \/ \E r \in Request : At(r, "commit", "revoke")
                                                             /\ req[r].consent = c

(* No session, of a request or of the worker, has loaded c. *)
Quiet(c) == c \notin batch /\ \A r \in Request : Busy(r) => req[r].consent # c

(* A withdrawal settles: once a record is REVOKED and the sessions that    *)
(* loaded it before have ended, it stays REVOKED for ever.                 *)
RevocationSettles ==
    \A c \in Consent :
        []((record[c].status = "REVOKED" /\ Quiet(c)) => [](record[c].status = "REVOKED"))

(* The worker enforces the end date of every GRANTED record, whatever      *)
(* fails in between, over a driver that takes its query, as the tests' is: *)
(* SQLite.  Over asyncpg, that of the deployment, it ends none, against    *)
(* "Auto-expiry enforcement" of docs/DPDP_COMPLIANCE.md:79.                *)
GrantedExpires ==
    \A c \in Consent :
        AwareDates /\ record[c].status = "GRANTED" /\ Expired(c)
            ~> record[c].status # "GRANTED"
-----------------------------------------------------------------------------
(* api/services.py:257 raises "Cannot modify revoked consent": a record    *)
(* never leaves REVOKED.  It does when a modification, a verification or   *)
(* the worker loaded it before the withdrawal was committed.               *)
RevokedIsFinal ==
    [][\A c \in Consent : record[c].status = "REVOKED" => record'[c].status = "REVOKED"]_vars
=============================================================================

---------------------------- MODULE DataDeletion ----------------------------
(***************************************************************************)
(* One deletion request, for all consents of one principal with one        *)
(* fiduciary: DataDeletionOrchestrator and DeletionStepExecutor of         *)
(* api/deletion/__init__.py, running beside the requests and the worker of *)
(* ConsentService.  Every execution and every verification has a session   *)
(* of its own; nothing locks the request between its load and its commit.  *)
(*                                                                         *)
(* External: PostgreSQL at READ COMMITTED with the foreign key of          *)
(* consent_events, so a record goes only with all its events, and after an *)
(* error the transaction takes no further statement, not even the one that *)
(* would record FAILED.                                                    *)
(***************************************************************************)
EXTENDS ConsentService
LOCAL INSTANCE TLC

CONSTANT Executor       \* concurrent calls of execute_deletion_full

VARIABLES deletion,     \* the request's status
          covers,       \* the consents it was made for: those of its time
          verifying,    \* the status verify_deletion_request has loaded
          exec          \* exec[e]: an execution's session

dvars == <<deletion, covers, verifying, exec>>
allVars == <<vars, dvars>>

DeletionStatus == {"PENDING", "VERIFICATION_IN_PROGRESS", "IN_PROGRESS", "COMPLETED", "FAILED"}
NotRunning == [pc |-> "idle", seen |-> "NONE", cleared |-> {}]

Existing == {c \in Consent : Exists(c)}

DeletionTypeOK ==
    /\ record \in [Consent -> [status : Status \union {"NONE"}, expires : Expiry]]
    /\ req \in [Request -> Session \union {Idle}]
    /\ deletion \in DeletionStatus \union {"NONE"}
    /\ covers \subseteq {c \in Consent : "create" \in chain[c]}
    /\ verifying \in (DeletionStatus \ {"COMPLETED"}) \union {"NONE"}
    /\ exec \in [Executor -> [pc : {"idle", "loaded", "started", "listed", "deleted"},
                              seen : (DeletionStatus \ {"COMPLETED"}) \union {"NONE"},
                              cleared : SUBSET Consent]]
    /\ \A e \in Executor : exec[e].pc # "listed" => exec[e].cleared = {}

DeletionInit ==
    /\ Init
    /\ deletion = "NONE" /\ covers = {} /\ verifying = "NONE"
    /\ exec = [e \in Executor |-> NotRunning]

CreateRequest ==
    /\ deletion = "NONE"
    /\ deletion' = "PENDING"
    /\ covers' = Existing
    /\ UNCHANGED <<vars, verifying, exec>>

(* verify_deletion_request with the right code, up to its commit. *)
VerifyRequest ==
    /\ verifying = "NONE"
    /\ deletion \notin {"NONE", "COMPLETED"}
    /\ verifying' = deletion
    /\ UNCHANGED <<vars, deletion, covers, exec>>

(* The UPDATE names the status only if it was loaded as another one. *)
VerifyCommit ==
    /\ verifying # "NONE"
    /\ deletion' = IF verifying = "VERIFICATION_IN_PROGRESS" THEN deletion ELSE "VERIFICATION_IN_PROGRESS"
    /\ verifying' = "NONE"
    /\ UNCHANGED <<vars, covers, exec>>

(* Fault: "Deletion already completed" is not looked at. *)
ExecLoadAny(e) ==
    /\ exec[e].pc = "idle"
    /\ deletion # "NONE"
    /\ exec' = [exec EXCEPT ![e] = [pc |-> "loaded", seen |-> deletion, cleared |-> {}]]
    /\ UNCHANGED <<vars, deletion, covers, verifying>>

(* A verification is not asked for: any request but a completed one runs.  *)
ExecLoad(e) ==
    /\ exec[e].pc = "idle"
    /\ deletion \notin {"NONE", "COMPLETED"}
    /\ exec' = [exec EXCEPT ![e] = [pc |-> "loaded", seen |-> deletion, cleared |-> {}]]
    /\ UNCHANGED <<vars, deletion, covers, verifying>>

ExecStart(e) ==
    /\ exec[e].pc = "loaded"
    /\ deletion' = IF exec[e].seen = "IN_PROGRESS" THEN deletion ELSE "IN_PROGRESS"
    /\ exec' = [exec EXCEPT ![e].pc = "started", ![e].seen = "NONE"]
    /\ UNCHANGED <<vars, covers, verifying>>

(* verify_identity, check_active_consents, check_legal_holds and           *)
(* backup_data answer, and nothing depends on their answers; then the      *)
(* consents are listed and their events deleted, not yet committed.        *)
ExecList(e) ==
    /\ exec[e].pc = "started"
    /\ exec' = [exec EXCEPT ![e].pc = "listed", ![e].cleared = Existing]
    /\ UNCHANGED <<vars, deletion, covers, verifying>>

Deleted(cs) ==
    /\ record' = [c \in Consent |-> IF c \in cs THEN [status |-> "NONE", expires |-> 0] ELSE record[c]]
    /\ logged' = [c \in Consent |-> IF c \in cs THEN {} ELSE logged[c]]
    /\ UNCHANGED <<chain, req, batch, now, faults>>

(* Fault: one commit per consent, where a foreign key may keep some. *)
ExecDeleteSome(e) ==
    /\ exec[e].pc = "listed"
    /\ Deleted(exec[e].cleared)
    /\ exec' = [exec EXCEPT ![e].pc = "deleted", ![e].cleared = {}]
    /\ UNCHANGED <<deletion, covers, verifying>>

(* The records are deleted by principal and fiduciary, not by the list:    *)
(* all that are there now, and the commit.                                 *)
ExecDelete(e) ==
    /\ exec[e].pc = "listed"
    /\ Existing \subseteq exec[e].cleared
    /\ Deleted(Existing)
    /\ exec' = [exec EXCEPT ![e].pc = "deleted", ![e].cleared = {}]
    /\ UNCHANGED <<deletion, covers, verifying>>

(* Fault: the failed step is skipped instead of ending the execution. *)
ExecBlockedGoesOn(e) ==
    /\ exec[e].pc = "listed"
    /\ ~(Existing \subseteq exec[e].cleared)
    /\ exec' = [exec EXCEPT ![e].pc = "deleted", ![e].cleared = {}]
    /\ UNCHANGED <<vars, deletion, covers, verifying>>

(* A record or an event came in since: the foreign key fails the DELETE,   *)
(* and with it the commit of FAILED; the request stays as it is.           *)
ExecBlocked(e) ==
    /\ exec[e].pc = "listed"
    /\ ~(Existing \subseteq exec[e].cleared)
    /\ exec' = [exec EXCEPT ![e] = NotRunning]
    /\ UNCHANGED <<vars, deletion, covers, verifying>>

(* The steps after the deletion change nothing in the database. *)
ExecFinish(e) ==
    /\ exec[e].pc = "deleted"
    /\ deletion' = "COMPLETED"
    /\ exec' = [exec EXCEPT ![e] = NotRunning]
    /\ UNCHANGED <<vars, covers, verifying>>

(* A step raises: verify_identity finds no principal, clear_caches no      *)
(* redis_client.  FAILED is committed.                                     *)
ExecStepFails(e) ==
    /\ exec[e].pc \in {"started", "deleted"}
    /\ Fault
    /\ deletion' = "FAILED"
    /\ exec' = [exec EXCEPT ![e] = NotRunning]
    /\ UNCHANGED <<record, logged, chain, req, batch, now, covers, verifying>>

(* The database fails: what was not committed is gone. *)
ExecAborts(e) ==
    /\ exec[e].pc # "idle"
    /\ Fault
    /\ exec' = [exec EXCEPT ![e] = NotRunning]
    /\ UNCHANGED <<record, logged, chain, req, batch, now, deletion, covers, verifying>>

(* Events that a service commit adds to the consents of cs are not among   *)
(* those an execution has deleted.                                         *)
NewEvents(cs) ==
    /\ exec' = [e \in Executor |-> [exec[e] EXCEPT !.cleared = @ \ cs]]
    /\ UNCHANGED <<deletion, covers, verifying>>

(* Fault: the row is written whether it is still there or not. *)
RowGoneIgnored(r) ==
    /\ Busy(r) /\ req[r].pc = "commit" /\ ~RowThere(r)
    /\ record' = [record EXCEPT ![req[r].consent].status = "EXPIRED"]
    /\ End(r)
    /\ UNCHANGED <<logged, chain, batch, now, faults, dvars>>

(* A session commits to a record deleted since: StaleDataError. *)
RowGone(r) ==
    /\ Busy(r) /\ req[r].pc = "commit" /\ ~RowThere(r)
    /\ End(r)
    /\ UNCHANGED <<record, logged, chain, batch, now, faults, dvars>>

(* The same for the worker, whose whole batch is rolled back. *)
BatchGone ==
    /\ ~(batch \subseteq Existing)
    /\ batch' = {}
    /\ UNCHANGED <<record, logged, chain, req, now, faults, dvars>>

ServiceStep ==
    \/ \E r \in Request :
          \/ (LoadAny(r) \/ CallChain(r) \/ CallChainFails(r) \/ CommitFails(r)) /\ UNCHANGED dvars
          \/ CommitAny(r) /\ NewEvents(IF req[r].op = "verify" THEN {} ELSE {req[r].consent})
    \/ \E written \in SUBSET Consent : WorkerCommit(written) /\ NewEvents(written)
    \/ (WorkerSelect \/ WorkerFails \/ Tick) /\ UNCHANGED dvars

ExecStep(e) ==
    \/ ExecLoad(e) \/ ExecStart(e) \/ ExecList(e) \/ ExecDelete(e) \/ ExecBlocked(e)
    \/ ExecFinish(e) \/ ExecStepFails(e) \/ ExecAborts(e)

DeletionNext ==
    \/ ServiceStep \/ BatchGone \/ \E r \in Request : RowGone(r)
    \/ CreateRequest \/ VerifyRequest \/ VerifyCommit
    \/ \E e \in Executor : ExecStep(e)

DeletionSpec == DeletionInit /\ [][DeletionNext]_allVars
-----------------------------------------------------------------------------
Erased(c) == ~Exists(c) /\ logged[c] = {}

(* A request is COMPLETED only when nothing is left of the consents it was *)
(* made for, whatever other executions, requests and the worker did.       *)
ErasedWhenCompleted == deletion = "COMPLETED" => \A c \in covers : Erased(c)

(* An execution that fails or is blocked half-way leaves the consents of   *)
(* the request either all in place or all erased.                          *)
AllOrNothing == covers \subseteq Existing \/ \A c \in covers : Erased(c)

(* What was erased stays erased: no request, verification or worker run    *)
(* that loaded a record before its deletion writes it, or an event of it,  *)
(* back.                                                                   *)
NoResurrection ==
    [][\A c \in covers : Erased(c) => Erased(c)']_allVars
-----------------------------------------------------------------------------
(* For TLC.  Consents and executions are interchangeable.  No step or      *)
(* property here tells apart which events a record has, only whether it    *)
(* has any; which calls the chain took, only whether it took any; and of a *)
(* loaded status only whether it is the one to be written.                 *)
Symmetry == Permutations(Consent) \union Permutations(Executor)

Same(loaded, written) == IF loaded \in {"NONE", written} THEN loaded ELSE "other"

View ==
    <<record, {c \in Consent : logged[c] = {}}, {c \in Consent : chain[c] = {}},
      [r \in Request |-> IF Busy(r) THEN [req[r] EXCEPT !.seen = Same(@, "MODIFIED")] ELSE Idle],
      batch, now, faults, deletion, covers, Same(verifying, "VERIFICATION_IN_PROGRESS"),
      [e \in Executor |-> [exec[e] EXCEPT !.seen = Same(@, "IN_PROGRESS")]]>>
=============================================================================

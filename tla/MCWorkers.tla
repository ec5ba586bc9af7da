------------------------------ MODULE MCWorkers ------------------------------
(* The two workers of api/workers/expiry_worker.py for TLC: consents that   *)
(* end beside the requests about them, and deletions that are overdue.      *)
(* They share no state, so a behaviour of this run exercises one of them.   *)
EXTENDS ConsentService, DeletionDeadline

VARIABLE worker

workersVars == <<worker, vars, deadlineVars>>

Expiring(A) == worker = "expiry" /\ A /\ UNCHANGED <<worker, deadlineVars>>
Deleting(A) == worker = "deadline" /\ A /\ UNCHANGED <<worker, vars>>

WorkersInit == Init /\ DeadlineInit /\ worker \in {"expiry", "deadline"}

WorkersNext == Expiring(Next) \/ Deleting(DeadlineNext)

(* Fairness for the behaviours of the expiry worker; and the scheduler     *)
(* starts the other worker's jobs again and again, and a job goes on.      *)
WorkersFairness ==
    /\ \A r \in Request :
          WF_workersVars(Expiring(CallChain(r))) /\ WF_workersVars(Expiring(CommitAny(r)))
    /\ WF_workersVars(Expiring(WorkerSelect))
    /\ WF_workersVars(Expiring(\E written \in SUBSET Consent : WorkerCommit(written)))
    /\ WF_workersVars(Deleting(ProcessOverdue)) /\ WF_workersVars(Deleting(ProcessCommits))
    /\ \A r \in Erasure : WF_workersVars(Deleting(EscalateToCompliance(r)))

WorkersSpec == WorkersInit /\ [][WorkersNext]_workersVars /\ WorkersFairness
=============================================================================

-------------------------- MODULE GracefulShutdown --------------------------
(***************************************************************************)
(* api/lifecycle/shutdown.py: the requests in flight, tracked through      *)
(* request_context(), against one run of initiate_shutdown().  All of it   *)
(* is coroutines of one event loop; the lock bodies never suspend, so a    *)
(* request enters and leaves in one step each, and the shutdown advances   *)
(* from one await to the next.                                             *)
(***************************************************************************)
EXTENDS Naturals

CONSTANTS Request,      \* the requests of a run
          NHandlers     \* how many cleanup handlers are registered

ASSUME ShutdownAssumption == NHandlers \in Nat

VARIABLES phase,        \* _stats.phase
          req,          \* req[r]: "new", "active" (in _active_requests), "done" or "refused"
          drained,      \* the event _drain_complete is set
          timedOut,     \* the drain ended by DRAIN_TIMEOUT
          next,         \* the cleanup handler that is running
          run,          \* cleanup_handlers_run
          errors        \* length of errors

vars == <<phase, req, drained, timedOut, next, run, errors>>

(* SHUTDOWN_REQUESTED is left again before the coroutine first suspends. *)
Phase == {"RUNNING", "DRAINING", "CLEANUP", "COMPLETE"}

TypeOK ==
    /\ phase \in Phase
    /\ req \in [Request -> {"new", "active", "done", "refused"}]
    /\ drained \in BOOLEAN
    /\ timedOut \in BOOLEAN
    /\ next \in 1..(NHandlers + 1)
    /\ run \in Nat
    /\ errors \in Nat

Init ==
    /\ phase = "RUNNING"
    /\ req = [r \in Request |-> "new"]
    /\ drained = FALSE
    /\ timedOut = FALSE
    /\ next = 1
    /\ run = 0
    /\ errors = 0

Active == {r \in Request : req[r] = "active"}

(* Fault: requests are admitted until the cleanup begins. *)
EnterWhileDraining(r) ==
    /\ req[r] = "new"
    /\ phase \in {"RUNNING", "DRAINING"}
    /\ req' = [req EXCEPT ![r] = "active"]
    /\ UNCHANGED <<phase, drained, timedOut, next, run, errors>>

(* __aenter__ while the server runs. *)
Enter(r) ==
    /\ req[r] = "new"
    /\ phase = "RUNNING"
    /\ req' = [req EXCEPT ![r] = "active"]
    /\ UNCHANGED <<phase, drained, timedOut, next, run, errors>>

(* __aenter__ afterwards raises "Server is shutting down". *)
Refuse(r) ==
    /\ req[r] = "new"
    /\ phase # "RUNNING"
    /\ req' = [req EXCEPT ![r] = "refused"]
    /\ UNCHANGED <<phase, drained, timedOut, next, run, errors>>

(* Fault: the check for the last request looks before it is discarded. *)
ExitChecksFirst(r) ==
    /\ req[r] = "active"
    /\ req' = [req EXCEPT ![r] = "done"]
    /\ drained' = (drained \/ (phase # "RUNNING" /\ Active = {}))
    /\ UNCHANGED <<phase, timedOut, next, run, errors>>

(* __aexit__: the last request to leave during a shutdown ends the drain. *)
Exit(r) ==
    /\ req[r] = "active"
    /\ req' = [req EXCEPT ![r] = "done"]
    /\ drained' = (drained \/ (phase # "RUNNING" /\ Active' = {}))
    /\ UNCHANGED <<phase, timedOut, next, run, errors>>

(* initiate_shutdown up to its first await; called again, by the second    *)
(* signal, it returns at once and nothing changes.                         *)
Initiate ==
    /\ phase = "RUNNING"
    /\ phase' = IF Active = {} THEN "CLEANUP" ELSE "DRAINING"
    /\ UNCHANGED <<req, drained, timedOut, next, run, errors>>

(* _drain_requests: wait_for(_drain_complete.wait(), DRAIN_TIMEOUT). *)
DrainDone ==
    /\ phase = "DRAINING"
    /\ drained
    /\ phase' = "CLEANUP"
    /\ UNCHANGED <<req, drained, timedOut, next, run, errors>>

DrainTimeout ==
    /\ phase = "DRAINING"
    /\ timedOut' = TRUE
    /\ phase' = "CLEANUP"
    /\ UNCHANGED <<req, drained, next, run, errors>>

(* Fault: the loop over the handlers runs once too often. *)
HandlerRunsOnceMore ==
    /\ phase = "CLEANUP"
    /\ next <= NHandlers + 1
    /\ next' = next + 1
    /\ run' = run + 1
    /\ UNCHANGED <<phase, req, drained, timedOut, errors>>

(* One iteration of _run_cleanup_handlers: the handler returns ... *)
HandlerRuns ==
    /\ phase = "CLEANUP"
    /\ next <= NHandlers
    /\ next' = next + 1
    /\ run' = run + 1
    /\ UNCHANGED <<phase, req, drained, timedOut, errors>>

(* Fault: no wait_for around a handler, so one that hangs is waited for. *)
HandlerHangs == FALSE /\ UNCHANGED vars

(* ... or it raises an Exception or exceeds its five seconds, and the next *)
(* one runs.  What is no Exception (a cancellation that the handler lets   *)
(* through, SystemExit) leaves the loop and is not modelled.               *)
HandlerFails ==
    /\ phase = "CLEANUP"
    /\ next <= NHandlers
    /\ next' = next + 1
    /\ errors' = errors + 1
    /\ UNCHANGED <<phase, req, drained, timedOut, run>>

Finish ==
    /\ phase = "CLEANUP"
    /\ next > NHandlers
    /\ phase' = "COMPLETE"
    /\ UNCHANGED <<req, drained, timedOut, next, run, errors>>

Next ==
    \/ \E r \in Request : Enter(r) \/ Refuse(r) \/ Exit(r)
    \/ Initiate \/ DrainDone \/ DrainTimeout
    \/ HandlerRuns \/ HandlerFails \/ Finish

Spec == Init /\ [][Next]_vars

(* The timers of the event loop fire and the shutdown coroutine is         *)
(* resumed; no request needs to end, and no handler needs to return.       *)
Fairness ==
    /\ WF_vars(DrainTimeout)
    /\ WF_vars(HandlerFails)
    /\ WF_vars(Finish)

FairSpec == Spec /\ Fairness
-----------------------------------------------------------------------------
(* The cleanup handlers, which close what requests use, run only when no   *)
(* request is active or the drain has timed out.                           *)
CleanupAfterDrain ==
    phase \in {"CLEANUP", "COMPLETE"} => Active = {} \/ timedOut

(* No wake-up is lost: while the shutdown waits for the drain, either a    *)
(* request is still active, whose end will set the event, or it is set.    *)
NoLostWakeup == phase = "DRAINING" => Active # {} \/ drained

(* Whatever handlers fail or hang, each one registered has been started    *)
(* exactly once when the shutdown is complete, and is accounted for.       *)
HandlersAccounted == phase = "COMPLETE" => run + errors = NHandlers

(* A shutdown, once initiated, completes, though requests and handlers may *)
(* hang for ever.                                                          *)
ShutdownCompletes == phase # "RUNNING" ~> phase = "COMPLETE"
=============================================================================

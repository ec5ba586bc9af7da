---------------------- MODULE GracefulShutdown_proofs ----------------------
(***************************************************************************)
(* Proofs about GracefulShutdown, for every set of requests and every      *)
(* number of cleanup handlers.                                             *)
(***************************************************************************)
EXTENDS GracefulShutdown, TLAPS

(* What the three properties rest on: the event is set only when the last  *)
(* request has left and none can enter any more, and the position in the   *)
(* list of handlers counts the outcomes recorded so far.                   *)
EventMeansEmpty == drained => phase # "RUNNING" /\ Active = {}

OutcomesCounted ==
    /\ run + errors = next - 1
    /\ phase = "COMPLETE" => next = NHandlers + 1

Counts ==
    /\ next \in 1..(NHandlers + 1)
    /\ run \in Nat
    /\ errors \in Nat
    /\ OutcomesCounted

Draining ==
    /\ req \in [Request -> {"new", "active", "done", "refused"}]
    /\ phase \in Phase
    /\ EventMeansEmpty
    /\ CleanupAfterDrain
    /\ NoLostWakeup

Flags == drained \in BOOLEAN /\ timedOut \in BOOLEAN

LEMMA CountsInvariant == Spec => []Counts
<1> USE ShutdownAssumption DEF Counts, OutcomesCounted
<1>1. Init => Counts
  BY DEF Init
<1>2. Counts /\ [Next]_vars => Counts'
  <2> SUFFICES ASSUME Counts, [Next]_vars PROVE Counts'
    OBVIOUS
  <2>1. CASE HandlerRuns
    BY <2>1 DEF HandlerRuns
  <2>2. CASE HandlerFails
    BY <2>2 DEF HandlerFails
  <2>3. CASE Finish
    BY <2>3 DEF Finish
  <2>4. ASSUME UNCHANGED <<next, run, errors>>, phase' # "COMPLETE" \/ UNCHANGED phase
        PROVE  Counts'
    BY <2>4
  <2>5. CASE Initiate \/ DrainDone \/ DrainTimeout
    <3>1. UNCHANGED <<next, run, errors>> /\ phase' # "COMPLETE"
      BY <2>5 DEF Initiate, DrainDone, DrainTimeout
    <3> QED BY <3>1, <2>4
  <2>6. ASSUME NEW r \in Request, Enter(r) \/ Refuse(r) \/ Exit(r)
        PROVE  Counts'
    <3>1. UNCHANGED <<next, run, errors, phase>>
      BY <2>6 DEF Enter, Refuse, Exit
    <3> QED BY <3>1, <2>4
  <2>7. CASE UNCHANGED vars
    BY <2>7, <2>4 DEF vars
  <2> QED BY <2>1, <2>2, <2>3, <2>5, <2>6, <2>7 DEF Next
<1> QED BY <1>1, <1>2, PTL DEF Spec

LEMMA DrainingInvariant == Spec => []Draining
<1> USE DEF Draining, EventMeansEmpty, CleanupAfterDrain, NoLostWakeup, Active, Phase
<1>1. Init => Draining
  BY DEF Init
<1>2. Draining /\ [Next]_vars => Draining'
  <2> SUFFICES ASSUME Draining, [Next]_vars PROVE Draining'
    OBVIOUS
  <2>1. ASSUME NEW r \in Request, Enter(r) PROVE Draining'
    BY <2>1 DEF Enter
  <2>2. ASSUME NEW r \in Request, Refuse(r) PROVE Draining'
    BY <2>2 DEF Refuse
  <2>3. ASSUME NEW r \in Request, Exit(r) PROVE Draining'
    BY <2>3 DEF Exit
  <2>4. CASE Initiate
    BY <2>4 DEF Initiate
  <2>5. CASE DrainDone
    BY <2>5 DEF DrainDone
  <2>6. CASE DrainTimeout
    BY <2>6 DEF DrainTimeout
  <2>7. CASE HandlerRuns \/ HandlerFails
    BY <2>7 DEF HandlerRuns, HandlerFails
  <2>8. CASE Finish
    BY <2>8 DEF Finish
  <2>9. CASE UNCHANGED vars
    BY <2>9 DEF vars
  <2> QED BY <2>1, <2>2, <2>3, <2>4, <2>5, <2>6, <2>7, <2>8, <2>9 DEF Next
<1> QED BY <1>1, <1>2, PTL DEF Spec

(* The cleanup never runs beside an active request unless the drain timed  *)
(* out (_drain_requests, __aenter__ and __aexit__ together).               *)
THEOREM CleanupWaits == Spec => []CleanupAfterDrain
<1>1. Draining => CleanupAfterDrain
  BY DEF Draining
<1> QED BY DrainingInvariant, <1>1, PTL

(* The last request to leave always ends the wait of _drain_requests. *)
THEOREM WakeupsArrive == Spec => []NoLostWakeup
<1>1. Draining => NoLostWakeup
  BY DEF Draining
<1> QED BY DrainingInvariant, <1>1, PTL

(* Every handler is started once and counted once, whichever fail. *)
THEOREM HandlersAllRun == Spec => []HandlersAccounted
<1>1. Counts => HandlersAccounted
  BY ShutdownAssumption DEF Counts, OutcomesCounted, HandlersAccounted
<1> QED BY CountsInvariant, <1>1, PTL

(* The shutdown and each request stay in a phase the code knows, and the   *)
(* handlers are taken in order (initiate_shutdown, request_context).       *)
THEOREM ShutdownTypeCorrect == Spec => []TypeOK
<1>1. Init => Flags
  BY DEF Init, Flags
<1>2. Flags /\ [Next]_vars => Flags'
  <2> SUFFICES ASSUME drained \in BOOLEAN, timedOut \in BOOLEAN, [Next]_vars
               PROVE  drained' \in BOOLEAN /\ timedOut' \in BOOLEAN
    BY DEF Flags
  <2>1. ASSUME NEW r \in Request, Exit(r) PROVE drained' \in BOOLEAN /\ UNCHANGED timedOut
    BY <2>1, Zenon DEF Exit
  <2>2. ASSUME NEW r \in Request, Enter(r) \/ Refuse(r) PROVE UNCHANGED <<drained, timedOut>>
    BY <2>2, Zenon DEF Enter, Refuse
  <2>3. CASE DrainTimeout
    BY <2>3, Zenon DEF DrainTimeout
  <2>4. CASE Initiate \/ DrainDone \/ HandlerRuns \/ HandlerFails \/ Finish
    BY <2>4, Zenon DEF Initiate, DrainDone, HandlerRuns, HandlerFails, Finish
  <2>5. CASE UNCHANGED vars
    BY <2>5, Zenon DEF vars
  <2> QED BY <2>1, <2>2, <2>3, <2>4, <2>5, Zenon DEF Next
<1>3. Counts /\ Draining /\ Flags => TypeOK
  BY DEF Flags, Counts, Draining, TypeOK
<1> QED BY <1>1, <1>2, <1>3, CountsInvariant, DrainingInvariant, PTL DEF Spec
=============================================================================

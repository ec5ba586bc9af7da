--------------------------- MODULE CircuitBreaker ---------------------------
(***************************************************************************)
(* api/resilience/circuit_breaker.py: one CircuitBreaker shared by the     *)
(* coroutines of a process.  The lock of call() covers only the admission, *)
(* whose body never suspends, and the two _record_ methods never suspend   *)
(* either; so an admission is one step and the recording of an outcome is  *)
(* another, with anything in between: a call is still running when the     *)
(* circuit has long changed state.                                         *)
(*                                                                         *)
(* The statistics that no decision reads (totals, times, error texts) are  *)
(* left out; consecutive_failures is kept up to the threshold it is        *)
(* compared with.                                                          *)
(***************************************************************************)
EXTENDS Naturals

CONSTANTS Call,             \* the coroutines that go through the breaker
          FailureThreshold, \* failure_threshold
          SuccessThreshold  \* success_threshold

ASSUME BreakerAssumption ==
    /\ FailureThreshold \in Nat \ {0}
    /\ SuccessThreshold \in Nat \ {0}

VARIABLES state,        \* _state
          failures,     \* consecutive_failures, no further than the threshold
          successes,    \* _half_open_successes
          waited,       \* recovery_timeout has passed since state_changed_at
          call,         \* call[c]: "idle", or the state c was admitted in
          healthy       \* whether the guarded service answers

vars == <<state, failures, successes, waited, call, healthy>>

State == {"CLOSED", "OPEN", "HALF_OPEN"}

TypeOK ==
    /\ state \in State
    /\ failures \in 0..FailureThreshold
    /\ successes \in 0..SuccessThreshold
    /\ waited \in BOOLEAN
    /\ call \in [Call -> State \union {"idle"}]
    /\ healthy \in BOOLEAN

Init ==
    /\ state = "CLOSED"
    /\ failures = 0
    /\ successes = 0
    /\ waited = FALSE
    /\ call = [c \in Call |-> "idle"]
    /\ healthy \in BOOLEAN

Running(c) == call[c] # "idle"

Return(c) == call' = [call EXCEPT ![c] = "idle"]

(* The locked part of call(): an open circuit whose recovery timeout has   *)
(* passed turns half-open and lets the call through, as it then does with  *)
(* any number of them; an open circuit otherwise raises CircuitBreakerOpen *)
(* and nothing changes, so that there is no step.                          *)
Admit(c) ==
    /\ ~Running(c)
    /\ state = "OPEN" => waited
    /\ state' = IF state = "OPEN" THEN "HALF_OPEN" ELSE state
    /\ waited' = FALSE
    /\ successes' = IF state = "OPEN" THEN 0 ELSE successes
    /\ call' = [call EXCEPT ![c] = state']
    /\ UNCHANGED <<failures, healthy>>

(* Fault: a success closes the circuit whatever its state. *)
SucceedAlwaysCounts(c) ==
    /\ Running(c)
    /\ Return(c)
    /\ failures' = 0
    /\ IF successes + 1 >= SuccessThreshold
       THEN state' = "CLOSED" /\ successes' = 0 /\ waited' = FALSE
       ELSE successes' = successes + 1 /\ UNCHANGED <<state, waited>>
    /\ UNCHANGED healthy

(* Fault: the circuit closes one success too late. *)
SucceedOffByOne(c) ==
    /\ Running(c)
    /\ Return(c)
    /\ failures' = 0
    /\ IF state = "HALF_OPEN" /\ successes + 1 > SuccessThreshold
       THEN state' = "CLOSED" /\ successes' = 0 /\ waited' = FALSE
       ELSE /\ successes' = IF state = "HALF_OPEN" THEN successes + 1 ELSE successes
            /\ UNCHANGED <<state, waited>>
    /\ UNCHANGED healthy

(* Fault: a half-open circuit counts its successes and never closes. *)
SucceedKeepsCounting(c) ==
    /\ Running(c)
    /\ Return(c)
    /\ failures' = 0
    /\ successes' = IF state = "HALF_OPEN" THEN successes + 1 ELSE successes
    /\ UNCHANGED <<state, waited, healthy>>

(* Fault: a half-open circuit ignores its successes. *)
SucceedNeverCloses(c) ==
    /\ Running(c)
    /\ Return(c)
    /\ failures' = 0
    /\ UNCHANGED <<state, successes, waited, healthy>>

(* The function returned: _record_success.  It looks at the state of now,  *)
(* not at the one the call was admitted in.                                *)
Succeed(c) ==
    /\ Running(c)
    /\ Return(c)
    /\ failures' = 0
    /\ \/ /\ state = "HALF_OPEN"
          /\ successes + 1 >= SuccessThreshold
          /\ state' = "CLOSED"
          /\ successes' = 0
          /\ waited' = FALSE
       \/ /\ state = "HALF_OPEN"
          /\ successes + 1 < SuccessThreshold
          /\ successes' = successes + 1
          /\ UNCHANGED <<state, waited>>
       \/ /\ state # "HALF_OPEN"
          /\ UNCHANGED <<state, successes, waited>>
    /\ UNCHANGED healthy

(* The function raised or timed out: _record_failure, again by the state   *)
(* of now.  An open circuit stays open and keeps its waiting time.         *)
Fail(c) ==
    /\ Running(c)
    /\ ~healthy
    /\ Return(c)
    /\ failures' = IF failures < FailureThreshold THEN failures + 1 ELSE failures
    /\ IF \/ state = "HALF_OPEN"
          \/ state = "CLOSED" /\ failures + 1 >= FailureThreshold
       THEN state' = "OPEN" /\ waited' = FALSE
       ELSE UNCHANGED <<state, waited>>
    /\ UNCHANGED <<successes, healthy>>

(* The caller was cancelled: CancelledError is no Exception, nothing is    *)
(* recorded.                                                               *)
Cancel(c) ==
    /\ Running(c)
    /\ Return(c)
    /\ UNCHANGED <<state, failures, successes, waited, healthy>>

(* reset(), with calls possibly still running. *)
Reset ==
    /\ state' = "CLOSED"
    /\ failures' = 0
    /\ successes' = 0
    /\ waited' = FALSE
    /\ UNCHANGED <<call, healthy>>

(* recovery_timeout seconds have passed since the circuit opened. *)
Elapse ==
    /\ state = "OPEN"
    /\ waited' = TRUE
    /\ UNCHANGED <<state, failures, successes, call, healthy>>

(* The guarded service goes down or comes back. *)
ServiceChange ==
    /\ healthy' = ~healthy
    /\ UNCHANGED <<state, failures, successes, waited, call>>

Next ==
    \/ \E c \in Call : Admit(c) \/ Succeed(c) \/ Fail(c) \/ Cancel(c)
    \/ Reset
    \/ Elapse
    \/ ServiceChange

Spec == Init /\ [][Next]_vars

(* Requests keep coming, time passes, and a caller is not cancelled every  *)
(* time just before its answer.                                            *)
Fairness ==
    /\ WF_vars(Elapse)
    /\ \A c \in Call : WF_vars(Admit(c)) /\ SF_vars(Succeed(c))

FairSpec == Spec /\ Fairness
-----------------------------------------------------------------------------
(* Every threshold acts at once, whichever calls end when: a circuit that  *)
(* is still closed has seen fewer than failure_threshold failures in a     *)
(* row, and one still half-open fewer than success_threshold successes.    *)
ThresholdsAct ==
    /\ state = "CLOSED" => failures < FailureThreshold
    /\ state = "HALF_OPEN" => successes < SuccessThreshold

(* An open circuit protects the service for the whole recovery timeout:    *)
(* calls admitted before it opened, ending well or badly in the meantime,  *)
(* neither close it nor let it be tried early; only reset() does.          *)
OpenHolds ==
    [][state = "OPEN" /\ state' # "OPEN" =>
          Reset \/ (waited /\ state' = "HALF_OPEN")]_vars

(* The circuit recovers with its service: once the service stays up, the   *)
(* circuit ends up closed for good, however many calls of the outage are   *)
(* still running and whatever the counters were.                           *)
Recovers == <>[]healthy => <>[](state = "CLOSED")
=============================================================================

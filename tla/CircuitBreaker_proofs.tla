----------------------- MODULE CircuitBreaker_proofs -----------------------
(***************************************************************************)
(* Proofs about CircuitBreaker, for every set of calls and all thresholds  *)
(* of at least one.                                                        *)
(***************************************************************************)
EXTENDS CircuitBreaker, TLAPS

(* A circuit whose counter has reached its threshold has already changed   *)
(* state; the counters' types are all the invariant needs besides.         *)
IInv == TypeOK /\ ThresholdsAct

LEMMA InitIInv == Init => IInv
<1> SUFFICES ASSUME Init PROVE IInv
  OBVIOUS
<1>1. failures \in 0..FailureThreshold /\ successes \in 0..SuccessThreshold /\ ThresholdsAct
  BY BreakerAssumption DEF Init, ThresholdsAct
<1>2. /\ state \in State
      /\ waited \in BOOLEAN
      /\ call \in [Call -> State \union {"idle"}]
      /\ healthy \in BOOLEAN
  BY DEF Init, State
<1> QED BY <1>1, <1>2 DEF IInv, TypeOK

(* The two Boolean variables and the calls, apart from the counters. *)
LEMMA NextFlags ==
    TypeOK /\ [Next]_vars =>
        waited' \in BOOLEAN /\ healthy' \in BOOLEAN /\ call' \in [Call -> State \union {"idle"}]
<1> SUFFICES ASSUME TypeOK, [Next]_vars
             PROVE  /\ waited' \in BOOLEAN
                    /\ healthy' \in BOOLEAN
                    /\ call' \in [Call -> State \union {"idle"}]
  OBVIOUS
<1>t. /\ waited \in BOOLEAN /\ healthy \in BOOLEAN
      /\ call \in [Call -> State \union {"idle"}]
      /\ state \in State
  BY DEF TypeOK
<1>1. ASSUME NEW c \in Call, Admit(c)
      PROVE  waited' \in BOOLEAN /\ healthy' \in BOOLEAN
             /\ call' \in [Call -> State \union {"idle"}]
  <2>1. state' \in State
    BY <1>1, <1>t DEF Admit, State
  <2>2. waited' = FALSE /\ healthy' = healthy /\ call' = [call EXCEPT ![c] = state']
    BY <1>1 DEF Admit
  <2> QED BY <1>t, <2>1, <2>2
<1>2. ASSUME NEW c \in Call, Succeed(c) \/ Fail(c) \/ Cancel(c)
      PROVE  waited' \in BOOLEAN /\ healthy' \in BOOLEAN
             /\ call' \in [Call -> State \union {"idle"}]
  <2>1. (waited' = FALSE \/ waited' = waited) /\ healthy' = healthy
        /\ call' = [call EXCEPT ![c] = "idle"]
    BY <1>2 DEF Succeed, Fail, Cancel, Return
  <2> QED BY <1>t, <2>1
<1>3. CASE Reset \/ Elapse \/ ServiceChange \/ UNCHANGED vars
  BY <1>3, <1>t DEF Reset, Elapse, ServiceChange, vars
<1> QED BY <1>1, <1>2, <1>3 DEF Next

LEMMA NextIInv == IInv /\ [Next]_vars => IInv'
<1> SUFFICES ASSUME IInv, [Next]_vars PROVE IInv'
  OBVIOUS
<1> DEFINE Counters == /\ state \in State
                       /\ failures \in 0..FailureThreshold
                       /\ successes \in 0..SuccessThreshold
                       /\ ThresholdsAct
<1>c. Counters
  BY DEF IInv, TypeOK
<1>1. ASSUME NEW c \in Call, Admit(c) PROVE Counters'
  BY <1>1, <1>c, BreakerAssumption DEF Admit, ThresholdsAct, State
<1>2. ASSUME NEW c \in Call, Succeed(c) PROVE Counters'
  BY <1>2, <1>c, BreakerAssumption DEF Succeed, ThresholdsAct, State
<1>3. ASSUME NEW c \in Call, Fail(c) PROVE Counters'
  BY <1>3, <1>c, BreakerAssumption DEF Fail, ThresholdsAct, State
<1>4. ASSUME NEW c \in Call, Cancel(c) PROVE Counters'
  BY <1>4, <1>c DEF Cancel, ThresholdsAct
<1>5. ASSUME Reset PROVE Counters'
  <2>1. state' = "CLOSED" /\ failures' = 0 /\ successes' = 0
    BY <1>5 DEF Reset
  <2> QED BY <2>1, <1>c, BreakerAssumption DEF ThresholdsAct, State
<1>6. ASSUME UNCHANGED <<state, failures, successes>> PROVE Counters'
  BY <1>6, <1>c DEF ThresholdsAct
<1>7. ASSUME Elapse PROVE Counters'
  BY <1>7, <1>6 DEF Elapse
<1>8. ASSUME ServiceChange PROVE Counters'
  BY <1>8, <1>6 DEF ServiceChange
<1>9. ASSUME UNCHANGED vars PROVE Counters'
  BY <1>9, <1>6 DEF vars
<1>10. Counters'
  BY <1>1, <1>2, <1>3, <1>4, <1>5, <1>7, <1>8, <1>9 DEF Next
<1> QED
  BY <1>10, NextFlags DEF IInv, TypeOK

(* Whichever calls end when, a threshold that is reached has changed the   *)
(* state (_record_success and _record_failure), and the types hold.        *)
THEOREM BreakerThresholds == Spec => [](TypeOK /\ ThresholdsAct)
<1>1. IInv => TypeOK /\ ThresholdsAct
  BY DEF IInv
<1> QED BY InitIInv, NextIInv, <1>1, PTL DEF Spec

(* An open circuit is left only after the recovery timeout, for HALF_OPEN, *)
(* or by reset(): no late outcome of an earlier call closes it.            *)
THEOREM OpenCircuitHolds == Spec => OpenHolds
<1>1. [Next]_vars =>
        [state = "OPEN" /\ state' # "OPEN" =>
            Reset \/ (waited /\ state' = "HALF_OPEN")]_vars
  <2> SUFFICES ASSUME Next, state = "OPEN", state' # "OPEN"
               PROVE  Reset \/ (waited /\ state' = "HALF_OPEN")
    OBVIOUS
  <2>1. ASSUME NEW c \in Call, Admit(c) PROVE waited /\ state' = "HALF_OPEN"
    BY <2>1 DEF Admit
  <2>2. ASSUME NEW c \in Call, Succeed(c) \/ Fail(c) \/ Cancel(c) PROVE FALSE
    BY <2>2 DEF Succeed, Fail, Cancel
  <2>3. CASE Elapse \/ ServiceChange
    BY <2>3 DEF Elapse, ServiceChange
  <2> QED BY <2>1, <2>2, <2>3 DEF Next
<1> QED BY <1>1, PTL DEF Spec, OpenHolds

(* The counters stay within their thresholds and every call in a state of  *)
(* the breaker (CircuitBreaker.call, _record_success, _record_failure).    *)
THEOREM BreakerTypeCorrect == Spec => []TypeOK
<1>1. TypeOK /\ ThresholdsAct => TypeOK
  OBVIOUS
<1> QED BY <1>1, BreakerThresholds, PTL
=============================================================================

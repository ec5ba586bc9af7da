--------------------------- MODULE Consents_proofs ---------------------------
(***************************************************************************)
(* The life of a consent from its creation to its erasure, for any number  *)
(* of consents, requests and executions: the order of the two stores of    *)
(* ConsentService and the finality of a withdrawal; that a deletion erases *)
(* all or nothing and for good; and which deletions the deadline worker    *)
(* marks overdue.                                                          *)
(***************************************************************************)
EXTENDS DataDeletion, DeletionDeadline, TLAPS

(***************************************************************************)
(* ConsentService.  The inductive invariant says what a session that is    *)
(* about to commit may rely on, whatever was committed since it loaded its *)
(* record.                                                                 *)
(***************************************************************************)
(* A session about to commit a creation or a withdrawal has it on the      *)
(* chain; every other session's record is there.                           *)
Prepared ==
    \A r \in Request : Busy(r) =>
        /\ req[r].pc = "commit" /\ req[r].op \in {"create", "revoke"}
              => req[r].op \in chain[req[r].consent]
        /\ req[r].op # "create" => Exists(req[r].consent)

ServiceInv == TypeOK /\ ChainFirst /\ Prepared

(* Rows and chain effects are never taken back. *)
Grows ==
    \A c \in Consent : (Exists(c) => Exists(c)') /\ chain[c] \subseteq chain'[c]

LEMMA ServiceInit == Init => ServiceInv
  BY ServiceAssumption DEF Init, ServiceInv, TypeOK, ChainFirst, Prepared, Exists, Busy, Idle, Session,
     Status, Expiry

LEMMA ServiceNext == ServiceInv /\ [Next]_vars => ServiceInv'
<1> SUFFICES ASSUME ServiceInv, [Next]_vars PROVE ServiceInv'
  OBVIOUS
<1> USE ServiceAssumption DEF ServiceInv, Exists, Busy, Status
<1>1. ASSUME NEW r \in Request, LoadAny(r) PROVE ServiceInv'
  <2>1. PICK c \in Consent, pc \in {"chain", "commit"}, op \in {"create", "revoke", "modify", "verify"} :
           /\ Load(r, pc, op, c)
           /\ pc = "chain" => op \in {"create", "revoke"}
           /\ pc = "commit" => op \in {"modify", "verify"}
           /\ op # "create" => Exists(c)
    BY <1>1 DEF LoadAny, LoadCreate, LoadRevoke, LoadModify, LoadVerify
  <2> DEFINE s == [pc |-> pc, op |-> op, consent |-> c, seen |-> record[c].status]
  <2>2. /\ req' = [req EXCEPT ![r] = s]
        /\ UNCHANGED <<record, logged, chain, batch, now, faults>>
    BY <2>1 DEF Load
  <2>3. s \in Session
    BY <2>1 DEF TypeOK, Session
  <2>4. TypeOK'
    BY <2>2, <2>3 DEF TypeOK
  <2>5. ChainFirst'
    BY <2>2 DEF ChainFirst
  <2>6. Prepared'
    BY <2>1, <2>2 DEF Prepared, TypeOK, Idle
  <2>7. QED
    BY <2>4, <2>5, <2>6
<1>2. ASSUME NEW r \in Request, Busy(r), req[r].pc = "chain",
             chain' \in {chain, [chain EXCEPT ![req[r].consent] = @ \union {req[r].op}]},
             faults' \in 0..MaxFaults,
             UNCHANGED <<record, logged, batch, now>>,
             \/ /\ chain' = [chain EXCEPT ![req[r].consent] = @ \union {req[r].op}]
                /\ req' = [req EXCEPT ![r].pc = "commit"]
             \/ End(r)
      PROVE  ServiceInv'
  <2>1. /\ req[r].consent \in Consent
        /\ req[r].op \in {"create", "revoke"}
        /\ req[r] \in [pc : {"chain"}, op : {"create", "revoke"}, consent : Consent,
                       seen : Status \union {"NONE"}]
    BY <1>2 DEF TypeOK, Session, Idle
  <2>2. chain' \in [Consent -> SUBSET {"create", "revoke"}]
    BY <1>2, <2>1 DEF TypeOK
  <2>3. req' \in [Request -> Session \union {Idle}]
    <3>1. CASE End(r)
      BY <3>1 DEF End, TypeOK
    <3>2. CASE req' = [req EXCEPT ![r].pc = "commit"]
      <4>1. [req[r] EXCEPT !.pc = "commit"] \in Session
        BY <2>1 DEF Session
      <4>2. QED
        BY <3>2, <4>1 DEF TypeOK
    <3>3. QED
      BY <1>2, <3>1, <3>2
  <2>4. TypeOK'
    BY <1>2, <2>2, <2>3 DEF TypeOK
  <2>5. \A c \in Consent : chain[c] \subseteq chain'[c]
    BY <1>2, <2>1 DEF TypeOK
  <2>6. ChainFirst'
    BY <1>2, <2>5 DEF ChainFirst
  <2>7. Prepared'
    <3>1. CASE End(r)
      BY <1>2, <2>5, <3>1 DEF End, Prepared, TypeOK, Idle, Session
    <3>2. CASE /\ chain' = [chain EXCEPT ![req[r].consent] = @ \union {req[r].op}]
               /\ req' = [req EXCEPT ![r].pc = "commit"]
      <4>1. ASSUME NEW q \in Request, q # r PROVE req'[q] = req[q]
        BY <3>2, <4>1 DEF TypeOK
      <4>2. /\ req'[r].op = req[r].op
            /\ req'[r].consent = req[r].consent
            /\ req[r].op \in chain'[req[r].consent]
        BY <2>1, <3>2 DEF TypeOK
      <4>3. ASSUME NEW q \in Request, Busy(q), req[q].pc = "commit"
            PROVE  req[q].consent \in Consent
        BY <4>3 DEF TypeOK, Session, Idle
      <4>4. QED
        BY <1>2, <2>1, <2>5, <4>1, <4>2, <4>3 DEF Prepared
    <3>3. QED
      BY <1>2, <3>1, <3>2
  <2>8. QED
    BY <2>4, <2>6, <2>7
<1>3. ASSUME NEW r \in Request, CallChain(r) PROVE ServiceInv'
  BY <1>2, <1>3 DEF CallChain, TypeOK
<1>4. ASSUME NEW r \in Request, CallChainFails(r) PROVE ServiceInv'
  <2>1. faults' \in 0..MaxFaults
    BY <1>4 DEF CallChainFails, Fault, TypeOK
  <2>2. QED
    BY <1>2, <1>4, <2>1 DEF CallChainFails
<1>5. ASSUME NEW r \in Request, Busy(r), req[r].pc = "commit", End(r),
             NEW c \in Consent, c = req[r].consent,
             record' \in [Consent -> [status : Status \union {"NONE"}, expires : Expiry]],
             logged' \in [Consent -> SUBSET Status],
             \A d \in Consent \ {c} : record'[d] = record[d] /\ logged'[d] = logged[d],
             record'[c].status # "NONE",
             "REVOKED" \in logged'[c] => "REVOKED" \in logged[c] \/ req[r].op = "revoke",
             record'[c].status = "REVOKED" => record[c].status = "REVOKED" \/ req[r].op = "revoke",
             UNCHANGED <<chain, batch, now, faults>>
      PROVE  ServiceInv'
  <2>1. TypeOK'
    BY <1>5 DEF TypeOK, End
  <2>2. /\ "create" \in chain[c]
        /\ req[r].op = "revoke" => "revoke" \in chain[c]
    <3>1. CASE req[r].op = "create"
      BY <1>5, <3>1 DEF Prepared
    <3>2. CASE req[r].op # "create"
      BY <1>5, <3>2 DEF Prepared, ChainFirst
    <3>3. QED
      BY <3>1, <3>2
  <2>3. ChainFirst'
    BY <1>5, <2>2 DEF ChainFirst, TypeOK
  <2>4. Prepared'
    BY <1>5 DEF Prepared, TypeOK, End, Idle, Session
  <2>5. QED
    BY <2>1, <2>3, <2>4
<1>6. ASSUME NEW r \in Request, CommitAny(r) PROVE ServiceInv'
  <2> DEFINE c == req[r].consent
  <2>1. /\ Busy(r) /\ req[r].pc = "commit" /\ End(r)
        /\ UNCHANGED <<chain, batch, now, faults>>
    BY <1>6 DEF CommitAny, CommitCreate, CommitModify, CommitRevoke, CommitVerify, At
  <2>2. /\ c \in Consent
        /\ req[r].seen \in Status \union {"NONE"}
    BY <2>1 DEF TypeOK, Session, Idle
  <2>3. /\ record[c] = [status |-> record[c].status, expires |-> record[c].expires]
        /\ record[c].status \in Status \union {"NONE"}
        /\ record[c].expires \in Expiry
        /\ logged[c] \in SUBSET Status
    BY <2>2 DEF TypeOK
  <2>4. ASSUME NEW expires \in Expiry, CommitCreate(r, expires) PROVE ServiceInv'
    BY <1>5, <2>1, <2>2, <2>3, <2>4 DEF CommitCreate, TypeOK
  <2>5. ASSUME NEW expires \in Expiry, CommitModify(r, expires) PROVE ServiceInv'
    <3>1. Exists(c)
      BY <2>1, <2>5 DEF CommitModify, At, Prepared
    <3> DEFINE new == [[record[c] EXCEPT !.status = IF req[r].seen = "MODIFIED" THEN @ ELSE "MODIFIED"]
                         EXCEPT !.expires = expires]
    <3>2. /\ new \in [status : Status \union {"NONE"}, expires : Expiry]
          /\ new.status \in {record[c].status, "MODIFIED"}
      BY <2>3
    <3>3. record' = [record EXCEPT ![c] = new]
      BY <2>2, <2>5 DEF CommitModify, TypeOK
    <3> HIDE DEF new
    <3>4. /\ record' \in [Consent -> [status : Status \union {"NONE"}, expires : Expiry]]
          /\ record'[c].status \in {record[c].status, "MODIFIED"}
          /\ \A d \in Consent \ {c} : record'[d] = record[d]
      BY <2>2, <3>2, <3>3 DEF TypeOK
    <3>5. /\ logged' \in [Consent -> SUBSET Status]
          /\ logged'[c] = logged[c] \union {"MODIFIED"}
          /\ \A d \in Consent \ {c} : logged'[d] = logged[d]
      BY <2>2, <2>5 DEF CommitModify, TypeOK
    <3>6. QED
      BY <1>5, <2>1, <2>2, <3>1, <3>4, <3>5
  <2>6. CASE CommitRevoke(r)
    BY <1>5, <2>1, <2>2, <2>3, <2>6 DEF CommitRevoke, At, TypeOK
  <2>7. CASE CommitVerify(r)
    BY <1>5, <2>1, <2>2, <2>3, <2>7 DEF CommitVerify, TypeOK
  <2>8. QED
    BY <1>6, <2>4, <2>5, <2>6, <2>7 DEF CommitAny
<1>7. ASSUME NEW r \in Request, CommitFails(r) PROVE ServiceInv'
  <2>1. TypeOK'
    BY <1>7 DEF CommitFails, Fault, End, TypeOK
  <2>2. ChainFirst' /\ Prepared'
    BY <1>7 DEF CommitFails, End, TypeOK, ChainFirst, Prepared, Idle
  <2>3. QED
    BY <2>1, <2>2
<1>8. CASE WorkerSelect
  <2>1. TypeOK'
    BY <1>8 DEF WorkerSelect, TypeOK
  <2>2. ChainFirst' /\ Prepared'
    BY <1>8 DEF WorkerSelect, ChainFirst, Prepared
  <2>3. QED
    BY <2>1, <2>2
<1>9. ASSUME NEW written \in SUBSET Consent, WorkerCommit(written) PROVE ServiceInv'
  <2>1. \A c \in Consent :
           /\ record'[c] = IF c \in batch THEN [record[c] EXCEPT !.status = "EXPIRED"] ELSE record[c]
           /\ logged'[c] = IF c \in written THEN logged[c] \union {"EXPIRED"} ELSE logged[c]
    BY <1>9 DEF WorkerCommit
  <2>2. TypeOK'
    BY <1>9, <2>1 DEF WorkerCommit, TypeOK
  <2>3. \A c \in Consent :
           /\ Exists(c) <=> Exists(c)'
           /\ record'[c].status = "REVOKED" => record[c].status = "REVOKED"
           /\ "REVOKED" \in logged'[c] => "REVOKED" \in logged[c]
    BY <2>1 DEF TypeOK
  <2>4. ChainFirst'
    BY <1>9, <2>3 DEF WorkerCommit, ChainFirst
  <2>5. \A r \in Request : Busy(r) => req[r].consent \in Consent
    BY DEF TypeOK, Session, Idle
  <2>6. Prepared'
    BY <1>9, <2>3, <2>5 DEF WorkerCommit, Prepared
  <2>7. QED
    BY <2>2, <2>4, <2>6
<1>10. CASE WorkerFails
  <2>1. TypeOK'
    BY <1>10 DEF WorkerFails, Fault, TypeOK
  <2>2. ChainFirst' /\ Prepared'
    BY <1>10 DEF WorkerFails, ChainFirst, Prepared
  <2>3. QED
    BY <2>1, <2>2
<1>11. CASE Tick
  <2>1. TypeOK'
    BY <1>11 DEF Tick, TypeOK
  <2>2. ChainFirst' /\ Prepared'
    BY <1>11 DEF Tick, ChainFirst, Prepared
  <2>3. QED
    BY <2>1, <2>2
<1>12. CASE UNCHANGED vars
  BY <1>12 DEF vars, TypeOK, ChainFirst, Prepared
<1>13. QED
  BY <1>1, <1>3, <1>4, <1>6, <1>7, <1>8, <1>9, <1>10, <1>11, <1>12 DEF Next

LEMMA ServiceInvariance == Spec => []ServiceInv
  BY ServiceInit, ServiceNext, PTL DEF Spec

(* Whatever requests overwrite of each other and whatever fails, the       *)
(* database never runs ahead of the chain (ChainFirst).                    *)
THEOREM DatabaseFollowsChain == Spec => [](TypeOK /\ ChainFirst)
<1>1. ServiceInv => TypeOK /\ ChainFirst
  BY DEF ServiceInv
<1>2. QED
  BY <1>1, ServiceInvariance, PTL
-----------------------------------------------------------------------------
Final(c) == record[c].status = "REVOKED" /\ Quiet(c)

(* No session loads a record that is REVOKED, so none can overwrite it. *)
LEMMA FinalStays ==
  ASSUME NEW c \in Consent, TypeOK, Final(c), [Next]_vars
  PROVE  Final(c)'
<1> USE DEF Final, Quiet, Busy, Exists
<1>1. ASSUME NEW r \in Request, LoadAny(r) PROVE Final(c)'
  <2>1. PICK d \in Consent, pc \in {"chain", "commit"}, op \in {"create", "revoke", "modify", "verify"} :
           Load(r, pc, op, d) /\ record[d].status # "REVOKED"
    BY <1>1 DEF LoadAny, LoadCreate, LoadRevoke, LoadModify, LoadVerify
  <2>2. d # c
    BY <2>1
  <2>3. QED
    BY <2>1, <2>2 DEF Load, TypeOK
<1>2. ASSUME NEW r \in Request, CallChain(r) \/ CallChainFails(r) \/ CommitFails(r) PROVE Final(c)'
  BY <1>2 DEF CallChain, CallChainFails, CommitFails, End, TypeOK, Idle, Session
<1>3. ASSUME NEW r \in Request, CommitAny(r) PROVE Final(c)'
  <2>1. /\ Busy(r) /\ End(r) /\ batch' = batch
    BY <1>3 DEF CommitAny, CommitCreate, CommitModify, CommitRevoke, CommitVerify, At
  <2>2. req[r].consent # c /\ req[r].consent \in Consent
    BY <2>1 DEF TypeOK, Session, Idle
  <2>3. record'[c] = record[c]
    BY <1>3, <2>2 DEF CommitAny, CommitCreate, CommitModify, CommitRevoke, CommitVerify, TypeOK
  <2>4. QED
    BY <2>1, <2>3 DEF End, TypeOK, Idle
<1>4. CASE WorkerSelect
  BY <1>4 DEF WorkerSelect
<1>5. ASSUME NEW written \in SUBSET Consent, WorkerCommit(written) PROVE Final(c)'
  BY <1>5 DEF WorkerCommit
<1>6. CASE WorkerFails \/ Tick \/ UNCHANGED vars
  BY <1>6 DEF WorkerFails, Tick, vars
<1>7. QED
  BY <1>1, <1>2, <1>3, <1>4, <1>5, <1>6 DEF Next

(* A withdrawal settles (RevocationSettles): once the sessions that were   *)
(* already under way have ended, no request and no worker run undoes it.   *)
THEOREM WithdrawalsSettle == Spec => RevocationSettles
<1> SUFFICES ASSUME NEW c \in Consent
             PROVE  Spec => []((record[c].status = "REVOKED" /\ Quiet(c))
                                  => [](record[c].status = "REVOKED"))
  BY DEF RevocationSettles
<1>1. TypeOK /\ Final(c) /\ [Next]_vars => Final(c)'
  BY FinalStays
<1>2. Final(c) <=> record[c].status = "REVOKED" /\ Quiet(c)
  BY DEF Final
<1>3. ServiceInv => TypeOK
  BY DEF ServiceInv
<1>4. QED
  BY <1>1, <1>2, <1>3, ServiceInvariance, PTL DEF Spec
-----------------------------------------------------------------------------
(* What answers a call of operation op for consent c. *)
Answer(op) == IF op = "create" THEN "GRANTED" ELSE "REVOKED"
Answered(c, op) ==
    \/ Answer(op) \in logged[c]
    \/ \E r \in Request : At(r, "commit", op) /\ req[r].consent = c

LEMMA AnsweredAll ==
  ASSUME NEW c \in Consent
  PROVE  /\ Answered(c, "create") <=> "GRANTED" \in logged[c]
                \/ \E r \in Request : At(r, "commit", "create") /\ req[r].consent = c
         /\ Answered(c, "revoke") <=> "REVOKED" \in logged[c]
                \/ \E r \in Request : At(r, "commit", "revoke") /\ req[r].consent = c
  BY DEF Answered, Answer

(* A call stays answered, and a new one is, unless something fails. *)
LEMMA AnswerKept ==
  ASSUME TypeOK, [Next]_vars, faults' = faults,
         NEW c \in Consent, NEW op \in {"create", "revoke"},
         op \in chain[c] => Answered(c, op), op \in chain'[c]
  PROVE  Answered(c, op)'
<1> USE DEF Busy, At
<1>1. ASSUME UNCHANGED <<logged, chain>>,
             \A r \in Request : req'[r] = req[r] \/ ~(Busy(r) /\ req[r].pc = "commit")
      PROVE  Answered(c, op)'
  BY <1>1 DEF Answered
<1>2. ASSUME NEW r \in Request, LoadAny(r) PROVE Answered(c, op)'
  <2>1. /\ ~Busy(r) /\ UNCHANGED <<logged, chain>>
        /\ \A q \in Request \ {r} : req'[q] = req[q]
    BY <1>2 DEF LoadAny, LoadCreate, LoadRevoke, LoadModify, LoadVerify, Load, TypeOK
  <2>2. QED
    BY <1>1, <2>1
<1>3. ASSUME NEW r \in Request, CallChain(r) PROVE Answered(c, op)'
  <2>1. /\ req[r] \in [pc : {"chain"}, op : {"create", "revoke"}, consent : Consent,
                       seen : Status \union {"NONE"}]
        /\ req[r].pc = "chain"
    BY <1>3 DEF CallChain, TypeOK, Session, Idle
  <2> DEFINE s == [req[r] EXCEPT !.pc = "commit"]
  <2>2. /\ s \in Session /\ s.pc = "commit"
        /\ s.op = req[r].op /\ s.consent = req[r].consent
    BY <2>1 DEF Session
  <2>3. req'[r] = s /\ \A q \in Request \ {r} : req'[q] = req[q]
    BY <1>3 DEF CallChain, TypeOK
  <2> HIDE DEF s
  <2>4. s # Idle
    BY <2>2 DEF Session, Idle
  <2>5. /\ logged' = logged
        /\ chain' = [chain EXCEPT ![req[r].consent] = @ \union {req[r].op}]
    BY <1>3 DEF CallChain
  <2>6. CASE req[r].op = op /\ req[r].consent = c
    BY <2>2, <2>3, <2>4, <2>6 DEF Answered
  <2>7. CASE ~(req[r].op = op /\ req[r].consent = c)
    <3>1. op \in chain[c]
      BY <2>1, <2>5, <2>7 DEF TypeOK
    <3>2. \A q \in Request : Busy(q) /\ req[q].pc = "commit" => req'[q] = req[q]
      BY <2>1, <2>3
    <3>3. QED
      BY <2>5, <3>1, <3>2 DEF Answered
  <2>8. QED
    BY <2>6, <2>7
<1>4. ASSUME NEW r \in Request, CallChainFails(r) \/ CommitFails(r) PROVE Answered(c, op)'
  BY <1>4 DEF CallChainFails, CommitFails, Fault, TypeOK
<1>5. ASSUME NEW r \in Request, CommitAny(r) PROVE Answered(c, op)'
  <2>1. /\ Busy(r) /\ req[r].pc = "commit" /\ chain' = chain
        /\ \A q \in Request \ {r} : req'[q] = req[q]
    BY <1>5 DEF CommitAny, CommitCreate, CommitModify, CommitRevoke, CommitVerify, End, TypeOK
  <2>2. req[r].consent \in Consent /\ Answered(c, op)
    BY <2>1 DEF TypeOK, Session, Idle
  <2>3. /\ logged[c] \subseteq logged'[c]
        /\ req[r].op = op /\ req[r].consent = c => Answer(op) \in logged'[c]
    <3>1. ASSUME NEW event, logged' = [logged EXCEPT ![req[r].consent] = @ \union {event}],
                 req[r].op = op => event = Answer(op)
          PROVE  /\ logged[c] \subseteq logged'[c]
                 /\ req[r].op = op /\ req[r].consent = c => Answer(op) \in logged'[c]
      BY <3>1 DEF TypeOK
    <3>2. ASSUME NEW expires \in Expiry, CommitCreate(r, expires)
          PROVE  /\ logged' = [logged EXCEPT ![req[r].consent] = @ \union {"GRANTED"}]
                 /\ req[r].op = op => "GRANTED" = Answer(op)
      BY <3>2 DEF CommitCreate, Answer
    <3>3. ASSUME NEW expires \in Expiry, CommitModify(r, expires)
          PROVE  /\ logged' = [logged EXCEPT ![req[r].consent] = @ \union {"MODIFIED"}]
                 /\ req[r].op # op
      BY <3>3 DEF CommitModify
    <3>4. ASSUME CommitRevoke(r)
          PROVE  /\ logged' = [logged EXCEPT ![req[r].consent] = @ \union {"REVOKED"}]
                 /\ req[r].op = op => "REVOKED" = Answer(op)
      BY <3>4 DEF CommitRevoke, Answer
    <3>5. ASSUME CommitVerify(r)
          PROVE  logged' = logged /\ req[r].op # op
      BY <3>5 DEF CommitVerify
    <3>6. QED
      BY <1>5, <3>1, <3>2, <3>3, <3>4, <3>5 DEF CommitAny
  <2>4. QED
    BY <2>1, <2>2, <2>3 DEF Answered
<1>6. ASSUME NEW written \in SUBSET Consent, WorkerCommit(written) PROVE Answered(c, op)'
  <2>1. logged[c] \subseteq logged'[c] /\ UNCHANGED <<chain, req>>
    BY <1>6 DEF WorkerCommit
  <2>2. QED
    BY <2>1 DEF Answered
<1>7. CASE WorkerSelect \/ WorkerFails \/ Tick \/ UNCHANGED vars
  BY <1>1, <1>7 DEF WorkerSelect, WorkerFails, Tick, vars
<1>8. QED
  BY <1>2, <1>3, <1>4, <1>5, <1>6, <1>7 DEF Next

(* Without a failure every chain call gets its event (ChainAnswered),      *)
(* whatever requests and the worker overwrite of each other.               *)
THEOREM CallsAreAnswered == Spec => []ChainAnswered
<1>1. Init => ChainAnswered
  BY DEF Init, ChainAnswered
<1>2. ASSUME TypeOK, ChainAnswered, [Next]_vars PROVE ChainAnswered'
  <2> SUFFICES ASSUME faults' = 0, NEW c \in Consent, NEW op \in {"create", "revoke"}, op \in chain'[c]
               PROVE  Answered(c, op)'
    BY DEF ChainAnswered, Answered, Answer
  <2>1. faults' = faults
    <3>1. ASSUME NEW r \in Request, LoadAny(r) \/ CallChain(r) PROVE faults' = faults
      BY <3>1 DEF LoadAny, LoadCreate, LoadRevoke, LoadModify, LoadVerify, Load, CallChain
    <3>2. ASSUME NEW r \in Request, CommitAny(r) PROVE faults' = faults
      BY <3>2 DEF CommitAny, CommitCreate, CommitModify, CommitRevoke, CommitVerify
    <3>3. ASSUME Fault PROVE FALSE
      BY <1>2, <3>3, ServiceAssumption DEF Fault, TypeOK
    <3>4. QED
      BY <1>2, <3>1, <3>2, <3>3 DEF Next, CallChainFails, CommitFails, WorkerSelect, WorkerCommit,
         WorkerFails, Tick, vars
  <2>2. op \in chain[c] => Answered(c, op)
    BY <1>2, <2>1, AnsweredAll DEF ChainAnswered
  <2>3. QED
    BY <1>2, <2>1, <2>2, AnswerKept
<1>3. ServiceInv => TypeOK
  BY DEF ServiceInv
<1>4. QED
  BY <1>1, <1>2, <1>3, ServiceInvariance, PTL DEF Spec

(* Every session, and the batch of the worker, is about a row that exists, *)
(* in a shape that one of the methods of ConsentService gives it.          *)
THEOREM ServiceTypeCorrect == Spec => []TypeOK
<1>1. ServiceInv => TypeOK
  BY DEF ServiceInv
<1> QED BY <1>1, ServiceInvariance, PTL
-----------------------------------------------------------------------------
(***************************************************************************)
(* DataDeletion.  The inductive invariant says why a deletion erases all   *)
(* or nothing: consents of the request are never the ones a session is     *)
(* creating, and no events are left behind by a record that is gone.       *)
(***************************************************************************)
Stores ==
    /\ logged \in [Consent -> SUBSET Status]
    /\ chain \in [Consent -> SUBSET {"create", "revoke"}]

(* Records, and sessions about to create one, are registered on the chain. *)
Registered ==
    /\ \A c \in Consent : Exists(c) => "create" \in chain[c]
    /\ \A r \in Request : At(r, "commit", "create") => "create" \in chain[req[r].consent]

(* The foreign key of consent_events. *)
NoOrphans == \A c \in Consent : logged[c] # {} => Exists(c)

Creating(r) == Busy(r) /\ req[r].op = "create"

(* A consent in creation has no record, belongs to no deletion request and *)
(* to no other session.                                                    *)
Fresh ==
    \A r \in Request : Creating(r) =>
        /\ ~Exists(req[r].consent)
        /\ req[r].consent \notin covers
        /\ \A q \in Request : Busy(q) /\ req[q].consent = req[r].consent => q = r

(* Before the request is made there is nothing to verify or execute. *)
Begun ==
    deletion = "NONE" =>
        covers = {} /\ verifying = "NONE" /\ \A e \in Executor : exec[e].pc = "idle"

(* An execution past its deletion has erased what the request covers. *)
Gone ==
    (deletion = "COMPLETED" \/ \E e \in Executor : exec[e].pc = "deleted") =>
        \A c \in covers : ~Exists(c)

(* The records of the request go together. *)
Together == (\A c \in covers : Exists(c)) \/ (\A c \in covers : ~Exists(c))

Sessions == Registered /\ NoOrphans /\ Fresh
Progress == Begun /\ Gone /\ Together

IInv == DeletionTypeOK /\ Stores /\ Sessions /\ Progress

LEMMA InitIInv == DeletionInit => IInv
  BY ServiceAssumption DEF DeletionInit, Init, IInv, DeletionTypeOK, Stores, Sessions, Registered,
     NoOrphans, Fresh, Creating, Progress, Begun, Gone, Together, Exists, Busy, At, Idle, Session,
     Status, Expiry, DeletionStatus, NotRunning

(* What Sessions is about, and how a session looks. *)
LEMMA SessionShape ==
  ASSUME DeletionTypeOK, NEW r \in Request, Busy(r)
  PROVE  /\ req[r] \in Session
         /\ req[r].consent \in Consent
         /\ req[r].op \in {"create", "revoke", "modify", "verify"}
         /\ req[r].seen \in Status \union {"NONE"}
         /\ req[r].pc = "chain" =>
               req[r] \in [pc : {"chain"}, op : {"create", "revoke"}, consent : Consent,
                           seen : Status \union {"NONE"}]
  BY DEF DeletionTypeOK, Busy, Session, Idle

(* The request's own steps depend on the records only through which exist. *)
LEMMA ProgressKept ==
  ASSUME Progress, UNCHANGED <<deletion, covers, verifying>>,
         \A c \in covers : Exists(c)' <=> Exists(c),
         \A e \in Executor : exec'[e].pc = exec[e].pc
  PROVE  Progress'
  BY DEF Progress, Begun, Gone, Together

(* A request loads a record or prepares a creation. *)
LEMMA LoadStep ==
  ASSUME IInv, NEW r \in Request, LoadAny(r), UNCHANGED dvars
  PROVE  IInv'
<1> USE DEF IInv, Sessions
<1>1. PICK c \in Consent, pc \in {"chain", "commit"}, op \in {"create", "revoke", "modify", "verify"} :
         /\ Load(r, pc, op, c)
         /\ pc = "chain" => op \in {"create", "revoke"}
         /\ pc = "commit" => op \in {"modify", "verify"}
         /\ op # "create" => Exists(c)
         /\ op = "create" => /\ ~Exists(c) /\ chain[c] = {}
                             /\ \A q \in Request : Busy(q) => req[q].consent # c
  BY DEF LoadAny, LoadCreate, LoadRevoke, LoadModify, LoadVerify
<1> DEFINE s == [pc |-> pc, op |-> op, consent |-> c, seen |-> record[c].status]
<1>2. /\ ~Busy(r)
      /\ req' = [req EXCEPT ![r] = s]
      /\ UNCHANGED <<record, logged, chain, batch, now, faults, deletion, covers, verifying, exec>>
  BY <1>1 DEF Load, dvars
<1>3. s \in Session
  BY <1>1 DEF DeletionTypeOK, Session
<1>4. DeletionTypeOK' /\ Stores'
  BY <1>2, <1>3 DEF DeletionTypeOK, Stores, Existing, Exists
<1>5. /\ req'[r] = s
      /\ \A q \in Request \ {r} : req'[q] = req[q]
  BY <1>2 DEF DeletionTypeOK
<1>6. Registered' /\ NoOrphans'
  BY <1>1, <1>2, <1>5 DEF Registered, NoOrphans, Exists, At, Busy
<1>7. op = "create" => c \notin covers
  BY <1>1 DEF DeletionTypeOK
<1>8. Fresh'
  <2>1. ASSUME NEW q \in Request \ {r}, Creating(q)
        PROVE  /\ req[q].consent # c
               /\ (~Exists(req[q].consent) /\ req[q].consent \notin covers)'
               /\ \A p \in Request : (Busy(p) /\ req[p].consent = req[q].consent => p = q)'
    BY <1>1, <1>2, <1>5, <2>1 DEF Fresh, Creating, Busy, Exists
  <2>2. ASSUME op = "create"
        PROVE  /\ (~Exists(req[r].consent) /\ req[r].consent \notin covers)'
               /\ \A p \in Request : (Busy(p) /\ req[p].consent = req[r].consent => p = r)'
    BY <1>1, <1>2, <1>5, <1>7, <2>2 DEF Busy, Exists
  <2>3. ASSUME NEW q \in Request, Creating(q)'
        PROVE  (q # r /\ Creating(q)) \/ (q = r /\ op = "create")
    BY <1>5, <2>3 DEF Creating, Busy
  <2>4. QED
    BY <2>1, <2>2, <2>3 DEF Fresh
<1>9. Progress'
  BY <1>2, ProgressKept DEF Exists
<1>10. QED
  BY <1>4, <1>6, <1>8, <1>9

(* A session ends without having written a record. *)
LEMMA EndStep ==
  ASSUME IInv, NEW r \in Request, End(r), Stores',
         \A c \in Consent : chain[c] \subseteq chain'[c],
         UNCHANGED <<record, logged, dvars>>
  PROVE  IInv'
<1> USE DEF IInv, Sessions
<1>1. /\ req'[r] = Idle
      /\ \A q \in Request \ {r} : req'[q] = req[q]
      /\ UNCHANGED <<deletion, covers, verifying, exec>>
  BY DEF End, DeletionTypeOK, dvars
<1>2. DeletionTypeOK'
  BY <1>1 DEF End, DeletionTypeOK, Existing, Exists
<1>3. Registered' /\ NoOrphans'
  BY <1>1, SessionShape DEF Registered, NoOrphans, Exists, At, Busy
<1>4. Fresh'
  BY <1>1 DEF Fresh, Creating, Busy, Exists
<1>5. Progress'
  BY <1>1, ProgressKept DEF Exists
<1>6. QED
  BY <1>2, <1>3, <1>4, <1>5

LEMMA CallChainStep ==
  ASSUME IInv, NEW r \in Request, CallChain(r), UNCHANGED dvars
  PROVE  IInv'
<1> USE DEF IInv, Sessions
<1>1. /\ Busy(r) /\ req[r].pc = "chain"
      /\ chain' = [chain EXCEPT ![req[r].consent] = @ \union {req[r].op}]
      /\ req' = [req EXCEPT ![r].pc = "commit"]
      /\ UNCHANGED <<record, logged, deletion, covers, verifying, exec>>
  BY DEF CallChain, dvars
<1>2. /\ req[r] \in [pc : {"chain"}, op : {"create", "revoke"}, consent : Consent,
                     seen : Status \union {"NONE"}]
      /\ req[r].consent \in Consent
      /\ req[r].op \in {"create", "revoke"}
  BY <1>1, SessionShape
<1>3. /\ chain' \in [Consent -> SUBSET {"create", "revoke"}]
      /\ \A c \in Consent : chain[c] \subseteq chain'[c]
      /\ req[r].op \in chain'[req[r].consent]
  BY <1>1, <1>2 DEF Stores
<1> DEFINE s == [req[r] EXCEPT !.pc = "commit"]
<1>4. /\ s \in Session
      /\ s.op = req[r].op /\ s.consent = req[r].consent /\ s.pc = "commit"
  BY <1>2 DEF Session
<1>5. /\ req' = [req EXCEPT ![r] = s]
      /\ req'[r] = s
      /\ \A q \in Request \ {r} : req'[q] = req[q]
  BY <1>1 DEF DeletionTypeOK
<1> HIDE DEF s
<1>6. DeletionTypeOK' /\ Stores'
  BY <1>1, <1>3, <1>4, <1>5 DEF DeletionTypeOK, Stores, Existing, Exists
<1>7. Busy(r)' /\ \A q \in Request \ {r} : Busy(q)' <=> Busy(q)
  BY <1>4, <1>5 DEF Busy, Session, Idle
<1>8. Registered' /\ NoOrphans'
  BY <1>1, <1>3, <1>4, <1>5, <1>7, SessionShape DEF Registered, NoOrphans, Exists, At
<1>9. \A q \in Request : Busy(q) /\ Busy(q)' =>
         req'[q].op = req[q].op /\ req'[q].consent = req[q].consent
  BY <1>4, <1>5
<1>10. Fresh'
  BY <1>1, <1>7, <1>9 DEF Fresh, Creating, Exists
<1>11. Progress'
  BY <1>1, ProgressKept DEF Exists
<1>12. QED
  BY <1>6, <1>8, <1>10, <1>11

(* New events leave the executions' sessions well-formed. *)
LEMMA NewEventsStep ==
  ASSUME DeletionTypeOK, NEW cs \in SUBSET Consent, NewEvents(cs)
  PROVE  /\ UNCHANGED <<deletion, covers, verifying>>
         /\ exec' \in [Executor -> [pc : {"idle", "loaded", "started", "listed", "deleted"},
                                    seen : (DeletionStatus \ {"COMPLETED"}) \union {"NONE"},
                                    cleared : SUBSET Consent]]
         /\ \A e \in Executor : exec'[e].pc = exec[e].pc
         /\ \A e \in Executor : exec'[e].pc # "listed" => exec'[e].cleared = {}
<1>1. ASSUME NEW e \in Executor
      PROVE  /\ exec[e] \in [pc : {"idle", "loaded", "started", "listed", "deleted"},
                             seen : (DeletionStatus \ {"COMPLETED"}) \union {"NONE"},
                             cleared : SUBSET Consent]
             /\ \E rest \in SUBSET Consent :
                   rest \subseteq exec[e].cleared /\ exec'[e] = [exec[e] EXCEPT !.cleared = rest]
  <2>1. exec[e] \in [pc : {"idle", "loaded", "started", "listed", "deleted"},
                     seen : (DeletionStatus \ {"COMPLETED"}) \union {"NONE"},
                     cleared : SUBSET Consent]
    BY DEF DeletionTypeOK
  <2>2. exec'[e] = [exec[e] EXCEPT !.cleared = exec[e].cleared \ cs]
    BY DEF NewEvents
  <2>3. exec[e].cleared \ cs \in SUBSET Consent /\ exec[e].cleared \ cs \subseteq exec[e].cleared
    BY <2>1
  <2>4. QED
    BY <2>1, <2>2, <2>3
<1>2. ASSUME NEW e \in Executor
      PROVE  /\ exec'[e] \in [pc : {"idle", "loaded", "started", "listed", "deleted"},
                              seen : (DeletionStatus \ {"COMPLETED"}) \union {"NONE"},
                              cleared : SUBSET Consent]
             /\ exec'[e].pc = exec[e].pc
             /\ exec'[e].cleared \subseteq exec[e].cleared
  BY <1>1
<1>3. exec' = [e \in Executor |-> exec'[e]]
  BY DEF NewEvents
<1>4. QED
  BY <1>2, <1>3 DEF NewEvents, DeletionTypeOK

(* A commit writes one record: a new one, or one that was there before. *)
LEMMA WriteStep ==
  ASSUME IInv, NEW r \in Request, Busy(r), req[r].pc = "commit", RowThere(r), End(r),
         NEW c \in Consent, c = req[r].consent,
         NEW row \in [status : Status, expires : Expiry],
         record' = [record EXCEPT ![c] = row],
         Stores',
         \A d \in Consent \ {c} : logged'[d] = logged[d],
         chain' = chain,
         NEW cs \in SUBSET Consent, NewEvents(cs)
  PROVE  IInv'
<1> USE DEF IInv, Sessions
<1>1. /\ req'[r] = Idle
      /\ \A q \in Request \ {r} : req'[q] = req[q]
  BY DEF End, DeletionTypeOK
<1>2. /\ record'[c].status \in Status
      /\ \A d \in Consent \ {c} : record'[d] = record[d]
  BY DEF DeletionTypeOK
<1>3. Exists(c)' /\ \A d \in Consent \ {c} : Exists(d)' <=> Exists(d)
  BY <1>2 DEF Exists, Status
<1>4. DeletionTypeOK'
  <2>1. record' \in [Consent -> [status : Status \union {"NONE"}, expires : Expiry]]
    BY DEF DeletionTypeOK
  <2>2. QED
    BY <2>1, NewEventsStep DEF End, DeletionTypeOK
<1>5. Registered'
  <2>1. "create" \in chain[c]
    BY DEF Registered, RowThere, At
  <2>2. QED
    BY <1>1, <1>3, <2>1 DEF Registered, At, Busy
<1>6. NoOrphans'
  BY <1>3 DEF NoOrphans
<1>7. Fresh'
  <2>1. ASSUME NEW q \in Request, Creating(q)'
        PROVE  q # r /\ Creating(q) /\ req[q].consent # c /\ req[q].consent \in Consent
    <3>1. q # r /\ Creating(q) /\ req'[q] = req[q]
      BY <1>1, <2>1 DEF Creating, Busy
    <3>2. req[q].consent \in Consent
      BY <3>1, SessionShape DEF Creating
    <3>3. QED
      BY <3>1, <3>2 DEF Fresh
  <2>2. covers' = covers
    BY NewEventsStep
  <2>3. QED
    BY <1>1, <1>3, <2>1, <2>2 DEF Fresh, Busy
<1>8. c \in covers => Exists(c)
  BY DEF RowThere, Fresh, Creating
<1>9. covers \subseteq Consent
  BY DEF DeletionTypeOK
<1>10. Progress'
  BY <1>3, <1>8, <1>9, NewEventsStep, ProgressKept
<1>11. QED
  BY <1>4, <1>5, <1>6, <1>7, <1>10

LEMMA CommitStep ==
  ASSUME IInv, NEW r \in Request, CommitAny(r),
         NewEvents(IF req[r].op = "verify" THEN {} ELSE {req[r].consent})
  PROVE  IInv'
<1> DEFINE c == req[r].consent
           cs == IF req[r].op = "verify" THEN {} ELSE {c}
<1>1. /\ Busy(r) /\ req[r].pc = "commit" /\ End(r)
      /\ UNCHANGED <<chain, batch, now, faults>>
  BY DEF CommitAny, CommitCreate, CommitModify, CommitRevoke, CommitVerify, At
<1>2. RowThere(r)
  BY DEF CommitAny, CommitCreate, CommitModify, CommitRevoke, CommitVerify, At, RowThere
<1>3. /\ c \in Consent /\ req[r].seen \in Status \union {"NONE"}
      /\ cs \in SUBSET Consent
  BY <1>1, SessionShape DEF IInv
<1>4. /\ record[c] \in [status : Status \union {"NONE"}, expires : Expiry]
      /\ record[c] = [status |-> record[c].status, expires |-> record[c].expires]
      /\ record[c].status \in Status \union {"NONE"}
      /\ record[c].expires \in Expiry
      /\ logged[c] \in SUBSET Status
  BY <1>3 DEF IInv, DeletionTypeOK, Stores
<1>5. /\ NewEvents(cs)
      /\ IInv
  OBVIOUS
<1> HIDE DEF cs, c
<1>6. ASSUME NEW row \in [status : Status, expires : Expiry],
             record' = [record EXCEPT ![c] = row],
             NEW events \in SUBSET Status,
             logged' \in {logged, [logged EXCEPT ![c] = @ \union events]}
      PROVE  IInv'
  <2>1. Stores' /\ \A d \in Consent \ {c} : logged'[d] = logged[d]
    BY <1>1, <1>3, <1>4, <1>6 DEF IInv, Stores
  <2>2. QED
    BY <1>1, <1>2, <1>3, <1>5, <1>6, <2>1, WriteStep DEF c
<1>7. ASSUME NEW expires \in Expiry, CommitCreate(r, expires) PROVE IInv'
  BY <1>6, <1>7 DEF CommitCreate, Status, c
<1>8. ASSUME NEW expires \in Expiry, CommitModify(r, expires) PROVE IInv'
  <2> DEFINE new == [[record[c] EXCEPT !.status = IF req[r].seen = "MODIFIED" THEN @ ELSE "MODIFIED"]
                       EXCEPT !.expires = expires]
  <2>1. record[c].status \in Status
    BY <1>2, <1>4, <1>8 DEF CommitModify, At, RowThere, Exists, c
  <2>2. new \in [status : Status, expires : Expiry]
    BY <1>4, <2>1 DEF Status
  <2>3. record' = [record EXCEPT ![c] = new]
    BY <1>3, <1>8 DEF CommitModify, IInv, DeletionTypeOK, c
  <2> HIDE DEF new
  <2>4. logged' = [logged EXCEPT ![c] = @ \union {"MODIFIED"}] /\ {"MODIFIED"} \in SUBSET Status
    BY <1>8 DEF CommitModify, Status, c
  <2>5. QED
    BY <1>6, <2>2, <2>3, <2>4
<1>9. ASSUME NEW to \in Status, record' = [record EXCEPT ![c].status = to],
             logged' \in {logged, [logged EXCEPT ![c] = @ \union {to}]}
      PROVE  IInv'
  <2> DEFINE new == [record[c] EXCEPT !.status = to]
  <2>1. new \in [status : Status, expires : Expiry]
    BY <1>4
  <2>2. record' = [record EXCEPT ![c] = new]
    BY <1>3, <1>9 DEF IInv, DeletionTypeOK
  <2> HIDE DEF new
  <2>3. {to} \in SUBSET Status
    BY <1>9
  <2>4. QED
    BY <1>6, <1>9, <2>1, <2>2, <2>3
<1>10. CASE CommitRevoke(r)
  BY <1>9, <1>10 DEF CommitRevoke, Status, c
<1>11. CASE CommitVerify(r)
  BY <1>9, <1>11 DEF CommitVerify, Status, c
<1>12. QED
  BY <1>7, <1>8, <1>10, <1>11 DEF CommitAny

LEMMA WorkerStep ==
  ASSUME IInv, NEW written \in SUBSET Consent, WorkerCommit(written), NewEvents(written)
  PROVE  IInv'
<1> USE DEF IInv, Sessions
<1>1. /\ batch \subseteq {c \in Consent : Exists(c)}
      /\ written \subseteq batch
      /\ record' = [c \in Consent |->
                      IF c \in batch THEN [record[c] EXCEPT !.status = "EXPIRED"] ELSE record[c]]
      /\ logged' = [c \in Consent |->
                      IF c \in written THEN logged[c] \union {"EXPIRED"} ELSE logged[c]]
      /\ UNCHANGED <<chain, req>>
  BY DEF WorkerCommit
<1>2. /\ record' \in [Consent -> [status : Status \union {"NONE"}, expires : Expiry]]
      /\ \A c \in Consent : Exists(c)' <=> Exists(c)
  BY <1>1 DEF DeletionTypeOK, Exists, Status
<1>3. Stores' /\ \A c \in Consent \ written : logged'[c] = logged[c]
  BY <1>1 DEF Stores, Status
<1>4. DeletionTypeOK'
  BY <1>1, <1>2, NewEventsStep DEF DeletionTypeOK
<1>5. Registered' /\ NoOrphans'
  BY <1>1, <1>2, <1>3 DEF Registered, NoOrphans, At, Busy
<1>6. Fresh'
  BY <1>1, <1>2, NewEventsStep, SessionShape DEF Fresh, Creating, Busy
<1>7. covers \subseteq Consent
  BY DEF DeletionTypeOK
<1>8. Progress'
  BY <1>2, <1>7, NewEventsStep, ProgressKept
<1>9. QED
  BY <1>3, <1>4, <1>5, <1>6, <1>8

(* Steps of the worker and the clock that write nothing. *)
LEMMA QuietStep ==
  ASSUME IInv, UNCHANGED <<record, logged, chain, req, dvars>>
  PROVE  IInv'
<1> USE DEF IInv, Sessions
<1>1. UNCHANGED <<record, logged, chain, req, deletion, covers, verifying, exec>>
  BY DEF dvars
<1>2. DeletionTypeOK' /\ Stores'
  BY <1>1 DEF DeletionTypeOK, Stores
<1>3. Registered' /\ NoOrphans' /\ Fresh'
  BY <1>1 DEF Registered, NoOrphans, Fresh, Creating, Exists, At, Busy
<1>4. Progress'
  BY <1>1, ProgressKept DEF Exists
<1>5. QED
  BY <1>2, <1>3, <1>4

LEMMA ServiceKeeps ==
  ASSUME IInv, ServiceStep \/ BatchGone \/ \E r \in Request : RowGone(r)
  PROVE  IInv'
<1>1. ASSUME NEW r \in Request, CallChainFails(r) \/ CommitFails(r) \/ RowGone(r), UNCHANGED dvars
      PROVE  IInv'
  <2>1. Stores' /\ \A c \in Consent : chain[c] \subseteq chain'[c]
    <3>1. CASE CallChainFails(r)
      <4>1. /\ req[r].consent \in Consent /\ req[r].op \in {"create", "revoke"}
            /\ logged' = logged
            /\ chain' \in {chain, [chain EXCEPT ![req[r].consent] = @ \union {req[r].op}]}
        BY <3>1, SessionShape DEF CallChainFails, IInv
      <4>2. QED
        BY <4>1 DEF IInv, Stores
    <3>2. CASE CommitFails(r) \/ RowGone(r)
      BY <3>2 DEF CommitFails, RowGone, IInv, Stores
    <3>3. QED
      BY <1>1, <3>1, <3>2
  <2>2. QED
    BY <1>1, <2>1, EndStep DEF CallChainFails, CommitFails, RowGone
<1>2. CASE BatchGone
  BY <1>2, QuietStep DEF BatchGone
<1>3. CASE (WorkerSelect \/ WorkerFails \/ Tick) /\ UNCHANGED dvars
  BY <1>3, QuietStep DEF WorkerSelect, WorkerFails, Tick
<1>4. ASSUME NEW r \in Request, RowGone(r) PROVE UNCHANGED dvars
  BY <1>4 DEF RowGone, dvars
<1>5. QED
  BY <1>1, <1>2, <1>3, <1>4, LoadStep, CallChainStep, CommitStep, WorkerStep DEF ServiceStep

(* The steps of the request, the verification and the executions that      *)
(* leave the consents alone.                                               *)
LEMMA RequestKeeps ==
  ASSUME IInv, CreateRequest \/ VerifyRequest \/ VerifyCommit
  PROVE  IInv'
<1> USE DEF IInv, Sessions
<1>1. UNCHANGED <<record, logged, chain, req, batch, now, faults, exec>>
  BY DEF CreateRequest, VerifyRequest, VerifyCommit, vars
<1>2. Stores' /\ Registered' /\ NoOrphans'
  BY <1>1 DEF Stores, Registered, NoOrphans, Exists, At, Busy
<1>3. CASE CreateRequest
  <2>1. /\ deletion = "NONE" /\ deletion' = "PENDING"
        /\ covers' = Existing /\ verifying' = verifying
    BY <1>3 DEF CreateRequest
  <2>2. covers' \subseteq {c \in Consent : "create" \in chain'[c]}
    BY <1>1, <2>1 DEF Existing, Registered
  <2>3. DeletionTypeOK'
    BY <1>1, <2>1, <2>2 DEF DeletionTypeOK, DeletionStatus
  <2>4. Fresh'
    BY <1>1, <2>1 DEF Fresh, Creating, Busy, Exists, Existing
  <2>5. Progress'
    BY <1>1, <2>1 DEF Progress, Begun, Gone, Together, Exists, Existing
  <2>6. QED
    BY <1>2, <2>3, <2>4, <2>5
<1>4. CASE VerifyRequest
  <2>1. /\ deletion \notin {"NONE", "COMPLETED"} /\ verifying' = deletion
        /\ UNCHANGED <<deletion, covers>>
    BY <1>4 DEF VerifyRequest
  <2>2. DeletionTypeOK'
    BY <1>1, <2>1 DEF DeletionTypeOK
  <2>3. Fresh' /\ Progress'
    BY <1>1, <2>1 DEF Fresh, Creating, Busy, Exists, Progress, Begun, Gone, Together
  <2>4. QED
    BY <1>2, <2>2, <2>3
<1>5. CASE VerifyCommit
  <2>1. /\ verifying # "NONE" /\ verifying' = "NONE" /\ covers' = covers
        /\ deletion' \in {deletion, "VERIFICATION_IN_PROGRESS"}
    BY <1>5 DEF VerifyCommit
  <2>2. DeletionTypeOK'
    BY <1>1, <2>1 DEF DeletionTypeOK, DeletionStatus
  <2>3. Fresh' /\ Progress'
    BY <1>1, <2>1 DEF Fresh, Creating, Busy, Exists, Progress, Begun, Gone, Together
  <2>4. QED
    BY <1>2, <2>2, <2>3
<1>6. QED
  BY <1>3, <1>4, <1>5

(* An execution moves on: what it may set the status to, and when. *)
LEMMA ExecMoves ==
  ASSUME IInv, NEW e \in Executor, NEW to, exec' = [exec EXCEPT ![e] = to],
         to \in [pc : {"idle", "loaded", "started", "listed", "deleted"},
                 seen : (DeletionStatus \ {"COMPLETED"}) \union {"NONE"},
                 cleared : SUBSET Consent],
         to.pc # "listed" => to.cleared = {},
         to.pc = "deleted" => exec[e].pc = "deleted",
         deletion # "NONE",
         deletion' \in {deletion, "IN_PROGRESS", "FAILED"}
           \/ (deletion' = "COMPLETED" /\ exec[e].pc = "deleted"),
         UNCHANGED <<record, logged, chain, req, covers, verifying>>
  PROVE  IInv'
<1> USE DEF IInv, Sessions
<1>1. exec'[e] = to /\ \A d \in Executor \ {e} : exec'[d] = exec[d]
  BY DEF DeletionTypeOK
<1>2. deletion' # "NONE" /\ deletion' \in DeletionStatus
  BY DEF DeletionTypeOK, DeletionStatus
<1>3. DeletionTypeOK' /\ Stores'
  BY <1>1, <1>2 DEF DeletionTypeOK, Stores
<1>4. Registered' /\ NoOrphans' /\ Fresh'
  BY DEF Registered, NoOrphans, Fresh, Creating, Exists, At, Busy
<1>5. Progress'
  BY <1>1, <1>2 DEF Progress, Begun, Gone, Together, Exists
<1>6. QED
  BY <1>3, <1>4, <1>5

(* The one step that erases: the records of all consents, their events     *)
(* with them.                                                              *)
LEMMA DeleteErases ==
  ASSUME IInv, NEW e \in Executor, ExecDelete(e)
  PROVE  \A c \in Consent : ~Exists(c)' /\ logged'[c] = {}
  BY DEF ExecDelete, Deleted, Existing, IInv, Sessions, NoOrphans, Exists

LEMMA DeleteStep ==
  ASSUME IInv, NEW e \in Executor, ExecDelete(e)
  PROVE  IInv'
<1> USE DEF IInv, Sessions
<1>1. /\ exec[e].pc = "listed"
      /\ exec' = [exec EXCEPT ![e].pc = "deleted", ![e].cleared = {}]
      /\ UNCHANGED <<chain, req, deletion, covers, verifying>>
  BY DEF ExecDelete, Deleted
<1>2. deletion # "NONE"
  BY <1>1 DEF Progress, Begun
<1>3. record' = [c \in Consent |-> IF c \in Existing THEN [status |-> "NONE", expires |-> 0] ELSE record[c]]
  BY DEF ExecDelete, Deleted
<1>4. record' \in [Consent -> [status : Status \union {"NONE"}, expires : Expiry]]
  BY <1>3, ServiceAssumption DEF DeletionTypeOK, Expiry
<1>5. Stores'
  BY <1>1 DEF ExecDelete, Deleted, Stores
<1> DEFINE to == [[exec[e] EXCEPT !.pc = "deleted"] EXCEPT !.cleared = {}]
<1>6. /\ to \in [pc : {"idle", "loaded", "started", "listed", "deleted"},
                 seen : (DeletionStatus \ {"COMPLETED"}) \union {"NONE"},
                 cleared : SUBSET Consent]
      /\ to.pc = "deleted" /\ to.cleared = {}
  <2>1. exec[e] \in [pc : {"idle", "loaded", "started", "listed", "deleted"},
                     seen : (DeletionStatus \ {"COMPLETED"}) \union {"NONE"},
                     cleared : SUBSET Consent]
    BY DEF DeletionTypeOK
  <2>2. QED
    BY <2>1
<1>7. exec' = [exec EXCEPT ![e] = to]
  BY <1>1 DEF DeletionTypeOK
<1> HIDE DEF to
<1>8. exec'[e] = to /\ \A d \in Executor \ {e} : exec'[d] = exec[d]
  BY <1>7 DEF DeletionTypeOK
<1>9. DeletionTypeOK'
  BY <1>1, <1>4, <1>6, <1>7, <1>8 DEF DeletionTypeOK
<1>10. \A c \in Consent : ~Exists(c)' /\ logged'[c] = {}
  BY DeleteErases
<1>11. ASSUME NEW r \in Request, Busy(r) PROVE req[r].consent \in Consent
  BY <1>11, SessionShape
<1>12. Registered' /\ NoOrphans'
  BY <1>1, <1>10, <1>11 DEF Registered, NoOrphans, At, Busy
<1>13. Fresh'
  BY <1>1, <1>10, <1>11 DEF Fresh, Creating, Busy
<1>14. covers \subseteq Consent
  BY DEF DeletionTypeOK
<1>15. Progress'
  BY <1>1, <1>2, <1>10, <1>14 DEF Progress, Begun, Gone, Together
<1>16. QED
  BY <1>5, <1>9, <1>12, <1>13, <1>15

LEMMA ExecKeeps ==
  ASSUME IInv, NEW e \in Executor, ExecStep(e)
  PROVE  IInv'
<1> DEFINE Execution == [pc : {"idle", "loaded", "started", "listed", "deleted"},
                         seen : (DeletionStatus \ {"COMPLETED"}) \union {"NONE"},
                         cleared : SUBSET Consent]
<1>1. /\ exec[e] \in Execution
      /\ exec \in [Executor -> Execution]
      /\ exec[e].pc # "listed" => exec[e].cleared = {}
      /\ exec[e].pc # "idle" => deletion # "NONE"
  BY DEF IInv, DeletionTypeOK, Progress, Begun
<1>2. NotRunning \in Execution /\ NotRunning.pc = "idle" /\ NotRunning.cleared = {}
  BY DEF NotRunning
<1>3. CASE ExecLoad(e)
  <2> DEFINE to == [pc |-> "loaded", seen |-> deletion, cleared |-> {}]
  <2>1. /\ deletion \notin {"NONE", "COMPLETED"}
        /\ exec' = [exec EXCEPT ![e] = to]
        /\ UNCHANGED <<record, logged, chain, req, deletion, covers, verifying>>
    BY <1>3 DEF ExecLoad, vars
  <2>2. to \in Execution /\ to.pc = "loaded" /\ to.cleared = {}
    BY <2>1 DEF IInv, DeletionTypeOK
  <2> HIDE DEF to
  <2>3. QED
    BY <2>1, <2>2, ExecMoves
<1>4. CASE ExecStart(e)
  <2> DEFINE to == [[exec[e] EXCEPT !.pc = "started"] EXCEPT !.seen = "NONE"]
  <2>1. /\ exec[e].pc = "loaded"
        /\ deletion' \in {deletion, "IN_PROGRESS"}
        /\ exec' = [exec EXCEPT ![e] = to]
        /\ UNCHANGED <<record, logged, chain, req, covers, verifying>>
    BY <1>1, <1>4 DEF ExecStart, vars
  <2>2. to \in Execution /\ to.pc = "started" /\ to.cleared = {}
    BY <1>1, <2>1
  <2> HIDE DEF to
  <2>3. QED
    BY <1>1, <2>1, <2>2, ExecMoves
<1>5. CASE ExecList(e)
  <2> DEFINE to == [[exec[e] EXCEPT !.pc = "listed"] EXCEPT !.cleared = Existing]
  <2>1. /\ exec[e].pc = "started"
        /\ exec' = [exec EXCEPT ![e] = to]
        /\ UNCHANGED <<record, logged, chain, req, deletion, covers, verifying>>
    BY <1>1, <1>5 DEF ExecList, vars
  <2>2. Existing \in SUBSET Consent
    BY DEF Existing
  <2>3. to \in Execution /\ to.pc = "listed"
    BY <1>1, <2>1, <2>2
  <2> HIDE DEF to
  <2>4. QED
    BY <1>1, <2>1, <2>3, ExecMoves
<1>6. CASE ExecBlocked(e)
  <2>1. /\ exec[e].pc = "listed"
        /\ exec' = [exec EXCEPT ![e] = NotRunning]
        /\ UNCHANGED <<record, logged, chain, req, deletion, covers, verifying>>
    BY <1>6 DEF ExecBlocked, vars
  <2>2. QED
    BY <1>1, <1>2, <2>1, ExecMoves
<1>7. CASE ExecFinish(e) \/ ExecStepFails(e) \/ ExecAborts(e)
  <2>1. /\ exec[e].pc # "idle"
        /\ exec' = [exec EXCEPT ![e] = NotRunning]
        /\ UNCHANGED <<record, logged, chain, req, covers, verifying>>
        /\ \/ deletion' \in {deletion, "FAILED"}
           \/ deletion' = "COMPLETED" /\ exec[e].pc = "deleted"
    BY <1>7 DEF ExecFinish, ExecStepFails, ExecAborts, vars
  <2>2. QED
    BY <1>1, <1>2, <2>1, ExecMoves
<1>8. QED
  BY <1>3, <1>4, <1>5, <1>6, <1>7, DeleteStep DEF ExecStep

LEMMA NextIInv == IInv /\ [DeletionNext]_allVars => IInv'
<1>1. ASSUME IInv, UNCHANGED allVars PROVE IInv'
  BY <1>1, QuietStep DEF allVars, vars
<1>2. QED
  BY <1>1, ServiceKeeps, RequestKeeps, ExecKeeps DEF DeletionNext

LEMMA Invariance == DeletionSpec => []IInv
  BY InitIInv, NextIInv, PTL DEF DeletionSpec
-----------------------------------------------------------------------------
LEMMA ErasedIsGone ==
  ASSUME IInv, NEW c \in covers
  PROVE  Erased(c) <=> ~Exists(c)
  BY DEF IInv, DeletionTypeOK, Sessions, NoOrphans, Erased

(* A COMPLETED request left nothing of its consents (ErasedWhenCompleted), *)
(* whatever ran beside the execution that completed it.                    *)
THEOREM CompletionErases == DeletionSpec => []ErasedWhenCompleted
<1>1. IInv => ErasedWhenCompleted
  BY ErasedIsGone DEF IInv, Progress, Gone, ErasedWhenCompleted
<1>2. QED
  BY <1>1, Invariance, PTL

(* The consents of a request are all in place or all erased                *)
(* (AllOrNothing), in whichever step an execution fails.                   *)
THEOREM DeletionIsAtomic == DeletionSpec => []AllOrNothing
<1>1. IInv => AllOrNothing
  <2> SUFFICES ASSUME IInv PROVE AllOrNothing
    OBVIOUS
  <2>1. covers \subseteq Consent
    BY DEF IInv, DeletionTypeOK
  <2>2. QED
    BY <2>1, ErasedIsGone DEF IInv, Progress, Together, AllOrNothing, Existing
<1>2. QED
  BY <1>1, Invariance, PTL

(* A record that is gone and was covered by the request is not written     *)
(* again: only the session that creates a record writes one that is not    *)
(* there, and its consent is not covered.                                  *)
LEMMA GoneStaysGone ==
  ASSUME IInv, [DeletionNext]_allVars, NEW c \in covers, ~Exists(c)
  PROVE  ~Exists(c)'
<1> USE DEF Exists
<1>1. c \in Consent
  BY DEF IInv, DeletionTypeOK
<1>2. CASE record' = record
  BY <1>2
<1>3. ASSUME NEW r \in Request, CommitAny(r) PROVE ~Exists(c)'
  <2>1. Busy(r) /\ req[r].pc = "commit" /\ RowThere(r)
    BY <1>3 DEF CommitAny, CommitCreate, CommitModify, CommitRevoke, CommitVerify, At, RowThere
  <2>2. req[r].consent \in Consent
    BY <2>1, SessionShape DEF IInv
  <2>3. req[r].consent # c
    BY <2>1 DEF RowThere, IInv, Sessions, Fresh, Creating
  <2>4. record'[c] = record[c]
    BY <1>1, <1>3, <2>2, <2>3 DEF CommitAny, CommitCreate, CommitModify, CommitRevoke, CommitVerify,
       IInv, DeletionTypeOK
  <2>5. QED
    BY <2>4
<1>4. ASSUME NEW written \in SUBSET Consent, WorkerCommit(written) PROVE ~Exists(c)'
  BY <1>1, <1>4 DEF WorkerCommit
<1>5. ASSUME NEW e \in Executor, ExecDelete(e) PROVE ~Exists(c)'
  BY <1>1, <1>5, DeleteErases
<1>6. ASSUME ServiceStep PROVE ~Exists(c)'
  BY <1>2, <1>3, <1>4, <1>6 DEF ServiceStep, LoadAny, LoadCreate, LoadRevoke, LoadModify, LoadVerify,
     Load, CallChain, CallChainFails, CommitFails, WorkerSelect, WorkerFails, Tick
<1>7. ASSUME NEW e \in Executor, ExecStep(e) PROVE ~Exists(c)'
  BY <1>2, <1>5, <1>7 DEF ExecStep, ExecLoad, ExecStart, ExecList, ExecBlocked, ExecFinish,
     ExecStepFails, ExecAborts, vars
<1>8. CASE BatchGone \/ (\E r \in Request : RowGone(r)) \/ CreateRequest \/ VerifyRequest
             \/ VerifyCommit \/ UNCHANGED allVars
  BY <1>2, <1>8 DEF BatchGone, RowGone, CreateRequest, VerifyRequest, VerifyCommit, allVars, vars
<1>9. QED
  BY <1>6, <1>7, <1>8 DEF DeletionNext

(* What was erased stays erased (NoResurrection), although requests and    *)
(* the worker loaded it before and commit after.                           *)
THEOREM ErasureIsFinal == DeletionSpec => NoResurrection
<1>1. IInv /\ IInv' /\ [DeletionNext]_allVars => [\A c \in covers : Erased(c) => Erased(c)']_allVars
  <2> SUFFICES ASSUME IInv, IInv', [DeletionNext]_allVars, NEW c \in covers, Erased(c)
               PROVE  Erased(c)'
    OBVIOUS
  <2>1. ~Exists(c) /\ c \in Consent
    BY ErasedIsGone DEF IInv, DeletionTypeOK
  <2>2. ~Exists(c)'
    BY <2>1, GoneStaysGone
  <2>3. logged'[c] = {}
    BY <2>1, <2>2 DEF IInv, Sessions, NoOrphans
  <2>4. QED
    BY <2>2, <2>3 DEF Erased
<1>2. QED
  BY <1>1, Invariance, PTL DEF DeletionSpec, NoResurrection

(* A request covers consents that were registered only, and no call holds  *)
(* a request that it saw COMPLETED (execute_deletion_full, verify).        *)
THEOREM DeletionTypeCorrect == DeletionSpec => []DeletionTypeOK
<1>1. IInv => DeletionTypeOK
  BY DEF IInv
<1> QED BY <1>1, Invariance, PTL
-----------------------------------------------------------------------------
(***************************************************************************)
(* DeletionDeadline.  What the worker has loaded was overdue when it was   *)
(* loaded, no step moves a request's creation or the clock back, and a job *)
(* that is not running holds nothing.                                      *)
(***************************************************************************)
Late ==
    \A r \in selected \union overdue :
        erasure[r].status # "NONE" /\ erasure[r].created + DeadlineDays < today

Idling == ~processing => selected = {} /\ marked = {}

DeadlineInv == DeadlineTypeOK /\ Late /\ Idling

LEMMA ErasureShape ==
  ASSUME DeadlineTypeOK, NEW r \in Erasure
  PROVE  /\ erasure[r].status \in ErasureStatus \union {"NONE"}
         /\ erasure[r].status # "NONE" =>
               erasure[r] \in [status : ErasureStatus, created : 1..MaxDate,
                               scheduled : 0..MaxDate + 1]
         /\ erasure[r].created \in Nat /\ today \in Nat
  BY DEF DeadlineTypeOK, NoErasure, ErasureStatus, OpenErasure

(* A step of a request keeps the date of its creation. *)
LEMMA RequestMoves ==
  ASSUME DeadlineInv, NEW r \in Erasure,
         NEW new \in [status : ErasureStatus, created : 1..MaxDate, scheduled : 0..MaxDate + 1],
         erasure[r].status # "NONE" => new.created = erasure[r].created,
         erasure' = [erasure EXCEPT ![r] = new], UNCHANGED <<today, jobVars>>
  PROVE  DeadlineInv'
<1>1. DeadlineTypeOK'
  BY DEF DeadlineInv, DeadlineTypeOK, jobVars
<1>2. ASSUME NEW q \in selected \union overdue
      PROVE  erasure'[q].status # "NONE" /\ erasure'[q].created + DeadlineDays < today
  BY <1>2 DEF DeadlineInv, DeadlineTypeOK, Late, ErasureStatus, OpenErasure
<1>3. Idling'
  BY DEF DeadlineInv, Idling, jobVars
<1>4. QED
  BY <1>1, <1>2, <1>3 DEF DeadlineInv, Late, jobVars

LEMMA DeadlineStep == DeadlineInv /\ [DeadlineNext]_deadlineVars => DeadlineInv'
<1> SUFFICES ASSUME DeadlineInv, [DeadlineNext]_deadlineVars PROVE DeadlineInv'
  OBVIOUS
<1> USE DeadlineAssumption
<1>1. ASSUME NEW r \in Erasure, CreateErasure(r) PROVE DeadlineInv'
  <2> DEFINE new == [status |-> "PENDING", created |-> today, scheduled |-> 0]
  <2>1. new \in [status : ErasureStatus, created : 1..MaxDate, scheduled : 0..MaxDate + 1]
    BY DEF DeadlineInv, DeadlineTypeOK, ErasureStatus, OpenErasure
  <2>2. /\ erasure[r].status = "NONE"
        /\ erasure' = [erasure EXCEPT ![r] = new]
        /\ UNCHANGED <<today, jobVars>>
    BY <1>1 DEF CreateErasure, NoErasure
  <2> HIDE DEF new
  <2>3. QED
    BY <2>1, <2>2, RequestMoves
<1>2. ASSUME NEW r \in Erasure, VerifyErasure(r) PROVE DeadlineInv'
  <2> DEFINE new == [erasure[r] EXCEPT !.status = "VERIFICATION_IN_PROGRESS",
                                       !.scheduled = today + 1]
  <2>1. /\ new \in [status : ErasureStatus, created : 1..MaxDate, scheduled : 0..MaxDate + 1]
        /\ new.created = erasure[r].created
    <3>1. /\ erasure[r] \in [status : ErasureStatus, created : 1..MaxDate, scheduled : 0..MaxDate + 1]
          /\ today + 1 \in 0..MaxDate + 1
      BY <1>2, ErasureShape
      DEF DeadlineInv, DeadlineTypeOK, VerifyErasure, ErasureStatus, OpenErasure
    <3>2. QED
      BY <3>1 DEF ErasureStatus, OpenErasure
  <2>2. erasure' = [erasure EXCEPT ![r] = new]
    BY <1>2 DEF VerifyErasure, DeadlineInv, DeadlineTypeOK
  <2>3. QED
    BY <1>2, <2>1, <2>2, RequestMoves DEF VerifyErasure
<1>3. ASSUME NEW r \in Erasure, NEW status \in {"IN_PROGRESS", "COMPLETED", "FAILED"},
             ExecuteErasure(r, status)
      PROVE  DeadlineInv'
  <2> DEFINE new == [erasure[r] EXCEPT !.status = status]
  <2>1. /\ new \in [status : ErasureStatus, created : 1..MaxDate, scheduled : 0..MaxDate + 1]
        /\ new.created = erasure[r].created
    BY <1>3, ErasureShape DEF DeadlineInv, ExecuteErasure, ErasureStatus, OpenErasure
  <2>2. erasure' = [erasure EXCEPT ![r] = new]
    BY <1>3 DEF ExecuteErasure, DeadlineInv, DeadlineTypeOK
  <2>3. QED
    BY <1>3, <2>1, <2>2, RequestMoves DEF ExecuteErasure
<1>4. CASE CheckDeadlines
  BY <1>4 DEF CheckDeadlines, ToRemind, DeadlineInv, DeadlineTypeOK, Late, Idling
<1>5. CASE ProcessOverdue
  <2>1. DeadlineTypeOK'
    <3>1. /\ marked' \subseteq selected' /\ selected' \subseteq Erasure
          /\ UNCHANGED <<erasure, today, checked, overdue, reminded, jobFaults>>
      BY <1>5 DEF ProcessOverdue, OverdueNow, DeadlineInv, DeadlineTypeOK, Idling
    <3>2. processing' \in BOOLEAN
      BY <1>5, Zenon DEF ProcessOverdue
    <3>3. QED
      BY <3>1, <3>2, Zenon DEF DeadlineInv, DeadlineTypeOK
  <2>2. Late'
    BY <1>5, ErasureShape
    DEF ProcessOverdue, OverdueNow, Overdue, OpenErasure, DeadlineInv, DeadlineTypeOK, Late
  <2>3. QED
    BY <1>5, <2>1, <2>2 DEF DeadlineInv, Idling, ProcessOverdue
<1>6. ASSUME NEW r \in Erasure, EscalateToCompliance(r) \/ EscalationFails(r) PROVE DeadlineInv'
  BY <1>6 DEF EscalateToCompliance, EscalationFails, DeadlineInv, DeadlineTypeOK, Late, Idling
<1>7. CASE ProcessCommits \/ ProcessFails
  <2>1. /\ processing' = FALSE /\ UNCHANGED <<erasure, today, checked, reminded>>
        /\ jobFaults' \in 0..MaxJobFaults
        /\ marked' = {} /\ selected' = {} /\ overdue \subseteq overdue'
        /\ overdue' \subseteq overdue \union selected
    BY <1>7 DEF ProcessCommits, ProcessFails, EndProcess, DeadlineInv, DeadlineTypeOK
  <2>2. overdue' \subseteq Erasure
    BY <2>1 DEF DeadlineInv, DeadlineTypeOK
  <2>3. DeadlineTypeOK'
    BY <2>1, <2>2, Zenon DEF DeadlineInv, DeadlineTypeOK
  <2>4. Late'
    BY <2>1 DEF DeadlineInv, Late
  <2>5. QED
    BY <2>1, <2>3, <2>4 DEF DeadlineInv, Idling
<1>8. CASE NextDay
  <2>1. DeadlineTypeOK'
    <3>1. today' \in 1..MaxDate
      BY <1>8 DEF NextDay, DeadlineInv, DeadlineTypeOK
    <3>2. QED
      BY <1>8, <3>1, Zenon DEF NextDay, DeadlineInv, DeadlineTypeOK
  <2>2. Late'
    BY <1>8, ErasureShape DEF NextDay, DeadlineInv, DeadlineTypeOK, Late
  <2>3. QED
    BY <1>8, <2>1, <2>2 DEF DeadlineInv, Idling, NextDay
<1>9. CASE UNCHANGED deadlineVars
  BY <1>9 DEF deadlineVars, DeadlineInv, DeadlineTypeOK, Late, Idling
<1>10. QED
  BY <1>1, <1>2, <1>3, <1>4, <1>5, <1>6, <1>7, <1>8, <1>9 DEF DeadlineNext, Job

(* Only requests past their deadline are marked overdue, whatever mails    *)
(* and commits of process_overdue_requests fail, and however the requests  *)
(* move on while it runs; for any number of requests and any deadline.     *)
THEOREM OverdueIsLate == DeadlineSpec => []DeadlineSafe
<1>1. DeadlineInit => DeadlineInv
  <2> SUFFICES ASSUME DeadlineInit PROVE DeadlineInv
    OBVIOUS
  <2>1. 1 \in 1..MaxDate /\ 0 \in 0..MaxJobFaults
    BY DeadlineAssumption
  <2>2. /\ today \in 1..MaxDate /\ jobFaults \in 0..MaxJobFaults
        /\ erasure \in [Erasure -> [status : ErasureStatus, created : 1..MaxDate,
                                    scheduled : 0..MaxDate + 1] \union {NoErasure}]
        /\ marked = {} /\ selected = {} /\ overdue = {} /\ reminded = {}
    BY <2>1 DEF DeadlineInit
  <2>3. checked \in BOOLEAN /\ processing \in BOOLEAN
    BY Zenon DEF DeadlineInit
  <2>4. QED
    BY <2>2, <2>3 DEF DeadlineInv, DeadlineTypeOK, Late, Idling
<1>2. DeadlineInv => DeadlineSafe
  BY DEF DeadlineInv, DeadlineSafe, Late
<1>3. QED
  BY <1>1, <1>2, DeadlineStep, PTL DEF DeadlineSpec
==============================================================================

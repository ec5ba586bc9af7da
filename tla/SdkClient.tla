------------------------------ MODULE SdkClient ------------------------------
(***************************************************************************)
(* sdk/client.py with the handlers of api/main.py it calls.  _request      *)
(* sends a request up to retry_count times: an answer of 400, 401 or 403   *)
(* ends the call, any other error and a lost answer are tried again, a     *)
(* create_consent too.  The server goes on with a request whose client has *)
(* stopped waiting.  ConsentMiddleware's verify_and_execute asks for the   *)
(* granted consents of a principal and a purpose, lets the server verify   *)
(* the first that fits, and runs the action.                               *)
(*                                                                         *)
(* A consent is of one principal, fiduciary and purpose, and covers the    *)
(* data asked for or not.  A commit is one step here: the races between    *)
(* load and commit of a session are ConsentService's.                      *)
(*                                                                         *)
(* External: the network, and whose requests the server runs.              *)
(***************************************************************************)
EXTENDS Naturals, Sequences, FiniteSets

CONSTANTS Creation,         \* calls of create_consent
          Check,            \* calls of verify_and_execute
          RetryCount,       \* retry_count, 3 in the code
          PageLimit,        \* query_consents' limit, 20 in the code
          MaxConsents,      \* bound: consents of the server
          MaxSdkDay         \* bound: days of a run

ASSUME SdkAssumption ==
    /\ RetryCount \in Nat \ {0} /\ PageLimit \in Nat \ {0}
    /\ MaxConsents \in Nat /\ MaxSdkDay \in Nat

VARIABLES consents,         \* consent rows, oldest first
          server,           \* server[i][n]: what became of the n-th request of i
          client,           \* client[i]: a call
          sdkDay

sdkVars == <<consents, server, client, sdkDay>>

Attempt == 1 .. RetryCount
Ends == {1, MaxSdkDay + 1}  \* expires_at: soon, or later than the run
Outcome == {"none", "running", "created", "refused", "denied", "error", "lost"}
SdkPhases == {"idle", "waiting", "sleeping", "queried", "chosen", "valid", "executed",
           "ConsentRecord", "ValueError", "PermissionError", "ConnectionError"}
Unstarted == [phase |-> "idle", attempt |-> 0, unheard |-> 0, page |-> {},
              chosen |-> 0, asked |-> 0, modified |-> {}, ended |-> FALSE]

SdkCall == Creation \union Check
Row(n) == consents[n]
Made(i) == {n \in DOMAIN consents : Row(n).by = i}

SdkInit ==
    /\ consents = <<>>
    /\ server = [i \in Creation |-> [n \in Attempt |-> "none"]]
    /\ client = [i \in SdkCall |-> Unstarted]
    /\ sdkDay = 0

To(i, phase) == client' = [client EXCEPT ![i].phase = phase]
-----------------------------------------------------------------------------
(* One turn of the loop of _request: the request reaches the server or not *)
SendRequest(i) ==
    /\ client[i].phase = "idle" \/ client[i].phase = "sleeping"
    /\ client' = [client EXCEPT ![i].phase = "waiting", ![i].attempt = @ + 1]
    /\ \E reached \in {"running", "lost"} :
          server' = [server EXCEPT ![i][client[i].attempt + 1] = reached]
    /\ UNCHANGED <<consents, sdkDay>>

(* An answer nobody waits for is lost.                                     *)
Reply(i, n, answer) ==
    IF client[i].phase = "waiting" /\ client[i].attempt = n THEN answer ELSE "lost"

(* The handler of create_consent commits the consent ...                   *)
CreateRecord(i, n, covers, expires) ==
    /\ server[i][n] = "running" /\ Len(consents) < MaxConsents
    /\ expires > sdkDay
    /\ consents' = Append(consents, [status |-> "GRANTED", covers |-> covers,
                                     expires |-> expires, by |-> i])
    /\ server' = [server EXCEPT ![i][n] = Reply(i, n, "created")]
    /\ UNCHANGED <<client, sdkDay>>

(* ... or answers 401, 400 for a ValueError, and 500 for anything else.    *)
CreateRecordFails(i, n, answer) ==
    /\ server[i][n] = "running" /\ answer \in {"denied", "refused", "error"}
    /\ server' = [server EXCEPT ![i][n] = Reply(i, n, answer)]
    /\ UNCHANGED <<consents, client, sdkDay>>

Replied(i) == server[i][client[i].attempt]
Raised(answer) == CASE answer = "created" -> "ConsentRecord"
                    [] answer = "refused" -> "ValueError"
                    [] answer = "denied" -> "PermissionError"

(* The next turn, or the end of the loop.                                  *)
NextTurn(i) == IF client[i].attempt < RetryCount THEN "sleeping" ELSE "ConnectionError"

Receive(i) ==
    /\ client[i].phase = "waiting" /\ Replied(i) \notin {"none", "running", "lost"}
    /\ To(i, IF Replied(i) = "error" THEN NextTurn(i) ELSE Raised(Replied(i)))
    /\ server' = [server EXCEPT ![i][client[i].attempt] = "lost"]
    /\ UNCHANGED <<consents, sdkDay>>

(* httpx.RequestError (no connection, a timeout, an answer cut off), or a  *)
(* proxy's answer in place of the server's, which may have done, or may    *)
(* still do, what it was asked.                                            *)
Unanswered(i) ==
    /\ client[i].phase = "waiting"
    /\ client' = [client EXCEPT ![i].phase = NextTurn(i), ![i].unheard = @ + 1]
    /\ server' = [server EXCEPT ![i][client[i].attempt] = IF @ = "running" THEN @ ELSE "lost"]
    /\ UNCHANGED <<consents, sdkDay>>
-----------------------------------------------------------------------------
GrantedRows == {n \in DOMAIN consents : Row(n).status = "GRANTED"}

ShownRow(n) == [row |-> n, covers |-> Row(n).covers, expires |-> Row(n).expires]
Newest(rows) == {n \in rows : Cardinality({m \in rows : m > n}) < PageLimit}

(* check_consent_before_action: the first page of the granted consents, as *)
(* the answered request found them.                                        *)
Query(i) ==
    /\ client[i].phase = "idle"
    /\ client' = [client EXCEPT ![i].phase = "queried", ![i].page = {ShownRow(n) : n \in Newest(GrantedRows)}]
    /\ UNCHANGED <<consents, server, sdkDay>>

Fits(listed) == listed.covers /\ listed.expires > sdkDay

(* The newest that fits is verified, and no other if the server rejects it. *)
Choose(i) ==
    /\ client[i].phase = "queried"
    /\ LET fitting == {p \in client[i].page : Fits(p)} IN
       \/ /\ fitting = {}
          /\ client' = [client EXCEPT ![i].phase = "PermissionError", ![i].page = {}]
       \/ \E first \in fitting :
             /\ \A p \in fitting : p.row <= first.row
             /\ client' = [client EXCEPT ![i].phase = "chosen", ![i].page = {},
                                         ![i].chosen = first.row,
                                         ![i].modified = @ \intersect {first.row}]
    /\ UNCHANGED <<consents, server, sdkDay>>

Rejected(n) == Row(n).status \in {"REVOKED", "EXPIRED"}
Past(n) == Row(n).expires < sdkDay

(* verify_consent of the server.                                           *)
Verify(i) ==
    /\ client[i].phase = "chosen"
    /\ \/ /\ Rejected(client[i].chosen)
          /\ To(i, "PermissionError")
       \/ /\ ~Rejected(client[i].chosen) /\ ~Past(client[i].chosen)
          /\ client' = [client EXCEPT ![i].phase = "valid", ![i].asked = sdkDay]
    /\ UNCHANGED <<consents, server, sdkDay>>

(* History: the consents of a page that were modified since the query, and *)
(* whether the verified consent was withdrawn or marked since.             *)
Acting == {i \in Check : client[i].phase \in {"valid", "executed"}}
Looking(n) == {i \in Check : \/ client[i].phase # "idle" /\ client[i].chosen = n
                             \/ \E p \in client[i].page : p.row = n}
AfterModified(n) == [i \in SdkCall |->
    IF i \in Looking(n) THEN [client[i] EXCEPT !.modified = @ \union {n}] ELSE client[i]]
AfterEnded(n) == [i \in SdkCall |->
    IF i \in Acting /\ client[i].chosen = n THEN [client[i] EXCEPT !.ended = TRUE] ELSE client[i]]

(* It marks a consent past its end, and its answer may not arrive, so that *)
(* it is asked again.                                                      *)
VerifyMarks(i, phase) ==
    LET n == client[i].chosen IN
    /\ client[i].phase = "chosen" /\ phase \in {"chosen", "PermissionError"}
    /\ ~Rejected(n) /\ Past(n)
    /\ consents' = [consents EXCEPT ![n].status = "EXPIRED"]
    /\ client' = [AfterEnded(n) EXCEPT ![i].phase = phase]
    /\ UNCHANGED <<server, sdkDay>>

(* A request of the check fails, for good or for every attempt.            *)
CheckFails(i) ==
    /\ client[i].phase \in {"queried", "chosen"}
    /\ client' \in {[client EXCEPT ![i].phase = raised, ![i].page = {}] :
                   raised \in {"ValueError", "PermissionError", "ConnectionError"}}
    /\ UNCHANGED <<consents, server, sdkDay>>

Act(i) ==
    /\ client[i].phase = "valid"
    /\ To(i, "executed")
    /\ UNCHANGED <<consents, server, sdkDay>>
-----------------------------------------------------------------------------
(* What others do to the consents: revoke_consent and modify_consent of    *)
(* the principals, and the expiry worker.                                  *)
Revoke(n) ==
    /\ Row(n).status # "REVOKED"
    /\ consents' = [consents EXCEPT ![n].status = "REVOKED"]
    /\ client' = AfterEnded(n) /\ UNCHANGED <<server, sdkDay>>

Modify(n, covers, expires) ==
    /\ Row(n).status # "REVOKED"
    /\ expires > sdkDay \/ expires = Row(n).expires
    /\ consents' = [consents EXCEPT ![n] = [@ EXCEPT !.status = "MODIFIED",
                                            !.covers = covers, !.expires = expires]]
    /\ client' = AfterModified(n) /\ UNCHANGED <<server, sdkDay>>

ExpireGranted(n) ==
    /\ Row(n).status = "GRANTED" /\ Past(n)
    /\ consents' = [consents EXCEPT ![n].status = "EXPIRED"]
    /\ client' = AfterEnded(n) /\ UNCHANGED <<server, sdkDay>>

SdkTick == sdkDay < MaxSdkDay /\ sdkDay' = sdkDay + 1 /\ UNCHANGED <<consents, server, client>>
-----------------------------------------------------------------------------
SdkNext ==
    \/ \E i \in Check :
          \/ Query(i) \/ Choose(i) \/ Verify(i) \/ CheckFails(i) \/ Act(i)
          \/ \E phase \in SdkPhases : VerifyMarks(i, phase)
    \/ \E i \in Creation :
          \/ SendRequest(i) \/ Receive(i) \/ Unanswered(i)
          \/ \E n \in Attempt : \/ \E covers \in BOOLEAN, expires \in Ends :
                                      CreateRecord(i, n, covers, expires)
                                \/ \E answer \in Outcome : CreateRecordFails(i, n, answer)
    \/ \E n \in DOMAIN consents :
          \/ Revoke(n) \/ ExpireGranted(n)
          \/ \E covers \in BOOLEAN, expires \in Ends : Modify(n, covers, expires)
    \/ SdkTick
-----------------------------------------------------------------------------
SdkTypeOK ==
    /\ consents \in Seq([status : {"GRANTED", "REVOKED", "EXPIRED", "MODIFIED"}, covers : BOOLEAN,
                         expires : Ends, by : Creation])
    /\ Len(consents) <= MaxConsents
    /\ server \in [Creation -> [Attempt -> Outcome]]
    /\ \A i \in SdkCall :
          /\ client[i].phase \in SdkPhases
          /\ client[i].attempt \in 0 .. RetryCount
          /\ client[i].unheard \in 0 .. client[i].attempt
          /\ client[i].chosen \in 0 .. Len(consents)
          /\ client[i].modified \subseteq DOMAIN consents
    /\ sdkDay \in 0 .. MaxSdkDay

(* A call leaves as many consents as it has attempts that went unanswered, *)
(* and one more if it returned: so a call that was answered each time made *)
(* exactly the one it returned, and one that raised ValueError or          *)
(* PermissionError at its first attempt none.                              *)
NoSilentDuplicate == \A i \in Creation :
    /\ Cardinality(Made(i)) <= client[i].unheard
         + (IF client[i].phase \in {"waiting", "ConsentRecord"} THEN 1 ELSE 0)
    /\ client[i].phase = "ConsentRecord" => Made(i) # {}

(* The action runs on a consent that covers the data and was in force when *)
(* the server verified it, unless it was modified after the query (its new *)
(* data types are not compared); what was withdrawn before stops it.       *)
ActsOnConsent == \A i \in Acting :
    LET n == client[i].chosen IN
    /\ Row(n).status \in {"REVOKED", "EXPIRED"} => client[i].ended
    /\ n \notin client[i].modified => /\ Row(n).status # "MODIFIED"
                                     /\ Row(n).covers
                                     /\ Row(n).expires >= client[i].asked

SdkSafe == SdkTypeOK /\ NoSilentDuplicate /\ ActsOnConsent
=============================================================================

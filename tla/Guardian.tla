------------------------------ MODULE Guardian ------------------------------
(***************************************************************************)
(* GuardianService of api/guardian/__init__.py: the registrations of one   *)
(* wallet as the guardian of one principal.  A call loads the row, assigns *)
(* the status and commits; the commit lies in _log_audit, so the row and   *)
(* its guardian_audit entry go together, and verify commits a second time  *)
(* for the entry of the main audit log.  The unit of work writes the       *)
(* status only if it differs from the one that was loaded.                 *)
(***************************************************************************)
EXTENDS Naturals, FiniteSets

CONSTANTS Registration,   \* guardian rows of the wallet and the principal
          Desk            \* concurrent calls

VARIABLES guardian,   \* guardian[g]: the status of the row
          lapsed,     \* registrations whose valid_until has passed
          trail,      \* the newest new_status in guardian_audit
          mainAudit,  \* registrations whose verification is in audit_logs
          session,    \* session[s]: a call between its awaits
          revoked,    \* history: revoked, and no verification asked since
          lost,       \* history: verifications lost between their commits
          mixed     \* history: a call committed over another's commit

guardianVars == <<guardian, lapsed, trail, mainAudit, session, revoked, lost, mixed>>

GuardianStatus == {"PENDING_VERIFICATION", "ACTIVE", "REVOKED", "EXPIRED"}
NoSession == [call |-> "none"]
GuardianCall == {"verify", "revoke", "expire"}

GuardianTypeOK ==
    /\ guardian \in [Registration -> GuardianStatus \union {"NONE"}]
    /\ lapsed \subseteq Registration /\ mainAudit \subseteq Registration
    /\ trail \in [Registration -> {"NONE", "ACTIVE", "REVOKED"}]
    /\ session \in [Desk -> [call : GuardianCall \union {"audit"}, of : Registration,
                                 seen : GuardianStatus, over : BOOLEAN] \union {NoSession}]
    /\ revoked \subseteq Registration /\ lost \subseteq Registration /\ mixed \subseteq Registration

GuardianInit ==
    /\ guardian = [g \in Registration |-> "NONE"]
    /\ trail = [g \in Registration |-> "NONE"]
    /\ session = [s \in Desk |-> NoSession]
    /\ lapsed = {} /\ mainAudit = {} /\ revoked = {} /\ lost = {} /\ mixed = {}

(* A second registration of the same wallet is not refused. *)
RegisterGuardian(g) ==
    /\ guardian[g] = "NONE"
    /\ guardian' = [guardian EXCEPT ![g] = "PENDING_VERIFICATION"]
    /\ UNCHANGED <<lapsed, trail, mainAudit, session, revoked, lost, mixed>>

Lapse(g) ==
    /\ guardian[g] # "NONE" /\ g \notin lapsed
    /\ lapsed' = lapsed \union {g}
    /\ UNCHANGED <<guardian, trail, mainAudit, session, revoked, lost, mixed>>

Opens(s, call, g) ==
    /\ session[s] = NoSession
    /\ session' = [session EXCEPT ![s] = [call |-> call, of |-> g, seen |-> guardian[g],
                                          over |-> FALSE]]

LoadGuardian(s, call, g) ==
    /\ guardian[g] # "NONE"
    /\ Opens(s, call, g)
    /\ revoked' = IF call = "verify" THEN revoked \ {g} ELSE revoked
    /\ UNCHANGED <<guardian, lapsed, trail, mainAudit, lost, mixed>>

(* The session goes on as next; the others are over an older row now. *)
Committed(s, next) ==
    LET g == session[s].of IN
    /\ session' = [r \in Desk |->
                      IF r = s THEN next
                      ELSE IF session[r] # NoSession /\ session[r].of = g
                           THEN [session[r] EXCEPT !.over = TRUE] ELSE session[r]]
    /\ mixed' = IF session[s].over THEN mixed \union {g} ELSE mixed

Writes(s, status) ==
    LET g == session[s].of IN
    guardian' = [guardian EXCEPT ![g] = IF session[s].seen = status THEN @ ELSE status]

In(s, call) == session[s] # NoSession /\ session[s].call = call

(* Whatever the status was, a revoked or an expired one included. *)
VerifyGuardian(s) ==
    /\ In(s, "verify")
    /\ Writes(s, "ACTIVE")
    /\ trail' = [trail EXCEPT ![session[s].of] = "ACTIVE"]
    /\ Committed(s, [session[s] EXCEPT !.call = "audit"])
    /\ UNCHANGED <<lapsed, mainAudit, revoked, lost>>

(* The second commit of verify_guardian. *)
LogMainAudit(s) ==
    /\ In(s, "audit")
    /\ mainAudit' = mainAudit \union {session[s].of}
    /\ session' = [session EXCEPT ![s] = NoSession]
    /\ UNCHANGED <<guardian, lapsed, trail, revoked, lost, mixed>>

(* Fault: the entry is committed before the status is assigned. *)
RevokeLogsOnly(s) ==
    /\ In(s, "revoke")
    /\ trail' = [trail EXCEPT ![session[s].of] = "REVOKED"]
    /\ Committed(s, NoSession)
    /\ revoked' = revoked \union {session[s].of}
    /\ UNCHANGED <<guardian, lapsed, mainAudit, lost>>

RevokeGuardian(s) ==
    /\ In(s, "revoke")
    /\ Writes(s, "REVOKED")
    /\ trail' = [trail EXCEPT ![session[s].of] = "REVOKED"]
    /\ Committed(s, NoSession)
    /\ revoked' = revoked \union {session[s].of}
    /\ UNCHANGED <<lapsed, mainAudit, lost>>

(* The process ends or the commit fails; between the commits of a          *)
(* verification it leaves the first.                                       *)
SessionLost(s) ==
    /\ session[s] # NoSession
    /\ session' = [session EXCEPT ![s] = NoSession]
    /\ lost' = IF In(s, "audit") THEN lost \union {session[s].of} ELSE lost
    /\ UNCHANGED <<guardian, lapsed, trail, mainAudit, revoked, mixed>>

(* Two active rows raise MultipleResultsFound in can_guardian_act, and     *)
(* nobody may act.                                                         *)
ActiveRows == {g \in Registration : guardian[g] = "ACTIVE"}
CanAct(g) == ActiveRows = {g} /\ g \notin lapsed

(* A lapsed row is set to EXPIRED, with no entry in either audit log. *)
CanActLapsed(s) ==
    \E g \in lapsed :
        /\ ActiveRows = {g}
        /\ Opens(s, "expire", g)
        /\ UNCHANGED <<guardian, lapsed, trail, mainAudit, revoked, lost, mixed>>

ExpireGuardian(s) ==
    /\ In(s, "expire")
    /\ Writes(s, "EXPIRED")
    /\ Committed(s, NoSession)
    /\ UNCHANGED <<lapsed, trail, mainAudit, revoked, lost>>

GuardianNext ==
    \/ \E g \in Registration : RegisterGuardian(g) \/ Lapse(g)
    \/ \E s \in Desk :
          \/ \E g \in Registration, call \in {"verify", "revoke"} : LoadGuardian(s, call, g)
          \/ VerifyGuardian(s) \/ LogMainAudit(s) \/ RevokeGuardian(s)
          \/ CanActLapsed(s) \/ ExpireGuardian(s) \/ SessionLost(s)
-----------------------------------------------------------------------------
(* The guardian's own audit trail ends with the status the row has, except *)
(* for an expiry, which is not logged, and unless two calls crossed.       *)
TrailTells ==
    \A g \in Registration \ mixed :
        guardian[g] \in {"ACTIVE", "REVOKED"} => trail[g] = guardian[g]

(* A revoked guardian may not act until a verification is asked for again, *)
(* unless the revocation crossed another call.                             *)
RevokedStays == \A g \in revoked \ mixed : ~CanAct(g)

(* A guardian who may act is in the main audit log, or will be by the      *)
(* verification that is on its way, or its entry was lost with it.         *)
VerifiedAudited ==
    \A g \in Registration :
        CanAct(g) => g \in mainAudit \union lost \/ \E s \in Desk : In(s, "audit") /\ session[s].of = g

GuardianSafe == TrailTells /\ RevokedStays /\ VerifiedAudited
-----------------------------------------------------------------------------
(***************************************************************************)
(* api/routes/children.py: one child, one parent and one fiduciary.  The   *)
(* grant flushes the rows of principals it did not find and returns; its   *)
(* session ends without a commit, so PostgreSQL takes them back.  What     *)
(* verify-parental-consent looks for, a GRANTED consent record of the      *)
(* child with the fiduciary, only the consent service writes.              *)
(***************************************************************************)
CONSTANTS Grant,        \* calls of parental-consent
          ChildConsent  \* consent records of the child with the fiduciary

VARIABLES registered,   \* committed rows among the child's and the parent's
          kyc,          \* those with kyc_verified
          flushed,      \* flushed[n]: rows inserted by a grant, not committed
          consent,      \* consent[c]: the status of the child's record
          promised      \* history: grants answered with success

childVars == <<registered, kyc, flushed, consent, promised>>

Family == {"child", "parent"}

ChildTypeOK ==
    /\ registered \subseteq Family /\ kyc \subseteq registered
    /\ flushed \in [Grant -> SUBSET Family]
    /\ consent \in [ChildConsent -> {"NONE", "GRANTED", "REVOKED"}]
    /\ promised \subseteq Grant

ChildInit ==
    /\ registered \in SUBSET Family /\ kyc = {}
    /\ flushed = [n \in Grant |-> {}]
    /\ consent = [c \in ChildConsent |-> "NONE"]
    /\ promised = {}

(* Any age that is not negative verifies the wallet, and no document is    *)
(* looked at.                                                              *)
VerifyAge(p) ==
    /\ p \in registered
    /\ kyc' = kyc \union {p}
    /\ UNCHANGED <<registered, flushed, consent, promised>>

Unknown(n) == Family \ (registered \union flushed[n])

(* The child's row, then the parent's; the unique wallet makes the second  *)
(* of two grants wait for the first one's rollback.                        *)
FlushPrincipal(n, p) ==
    /\ n \notin promised
    /\ p \in Unknown(n) /\ (p = "parent" => "child" \notin Unknown(n))
    /\ \A m \in Grant : p \notin flushed[m]
    /\ flushed' = [flushed EXCEPT ![n] = @ \union {p}]
    /\ UNCHANGED <<registered, kyc, consent, promised>>

(* Fault: the session commits the rows it has flushed. *)
GrantCommits(n) ==
    /\ n \notin promised /\ Unknown(n) = {}
    /\ registered' = registered \union flushed[n]
    /\ flushed' = [flushed EXCEPT ![n] = {}]
    /\ promised' = promised \union {n}
    /\ UNCHANGED <<kyc, consent>>

(* "Parental consent granted successfully": no consent record is written,  *)
(* and the end of the session rolls back what was flushed.                 *)
GrantAnswers(n) ==
    /\ n \notin promised /\ Unknown(n) = {}
    /\ flushed' = [flushed EXCEPT ![n] = {}]
    /\ promised' = promised \union {n}
    /\ UNCHANGED <<registered, kyc, consent>>

(* The consent service, for the child's own wallet. *)
ChildGrants(c) ==
    /\ consent[c] = "NONE" /\ "child" \in registered
    /\ consent' = [consent EXCEPT ![c] = "GRANTED"]
    /\ UNCHANGED <<registered, kyc, flushed, promised>>

ChildRevokes(c) ==
    /\ consent[c] = "GRANTED"
    /\ consent' = [consent EXCEPT ![c] = "REVOKED"]
    /\ UNCHANGED <<registered, kyc, flushed, promised>>

ChildNext ==
    \/ \E p \in Family : VerifyAge(p) \/ \E n \in Grant : FlushPrincipal(n, p)
    \/ \E n \in Grant : GrantAnswers(n)
    \/ \E c \in ChildConsent : ChildGrants(c) \/ ChildRevokes(c)
=============================================================================

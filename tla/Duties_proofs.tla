---------------------------- MODULE Duties_proofs ----------------------------
(***************************************************************************)
(* What a fiduciary owes and what it keeps, for any number of officers,    *)
(* clerks, desks, readers, sockets, listeners, callers, records, clients   *)
(* and items of a batch.  Each part has an inductive                       *)
(* invariant of its own; together they hold of MCDuties, whose steps are   *)
(* steps of one part each.                                                 *)
(***************************************************************************)
EXTENDS MCDuties, FiniteSetTheorems, WellFoundedInduction, TLAPS

(* Induction over the naturals, as the provers can use it: of sets.        *)
LEMMA LeastNatural ==
  ASSUME NEW S \in SUBSET Nat, S # {}
  PROVE  \E x \in S : \A y \in S : x <= y
<1> DEFINE R == OpToRel(<, Nat)
<1>1. IsWellFoundedOn(R, Nat)
  BY NatLessThanWellFounded
<1>2. \E x \in S : \A y \in S : ~ (<<y, x>> \in R)
  BY <1>1, WFMin
<1>3. \A x, y \in Nat : <<y, x>> \in R <=> y < x
  BY DEF OpToRel
<1> HIDE DEF R
<1>4. PICK x \in S : \A y \in S : ~ (<<y, x>> \in R)
  BY <1>2
<1>5. \A y \in S : x \in Nat /\ y \in Nat /\ ~ (y < x)
  BY <1>3, <1>4
<1>6. \A y \in S : x <= y
  BY <1>5
<1>7. QED
  BY <1>6

LEMMA EveryNatural ==
  ASSUME NEW S, 0 \in S, \A n \in Nat : n \in S => n + 1 \in S
  PROVE  \A n \in Nat : n \in S
<1> SUFFICES ASSUME Nat \ S # {} PROVE FALSE
  OBVIOUS
<1>1. PICK x \in Nat \ S : \A y \in Nat \ S : x <= y
  BY LeastNatural
<1>2. x # 0 /\ x - 1 \in Nat /\ x - 1 \in S
  BY <1>1
<1>3. QED
  BY <1>1, <1>2

(* Up to a last number: what holds of 0 and passes on from each to the next. *)
LEMMA EveryUpTo ==
  ASSUME NEW last \in Nat, NEW S, 0 \in S, \A n \in 0 .. last - 1 : n \in S => n + 1 \in S
  PROVE  \A n \in 0 .. last : n \in S
<1> DEFINE T == {n \in Nat : n <= last => n \in S}
<1>1. 0 \in T
  OBVIOUS
<1>2. \A n \in Nat : n \in T => n + 1 \in T
  OBVIOUS
<1> HIDE DEF T
<1>3. \A n \in Nat : n \in T
  BY <1>1, <1>2, EveryNatural
<1>4. QED
  BY <1>3 DEF T

(***************************************************************************)
(* The breach.  While the notifications are made in their order, and the   *)
(* status is not set by hand, the status says what the stamps say.         *)
(***************************************************************************)
StampsFollow ==
    Recorded /\ ~byHand /\ ~reversed =>
        \/ breach.status \in Unnotified /\ ~breach.authority /\ ~breach.principals
        \/ breach.status = "NOTIFIED_AUTHORITY" /\ breach.authority /\ ~breach.principals
        \/ breach.status = "NOTIFIED_PRINCIPALS" /\ breach.authority /\ breach.principals

(* A session that describes has a status to write. *)
DescribesTo == \A o \in Officer : officer[o].pc = "describing" => officer[o].status \in BreachStatus

BreachInv == BreachTypeOK /\ DescribesTo /\ StampsFollow /\ DescriptionKept

BreachRow == [status : BreachStatus, authority : BOOLEAN, principals : BOOLEAN,
              description : SUBSET Info]
OfficerSession == [pc : {"idle", "notifying", "describing"}, left : SUBSET Victim,
            status : BreachStatus \union {"NONE"}, info : SUBSET Info, read : SUBSET Info]

LEMMA BreachInitially == BreachInit => BreachInv
<1> SUFFICES ASSUME BreachInit PROVE BreachInv
  OBVIOUS
<1>1. {byHand, reversed, overwritten} \subseteq BOOLEAN
  BY Zenon DEF BreachInit
<1>2. BreachTypeOK
  BY <1>1 DEF BreachInit, BreachTypeOK, InTime, PastPrincipals, Away
<1>3. DescribesTo
  BY DEF BreachInit, DescribesTo, Away
<1>4. StampsFollow
  BY DEF BreachInit, StampsFollow, Recorded
<1>5. DescriptionKept
  BY DEF BreachInit, DescriptionKept
<1>6. QED
  BY <1>2, <1>3, <1>4, <1>5 DEF BreachInv


LEMMA SessionMoves ==
  ASSUME BreachInv, NEW o \in Officer, NEW later \in OfficerSession,
         later.pc = "describing" => later.status \in BreachStatus,
         officer' = [officer EXCEPT ![o] = later]
  PROVE  officer' \in [Officer -> OfficerSession] /\ DescribesTo'
<1>1. officer' \in [Officer -> OfficerSession] /\ officer \in [Officer -> OfficerSession]
  BY DEF BreachInv, BreachTypeOK, OfficerSession
<1>2. \A p \in Officer : officer'[p] = IF p = o THEN later ELSE officer[p]
  BY <1>1
<1>3. QED
  BY <1>1, <1>2 DEF BreachInv, DescribesTo

LEMMA BreachStep == BreachInv /\ [BreachNext]_breachVars => BreachInv'
<1> SUFFICES ASSUME BreachInv, [BreachNext]_breachVars PROVE BreachInv'
  OBVIOUS
<1>t. /\ BreachTypeOK /\ DescribesTo /\ StampsFollow /\ DescriptionKept
      /\ breach \in BreachRow \union {NoBreach} /\ hours \in InTime..PastPrincipals
      /\ officer \in [Officer -> OfficerSession] /\ infos \subseteq Info
  BY DEF BreachInv, BreachTypeOK, BreachRow, OfficerSession
<1>f. byHand \in BOOLEAN /\ reversed \in BOOLEAN /\ overwritten \in BOOLEAN
  BY Zenon, <1>t DEF BreachTypeOK
<1>r. breach.description \subseteq Info
  BY <1>t DEF BreachRow, NoBreach
<1>w. ASSUME NEW s \in BreachStatus
      PROVE  /\ [breach EXCEPT !.status = s] \in BreachRow
             /\ [breach EXCEPT !.status = s, !.authority = TRUE] \in BreachRow
             /\ [breach EXCEPT !.status = s, !.principals = TRUE] \in BreachRow
             /\ \A d \in SUBSET Info : [breach EXCEPT !.status = s, !.description = d] \in BreachRow
  <2>1. CASE breach \in BreachRow
    BY <2>1 DEF BreachRow
  <2>2. CASE breach = NoBreach
    BY <2>2 DEF BreachRow, NoBreach
  <2>3. QED
    BY <1>t, <2>1, <2>2
<1>q. ASSUME breach' \in BreachRow \union {NoBreach}, hours' \in InTime..PastPrincipals,
             officer' \in [Officer -> OfficerSession], infos' \subseteq Info,
             byHand' \in BOOLEAN, reversed' \in BOOLEAN, overwritten' \in BOOLEAN,
             DescribesTo', StampsFollow', DescriptionKept'
      PROVE  BreachInv'
  <2>1. {byHand, reversed, overwritten}' \subseteq BOOLEAN
    BY Zenon, <1>q
  <2>2. BreachTypeOK'
    BY <1>q, <2>1 DEF BreachTypeOK, BreachRow, OfficerSession
  <2>3. QED
    BY <1>q, <2>2 DEF BreachInv
<1>n. NoBreach.description = {} /\ ~NoBreach.authority /\ ~NoBreach.principals
  BY DEF NoBreach
<1>1. CASE CreateBreach
  <2> DEFINE written == [NoBreach EXCEPT !.status = "DETECTED"]
  <2>1. /\ written \in BreachRow /\ written.status = "DETECTED" /\ ~written.authority /\ ~written.principals
        /\ written.description = {} /\ written # NoBreach
    BY DEF NoBreach, BreachRow, BreachStatus, Unnotified
  <2>2. breach' = written /\ breach = NoBreach /\ hours' \in InTime..PastPrincipals
    BY <1>1 DEF CreateBreach, Recorded
  <2> HIDE DEF written
  <2>3. StampsFollow'
    BY <2>1, <2>2 DEF StampsFollow, Unnotified
  <2>4. DescribesTo' /\ DescriptionKept'
    BY <1>1, <1>t, <1>n, <2>1, <2>2 DEF CreateBreach, DescribesTo, DescriptionKept
  <2>5. byHand' \in BOOLEAN /\ reversed' \in BOOLEAN /\ overwritten' \in BOOLEAN
    BY Zenon, <1>1, <1>f DEF CreateBreach
  <2>6. QED
    BY <1>1, <1>q, <1>t, <2>1, <2>2, <2>3, <2>4, <2>5 DEF CreateBreach
<1>2. CASE HoursPass
  <2>1. hours' \in InTime..PastPrincipals
    BY <1>2, <1>t DEF HoursPass, InTime, PastPrincipals
  <2>2. StampsFollow' /\ DescribesTo' /\ DescriptionKept'
    BY <1>2, <1>t DEF HoursPass, StampsFollow, Recorded, DescribesTo, DescriptionKept
  <2>5. byHand' \in BOOLEAN /\ reversed' \in BOOLEAN /\ overwritten' \in BOOLEAN
    BY Zenon, <1>2, <1>f DEF HoursPass
  <2>6. QED
    BY <1>2, <1>q, <1>t, <2>1, <2>2, <2>5 DEF HoursPass
<1>3. ASSUME NEW o \in Officer, NotifyAuthority(o) PROVE BreachInv'
  <2> DEFINE written == [breach EXCEPT !.status = "NOTIFIED_AUTHORITY", !.authority = TRUE]
  <2>1. written \in BreachRow
    BY <1>w DEF BreachStatus, Unnotified
  <2>2. /\ written.status = "NOTIFIED_AUTHORITY" /\ written.authority
        /\ written.principals = breach.principals /\ written.description = breach.description
    BY <1>t DEF BreachRow, NoBreach
  <2>3. breach' = written /\ reversed' = (reversed \/ breach.principals)
    BY <1>3 DEF NotifyAuthority
  <2> HIDE DEF written
  <2>4. StampsFollow'
    BY <2>2, <2>3 DEF StampsFollow
  <2>5. DescribesTo' /\ DescriptionKept'
    BY <1>3, <1>t, <2>2, <2>3 DEF NotifyAuthority, DescribesTo, DescriptionKept
  <2>6. byHand' \in BOOLEAN /\ overwritten' \in BOOLEAN
    BY Zenon, <1>3, <1>f DEF NotifyAuthority
  <2>7. reversed' \in BOOLEAN
    BY <2>3
  <2>8. QED
    BY <1>3, <1>q, <1>t, <2>1, <2>3, <2>4, <2>5, <2>6, <2>7 DEF NotifyAuthority
<1>4. ASSUME NEW o \in Officer, PrincipalsNotified(o) PROVE BreachInv'
  <2> DEFINE written == [breach EXCEPT !.status = "NOTIFIED_PRINCIPALS", !.principals = TRUE]
  <2>1. written \in BreachRow
    BY <1>w DEF BreachStatus, Unnotified
  <2>2. /\ written.status = "NOTIFIED_PRINCIPALS" /\ written.principals
        /\ written.authority = breach.authority /\ written.description = breach.description
    BY <1>t DEF BreachRow, NoBreach
  <2>3. breach' = written /\ reversed' = (reversed \/ ~breach.authority)
    BY <1>4 DEF PrincipalsNotified
  <2> HIDE DEF written
  <2>4. StampsFollow'
    BY <2>2, <2>3 DEF StampsFollow
  <2>9. Away \in OfficerSession /\ Away.pc = "idle"
    BY DEF Away, OfficerSession
  <2>5. officer' \in [Officer -> OfficerSession] /\ DescribesTo'
    BY <1>4, <2>9, SessionMoves DEF PrincipalsNotified
  <2>a. DescriptionKept'
    BY <1>4, <1>t, <2>2, <2>3 DEF PrincipalsNotified, DescriptionKept
  <2>6. byHand' \in BOOLEAN /\ overwritten' \in BOOLEAN
    BY Zenon, <1>4, <1>f DEF PrincipalsNotified
  <2>7. reversed' \in BOOLEAN
    BY <2>3
  <2>8. QED
    BY <1>4, <1>q, <1>t, <2>1, <2>3, <2>4, <2>5, <2>a, <2>6, <2>7 DEF PrincipalsNotified
<1>5. ASSUME NEW o \in Officer, NEW later \in OfficerSession,
             later.pc = "describing" => later.status \in BreachStatus,
             officer' = [officer EXCEPT ![o] = later],
             UNCHANGED <<breach, hours, infos, byHand, reversed, overwritten>>
      PROVE  BreachInv'
  <2>1. officer' \in [Officer -> OfficerSession] /\ DescribesTo'
    BY <1>5, SessionMoves
  <2>2. StampsFollow' /\ DescriptionKept'
    BY <1>5, <1>t DEF StampsFollow, Recorded, DescriptionKept
  <2>3. byHand' \in BOOLEAN /\ reversed' \in BOOLEAN /\ overwritten' \in BOOLEAN
    BY Zenon, <1>5, <1>f
  <2>4. QED
    BY <1>5, <1>q, <1>t, <2>1, <2>2, <2>3
<1>6. ASSUME NEW o \in Officer, OfficerGone(o) PROVE BreachInv'
  BY <1>6, <1>5 DEF OfficerGone, Away, OfficerSession
<1>7. ASSUME NEW o \in Officer, WriteDescription(o) PROVE BreachInv'
  <2> DEFINE text == Described(o)
             written == [breach EXCEPT !.status = officer[o].status, !.description = text]
  <2>0. officer[o] \in OfficerSession /\ officer[o].status \in BreachStatus /\ officer[o].info \subseteq Info
    BY <1>7, <1>t DEF WriteDescription, DescribesTo, OfficerSession
  <2>1. text \in SUBSET Info /\ officer[o].read \union officer[o].info = text
    BY <2>0 DEF Described, OfficerSession
  <2>2. written \in BreachRow
    BY <1>w, <2>0, <2>1
  <2>3. written.description = text
    BY <1>t DEF BreachRow, NoBreach
  <2>4. /\ breach' = written /\ infos' = infos \union officer[o].info /\ byHand' = TRUE
        /\ overwritten' = (overwritten \/ officer[o].read # breach.description)
        /\ officer' = [officer EXCEPT ![o] = Away]
        /\ UNCHANGED <<hours, reversed>>
    BY <1>7 DEF WriteDescription
  <2> HIDE DEF written, text
  <2>5. StampsFollow'
    BY <2>4 DEF StampsFollow
  <2>6. DescriptionKept'
    BY <1>t, <2>1, <2>3, <2>4 DEF DescriptionKept
  <2>7. Away \in OfficerSession /\ Away.pc = "idle"
    BY DEF Away, OfficerSession
  <2>8. officer' \in [Officer -> OfficerSession] /\ DescribesTo'
    BY <2>4, <2>7, SessionMoves
  <2>9. byHand' \in BOOLEAN /\ reversed' \in BOOLEAN
    BY Zenon, <2>4, <1>f
  <2>10. overwritten' \in BOOLEAN
    BY <2>4
  <2>11. infos' \subseteq Info
    BY <1>t, <2>0, <2>4
  <2>12. QED
    BY <1>q, <1>t, <2>2, <2>4, <2>5, <2>6, <2>8, <2>9, <2>10, <2>11
<1>8. ASSUME NEW o \in Officer, NEW ids \in SUBSET Victim, NotifyPrincipals(o, ids) PROVE BreachInv'
  BY <1>8, <1>5 DEF NotifyPrincipals, Away, OfficerSession
<1>9. ASSUME NEW o \in Officer, NEW v \in Victim, NotifyOne(o, v) PROVE BreachInv'
  <2> DEFINE later == [officer[o] EXCEPT !.left = @ \ {v}]
  <2>1. later \in OfficerSession /\ later.pc = officer[o].pc
    BY <1>t DEF OfficerSession
  <2>2. officer' = [officer EXCEPT ![o] = later] /\ officer[o].pc = "notifying"
    BY <1>9 DEF NotifyOne
  <2> HIDE DEF later
  <2>3. QED
    BY <1>9, <1>5, <2>1, <2>2 DEF NotifyOne
<1>10. ASSUME NEW o \in Officer, NEW s \in BreachStatus, UpdateBreachStatus(o, s) PROVE BreachInv'
  <2> DEFINE written == [breach EXCEPT !.status = s]
  <2>1. written \in BreachRow
    BY <1>w
  <2>2. written.description = breach.description
    BY <1>t DEF BreachRow, NoBreach
  <2>3. breach' = written /\ byHand' = TRUE
    BY <1>10 DEF UpdateBreachStatus
  <2> HIDE DEF written
  <2>4. StampsFollow'
    BY <2>3 DEF StampsFollow
  <2>5. DescribesTo' /\ DescriptionKept'
    BY <1>10, <1>t, <2>2, <2>3 DEF UpdateBreachStatus, DescribesTo, DescriptionKept
  <2>6. byHand' \in BOOLEAN /\ reversed' \in BOOLEAN /\ overwritten' \in BOOLEAN
    BY Zenon, <1>10, <1>f, <2>3 DEF UpdateBreachStatus
  <2>8. QED
    BY <1>10, <1>q, <1>t, <2>1, <2>3, <2>4, <2>5, <2>6 DEF UpdateBreachStatus
<1>11. ASSUME NEW o \in Officer, NEW s \in BreachStatus, NEW i \in Info, ReadDescription(o, s, i)
       PROVE  BreachInv'
  <2> DEFINE later == [pc |-> "describing", left |-> {}, status |-> s, info |-> {i},
                      read |-> breach.description]
  <2>1. later \in OfficerSession /\ later.status = s
    BY <1>r DEF OfficerSession
  <2>2. officer' = [officer EXCEPT ![o] = later]
    BY <1>11 DEF ReadDescription
  <2> HIDE DEF later
  <2>3. QED
    BY <1>11, <1>5, <2>1, <2>2 DEF ReadDescription
<1>12. CASE UNCHANGED breachVars
  <2>1. byHand' \in BOOLEAN /\ reversed' \in BOOLEAN /\ overwritten' \in BOOLEAN
    BY Zenon, <1>12, <1>f DEF breachVars
  <2>2. DescribesTo' /\ StampsFollow' /\ DescriptionKept'
    BY <1>12, <1>t DEF breachVars, DescribesTo, StampsFollow, DescriptionKept, Recorded
  <2>3. QED
    BY <1>12, <1>q, <1>t, <2>1, <2>2 DEF breachVars
<1>13. QED
  BY <1>1, <1>2, <1>3, <1>4, <1>6, <1>7, <1>8, <1>9, <1>10, <1>11, <1>12 DEF BreachNext

(* What the deadline check says follows. *)
LEMMA BreachImplies == BreachInv => BreachTypeOK /\ OverdueAlerted /\ DescriptionKept
<1> SUFFICES ASSUME BreachInv PROVE OverdueAlerted
  BY DEF BreachInv
<1>1. hours \in 0..3
  BY DEF BreachInv, BreachTypeOK, InTime, PastPrincipals
<1> SUFFICES ASSUME Recorded, ~byHand, ~reversed
             PROVE  /\ hours >= PastAuthority /\ ~breach.authority <=> Alert = "OVERDUE_AUTHORITY_NOTIFICATION"
                    /\ hours = PastPrincipals /\ breach.authority /\ ~breach.principals
                           <=> Alert = "OVERDUE_PRINCIPAL_NOTIFICATION"
  BY DEF OverdueAlerted
<1>2. CASE breach.status \in Unnotified /\ ~breach.authority /\ ~breach.principals
  BY <1>1, <1>2 DEF Alert, Unnotified, PastAuthority, Approaching, PastPrincipals
<1>3. CASE breach.status = "NOTIFIED_AUTHORITY" /\ breach.authority /\ ~breach.principals
  BY <1>1, <1>3 DEF Alert, Unnotified, PastAuthority, Approaching, PastPrincipals
<1>4. CASE breach.status = "NOTIFIED_PRINCIPALS" /\ breach.authority /\ breach.principals
  BY <1>1, <1>4 DEF Alert, Unnotified, PastAuthority, Approaching, PastPrincipals
<1>5. QED
  BY <1>2, <1>3, <1>4 DEF BreachInv, StampsFollow

(***************************************************************************)
(* Grievances.  A asked that nothing was committed over has seen the status *)
(* the written has; so long as only such calls commit, the status of a written     *)
(* follows from what was asked.                                            *)
(***************************************************************************)
ClerkSees ==
    \A k \in Clerk : clerk[k] # NoCall =>
        /\ grievance[clerk[k].of] # NotSubmitted
        /\ ~clerk[k].over => clerk[k].seen = grievance[clerk[k].of].status

StatusFollows(g) ==
    /\ grievance[g] # NotSubmitted /\ ~grievance[g].resolved /\ g \notin escalated
           => grievance[g].status \in OpenStatus
    /\ grievance[g].status \in OpenStatus /\ grievance[g].resolved => g \in reopened

GrievanceInv == GrievanceTypeOK /\ ClerkSees /\ \A g \in Case \ crossed : StatusFollows(g)

GrievanceRow == [status : GrievanceStatus, due : 0..MaxDay + Resolution, resolved : BOOLEAN]
ClerkCall == [call : GrievanceCall, of : Case, seen : GrievanceStatus, over : BOOLEAN]

LEMMA GrievanceInitially == GrievanceInit => GrievanceInv
<1> SUFFICES ASSUME GrievanceInit PROVE GrievanceInv
  OBVIOUS
<1>1. GrievanceTypeOK
  BY GrievanceAssumption DEF GrievanceInit, GrievanceTypeOK
<1>2. ClerkSees
  BY DEF GrievanceInit, ClerkSees
<1>3. \A g \in Case : StatusFollows(g)
  BY DEF GrievanceInit, StatusFollows, NotSubmitted, OpenStatus
<1>4. QED
  BY <1>1, <1>2, <1>3 DEF GrievanceInv

(* A written or a asked is one of its kind, or none. *)
LEMMA GrievanceShape ==
  ASSUME GrievanceTypeOK
  PROVE  /\ grievance \in [Case -> GrievanceRow \union {NotSubmitted}]
         /\ clerk \in [Clerk -> ClerkCall \union {NoCall}]
         /\ \A g \in Case : grievance[g] # NotSubmitted <=> grievance[g].status \in GrievanceStatus
         /\ \A k \in Clerk : clerk[k] # NoCall => clerk[k] \in ClerkCall /\ clerk[k].of \in Case
         /\ NoCall \notin ClerkCall
<1>1. /\ grievance \in [Case -> GrievanceRow \union {NotSubmitted}]
      /\ clerk \in [Clerk -> ClerkCall \union {NoCall}]
  BY DEF GrievanceTypeOK, GrievanceRow, ClerkCall
<1>2. "NONE" \notin GrievanceStatus /\ "none" \notin GrievanceCall
  BY DEF GrievanceStatus, GrievanceCall
<1>3. \A g \in Case : grievance[g] # NotSubmitted <=> grievance[g].status \in GrievanceStatus
  BY <1>1, <1>2 DEF GrievanceRow, NotSubmitted
<1>4. NoCall \notin ClerkCall
  BY <1>2 DEF NoCall, ClerkCall
<1>5. \A k \in Clerk : clerk[k] # NoCall => clerk[k] \in ClerkCall /\ clerk[k].of \in Case
  BY <1>1 DEF ClerkCall
<1>6. QED
  BY <1>1, <1>3, <1>4, <1>5

(* The commit of a asked, whatever it wrote to the written g.  If nothing was   *)
(* committed over what the asked had loaded, the status is the one it       *)
(* assigned.                                                               *)
LEMMA CallCommits ==
  ASSUME GrievanceInv, NEW k \in Clerk, clerk[k] # NoCall, Commits(k),
         NEW g \in Case, g = clerk[k].of,
         NEW written \in GrievanceRow,
         grievance' = [grievance EXCEPT ![g] = written],
         escalated' \subseteq Case, reopened' \subseteq Case,
         \A h \in Case : h # g =>
             (h \in escalated' <=> h \in escalated) /\ (h \in reopened' <=> h \in reopened),
         clerk[k].over \/ StatusFollows(g)'
  PROVE  GrievanceInv'
<1>1. /\ grievance \in [Case -> GrievanceRow \union {NotSubmitted}]
      /\ clerk \in [Clerk -> ClerkCall \union {NoCall}]
      /\ \A h \in Case : grievance[h] # NotSubmitted <=> grievance[h].status \in GrievanceStatus
      /\ \A j \in Clerk : clerk[j] # NoCall => clerk[j] \in ClerkCall /\ clerk[j].of \in Case
      /\ NoCall \notin ClerkCall
      /\ ClerkSees /\ crossed \subseteq Case
  BY GrievanceShape DEF GrievanceInv, GrievanceTypeOK
<1>2. written # NotSubmitted
  BY DEF GrievanceRow, NotSubmitted, GrievanceStatus
<1>3. grievance' \in [Case -> GrievanceRow \union {NotSubmitted}]
      /\ \A h \in Case : grievance'[h] = IF h = g THEN written ELSE grievance[h]
  BY <1>1
<1>4. \A j \in Clerk : clerk[j] # NoCall =>
         /\ [clerk[j] EXCEPT !.over = TRUE] \in ClerkCall
         /\ [clerk[j] EXCEPT !.over = TRUE].of = clerk[j].of
         /\ [clerk[j] EXCEPT !.over = TRUE].over
  BY <1>1 DEF ClerkCall
<1>5. \A j \in Clerk :
         clerk'[j] = IF j = k THEN NoCall
                     ELSE IF clerk[j] # NoCall /\ clerk[j].of = g
                          THEN [clerk[j] EXCEPT !.over = TRUE] ELSE clerk[j]
  BY DEF Commits
<1>6. clerk' \in [Clerk -> ClerkCall \union {NoCall}]
  <2>1. \A j \in Clerk : clerk'[j] \in ClerkCall \union {NoCall}
    BY <1>1, <1>4, <1>5
  <2>2. clerk' = [j \in Clerk |-> clerk'[j]]
    BY DEF Commits
  <2>3. QED
    BY <2>1, <2>2
<1>7. crossed' \subseteq Case /\ crossed \subseteq crossed' /\ (clerk[k].over => g \in crossed') /\ day' = day
  BY <1>1 DEF Commits
<1>8. ClerkSees'
  <2> SUFFICES ASSUME NEW j \in Clerk, clerk'[j] # NoCall
               PROVE  /\ grievance'[clerk'[j].of] # NotSubmitted
                      /\ ~clerk'[j].over => clerk'[j].seen = grievance'[clerk'[j].of].status
    BY DEF ClerkSees
  <2>1. j # k /\ clerk[j] # NoCall /\ clerk'[j].of = clerk[j].of /\ clerk[j].of \in Case
    BY <1>1, <1>4, <1>5
  <2>2. CASE clerk[j].of = g
    BY <2>1, <2>2, <1>1, <1>2, <1>3, <1>4, <1>5
  <2>3. CASE clerk[j].of # g
    BY <2>1, <2>3, <1>1, <1>3, <1>5 DEF ClerkSees
  <2>4. QED
    BY <2>2, <2>3
<1>9. \A h \in Case \ crossed' : StatusFollows(h)'
  <2> SUFFICES ASSUME NEW h \in Case \ crossed' PROVE StatusFollows(h)'
    OBVIOUS
  <2>1. CASE h = g
    BY <2>1, <1>7
  <2>2. CASE h # g
    <3>1. StatusFollows(h) /\ grievance'[h] = grievance[h]
      BY <2>2, <1>3, <1>7 DEF GrievanceInv
    <3>2. (h \in escalated' <=> h \in escalated) /\ (h \in reopened' <=> h \in reopened)
      BY <2>2
    <3>3. QED
      BY <3>1, <3>2 DEF StatusFollows
  <2>3. QED
    BY <2>1, <2>2
<1>10. GrievanceTypeOK'
  BY <1>3, <1>6, <1>7 DEF GrievanceInv, GrievanceTypeOK, GrievanceRow, ClerkCall
<1>11. QED
  BY <1>8, <1>9, <1>10 DEF GrievanceInv

LEMMA GrievanceStep == GrievanceInv /\ [GrievanceNext]_grievanceVars => GrievanceInv'
<1> SUFFICES ASSUME GrievanceInv, [GrievanceNext]_grievanceVars PROVE GrievanceInv'
  OBVIOUS
<1>1. /\ grievance \in [Case -> GrievanceRow \union {NotSubmitted}]
      /\ clerk \in [Clerk -> ClerkCall \union {NoCall}]
      /\ \A h \in Case : grievance[h] # NotSubmitted <=> grievance[h].status \in GrievanceStatus
      /\ \A j \in Clerk : clerk[j] # NoCall => clerk[j] \in ClerkCall /\ clerk[j].of \in Case
      /\ NoCall \notin ClerkCall
      /\ ClerkSees /\ \A g \in Case \ crossed : StatusFollows(g)
      /\ day \in 1..MaxDay /\ escalated \subseteq Case /\ reopened \subseteq Case /\ crossed \subseteq Case
  BY GrievanceShape DEF GrievanceInv, GrievanceTypeOK
<1>2. ASSUME NEW k \in Clerk, clerk[k] # NoCall
      PROVE  /\ Assigns(clerk[k].call) \in GrievanceStatus
             /\ StatusAfter(k) \in GrievanceStatus
             /\ ~clerk[k].over => StatusAfter(k) = Assigns(clerk[k].call)
             /\ clerk[k].of \in Case /\ grievance[clerk[k].of] \in GrievanceRow
  <2>1. Assigns(clerk[k].call) \in GrievanceStatus
    BY <1>1, <1>2 DEF Assigns, ClerkCall, GrievanceCall, GrievanceStatus
  <2>2. clerk[k].of \in Case /\ grievance[clerk[k].of] \in GrievanceRow
    BY <1>1, <1>2 DEF ClerkSees
  <2>3. ~clerk[k].over => clerk[k].seen = grievance[clerk[k].of].status
    BY <1>1, <1>2 DEF ClerkSees
  <2>4. QED
    BY <2>1, <2>2, <2>3 DEF StatusAfter, GrievanceRow
<1>3. ASSUME NEW k \in Clerk, AcknowledgeGrievance(k) PROVE GrievanceInv'
  <2>0. PICK g \in Case : g = clerk[k].of
    BY <1>2, <1>3 DEF AcknowledgeGrievance
  <2> DEFINE written == [grievance[g] EXCEPT !.status = StatusAfter(k), !.due = day + Resolution]
  <2>1. clerk[k] # NoCall /\ clerk[k].call = "acknowledge" /\ Commits(k) /\ escalated' = escalated
    BY <2>0, <1>3 DEF AcknowledgeGrievance
  <2>2. day + Resolution \in 0..MaxDay + Resolution
    BY <2>0, <1>1, GrievanceAssumption
  <2>3. /\ written \in GrievanceRow /\ written.status = StatusAfter(k)
        /\ written.resolved = grievance[g].resolved
    BY <2>0, <1>2, <2>1, <2>2 DEF GrievanceRow
  <2>4. /\ grievance' = [grievance EXCEPT ![g] = written]
        /\ reopened' = IF grievance[g].resolved THEN reopened \union {g} ELSE reopened
    BY <2>0, <1>3 DEF AcknowledgeGrievance
  <2>5. g \in Case /\ grievance'[g] = written
    BY <2>0, <1>1, <1>2, <2>1, <2>4
  <2>6. ~clerk[k].over => written.status = "ACKNOWLEDGED"
    BY <2>0, <1>2, <2>1, <2>3 DEF Assigns
  <2> HIDE DEF written
  <2>7. clerk[k].over \/ StatusFollows(g)'
    BY <2>0, <2>3, <2>4, <2>5, <2>6 DEF StatusFollows, OpenStatus
  <2>8. escalated' \subseteq Case /\ reopened' \subseteq Case
    BY <2>0, <1>1, <2>1, <2>4, <2>5
  <2>9. \A h \in Case : h # g =>
             (h \in escalated' <=> h \in escalated) /\ (h \in reopened' <=> h \in reopened)
    BY <2>0, <2>1, <2>4
  <2>10. QED
    BY <2>0, <2>1, <2>3, <2>4, <2>7, <2>8, <2>9, CallCommits
<1>4. ASSUME NEW k \in Clerk, ResolveGrievance(k) PROVE GrievanceInv'
  <2>0. PICK g \in Case : g = clerk[k].of
    BY <1>2, <1>4 DEF ResolveGrievance
  <2> DEFINE written == [grievance[g] EXCEPT !.status = StatusAfter(k), !.resolved = TRUE]
  <2>1. /\ clerk[k] # NoCall /\ clerk[k].call = "resolve" /\ Commits(k)
        /\ escalated' = escalated /\ reopened' = reopened
    BY <2>0, <1>4 DEF ResolveGrievance
  <2>2. written \in GrievanceRow /\ written.status = StatusAfter(k) /\ written.resolved
    BY <2>0, <1>2, <2>1 DEF GrievanceRow
  <2>3. grievance' = [grievance EXCEPT ![g] = written]
    BY <2>0, <1>4 DEF ResolveGrievance
  <2>4. g \in Case /\ grievance'[g] = written
    BY <2>0, <1>1, <1>2, <2>1, <2>3
  <2>5. ~clerk[k].over => written.status = "RESOLVED"
    BY <2>0, <1>2, <2>1, <2>2 DEF Assigns
  <2> HIDE DEF written
  <2>6. clerk[k].over \/ StatusFollows(g)'
    BY <2>0, <2>2, <2>4, <2>5 DEF StatusFollows, OpenStatus
  <2>7. QED
    BY <2>0, <1>1, <2>1, <2>2, <2>3, <2>6, CallCommits
<1>5. ASSUME NEW k \in Clerk, EscalateGrievance(k) PROVE GrievanceInv'
  <2>0. PICK g \in Case : g = clerk[k].of
    BY <1>2, <1>5 DEF EscalateGrievance
  <2> DEFINE written == [grievance[g] EXCEPT !.status = StatusAfter(k)]
  <2>1. /\ clerk[k] # NoCall /\ clerk[k].call = "escalate" /\ Commits(k)
        /\ escalated' = escalated \union {g} /\ reopened' = reopened
    BY <2>0, <1>5 DEF EscalateGrievance
  <2>2. written \in GrievanceRow /\ written.status = StatusAfter(k)
    BY <2>0, <1>2, <2>1 DEF GrievanceRow
  <2>3. grievance' = [grievance EXCEPT ![g] = written]
    BY <2>0, <1>5 DEF EscalateGrievance
  <2>4. g \in Case /\ grievance'[g] = written
    BY <2>0, <1>1, <1>2, <2>1, <2>3
  <2>5. ~clerk[k].over => written.status = "ESCALATED"
    BY <2>0, <1>2, <2>1, <2>2 DEF Assigns
  <2> HIDE DEF written
  <2>6. clerk[k].over \/ StatusFollows(g)'
    BY <2>0, <2>1, <2>2, <2>4, <2>5 DEF StatusFollows, OpenStatus
  <2>7. escalated' \subseteq Case
    BY <2>0, <1>1, <2>1, <2>4
  <2>8. QED
    BY <2>0, <1>1, <2>1, <2>2, <2>3, <2>6, <2>7, CallCommits
<1>6. ASSUME NEW k \in Clerk, CallFails(k) PROVE GrievanceInv'
  <2>1. /\ clerk' \in [Clerk -> ClerkCall \union {NoCall}]
        /\ \A j \in Clerk : clerk'[j] = IF j = k THEN NoCall ELSE clerk[j]
    BY <1>1, <1>6 DEF CallFails
  <2>2. ClerkSees' /\ \A g \in Case \ crossed' : StatusFollows(g)'
    BY <1>1, <1>6, <2>1 DEF CallFails, ClerkSees, StatusFollows
  <2>3. GrievanceTypeOK'
    BY <1>1, <1>6, <2>1 DEF CallFails, GrievanceTypeOK, GrievanceRow, ClerkCall
  <2>4. QED
    BY <2>2, <2>3 DEF GrievanceInv
<1>7. CASE DayPasses
  <2>1. day' \in 1..MaxDay
    BY <1>1, <1>7, GrievanceAssumption DEF DayPasses
  <2>2. ClerkSees' /\ \A g \in Case \ crossed' : StatusFollows(g)'
    BY <1>1, <1>7 DEF DayPasses, ClerkSees, StatusFollows
  <2>3. GrievanceTypeOK'
    BY <1>1, <1>7, <2>1 DEF DayPasses, GrievanceTypeOK, GrievanceRow, ClerkCall
  <2>4. QED
    BY <2>2, <2>3 DEF GrievanceInv
<1>8. ASSUME NEW g \in Case, SubmitGrievance(g) PROVE GrievanceInv'
  <2> DEFINE written == [NotSubmitted EXCEPT !.status = "SUBMITTED"]
  <2>0. NotSubmitted \in [status : {"NONE"}, due : 0..MaxDay + Resolution, resolved : BOOLEAN]
    <3>1. 0 \in 0..MaxDay + Resolution
      BY GrievanceAssumption
    <3>2. QED
      BY <3>1 DEF NotSubmitted
  <2>1. written \in GrievanceRow /\ written.status = "SUBMITTED"
    BY <2>0 DEF GrievanceRow, GrievanceStatus
  <2>a. written.resolved = NotSubmitted.resolved /\ ~NotSubmitted.resolved
    BY DEF NotSubmitted
  <2>b. written # NotSubmitted
    BY <2>1 DEF NotSubmitted
  <2>2. grievance[g] = NotSubmitted /\ grievance' = [grievance EXCEPT ![g] = written]
    BY <1>8 DEF SubmitGrievance
  <2>3. grievance' \in [Case -> GrievanceRow \union {NotSubmitted}]
        /\ \A h \in Case : grievance'[h] = IF h = g THEN written ELSE grievance[h]
    BY <1>1, <2>1, <2>2
  <2> HIDE DEF written
  <2>4. UNCHANGED <<clerk, day, escalated, reopened, crossed>>
    BY <1>8 DEF SubmitGrievance
  <2>5. ClerkSees'
    BY <1>1, <2>b, <2>2, <2>3, <2>4 DEF ClerkSees
  <2>6. \A h \in Case \ crossed' : StatusFollows(h)'
    BY <1>1, <2>1, <2>a, <2>3, <2>4 DEF StatusFollows, OpenStatus
  <2>7. GrievanceTypeOK'
    BY <1>1, <2>3, <2>4 DEF GrievanceTypeOK, GrievanceRow, ClerkCall
  <2>8. QED
    BY <2>5, <2>6, <2>7 DEF GrievanceInv
<1>9. ASSUME NEW g \in Case, NEW k \in Clerk, NEW asked \in GrievanceCall, LoadGrievance(k, asked, g)
      PROVE  GrievanceInv'
  <2> DEFINE new == [call |-> asked, of |-> g, seen |-> grievance[g].status, over |-> FALSE]
  <2>1. grievance[g] # NotSubmitted /\ grievance[g].status \in GrievanceStatus
    BY <1>1, <1>9 DEF LoadGrievance
  <2>2. new \in ClerkCall /\ new.of = g /\ new.seen = grievance[g].status
    BY <2>1 DEF ClerkCall
  <2>3. clerk' = [clerk EXCEPT ![k] = new] /\ UNCHANGED <<grievance, day, escalated, reopened, crossed>>
    BY <1>9 DEF LoadGrievance
  <2> HIDE DEF new
  <2>4. /\ clerk' \in [Clerk -> ClerkCall \union {NoCall}]
        /\ \A j \in Clerk : clerk'[j] = IF j = k THEN new ELSE clerk[j]
    BY <1>1, <2>2, <2>3
  <2>5. ClerkSees' /\ \A h \in Case \ crossed' : StatusFollows(h)'
    BY <1>1, <2>1, <2>2, <2>3, <2>4 DEF ClerkSees, StatusFollows
  <2>6. GrievanceTypeOK'
    BY <1>1, <2>3, <2>4 DEF GrievanceTypeOK, GrievanceRow, ClerkCall
  <2>7. QED
    BY <2>5, <2>6 DEF GrievanceInv
<1>10. CASE UNCHANGED grievanceVars
  <2>1. ClerkSees' /\ \A g \in Case \ crossed' : StatusFollows(g)'
    BY <1>1, <1>10 DEF grievanceVars, ClerkSees, StatusFollows
  <2>2. GrievanceTypeOK'
    BY <1>1, <1>10 DEF grievanceVars, GrievanceTypeOK, GrievanceRow, ClerkCall
  <2>3. QED
    BY <2>1, <2>2 DEF GrievanceInv
<1>11. QED
  BY <1>3, <1>4, <1>5, <1>6, <1>7, <1>8, <1>9, <1>10 DEF GrievanceNext

LEMMA GrievanceImplies == GrievanceInv => GrievanceTypeOK /\ SlaReported
<1> SUFFICES ASSUME GrievanceInv, NEW g \in Case \ crossed
             PROVE  /\ Late(g) /\ ~grievance[g].resolved /\ g \notin escalated => g \in SlaBreaches
                    /\ g \in SlaBreaches /\ grievance[g].resolved => g \in reopened
  BY DEF GrievanceInv, SlaReported
<1>1. StatusFollows(g)
  BY DEF GrievanceInv
<1>2. Late(g) => grievance[g] # NotSubmitted
  BY DEF Late, NotSubmitted, NoDueDate
<1>3. QED
  BY <1>1, <1>2 DEF StatusFollows, SlaBreaches, Late

(***************************************************************************)
(* Guardians.  A session that nothing was committed over has seen the      *)
(* status the row has, and a verification that nothing was committed over  *)
(* was asked for after the last revocation.                                *)
(***************************************************************************)
SessionSees ==
    \A s \in Desk : session[s] # NoSession =>
        /\ guardian[session[s].of] # "NONE"
        /\ session[s].call \in GuardianCall /\ ~session[s].over
               => session[s].seen = guardian[session[s].of]
        /\ session[s].call = "verify" /\ ~session[s].over => session[s].of \notin revoked

RevokedInactive == \A g \in revoked \ mixed : guardian[g] # "ACTIVE"

(* The verification of g is in the main log, lost, or on its way there. *)
Audited(g) == g \in mainAudit \union lost \/ \E s \in Desk : In(s, "audit") /\ session[s].of = g

ActiveAudited == \A g \in Registration : guardian[g] = "ACTIVE" => Audited(g)

GuardianInv == GuardianTypeOK /\ SessionSees /\ TrailTells /\ RevokedInactive /\ ActiveAudited

GuardianSession == [call : GuardianCall \union {"audit"}, of : Registration,
                    seen : GuardianStatus, over : BOOLEAN]

LEMMA GuardianInitially == GuardianInit => GuardianInv
<1> SUFFICES ASSUME GuardianInit PROVE GuardianInv
  OBVIOUS
<1>1. GuardianTypeOK
  BY DEF GuardianInit, GuardianTypeOK
<1>2. SessionSees /\ TrailTells /\ RevokedInactive /\ ActiveAudited
  BY DEF GuardianInit, SessionSees, TrailTells, RevokedInactive, ActiveAudited
<1>3. QED
  BY <1>1, <1>2 DEF GuardianInv

(* A session is one of a asked, or none. *)
LEMMA GuardianShape ==
  ASSUME GuardianTypeOK
  PROVE  /\ session \in [Desk -> GuardianSession \union {NoSession}]
         /\ \A s \in Desk : session[s] # NoSession =>
               /\ session[s] \in GuardianSession /\ session[s].of \in Registration
               /\ session[s].seen \in GuardianStatus
         /\ NoSession \notin GuardianSession
         /\ "NONE" \notin GuardianStatus
<1>1. session \in [Desk -> GuardianSession \union {NoSession}]
  BY DEF GuardianTypeOK, GuardianSession
<1>2. NoSession \notin GuardianSession
  BY DEF NoSession, GuardianSession, GuardianCall
<1>3. \A s \in Desk : session[s] # NoSession =>
               /\ session[s] \in GuardianSession /\ session[s].of \in Registration
               /\ session[s].seen \in GuardianStatus
  BY <1>1 DEF GuardianSession
<1>4. QED
  BY <1>1, <1>2, <1>3 DEF GuardianStatus

(* A session commits the status x of its row g, which it leaves as it is   *)
(* only if it had seen x, and goes on as next.                             *)
LEMMA SessionCommits ==
  ASSUME GuardianInv, NEW s \in Desk, NEW g \in Registration, NEW x \in GuardianStatus,
         session[s] # NoSession, session[s].call \in GuardianCall, session[s].of = g,
         Writes(s, x),
         NEW next \in {NoSession} \union {[session[s] EXCEPT !.call = "audit"]},
         Committed(s, next),
         UNCHANGED <<lapsed, mainAudit, lost>>,
         trail' \in [Registration -> {"NONE", "ACTIVE", "REVOKED"}],
         \A h \in Registration \ {g} : trail'[h] = trail[h],
         x = "ACTIVE" => next # NoSession /\ session[s].call = "verify",
         x \in {"ACTIVE", "REVOKED"} => trail'[g] = x,
         revoked' = IF x = "REVOKED" THEN revoked \union {g} ELSE revoked
  PROVE  GuardianInv'
<1>1. /\ session \in [Desk -> GuardianSession \union {NoSession}]
      /\ \A r \in Desk : session[r] # NoSession =>
            /\ session[r] \in GuardianSession /\ session[r].of \in Registration
            /\ session[r].seen \in GuardianStatus
      /\ NoSession \notin GuardianSession /\ "NONE" \notin GuardianStatus
      /\ guardian \in [Registration -> GuardianStatus \union {"NONE"}]
      /\ SessionSees /\ TrailTells /\ RevokedInactive /\ ActiveAudited
      /\ revoked \subseteq Registration /\ mixed \subseteq Registration
      /\ lapsed \subseteq Registration /\ mainAudit \subseteq Registration /\ lost \subseteq Registration
  BY GuardianShape DEF GuardianInv, GuardianTypeOK
<1>2. /\ guardian[g] # "NONE"
      /\ ~session[s].over => session[s].seen = guardian[g]
      /\ ~session[s].over /\ x = "ACTIVE" => g \notin revoked
  BY <1>1 DEF SessionSees
<1>3. /\ guardian' \in [Registration -> GuardianStatus \union {"NONE"}]
      /\ \A h \in Registration \ {g} : guardian'[h] = guardian[h]
      /\ guardian'[g] \in {x, guardian[g]}
      /\ ~session[s].over => guardian'[g] = x
  BY <1>1, <1>2 DEF Writes
<1>4. next \in GuardianSession \union {NoSession}
      /\ (next # NoSession => next.of = g /\ next.call = "audit")
  BY <1>1 DEF GuardianSession
<1> DEFINE over(r) == [session[r] EXCEPT !.over = TRUE]
<1>5. ASSUME NEW r \in Desk, session[r] # NoSession
      PROVE  /\ over(r) \in GuardianSession
             /\ over(r).of = session[r].of /\ over(r).call = session[r].call /\ over(r).over
  <2>1. session[r] \in GuardianSession
    BY <1>1, <1>5
  <2>2. QED
    BY <2>1 DEF GuardianSession
<1>6. \A r \in Desk :
         session'[r] = IF r = s THEN next
                       ELSE IF session[r] # NoSession /\ session[r].of = g
                            THEN over(r) ELSE session[r]
  BY DEF Committed
<1> HIDE DEF over
<1>7. session' \in [Desk -> GuardianSession \union {NoSession}]
  <2>1. \A r \in Desk : session'[r] \in GuardianSession \union {NoSession}
    BY <1>1, <1>4, <1>5, <1>6
  <2>2. session' = [r \in Desk |-> session'[r]]
    BY DEF Committed
  <2>3. QED
    BY <2>1, <2>2
<1>8. mixed' \subseteq Registration /\ mixed \subseteq mixed' /\ (session[s].over => g \in mixed')
  BY <1>1 DEF Committed
<1>9. revoked' \subseteq Registration
  BY <1>1
<1> HIDE DEF Committed, Writes
<1>10. SessionSees'
  <2> SUFFICES ASSUME NEW r \in Desk, session'[r] # NoSession
               PROVE  /\ guardian'[session'[r].of] # "NONE"
                      /\ session'[r].call \in GuardianCall /\ ~session'[r].over
                             => session'[r].seen = guardian'[session'[r].of]
                      /\ session'[r].call = "verify" /\ ~session'[r].over
                             => session'[r].of \notin revoked'
    BY DEF SessionSees
  <2>0. guardian'[g] # "NONE" /\ "audit" \notin GuardianCall
    BY <1>1, <1>2, <1>3 DEF GuardianCall
  <2>1. CASE r = s
    BY <2>0, <2>1, <1>4, <1>6
  <2>2. CASE r # s /\ session[r].of = g
    BY <2>0, <2>2, <1>1, <1>5, <1>6
  <2>3. CASE r # s /\ session[r].of # g
    <3>1. session'[r] = session[r]
      BY <2>3, <1>6
    <3>2. session[r].of \in Registration \ {g} /\ (session[r].of \in revoked' <=> session[r].of \in revoked)
      BY <2>3, <3>1, <1>1
    <3>3. QED
      BY <3>1, <3>2, <1>1, <1>3 DEF SessionSees
  <2>4. QED
    BY <2>1, <2>2, <2>3
<1>11. TrailTells'
  BY <1>1, <1>3, <1>8 DEF TrailTells
<1>12. RevokedInactive'
  BY <1>1, <1>2, <1>3, <1>8 DEF RevokedInactive
<1>13. ActiveAudited'
  <2> SUFFICES ASSUME NEW h \in Registration, guardian'[h] = "ACTIVE" PROVE Audited(h)'
    BY DEF ActiveAudited
  <2>1. CASE h = g /\ x = "ACTIVE"
    <3>1. In(s, "audit")' /\ session'[s].of = h
      BY <2>1, <1>4, <1>6 DEF In
    <3>2. QED
      BY <3>1 DEF Audited
  <2>2. CASE guardian[h] = "ACTIVE"
    <3>1. Audited(h)
      BY <2>2, <1>1 DEF ActiveAudited
    <3>2. ASSUME NEW r \in Desk, In(r, "audit"), session[r].of = h
          PROVE  In(r, "audit")' /\ session'[r].of = h
      <4>1. r # s /\ session[r] # NoSession
        BY <3>2 DEF In, GuardianCall
      <4>2. session'[r].of = h /\ session'[r].call = "audit" /\ session'[r] # NoSession
        BY <3>2, <4>1, <1>1, <1>5, <1>6 DEF In
      <4>3. QED
        BY <4>2 DEF In
    <3>3. QED
      BY <3>1, <3>2 DEF Audited
  <2>3. QED
    BY <2>1, <2>2, <1>3
<1>14. GuardianTypeOK'
  BY <1>1, <1>3, <1>7, <1>8, <1>9 DEF GuardianTypeOK, GuardianSession
<1>15. QED
  BY <1>10, <1>11, <1>12, <1>13, <1>14 DEF GuardianInv

LEMMA GuardianStep == GuardianInv /\ [GuardianNext]_guardianVars => GuardianInv'
<1> SUFFICES ASSUME GuardianInv, [GuardianNext]_guardianVars PROVE GuardianInv'
  OBVIOUS
<1>1. /\ session \in [Desk -> GuardianSession \union {NoSession}]
      /\ \A r \in Desk : session[r] # NoSession =>
            /\ session[r] \in GuardianSession /\ session[r].of \in Registration
            /\ session[r].seen \in GuardianStatus
      /\ NoSession \notin GuardianSession /\ "NONE" \notin GuardianStatus
      /\ guardian \in [Registration -> GuardianStatus \union {"NONE"}]
      /\ trail \in [Registration -> {"NONE", "ACTIVE", "REVOKED"}]
      /\ SessionSees /\ TrailTells /\ RevokedInactive /\ ActiveAudited
      /\ revoked \subseteq Registration /\ mixed \subseteq Registration
      /\ lapsed \subseteq Registration /\ mainAudit \subseteq Registration /\ lost \subseteq Registration
  BY GuardianShape DEF GuardianInv, GuardianTypeOK
<1>2. ASSUME NEW g \in Registration, RegisterGuardian(g) PROVE GuardianInv'
  <2>1. /\ guardian' \in [Registration -> GuardianStatus \union {"NONE"}]
        /\ \A h \in Registration : guardian'[h] = IF h = g THEN "PENDING_VERIFICATION" ELSE guardian[h]
    BY <1>1, <1>2 DEF RegisterGuardian, GuardianStatus
  <2>2. guardian[g] = "NONE" /\ UNCHANGED <<lapsed, trail, mainAudit, session, revoked, lost, mixed>>
    BY <1>2 DEF RegisterGuardian
  <2>3. SessionSees'
    BY <1>1, <2>1, <2>2 DEF SessionSees
  <2>4. TrailTells' /\ RevokedInactive'
    BY <1>1, <2>1, <2>2 DEF TrailTells, RevokedInactive
  <2>5. ActiveAudited'
    BY <1>1, <2>1, <2>2 DEF ActiveAudited, Audited, In
  <2>6. GuardianTypeOK'
    BY <1>1, <2>1, <2>2 DEF GuardianTypeOK, GuardianSession
  <2>7. QED
    BY <2>3, <2>4, <2>5, <2>6 DEF GuardianInv
<1>3. ASSUME NEW g \in Registration, Lapse(g) PROVE GuardianInv'
  <2>1. lapsed' \subseteq Registration /\ UNCHANGED <<guardian, trail, mainAudit, session, revoked, lost, mixed>>
    BY <1>1, <1>3 DEF Lapse
  <2>2. SessionSees' /\ TrailTells' /\ RevokedInactive' /\ ActiveAudited'
    BY <1>1, <2>1 DEF SessionSees, TrailTells, RevokedInactive, ActiveAudited, Audited, In
  <2>3. GuardianTypeOK'
    BY <1>1, <2>1 DEF GuardianTypeOK, GuardianSession
  <2>4. QED
    BY <2>2, <2>3 DEF GuardianInv
<1>4. ASSUME NEW s \in Desk, NEW g \in Registration, NEW asked \in GuardianCall, guardian[g] # "NONE",
             Opens(s, asked, g), revoked' \in {revoked, revoked \ {g}},
             asked = "verify" => g \notin revoked',
             UNCHANGED <<guardian, lapsed, trail, mainAudit, lost, mixed>>
      PROVE  GuardianInv'
  <2> DEFINE new == [call |-> asked, of |-> g, seen |-> guardian[g], over |-> FALSE]
  <2>1. /\ new \in GuardianSession /\ new.of = g /\ new.seen = guardian[g]
        /\ new.call = asked /\ asked # "audit"
    BY <1>1, <1>4 DEF GuardianSession, GuardianCall
  <2>2. session[s] = NoSession /\ session' = [session EXCEPT ![s] = new]
    BY <1>4 DEF Opens
  <2> HIDE DEF new
  <2>3. /\ session' \in [Desk -> GuardianSession \union {NoSession}]
        /\ \A r \in Desk : session'[r] = IF r = s THEN new ELSE session[r]
    BY <1>1, <2>1, <2>2
  <2>4. SessionSees'
    BY <1>1, <1>4, <2>1, <2>3 DEF SessionSees
  <2>5. TrailTells' /\ RevokedInactive'
    BY <1>1, <1>4 DEF TrailTells, RevokedInactive
  <2>6. ActiveAudited'
    BY <1>1, <1>4, <2>2, <2>3 DEF ActiveAudited, Audited, In
  <2>7. GuardianTypeOK'
    BY <1>1, <1>4, <2>3 DEF GuardianTypeOK, GuardianSession
  <2>8. QED
    BY <2>4, <2>5, <2>6, <2>7 DEF GuardianInv
<1>5. ASSUME NEW s \in Desk, NEW g \in Registration, NEW asked \in {"verify", "revoke"},
             LoadGuardian(s, asked, g)
      PROVE  GuardianInv'
  BY <1>4, <1>5 DEF LoadGuardian, GuardianCall
<1>6. ASSUME NEW s \in Desk, VerifyGuardian(s) PROVE GuardianInv'
  <2>1. /\ session[s] # NoSession /\ session[s].call = "verify" /\ session[s].of \in Registration
        /\ Writes(s, "ACTIVE") /\ Committed(s, [session[s] EXCEPT !.call = "audit"])
        /\ trail' = [trail EXCEPT ![session[s].of] = "ACTIVE"]
        /\ UNCHANGED <<lapsed, mainAudit, revoked, lost>>
    BY <1>1, <1>6 DEF VerifyGuardian, In
  <2>2. [session[s] EXCEPT !.call = "audit"] \in GuardianSession
    BY <1>1, <2>1 DEF GuardianSession
  <2>3. PICK g \in Registration : g = session[s].of
    BY <2>1
  <2>4. /\ trail' \in [Registration -> {"NONE", "ACTIVE", "REVOKED"}]
        /\ trail'[g] = "ACTIVE" /\ \A h \in Registration \ {g} : trail'[h] = trail[h]
    BY <1>1, <2>1, <2>3
  <2>5. "verify" \in GuardianCall /\ "ACTIVE" \in GuardianStatus
    BY DEF GuardianCall, GuardianStatus
  <2>6. PICK next \in {NoSession} \union {[session[s] EXCEPT !.call = "audit"]} :
            next = [session[s] EXCEPT !.call = "audit"]
    OBVIOUS
  <2>7. next # NoSession
    BY <1>1, <2>2, <2>6
  <2>8. QED
    BY <2>1, <2>3, <2>4, <2>5, <2>6, <2>7, SessionCommits
<1>7. ASSUME NEW s \in Desk, RevokeGuardian(s) PROVE GuardianInv'
  <2>1. /\ session[s] # NoSession /\ session[s].call = "revoke" /\ session[s].of \in Registration
        /\ Writes(s, "REVOKED") /\ Committed(s, NoSession)
        /\ trail' = [trail EXCEPT ![session[s].of] = "REVOKED"]
        /\ revoked' = revoked \union {session[s].of}
        /\ UNCHANGED <<lapsed, mainAudit, lost>>
    BY <1>1, <1>7 DEF RevokeGuardian, In
  <2>3. PICK g \in Registration : g = session[s].of
    BY <2>1
  <2>4. /\ trail' \in [Registration -> {"NONE", "ACTIVE", "REVOKED"}]
        /\ trail'[g] = "REVOKED" /\ \A h \in Registration \ {g} : trail'[h] = trail[h]
    BY <1>1, <2>1, <2>3
  <2>5. "revoke" \in GuardianCall /\ "REVOKED" \in GuardianStatus
    BY DEF GuardianCall, GuardianStatus
  <2>6. QED
    BY <2>1, <2>3, <2>4, <2>5, SessionCommits
<1>8. ASSUME NEW s \in Desk, ExpireGuardian(s) PROVE GuardianInv'
  <2>1. /\ session[s] # NoSession /\ session[s].call = "expire" /\ session[s].of \in Registration
        /\ Writes(s, "EXPIRED") /\ Committed(s, NoSession)
        /\ UNCHANGED <<lapsed, mainAudit, lost, trail, revoked>>
    BY <1>1, <1>8 DEF ExpireGuardian, In
  <2>3. PICK g \in Registration : g = session[s].of
    BY <2>1
  <2>5. "expire" \in GuardianCall /\ "EXPIRED" \in GuardianStatus
    BY DEF GuardianCall, GuardianStatus
  <2>6. QED
    BY <1>1, <2>1, <2>3, <2>5, SessionCommits
<1>9. ASSUME NEW s \in Desk, session[s] # NoSession, session' = [session EXCEPT ![s] = NoSession],
             mainAudit \subseteq mainAudit', lost \subseteq lost',
             mainAudit' \subseteq Registration, lost' \subseteq Registration,
             In(s, "audit") => session[s].of \in mainAudit' \union lost',
             UNCHANGED <<guardian, lapsed, trail, revoked, mixed>>
      PROVE  GuardianInv'
  <2>1. /\ session' \in [Desk -> GuardianSession \union {NoSession}]
        /\ \A r \in Desk : session'[r] = IF r = s THEN NoSession ELSE session[r]
    BY <1>1, <1>9
  <2>2. SessionSees' /\ TrailTells' /\ RevokedInactive'
    BY <1>1, <1>9, <2>1 DEF SessionSees, TrailTells, RevokedInactive
  <2>3. ActiveAudited'
    BY <1>1, <1>9, <2>1 DEF ActiveAudited, Audited, In
  <2>4. GuardianTypeOK'
    BY <1>1, <1>9, <2>1 DEF GuardianTypeOK, GuardianSession
  <2>5. QED
    BY <2>2, <2>3, <2>4 DEF GuardianInv
<1>10. ASSUME NEW s \in Desk, LogMainAudit(s) PROVE GuardianInv'
  <2>1. session[s] # NoSession /\ session[s].of \in Registration
    BY <1>1, <1>10 DEF LogMainAudit, In
  <2>2. QED
    BY <1>1, <1>9, <1>10, <2>1 DEF LogMainAudit
<1>11. ASSUME NEW s \in Desk, SessionLost(s) PROVE GuardianInv'
  <2>1. session[s] # NoSession /\ session[s].of \in Registration
    BY <1>1, <1>11 DEF SessionLost
  <2>2. QED
    BY <1>1, <1>9, <1>11, <2>1 DEF SessionLost
<1>12. ASSUME NEW s \in Desk, CanActLapsed(s) PROVE GuardianInv'
  <2>1. PICK g \in lapsed : /\ ActiveRows = {g} /\ Opens(s, "expire", g)
                            /\ UNCHANGED <<guardian, lapsed, trail, mainAudit, revoked, lost, mixed>>
    BY <1>12 DEF CanActLapsed
  <2>2. g \in Registration /\ guardian[g] = "ACTIVE"
    BY <2>1 DEF ActiveRows
  <2>3. "expire" \in GuardianCall
    BY DEF GuardianCall
  <2>4. QED
    BY <1>4, <2>1, <2>2, <2>3
<1>13. CASE UNCHANGED guardianVars
  <2>1. SessionSees' /\ TrailTells' /\ RevokedInactive' /\ ActiveAudited'
    BY <1>1, <1>13 DEF guardianVars, SessionSees, TrailTells, RevokedInactive, ActiveAudited, Audited, In
  <2>2. GuardianTypeOK'
    BY <1>1, <1>13 DEF guardianVars, GuardianTypeOK, GuardianSession
  <2>3. QED
    BY <2>1, <2>2 DEF GuardianInv
<1>14. QED
  BY <1>2, <1>3, <1>5, <1>6, <1>7, <1>8, <1>10, <1>11, <1>12, <1>13 DEF GuardianNext

LEMMA GuardianImplies == GuardianInv => GuardianTypeOK /\ GuardianSafe
<1> SUFFICES ASSUME GuardianInv PROVE RevokedStays /\ VerifiedAudited
  BY DEF GuardianInv, GuardianSafe
<1>1. \A g : CanAct(g) => g \in Registration /\ guardian[g] = "ACTIVE"
  BY DEF CanAct, ActiveRows
<1>2. QED
  BY <1>1 DEF GuardianInv, RevokedStays, RevokedInactive, VerifiedAudited, ActiveAudited, Audited

(***************************************************************************)
(* Children.  A verified wallet stays registered, for no row that was      *)
(* committed is taken away.                                                *)
(***************************************************************************)
LEMMA ChildInitially == ChildInit => ChildTypeOK
  BY DEF ChildInit, ChildTypeOK

LEMMA ChildStep == ChildTypeOK /\ [ChildNext]_childVars => ChildTypeOK'
<1> SUFFICES ASSUME ChildTypeOK, [ChildNext]_childVars PROVE ChildTypeOK'
  OBVIOUS
<1> USE DEF ChildTypeOK
<1>1. ASSUME NEW p \in Family, VerifyAge(p) PROVE ChildTypeOK'
  BY <1>1 DEF VerifyAge
<1>2. ASSUME NEW p \in Family, NEW n \in Grant, FlushPrincipal(n, p) PROVE ChildTypeOK'
  BY <1>2 DEF FlushPrincipal
<1>3. ASSUME NEW n \in Grant, GrantAnswers(n) PROVE ChildTypeOK'
  BY <1>3 DEF GrantAnswers
<1>4. ASSUME NEW c \in ChildConsent, ChildGrants(c) PROVE ChildTypeOK'
  BY <1>4 DEF ChildGrants
<1>5. ASSUME NEW c \in ChildConsent, ChildRevokes(c) PROVE ChildTypeOK'
  BY <1>5 DEF ChildRevokes
<1>6. CASE UNCHANGED childVars
  BY <1>6 DEF childVars
<1>7. QED
  BY <1>1, <1>2, <1>3, <1>4, <1>5, <1>6 DEF ChildNext

(***************************************************************************)
(* Webhooks.  What a replay holds is a letter whose entry was added once,  *)
(* and what it is about to delete it, or another replay, has queued again. *)
(***************************************************************************)
Replaying ==
    \A p \in Replayer : \A l \in replay[p].letters :
        /\ l[1] \in queued
        /\ replay[p].pc = "added" => l \in requeued

WebhookInv ==
    /\ WebhookTypeOK
    /\ queueing \subseteq row /\ pending \union read \subseteq queued
    /\ Replaying
    /\ FailureKept
    /\ StreamHasRow

ReplayState == [pc : {"idle", "found", "added"}, letters : SUBSET Letter]

WebhookTypes ==
    /\ row \subseteq Delivery /\ rowless \subseteq Delivery /\ queueing \subseteq row
    /\ queued \subseteq Entry /\ pending \subseteq queued /\ read \subseteq queued
    /\ retry \subseteq Letter /\ dead \subseteq Letter
    /\ requeued \subseteq Letter /\ unrecorded \subseteq Letter
    /\ attempts \in [Entry -> 0..MaxAttempts]
    /\ replay \in [Replayer -> ReplayState]

LEMMA WebhookTypesFlat ==
  WebhookInv <=> WebhookTypes /\ Replaying /\ FailureKept /\ StreamHasRow
<1>1. WebhookTypes => WebhookTypeOK /\ queueing \subseteq row /\ pending \union read \subseteq queued
  BY DEF WebhookTypeOK, WebhookTypes, ReplayState
<1>2. WebhookTypeOK /\ queueing \subseteq row /\ pending \union read \subseteq queued => WebhookTypes
  BY DEF WebhookTypeOK, WebhookTypes, ReplayState
<1>3. QED
  BY <1>1, <1>2 DEF WebhookInv

(* The parts of an entry and of a letter. *)
LEMMA EntryParts ==
  /\ \A e \in Entry : e[1] \in Delivery
  /\ \A d \in Delivery, n \in 0..MaxReplay : <<d, n>> \in Entry /\ <<d, n>>[1] = d
  /\ \A l \in Letter : l[1] \in Entry /\ l[1][1] \in Delivery
  /\ \A e \in Entry, k \in 1..MaxAttempts : <<e, k>> \in Letter /\ <<e, k>>[1] = e
  BY DEF Entry, Letter

LEMMA WebhookInitially == WebhookInit => WebhookInv
<1> SUFFICES ASSUME WebhookInit PROVE WebhookInv
  OBVIOUS
<1>1. WebhookTypes
  BY WebhookAssumption DEF WebhookInit, WebhookTypes, ReplayState, NoReplay
<1>2. Replaying /\ StreamHasRow
  BY DEF WebhookInit, Replaying, StreamHasRow, NoReplay
<1>3. FailureKept
  BY DEF WebhookInit, FailureKept
<1>4. QED
  BY <1>1, <1>2, <1>3, WebhookTypesFlat

LEMMA WebhookStep == WebhookInv /\ [WebhookNext]_webhookVars => WebhookInv'
<1> SUFFICES ASSUME WebhookInv, [WebhookNext]_webhookVars PROVE WebhookInv'
  OBVIOUS
<1>1. WebhookTypes /\ Replaying /\ FailureKept /\ StreamHasRow
  BY WebhookTypesFlat
<1>2. ASSUME WebhookTypes', Replaying', FailureKept', StreamHasRow' PROVE WebhookInv'
  <2>1. WebhookTypeOK' /\ queueing' \subseteq row' /\ pending' \union read' \subseteq queued'
    BY <1>2 DEF WebhookTypeOK, WebhookTypes, ReplayState
  <2>2. QED
    BY <1>2, <2>1 DEF WebhookInv
<1>3. ASSUME row \subseteq row', rowless \subseteq rowless', row' \union rowless' \subseteq Delivery,
             queueing' \subseteq row', pending' \union read' \subseteq queued',
             queued \subseteq queued', queued' \subseteq Entry,
             \A e \in queued' : e[1] \in row' \union rowless',
             UNCHANGED <<attempts, retry, dead, replay, requeued, unrecorded>>
      PROVE  WebhookInv'
  <2>1. WebhookTypes'
    BY <1>1, <1>3 DEF WebhookTypes
  <2>2. Replaying' /\ StreamHasRow'
    BY <1>1, <1>3 DEF Replaying, StreamHasRow
  <2>3. FailureKept'
    BY <1>1, <1>3 DEF FailureKept
  <2>4. QED
    BY <1>2, <2>1, <2>2, <2>3
<1>4. ASSUME NEW d \in Delivery, CommitRow(d) \/ AddPendingFails(d) PROVE WebhookInv'
  BY <1>1, <1>3, <1>4 DEF CommitRow, AddPendingFails, WebhookTypes, StreamHasRow
<1>5. ASSUME NEW d \in Delivery, AddPending(d) \/ AddWithoutRow(d) PROVE WebhookInv'
  <2>1. <<d, 0>> \in Entry /\ <<d, 0>>[1] = d
    BY WebhookAssumption, EntryParts
  <2> DEFINE e == <<d, 0>>
  <2>2. /\ pending' = pending \union {e} /\ queued' = queued \union {e} /\ read' = read
        /\ queueing' \subseteq queueing
        /\ UNCHANGED <<attempts, retry, dead, replay, requeued, unrecorded>>
    BY <1>5 DEF AddPending, AddWithoutRow
  <2>3. /\ row' = row /\ rowless \subseteq rowless' /\ rowless' \subseteq rowless \union {d}
        /\ d \in row \union rowless'
    BY <1>1, <1>5 DEF AddPending, AddWithoutRow, WebhookTypes
  <2> HIDE DEF e
  <2>4. e \in Entry /\ e[1] = d
    BY <2>1 DEF e
  <2>5. QED
    BY <1>1, <1>3, <2>2, <2>3, <2>4 DEF WebhookTypes, StreamHasRow
<1>6. CASE ReadPending
  BY <1>1, <1>3, <1>6 DEF ReadPending, WebhookTypes, StreamHasRow
<1>7. ASSUME NEW e \in Entry, ProcessPending(e) PROVE WebhookInv'
  BY <1>1, <1>3, <1>7 DEF ProcessPending, WebhookTypes, StreamHasRow
<1>8. ASSUME NEW e \in Entry, DeliverFails(e) \/ DeliverUnrecorded(e) PROVE WebhookInv'
  <2> DEFINE n == attempts[e] + 1
             l == <<e, n>>
  <2>1. /\ e \in queued /\ attempts[e] \in Nat /\ n \in 1..MaxAttempts
        /\ attempts' = [attempts EXCEPT ![e] = n]
        /\ UNCHANGED <<row, rowless, queueing, pending, read, queued, replay, requeued>>
    BY <1>1, <1>8, WebhookAssumption DEF DeliverFails, DeliverUnrecorded, Deliverable, WebhookTypes
  <2>2. /\ attempts' \in [Entry -> 0..MaxAttempts] /\ attempts'[e] = n
        /\ \A f \in Entry : f # e => attempts'[f] = attempts[f]
    BY <1>1, <2>1, WebhookAssumption DEF WebhookTypes
  <2>3. l \in Letter /\ l[1] = e
    BY <2>1, EntryParts
  <2>4. \/ n >= MaxRetries /\ dead' = dead \union {l} /\ retry' = retry /\ unrecorded' = unrecorded
        \/ n < MaxRetries /\ dead' = dead /\ retry' = retry \union {l} /\ unrecorded' = unrecorded
        \/ dead' = dead /\ retry' = retry /\ unrecorded' = unrecorded \union {l}
    BY <1>8, <2>1, <2>2, WebhookAssumption DEF DeliverFails, DeliverUnrecorded, IsLast
  <2>5. ASSUME NEW f \in Entry, NEW k \in 1..attempts'[f]
        PROVE  \/ <<f, k>> \in unrecorded'
               \/ k < MaxRetries /\ <<f, k>> \in retry'
               \/ k >= MaxRetries /\ <<f, k>> \in dead' \union requeued
    <3>1. CASE f = e /\ k = n
      BY <3>1, <2>4
    <3>2. CASE ~(f = e /\ k = n)
      <4>1. k \in 1..attempts[f]
        BY <3>2, <2>1, <2>2, <2>5
      <4>2. \/ <<f, k>> \in unrecorded
            \/ k < MaxRetries /\ <<f, k>> \in retry
            \/ k >= MaxRetries /\ <<f, k>> \in dead \union requeued
        BY <1>1, <4>1 DEF FailureKept
      <4>3. unrecorded \subseteq unrecorded' /\ retry \subseteq retry' /\ dead \subseteq dead'
        BY <2>4
      <4>4. QED
        BY <4>2, <4>3
    <3>3. QED
      BY <3>1, <3>2
  <2>6. FailureKept'
    BY <2>1, <2>5 DEF FailureKept
  <2> HIDE DEF n, l
  <2>7. WebhookTypes'
    BY <1>1, <2>1, <2>2, <2>3, <2>4 DEF WebhookTypes
  <2>8. Replaying' /\ StreamHasRow'
    BY <1>1, <2>1, <2>3, <2>4 DEF Replaying, StreamHasRow
  <2>9. QED
    BY <1>2, <2>6, <2>7, <2>8
<1>9. ASSUME NEW p \in Replayer, NEW next \in ReplayState, replay' = [replay EXCEPT ![p] = next],
             \A l \in next.letters : l[1] \in queued /\ (next.pc = "added" => l \in requeued'),
             requeued \subseteq requeued', requeued' \subseteq Letter,
             dead' \subseteq dead, dead \ dead' \subseteq requeued',
             pending' \subseteq queued', queued \subseteq queued', queued' \subseteq Entry,
             \A e \in queued' : e[1] \in row \union rowless,
             UNCHANGED <<row, rowless, queueing, read, attempts, retry, unrecorded>>
      PROVE  WebhookInv'
  <2>1. /\ replay' \in [Replayer -> ReplayState]
        /\ \A q \in Replayer : replay'[q] = IF q = p THEN next ELSE replay[q]
    BY <1>1, <1>9 DEF WebhookTypes
  <2>2. WebhookTypes'
    BY <1>1, <1>9, <2>1 DEF WebhookTypes
  <2>3. Replaying'
    BY <1>1, <1>9, <2>1 DEF Replaying
  <2>4. StreamHasRow'
    BY <1>1, <1>9 DEF StreamHasRow
  <2>5. FailureKept'
    BY <1>1, <1>9 DEF FailureKept
  <2>6. QED
    BY <1>2, <2>2, <2>3, <2>4, <2>5
<1>10. /\ \A e \in queued : e[1] \in row \union rowless
       /\ pending \subseteq queued /\ queued \subseteq Entry /\ requeued \subseteq Letter
  BY <1>1 DEF StreamHasRow, WebhookTypes
<1>11. ASSUME NEW p \in Replayer, NEW l \in dead, FindDead(p, l) PROVE WebhookInv'
  <2> DEFINE next == [pc |-> "found", letters |-> {l}]
  <2>1. next \in ReplayState /\ next.letters = {l} /\ next.pc = "found"
    BY <1>1 DEF WebhookTypes, ReplayState
  <2>2. /\ replay' = [replay EXCEPT ![p] = next]
        /\ UNCHANGED <<row, rowless, queueing, pending, read, queued, attempts, retry, dead, requeued, unrecorded>>
    BY <1>11 DEF FindDead
  <2> HIDE DEF next
  <2>3. l[1] \in queued
    BY <1>1 DEF StreamHasRow
  <2>4. QED
    BY <1>9, <1>10, <2>1, <2>2, <2>3
<1>12. NoReplay \in ReplayState /\ NoReplay.letters = {}
  BY DEF NoReplay, ReplayState
<1>13. ASSUME NEW p \in Replayer, ReplayDeletes(p) PROVE WebhookInv'
  <2>1. replay[p].letters \subseteq requeued
    BY <1>1, <1>13 DEF ReplayDeletes, Replaying
  <2>2. QED
    BY <1>9, <1>10, <1>12, <1>13, <2>1 DEF ReplayDeletes
<1>14. ASSUME NEW p \in Replayer, ReplayLost(p) PROVE WebhookInv'
  BY <1>9, <1>10, <1>12, <1>14 DEF ReplayLost
<1>15. ASSUME NEW p \in Replayer, ReplayAdds(p) PROVE WebhookInv'
  <2> DEFINE next == [replay[p] EXCEPT !.pc = "added"]
  <2>1. next \in ReplayState /\ next.letters = replay[p].letters /\ next.pc = "added"
    BY <1>1 DEF WebhookTypes, ReplayState
  <2>2. replay[p].letters \subseteq Letter /\ \A l \in replay[p].letters : l[1] \in queued
    BY <1>1 DEF WebhookTypes, ReplayState, Replaying
  <2>3. PICK l \in replay[p].letters, n \in 1..MaxReplay :
              /\ pending' = pending \union {<<l[1][1], n>>}
              /\ queued' = queued \union {<<l[1][1], n>>}
    BY <1>15 DEF ReplayAdds, Delivered
  <2>4. /\ replay' = [replay EXCEPT ![p] = next]
        /\ requeued' = requeued \union replay[p].letters
        /\ UNCHANGED <<row, rowless, queueing, read, attempts, retry, dead, unrecorded>>
    BY <1>15 DEF ReplayAdds
  <2> HIDE DEF next
  <2>5. /\ l[1][1] \in Delivery /\ l[1][1] \in row \union rowless
        /\ <<l[1][1], n>> \in Entry /\ <<l[1][1], n>>[1] = l[1][1]
    BY <1>10, <2>2, WebhookAssumption, EntryParts
  <2>6. \A e \in queued' : e[1] \in row \union rowless
    BY <1>10, <2>3, <2>5
  <2>7. QED
    BY <1>9, <1>10, <2>1, <2>2, <2>3, <2>4, <2>5, <2>6
<1>16. CASE UNCHANGED webhookVars
  BY <1>1, <1>3, <1>16 DEF webhookVars, WebhookTypes, StreamHasRow
<1>17. QED
  BY <1>4, <1>5, <1>6, <1>7, <1>8, <1>11, <1>13, <1>14, <1>15, <1>16 DEF WebhookNext

LEMMA WebhookImplies == WebhookInv => WebhookTypeOK /\ WebhooksSafe
  BY DEF WebhookInv, WebhooksSafe

(***************************************************************************)
(* The cache.  What an entry of the consent or of its verification shows   *)
(* is the committed version, or the invalidation that runs has yet to      *)
(* delete it; a fill that no write overtook will store the committed one.  *)
(***************************************************************************)
Fresh(k) == k \in {"consent", "verification"} \ (late \union kept) /\ Stale(k)
                => k \in writer.left \union writer.listed

FillsFresh ==
    \A f \in Reader :
        /\ reader[f].pc # "idle" => reader[f].key \in Key
        /\ reader[f].pc = "computed" /\ ~reader[f].over => reader[f].value = version

CacheInv == CacheTypeOK /\ FillsFresh /\ \A k \in Key : Fresh(k)

Fill == [pc : {"idle", "missed", "computed"}, key : Key \union {"none"},
         value : Version \union {NoEntry}, over : BOOLEAN]

LEMMA CacheInitially == CacheInit => CacheInv
<1> SUFFICES ASSUME CacheInit PROVE CacheInv
  OBVIOUS
<1>1. redis \in BOOLEAN
  BY Zenon DEF CacheInit
<1>2. 1 \in Version
  BY CacheAssumption DEF Version
<1>3. CacheTypeOK
  BY <1>1, <1>2 DEF CacheInit, CacheTypeOK, NoEntry, NoFill, NoWriter
<1>4. FillsFresh
  BY DEF CacheInit, FillsFresh, NoFill
<1>5. \A k \in Key : Fresh(k)
  BY DEF CacheInit, Fresh, Stale
<1>6. QED
  BY <1>3, <1>4, <1>5 DEF CacheInv

(* A fill moves on, and what the cache shows stays. *)
LEMMA FillMoves ==
  ASSUME CacheInv, NEW f \in Reader, NEW next \in Fill,
         next.pc # "idle" => next.key \in Key,
         next.pc = "computed" /\ ~next.over => next.value = version,
         reader' = [reader EXCEPT ![f] = next],
         version' = version
  PROVE  reader' \in [Reader -> Fill] /\ FillsFresh'
<1>1. reader' \in [Reader -> Fill] /\ reader \in [Reader -> Fill]
  BY DEF CacheInv, CacheTypeOK, Fill
<1>2. \A g \in Reader : reader'[g] = IF g = f THEN next ELSE reader[g]
  BY <1>1
<1>3. QED
  BY <1>1, <1>2 DEF CacheInv, FillsFresh

LEMMA CacheStep == CacheInv /\ [CacheNext]_cacheVars => CacheInv'
<1> SUFFICES ASSUME CacheInv, [CacheNext]_cacheVars PROVE CacheInv'
  OBVIOUS
<1>t. /\ FillsFresh /\ \A k \in Key : Fresh(k)
      /\ version \in Version /\ cached \in [Key -> Version \union {NoEntry}]
      /\ reader \in [Reader -> Fill]
      /\ writer \in [pc : {"idle", "invalidating"}, left : SUBSET Key, listed : {{}}]
                       \union [pc : {"listed"}, left : SUBSET Key, listed : SUBSET Key]
      /\ late \subseteq Key /\ kept \subseteq Key
  BY DEF CacheInv, CacheTypeOK, Fill
<1>b. redis \in BOOLEAN
  BY Zenon DEF CacheInv, CacheTypeOK
<1>r. \A next : reader' = [reader EXCEPT ![next] = NoFill] =>
         reader' \in [Reader -> Fill] /\ (version' = version => FillsFresh')
  <2>1. NoFill \in Fill /\ NoFill.pc = "idle"
    BY DEF Fill, NoFill, NoEntry
  <2>2. ASSUME NEW g, g \notin Reader, reader' = [reader EXCEPT ![g] = NoFill]
        PROVE  reader' = reader
    BY <1>t, <2>2
  <2>3. QED
    BY <1>t, <2>1, <2>2, FillMoves DEF FillsFresh
<1>q. ASSUME redis' = redis, version' \in Version, cached' \in [Key -> Version \union {NoEntry}],
             reader' \in [Reader -> Fill],
             writer' \in [pc : {"idle", "invalidating"}, left : SUBSET Key, listed : {{}}]
                            \union [pc : {"listed"}, left : SUBSET Key, listed : SUBSET Key],
             late' \subseteq Key, kept' \subseteq Key,
             FillsFresh', \A k \in Key : Fresh(k)'
      PROVE  CacheInv'
  <2>1. redis' \in BOOLEAN
    BY Zenon, <1>q, <1>b
  <2>2. CacheTypeOK'
    BY <1>q, <2>1 DEF CacheTypeOK, Fill
  <2>3. QED
    BY <1>q, <2>2 DEF CacheInv
<1>1. ASSUME NEW f \in Reader, NEW k \in Key, Miss(f, k) PROVE CacheInv'
  <2> DEFINE next == [NoFill EXCEPT !.pc = "missed", !.key = k]
  <2>1. next \in Fill /\ next.key = k /\ next.pc = "missed"
    BY DEF Fill, NoFill, NoEntry
  <2>2. reader' = [reader EXCEPT ![f] = next]
    BY <1>1 DEF Miss
  <2> HIDE DEF next
  <2>3. reader' \in [Reader -> Fill] /\ FillsFresh'
    BY <1>1, <2>1, <2>2, FillMoves DEF Miss
  <2>4. \A j \in Key : Fresh(j)'
    BY <1>1, <1>t DEF Miss, Fresh, Stale
  <2>5. QED
    BY <1>1, <1>q, <1>t, <2>3, <2>4 DEF Miss
<1>2. ASSUME NEW f \in Reader, Compute(f) PROVE CacheInv'
  <2> DEFINE next == [reader[f] EXCEPT !.pc = "computed", !.value = version]
  <2>1. next \in Fill /\ next.key = reader[f].key /\ next.value = version
    BY <1>t DEF Fill
  <2>2. reader' = [reader EXCEPT ![f] = next] /\ reader[f].pc = "missed"
    BY <1>2 DEF Compute
  <2> HIDE DEF next
  <2>3. reader[f].key \in Key
    BY <1>t, <2>2 DEF FillsFresh
  <2>4. reader' \in [Reader -> Fill] /\ FillsFresh'
    BY <1>2, <2>1, <2>2, <2>3, FillMoves DEF Compute
  <2>5. \A j \in Key : Fresh(j)'
    BY <1>2, <1>t DEF Compute, Fresh, Stale
  <2>6. QED
    BY <1>2, <1>q, <1>t, <2>4, <2>5 DEF Compute
<1>3. ASSUME NEW f \in Reader, Store(f) PROVE CacheInv'
  <2> DEFINE key == reader[f].key
             value == reader[f].value
  <2>1. key \in Key /\ value \in Version \union {NoEntry} /\ (~reader[f].over => value = version)
    BY <1>3, <1>t DEF Store, FillsFresh, Fill
  <2>2. /\ cached' = [cached EXCEPT ![key] = value]
        /\ late' = IF reader[f].over THEN late \union {key} ELSE late \ {key}
        /\ kept' = kept \ {key} /\ reader' = [reader EXCEPT ![f] = NoFill]
        /\ UNCHANGED <<redis, version, writer>>
    BY <1>3 DEF Store
  <2>3. reader' \in [Reader -> Fill] /\ FillsFresh'
    BY <1>r, <2>2
  <2>4. \A j \in Key : Fresh(j)'
    <3> SUFFICES ASSUME NEW j \in Key PROVE Fresh(j)'
      OBVIOUS
    <3> HIDE DEF key, value
    <3>1. CASE j = key
      BY <3>1, <1>t, <2>1, <2>2 DEF Fresh, Stale
    <3>2. CASE j # key
      <4>1. cached'[j] = cached[j]
        BY <3>2, <1>t, <2>2
      <4>2. j \in late' \union kept' <=> j \in late \union kept
        BY <3>2, <2>2
      <4>3. QED
        BY <4>1, <4>2, <1>t, <2>2 DEF Fresh, Stale
    <3>3. QED
      BY <3>1, <3>2
  <2>5. cached' \in [Key -> Version \union {NoEntry}] /\ late' \subseteq Key /\ kept' \subseteq Key
    BY <1>t, <2>1, <2>2
  <2>6. QED
    BY <1>q, <1>t, <2>2, <2>3, <2>4, <2>5
<1>4. ASSUME NEW f \in Reader, NotStored(f) PROVE CacheInv'
  <2>1. reader' \in [Reader -> Fill] /\ FillsFresh'
    BY <1>4, <1>r DEF NotStored
  <2>2. \A j \in Key : Fresh(j)'
    BY <1>4, <1>t DEF NotStored, Fresh, Stale
  <2>3. QED
    BY <1>4, <1>q, <1>t, <2>1, <2>2 DEF NotStored
<1>5. ASSUME NEW k \in Key, Expires(k) PROVE CacheInv'
  <2>1. cached' \in [Key -> Version \union {NoEntry}] /\ late' \subseteq Key /\ kept' \subseteq Key
    BY <1>5, <1>t DEF Expires
  <2>2. \A j \in Key : Fresh(j)'
    BY <1>5, <1>t DEF Expires, Fresh, Stale
  <2>3. FillsFresh'
    BY <1>5, <1>t DEF Expires, FillsFresh
  <2>4. QED
    BY <1>5, <1>q, <1>t, <2>1, <2>2, <2>3 DEF Expires
<1>6. CASE Write
  <2> DEFINE over(f) == [reader[f] EXCEPT !.over = @ \/ reader[f].pc = "computed"]
  <2>1. \A f \in Reader : over(f) \in Fill
    <3> SUFFICES ASSUME NEW f \in Reader PROVE over(f) \in Fill
      OBVIOUS
    <3>1. reader[f] \in Fill
      BY <1>t
    <3>2. QED
      BY <3>1 DEF Fill
  <2>2. \A f \in Reader : /\ over(f).pc = reader[f].pc /\ over(f).key = reader[f].key
                          /\ reader[f].pc = "computed" => over(f).over
    BY <1>t DEF Fill
  <2>3. reader' = [f \in Reader |-> over(f)]
    BY <1>6 DEF Write
  <2> HIDE DEF over
  <2>4. reader' \in [Reader -> Fill] /\ FillsFresh'
    BY <1>t, <2>1, <2>2, <2>3 DEF FillsFresh
  <2>5. version' \in Version
    BY <1>6, <1>t, CacheAssumption DEF Write, Version
  <2>6. /\ writer' \in [pc : {"idle", "invalidating"}, left : SUBSET Key, listed : {{}}]
        /\ writer'.left = Key
    BY <1>6 DEF Write, NoWriter
  <2>7. \A j \in Key : Fresh(j)'
    BY <2>6 DEF Fresh
  <2>8. QED
    BY <1>6, <1>q, <1>t, <2>4, <2>5, <2>6, <2>7 DEF Write
<1>7. ASSUME NEW k \in Key, DeletePatternLocal(k) PROVE CacheInv'
  <2>1. /\ writer.pc = "invalidating" /\ writer.listed = {} /\ writer.left \subseteq Key
        /\ writer' = [writer EXCEPT !.left = @ \ {k}]
    BY <1>7, <1>t DEF DeletePatternLocal
  <2>2. /\ writer'.left = writer.left \ {k} /\ writer'.listed = {}
        /\ writer' \in [pc : {"idle", "invalidating"}, left : SUBSET Key, listed : {{}}]
    BY <2>1, <1>t
  <2>3. cached' \in [Key -> Version \union {NoEntry}] /\ late' \subseteq Key
    BY <1>7, <1>t DEF DeletePatternLocal, Emptied
  <2>4. \A j \in Key : Fresh(j)'
    BY <1>7, <1>t, <2>1, <2>2 DEF DeletePatternLocal, Fresh, Stale, Emptied, Matches
  <2>5. FillsFresh'
    BY <1>7, <1>t DEF DeletePatternLocal, FillsFresh
  <2>6. QED
    BY <1>7, <1>q, <1>t, <2>2, <2>3, <2>4, <2>5 DEF DeletePatternLocal
<1>8. ASSUME NEW k \in Key, ListKeys(k) PROVE CacheInv'
  <2>1. writer.pc = "invalidating" /\ writer.listed = {} /\ writer.left \subseteq Key
    BY <1>8, <1>t DEF ListKeys
  <2>2. Present(Matches(k)) \subseteq Key
    BY DEF Present, Matches, Key
  <2>3. /\ writer'.left = writer.left \ {k} /\ writer'.listed = Present(Matches(k))
        /\ writer' \in [pc : {"listed"}, left : SUBSET Key, listed : SUBSET Key]
    BY <1>8, <2>1, <2>2 DEF ListKeys
  <2>4. \A j \in Key : Fresh(j)'
    BY <1>8, <1>t, <2>1, <2>3 DEF ListKeys, Fresh, Stale, Present, Matches
  <2>5. FillsFresh'
    BY <1>8, <1>t DEF ListKeys, FillsFresh
  <2>6. QED
    BY <1>8, <1>q, <1>t, <2>3, <2>4, <2>5 DEF ListKeys
<1>9. CASE DeleteListed
  <2>1. writer.listed \subseteq Key /\ writer.left \subseteq Key /\ writer.pc = "listed"
    BY <1>9, <1>t DEF DeleteListed
  <2>2. /\ writer'.left = writer.left /\ writer'.listed = {}
        /\ writer' \in [pc : {"idle", "invalidating"}, left : SUBSET Key, listed : {{}}]
    BY <1>9, <1>t, <2>1 DEF DeleteListed
  <2>3. cached' \in [Key -> Version \union {NoEntry}] /\ late' \subseteq Key /\ kept' \subseteq Key
    BY <1>9, <1>t DEF DeleteListed, Emptied
  <2>4. \A j \in Key : Fresh(j)'
    BY <1>9, <1>t, <2>1, <2>2 DEF DeleteListed, Fresh, Stale, Emptied
  <2>5. FillsFresh'
    BY <1>9, <1>t DEF DeleteListed, FillsFresh
  <2>6. QED
    BY <1>9, <1>q, <1>t, <2>2, <2>3, <2>4, <2>5 DEF DeleteListed
<1>10. CASE DeletePatternFails
  <2>1. writer.listed \subseteq Key /\ writer.left \subseteq Key /\ writer.pc = "listed"
    BY <1>10, <1>t DEF DeletePatternFails
  <2>2. /\ writer'.left = writer.left /\ writer'.listed = {}
        /\ writer' \in [pc : {"idle", "invalidating"}, left : SUBSET Key, listed : {{}}]
    BY <1>10, <1>t, <2>1 DEF DeletePatternFails
  <2>3. kept' \subseteq Key
    BY <1>10, <1>t, <2>1 DEF DeletePatternFails
  <2>4. \A j \in Key : Fresh(j)'
    BY <1>10, <1>t, <2>1, <2>2 DEF DeletePatternFails, Fresh, Stale
  <2>5. FillsFresh'
    BY <1>10, <1>t DEF DeletePatternFails, FillsFresh
  <2>6. QED
    BY <1>10, <1>q, <1>t, <2>2, <2>3, <2>4, <2>5 DEF DeletePatternFails
<1>11. CASE Invalidated
  <2>1. writer.listed = {}
    BY <1>11, <1>t DEF Invalidated
  <2>2. /\ writer' \in [pc : {"idle", "invalidating"}, left : SUBSET Key, listed : {{}}]
        /\ writer'.left = {} /\ writer.left = {}
    BY <1>11 DEF Invalidated, NoWriter
  <2>4. \A j \in Key : Fresh(j)'
    BY <1>11, <1>t, <2>1, <2>2 DEF Invalidated, Fresh, Stale
  <2>5. FillsFresh'
    BY <1>11, <1>t DEF Invalidated, FillsFresh
  <2>6. QED
    BY <1>11, <1>q, <1>t, <2>2, <2>4, <2>5 DEF Invalidated
<1>12. CASE UNCHANGED cacheVars
  <2>1. FillsFresh' /\ \A j \in Key : Fresh(j)'
    BY <1>12, <1>t DEF cacheVars, FillsFresh, Fresh, Stale
  <2>2. QED
    BY <1>12, <1>q, <1>t, <2>1 DEF cacheVars
<1>13. QED
  BY <1>1, <1>2, <1>3, <1>4, <1>5, <1>6, <1>7, <1>8, <1>9, <1>10, <1>11, <1>12 DEF CacheNext

LEMMA CacheImplies == CacheInv => CacheTypeOK /\ FreshAfterInvalidate
  BY DEF CacheInv, FreshAfterInvalidate, Fresh, Key, NoWriter

(***************************************************************************)
(* Web sockets.  A socket is entered only under parties that it was opened *)
(* for, while its listening goes on, and the copies that broadcasts go     *)
(* through were taken of such entries.                                     *)
(***************************************************************************)
Entered ==
    \A p \in Party : \A s \in connections[p] :
        p \in claims[s] /\ listener[s] \notin {"new", "accepted", "ended"}

CopiesOwn ==
    \A b \in Broadcast : \A s \in broadcast[b].left :
        broadcast[b].to \subseteq claims[s] /\ listener[s] # "new"

UnclaimedBefore == \A s \in Socket : listener[s] = "new" => received[s] = {}

ChannelInv == ChannelTypeOK /\ Entered /\ CopiesOwn /\ UnclaimedBefore /\ OwnMessages

LEMMA ChannelInitially == ChannelInit => ChannelInv
  BY DEF ChannelInit, ChannelInv, ChannelTypeOK, Entered, CopiesOwn, UnclaimedBefore, OwnMessages,
         NoBroadcast

LEMMA ChannelStep == ChannelInv /\ [ChannelNext]_channelVars => ChannelInv'
<1> SUFFICES ASSUME ChannelInv, [ChannelNext]_channelVars PROVE ChannelInv'
  OBVIOUS
<1> USE DEF ChannelInv, ChannelTypeOK
<1>1. ASSUME NEW s \in Socket, Connect(s) PROVE ChannelInv'
  <2>1. /\ listener' \in [Socket -> {"new", "accepted", "open", "closing", "ended", "cancelled"}]
        /\ listener[s] = "accepted"
        /\ \A r \in Socket : listener'[r] = IF r = s THEN "open" ELSE listener[r]
    BY <1>1 DEF Connect, Moves
  <2>2. /\ connections' \in [Party -> SUBSET Socket]
        /\ \A p \in Party : connections'[p] = connections[p] \union {x \in {s} : p \in claims[s]}
        /\ UNCHANGED <<claims, broadcast, received>>
    BY <1>1 DEF Connect
  <2>3. Entered'
    BY <2>1, <2>2 DEF Entered
  <2>4. CopiesOwn' /\ UnclaimedBefore' /\ OwnMessages'
    BY <2>1, <2>2 DEF CopiesOwn, UnclaimedBefore, OwnMessages
  <2>5. QED
    BY <2>1, <2>2, <2>3, <2>4
<1>2. ASSUME NEW s \in Socket,
             \/ Moves(s, "open", "closing")
             \/ /\ listener[s] \in {"accepted", "open", "closing"}
                /\ listener' = [listener EXCEPT ![s] = "cancelled"],
             UNCHANGED <<claims, connections, broadcast, received>>
      PROVE  ChannelInv'
  <2>1. /\ listener' \in [Socket -> {"new", "accepted", "open", "closing", "ended", "cancelled"}]
        /\ \A r \in Socket : /\ listener'[r] = "new" => listener[r] = "new"
                             /\ listener[r] # "new" => listener'[r] # "new"
                             /\ listener[r] \notin {"new", "accepted", "ended"}
                                    => listener'[r] \notin {"new", "accepted", "ended"}
    BY <1>2 DEF Moves
  <2>2. Entered' /\ CopiesOwn' /\ UnclaimedBefore' /\ OwnMessages'
    BY <1>2, <2>1 DEF Entered, CopiesOwn, UnclaimedBefore, OwnMessages
  <2>3. QED
    BY <1>2, <2>1, <2>2
<1>3. ASSUME NEW s \in Socket, Disconnect(s) PROVE ChannelInv'
  <2>1. /\ listener' \in [Socket -> {"new", "accepted", "open", "closing", "ended", "cancelled"}]
        /\ listener[s] = "closing"
        /\ \A r \in Socket : listener'[r] = IF r = s THEN "ended" ELSE listener[r]
    BY <1>3 DEF Disconnect, Moves
  <2>2. /\ connections' \in [Party -> SUBSET Socket]
        /\ \A p \in Party : connections'[p] = IF p \in claims[s] THEN connections[p] \ {s} ELSE connections[p]
        /\ UNCHANGED <<claims, broadcast, received>>
    BY <1>3 DEF Disconnect
  <2>3. Entered'
    BY <2>1, <2>2 DEF Entered
  <2>4. CopiesOwn' /\ UnclaimedBefore' /\ OwnMessages'
    BY <2>1, <2>2 DEF CopiesOwn, UnclaimedBefore, OwnMessages
  <2>5. QED
    BY <2>1, <2>2, <2>3, <2>4
<1>4. ASSUME NEW s \in Socket, NEW parties \in SUBSET Party, Accept(s, parties) PROVE ChannelInv'
  <2>1. /\ listener' \in [Socket -> {"new", "accepted", "open", "closing", "ended", "cancelled"}]
        /\ listener[s] = "new"
        /\ \A r \in Socket : listener'[r] = IF r = s THEN "accepted" ELSE listener[r]
    BY <1>4 DEF Accept, Moves
  <2>2. /\ claims' \in [Socket -> SUBSET Party]
        /\ \A r \in Socket : claims'[r] = IF r = s THEN parties ELSE claims[r]
        /\ UNCHANGED <<connections, broadcast, received>>
    BY <1>4 DEF Accept
  <2>3. Entered' /\ CopiesOwn'
    BY <2>1, <2>2 DEF Entered, CopiesOwn
  <2>4. UnclaimedBefore' /\ OwnMessages'
    BY <2>1, <2>2 DEF UnclaimedBefore, OwnMessages
  <2>5. QED
    BY <2>1, <2>2, <2>3, <2>4
<1>5. ASSUME NEW b \in Broadcast, NEW p \in Party, BroadcastTo(b, p) PROVE ChannelInv'
  <2> DEFINE new == [to |-> {p}, left |-> Recipients(p)]
  <2>1. /\ new \in [to : SUBSET Party, left : SUBSET Socket]
        /\ new.to = {p} /\ new.left = connections[p]
    BY DEF Recipients
  <2>2. broadcast' = [broadcast EXCEPT ![b] = new] /\ UNCHANGED <<listener, claims, connections, received>>
    BY <1>5 DEF BroadcastTo
  <2> HIDE DEF new
  <2>3. /\ broadcast' \in [Broadcast -> [to : SUBSET Party, left : SUBSET Socket]]
        /\ \A c \in Broadcast : broadcast'[c] = IF c = b THEN new ELSE broadcast[c]
    BY <2>1, <2>2
  <2>4. CopiesOwn'
    BY <2>1, <2>2, <2>3 DEF CopiesOwn, Entered
  <2>5. Entered' /\ UnclaimedBefore' /\ OwnMessages'
    BY <2>2 DEF Entered, UnclaimedBefore, OwnMessages
  <2>6. QED
    BY <2>2, <2>3, <2>4, <2>5
<1>6. ASSUME NEW b \in Broadcast, NEW s \in Socket, SendText(b, s) PROVE ChannelInv'
  <2> DEFINE next == IF broadcast[b].left = {s} THEN NoBroadcast
                     ELSE [broadcast[b] EXCEPT !.left = @ \ {s}]
  <2>1. /\ next \in [to : SUBSET Party, left : SUBSET Socket]
        /\ next.left \subseteq broadcast[b].left /\ next.to \subseteq broadcast[b].to
    BY DEF NoBroadcast
  <2>2. broadcast' = [broadcast EXCEPT ![b] = next] /\ UNCHANGED <<listener, claims, connections>>
    BY <1>6 DEF SendText
  <2> HIDE DEF next
  <2>3. /\ broadcast' \in [Broadcast -> [to : SUBSET Party, left : SUBSET Socket]]
        /\ \A c \in Broadcast : broadcast'[c] = IF c = b THEN next ELSE broadcast[c]
    BY <2>1, <2>2
  <2>4. broadcast[b].to \subseteq claims[s] /\ broadcast[b].to \subseteq Party /\ listener[s] # "new"
    BY <1>6 DEF SendText, CopiesOwn
  <2>5. /\ received' \in [Socket -> SUBSET Party]
        /\ \A r \in Socket : received'[r] \in {received[r], IF r = s THEN received[r] \union broadcast[b].to
                                                            ELSE received[r]}
    BY <1>6, <2>4 DEF SendText
  <2>6. CopiesOwn'
    BY <2>1, <2>2, <2>3 DEF CopiesOwn
  <2>7. Entered' /\ UnclaimedBefore' /\ OwnMessages'
    BY <2>2, <2>4, <2>5 DEF Entered, UnclaimedBefore, OwnMessages
  <2>8. QED
    BY <2>2, <2>3, <2>5, <2>6, <2>7
<1>7. CASE UNCHANGED channelVars
  BY <1>7 DEF channelVars, Entered, CopiesOwn, UnclaimedBefore, OwnMessages
<1>8. ASSUME NEW s \in Socket, Leave(s) \/ Cancel(s) PROVE ChannelInv'
  BY <1>2, <1>8 DEF Leave, Cancel
<1>9. QED
  BY <1>1, <1>3, <1>4, <1>5, <1>6, <1>7, <1>8 DEF ChannelNext

LEMMA ChannelImplies == ChannelInv => ChannelTypeOK /\ ChannelsSafe
  BY DEF ChannelInv, ChannelTypeOK, ChannelsSafe, NoLeak, Entered

(***************************************************************************)
(* Devices.  What the two properties say is inductive with the types.      *)
(***************************************************************************)
PushInv == PushTypeOK /\ PushSafe

DeviceRow == [token : Token \union {NoToken}, enabled : BOOLEAN, supported : BOOLEAN, known : BOOLEAN]

LEMMA PushInitially == PushInit => PushInv
  BY DEF PushInit, PushInv, PushTypeOK, PushSafe, ListedRegistered, PushedToListed, NoDevice

LEMMA PushStep == PushInv /\ [PushNext]_pushVars => PushInv'
<1> SUFFICES ASSUME PushInv, [PushNext]_pushVars PROVE PushInv'
  OBVIOUS
<1>1. /\ devices \in [Device -> DeviceRow] /\ userDevices \in [Owner -> SUBSET Device]
      /\ pushed \in [Device -> SUBSET Owner] /\ named \in [Device -> SUBSET Owner]
      /\ ListedRegistered /\ PushedToListed
  BY DEF PushInv, PushTypeOK, DeviceRow, PushSafe
<1>2. ASSUME devices' \in [Device -> DeviceRow], userDevices' \in [Owner -> SUBSET Device],
             pushed' \in [Device -> SUBSET Owner], named' \in [Device -> SUBSET Owner],
             ListedRegistered', PushedToListed'
      PROVE  PushInv'
  BY <1>2 DEF PushInv, PushTypeOK, DeviceRow, PushSafe
<1>3. ASSUME NEW u \in Owner, NEW d \in Device, NEW t \in Token \union {NoToken},
             NEW e \in BOOLEAN, NEW p \in BOOLEAN, RegisterDevice(u, d, t, e, p)
      PROVE  PushInv'
  <2> DEFINE new == [token |-> t, enabled |-> e, supported |-> p, known |-> TRUE]
  <2>1. new \in DeviceRow /\ new.known
    BY DEF DeviceRow
  <2>2. devices' = [devices EXCEPT ![d] = new]
    BY <1>3 DEF RegisterDevice
  <2> HIDE DEF new
  <2>3. /\ devices' \in [Device -> DeviceRow]
        /\ \A c \in Device : devices'[c] = IF c = d THEN new ELSE devices[c]
    BY <1>1, <2>1, <2>2
  <2>4. /\ userDevices' \in [Owner -> SUBSET Device] /\ pushed' = pushed /\ named' = named
        /\ \A v \in Owner : userDevices'[v] = IF v = u THEN userDevices[v] \union {d} ELSE userDevices[v]
    BY <1>1, <1>3 DEF RegisterDevice
  <2>5. ListedRegistered'
    <3> SUFFICES ASSUME NEW c \in Device
                 PROVE  devices'[c].known <=> \E v \in Owner : c \in userDevices'[v]
      BY DEF ListedRegistered
    <3>1. CASE c = d
      BY <3>1, <2>1, <2>3, <2>4
    <3>2. CASE c # d
      BY <3>2, <1>1, <2>3, <2>4 DEF ListedRegistered
    <3>3. QED
      BY <3>1, <3>2
  <2>6. PushedToListed'
    BY <1>1, <2>4 DEF PushedToListed
  <2>7. QED
    BY <1>1, <1>2, <2>3, <2>4, <2>5, <2>6
<1>4. ASSUME NEW d \in Device, UnregisterDevice(d) PROVE PushInv'
  <2>1. NoDevice \in DeviceRow /\ ~NoDevice.known
    BY DEF NoDevice, DeviceRow
  <2>2. /\ devices' \in [Device -> DeviceRow]
        /\ \A c \in Device : devices'[c] = IF c = d THEN NoDevice ELSE devices[c]
    BY <1>1, <1>4, <2>1 DEF UnregisterDevice
  <2>3. /\ userDevices' \in [Owner -> SUBSET Device]
        /\ \A v \in Owner : userDevices'[v] = userDevices[v] \ {d}
        /\ pushed' \in [Device -> SUBSET Owner]
        /\ \A c \in Device : pushed'[c] = IF c = d THEN {} ELSE pushed[c]
        /\ named' \in [Device -> SUBSET Owner]
        /\ \A c \in Device : named'[c] = IF c = d THEN {} ELSE named[c]
    BY <1>1, <1>4 DEF UnregisterDevice
  <2>4. ListedRegistered'
    <3> SUFFICES ASSUME NEW c \in Device
                 PROVE  devices'[c].known <=> \E v \in Owner : c \in userDevices'[v]
      BY DEF ListedRegistered
    <3>1. CASE c = d
      BY <3>1, <2>1, <2>2, <2>3
    <3>2. CASE c # d
      BY <3>2, <1>1, <2>2, <2>3 DEF ListedRegistered
    <3>3. QED
      BY <3>1, <3>2
  <2>5. PushedToListed'
    BY <1>1, <2>3 DEF PushedToListed
  <2>6. QED
    BY <1>2, <2>2, <2>3, <2>4, <2>5
<1>5. ASSUME NEW d \in Device, NEW t \in Token, UpdatePushToken(d, t) PROVE PushInv'
  <2> DEFINE new == [devices[d] EXCEPT !.token = t]
  <2>1. new \in DeviceRow /\ new.known = devices[d].known
    BY <1>1 DEF DeviceRow
  <2>2. devices' = [devices EXCEPT ![d] = new] /\ UNCHANGED <<userDevices, pushed, named>>
    BY <1>5 DEF UpdatePushToken
  <2> HIDE DEF new
  <2>3. /\ devices' \in [Device -> DeviceRow]
        /\ \A c \in Device : devices'[c].known = devices[c].known
    BY <1>1, <2>1, <2>2
  <2>4. ListedRegistered' /\ PushedToListed'
    BY <1>1, <2>2, <2>3 DEF ListedRegistered, PushedToListed
  <2>5. QED
    BY <1>1, <1>2, <2>2, <2>3, <2>4
<1>6. ASSUME NEW u \in Owner, NEW ids \in SUBSET Device, SendPush(u, ids) PROVE PushInv'
  <2> DEFINE sent == (IF ids # {} THEN ids ELSE userDevices[u]) \intersect Reachable
  <2>1. /\ pushed' = [d \in Device |-> IF d \in sent THEN pushed[d] \union {u} ELSE pushed[d]]
        /\ named' = [d \in Device |-> IF d \in ids THEN named[d] \union {u} ELSE named[d]]
        /\ UNCHANGED <<devices, userDevices>>
    BY <1>6 DEF SendPush
  <2>2. sent \subseteq ids \union userDevices[u] /\ (sent \subseteq ids \/ ids = {})
    OBVIOUS
  <2> HIDE DEF sent
  <2>3. /\ pushed' \in [Device -> SUBSET Owner] /\ named' \in [Device -> SUBSET Owner]
        /\ \A d \in Device :
              /\ pushed'[d] = IF d \in sent THEN pushed[d] \union {u} ELSE pushed[d]
              /\ named'[d] = IF d \in ids THEN named[d] \union {u} ELSE named[d]
    BY <1>1, <2>1
  <2>4. ListedRegistered'
    BY <1>1, <2>1 DEF ListedRegistered
  <2>5. PushedToListed'
    <3> SUFFICES ASSUME NEW d \in Device, NEW v \in Owner, v \in pushed'[d] \ named'[d]
                 PROVE  d \in userDevices'[v]
      BY DEF PushedToListed
    <3>1. v \notin named[d]
      BY <2>3
    <3>2. CASE v \in pushed[d]
      BY <3>1, <3>2, <1>1, <2>1 DEF PushedToListed
    <3>3. CASE v \notin pushed[d]
      <4>1. v = u /\ d \in sent /\ d \notin ids
        BY <3>3, <2>3
      <4>2. QED
        BY <4>1, <2>1, <2>2
    <3>4. QED
      BY <3>2, <3>3
  <2>6. QED
    BY <1>1, <1>2, <2>1, <2>3, <2>4, <2>5
<1>7. CASE UNCHANGED pushVars
  BY <1>1, <1>2, <1>7 DEF pushVars, ListedRegistered, PushedToListed
<1>8. QED
  BY <1>3, <1>4, <1>5, <1>6, <1>7 DEF PushNext

(***************************************************************************)
(* The event bus.  What the calls of an event are at each point of its     *)
(* publish, and whom they include.                                         *)
(***************************************************************************)
CallsFollow(p) ==
    /\ publication[p].pc \in {"new", "middleware"} => \A h \in Listener : calls[p][h] = "none"
    /\ publication[p].pc = "middleware" => throughout[p] \subseteq Subscribers
    /\ publication[p].pc \in {"gather", "done"} => \A h \in throughout[p] : calls[p][h] # "none"
    /\ publication[p].pc = "done" => \A h \in Listener : calls[p][h] # "running"

Counted == {x \in Publication \X Listener :
               publication[x[1]].pc = "done" /\ calls[x[1]][x[2]] # "none"}

BusInv == BusTypeOK /\ (\A p \in Publication : CallsFollow(p)) /\ CallsCounted

CallState == {"none", "running", "handled", "error"}
PublishState == [pc : {"new", "middleware", "gather", "done"}, middleware : SUBSET Middleware]

(* How many calls of an event ended in one way is a number. *)
LEMMA OutcomesCounted ==
  ASSUME NEW p, NEW ending
  PROVE  /\ Outcomes(p, ending) \in Nat
         /\ IsFiniteSet({h \in Listener : calls[p][h] = ending})
         /\ Outcomes(p, ending) = 0 => \A h \in Listener : calls[p][h] # ending
<1> DEFINE S == {h \in Listener : calls[p][h] = ending}
<1>1. IsFiniteSet(S)
  BY BusAssumption, FS_Subset
<1>2. Cardinality(S) \in Nat /\ (Cardinality(S) = 0 => S = {})
  BY <1>1, FS_CardinalityType, FS_EmptySet
<1>3. QED
  BY <1>1, <1>2 DEF Outcomes

LEMMA BusInitially == BusInit => BusInv
<1> SUFFICES ASSUME BusInit PROVE BusInv
  OBVIOUS
<1>1. BusTypeOK
  BY DEF BusInit, BusTypeOK, NotPublished
<1>2. \A p \in Publication : CallsFollow(p)
  BY DEF BusInit, CallsFollow, NotPublished
<1>3. Counted = {}
  BY DEF BusInit, Counted, NotPublished
<1>4. CallsCounted
  BY <1>3, FS_EmptySet DEF BusInit, CallsCounted, Counted
<1>5. QED
  BY <1>1, <1>2, <1>4 DEF BusInv

(* Calls that end a publish are counted on top of those counted before.    *)
LEMMA CountedGrows ==
  ASSUME BusInv, NEW p \in Publication, Publishes(p)
  PROVE  Cardinality(Counted') = Cardinality(Counted) + Outcomes(p, "handled") + Outcomes(p, "error")
<1> DEFINE Handled == {h \in Listener : calls[p][h] = "handled"}
           Failed == {h \in Listener : calls[p][h] = "error"}
           Both == Handled \union Failed
<1>1. /\ publication \in [Publication -> PublishState] /\ calls \in [Publication -> [Listener -> CallState]]
      /\ publication[p].pc = "gather" /\ calls' = calls
      /\ publication' = [publication EXCEPT ![p].pc = "done"]
      /\ \A h \in Listener : calls[p][h] # "running"
  BY OutcomesCounted DEF BusInv, BusTypeOK, PublishState, CallState, Publishes
<1>2. \A q \in Publication : publication'[q].pc = IF q = p THEN "done" ELSE publication[q].pc
  BY <1>1 DEF PublishState
<1>3. Counted' = Counted \union ({p} \X Both) /\ Counted \intersect ({p} \X Both) = {}
  <2>1. \A h \in Listener : calls[p][h] # "none" <=> h \in Both
    BY <1>1 DEF CallState
  <2>2. Both \subseteq Listener
    OBVIOUS
  <2> HIDE DEF Both
  <2>3. ASSUME NEW x PROVE x \in Counted' <=> x \in Counted \union ({p} \X Both)
    <3>1. CASE x \in Publication \X Listener
      BY <3>1, <1>1, <1>2, <2>1 DEF Counted
    <3>2. CASE x \notin Publication \X Listener
      BY <3>2, <2>2 DEF Counted
    <3>3. QED
      BY <3>1, <3>2
  <2>4. QED
    BY <1>1, <2>3 DEF Counted
<1>4. IsFiniteSet(Handled) /\ IsFiniteSet(Failed)
  BY OutcomesCounted
<1>5. Handled \intersect Failed = {}
  OBVIOUS
<1>6. IsFiniteSet(Both) /\ Cardinality(Both) = Cardinality(Handled) + Cardinality(Failed)
  <2> HIDE DEF Handled, Failed
  <2>1. Cardinality({}) = 0 /\ Cardinality(Handled) \in Nat /\ Cardinality(Failed) \in Nat
    BY <1>4, FS_EmptySet, FS_CardinalityType
  <2>2. /\ IsFiniteSet(Both)
        /\ Cardinality(Both) = Cardinality(Handled) + Cardinality(Failed) - Cardinality(Handled \intersect Failed)
    BY <1>4, FS_Union
  <2>3. Cardinality(Handled \intersect Failed) = 0
    BY Zenon, <1>5, <2>1
  <2>4. QED
    BY <2>1, <2>2, <2>3
<1>7. IsFiniteSet(Counted)
  <2>1. IsFiniteSet(Publication \X Listener)
    BY BusAssumption, FS_Product
  <2>2. QED
    BY <2>1, FS_Subset DEF Counted
<1> HIDE DEF Both
<1>8. IsFiniteSet({p} \X Both) /\ Cardinality({p} \X Both) = Cardinality(Both)
  <2>1. IsFiniteSet({p}) /\ Cardinality({p}) = 1
    BY FS_Singleton
  <2>2. IsFiniteSet({p} \X Both) /\ Cardinality({p} \X Both) = Cardinality({p}) * Cardinality(Both)
    BY <1>6, <2>1, FS_Product
  <2>3. Cardinality(Both) \in Nat
    BY <1>6, FS_CardinalityType
  <2>4. QED
    BY <2>1, <2>2, <2>3
<1>9. Cardinality(Counted') = Cardinality(Counted) + Cardinality({p} \X Both)
  <2>1. Cardinality({}) = 0 /\ Cardinality(Counted) \in Nat /\ Cardinality({p} \X Both) \in Nat
    BY <1>7, <1>8, FS_EmptySet, FS_CardinalityType
  <2>2. Cardinality(Counted \union ({p} \X Both))
            = Cardinality(Counted) + Cardinality({p} \X Both) - Cardinality(Counted \intersect ({p} \X Both))
    BY <1>7, <1>8, FS_Union
  <2>3. /\ Cardinality(Counted \intersect ({p} \X Both)) = 0
        /\ Cardinality(Counted') = Cardinality(Counted \union ({p} \X Both))
    BY Zenon, <1>3, <2>1
  <2>4. QED
    BY <2>1, <2>2, <2>3
<1>10. Cardinality(Handled) = Outcomes(p, "handled") /\ Cardinality(Failed) = Outcomes(p, "error")
  BY DEF Outcomes
<1>11. Cardinality(Counted) \in Nat /\ Outcomes(p, "handled") \in Nat /\ Outcomes(p, "error") \in Nat
  BY <1>7, FS_CardinalityType, OutcomesCounted
<1> HIDE DEF Handled, Failed
<1>12. QED
  BY <1>6, <1>8, <1>9, <1>10, <1>11

LEMMA BusStep == BusInv /\ [BusNext]_busVars => BusInv'
<1> SUFFICES ASSUME BusInv, [BusNext]_busVars PROVE BusInv'
  OBVIOUS
<1>1. /\ subscribed \subseteq Listener /\ wildcard \subseteq Listener
      /\ publication \in [Publication -> PublishState] /\ calls \in [Publication -> [Listener -> CallState]]
      /\ stats \in [published : Nat, handled : Nat, errors : Nat]
      /\ throughout \in [Publication -> SUBSET Listener]
      /\ \A p \in Publication : CallsFollow(p)
      /\ stats.handled + stats.errors = Cardinality(Counted)
  BY DEF BusInv, BusTypeOK, PublishState, CallState, CallsCounted, Counted
<1>2. ASSUME subscribed' \subseteq Listener, wildcard' \subseteq Listener,
             publication' \in [Publication -> PublishState],
             calls' \in [Publication -> [Listener -> CallState]],
             stats' \in [published : Nat, handled : Nat, errors : Nat],
             throughout' \in [Publication -> SUBSET Listener],
             \A p \in Publication : CallsFollow(p)',
             stats'.handled + stats'.errors = Cardinality(Counted')
      PROVE  BusInv'
  BY <1>2 DEF BusInv, BusTypeOK, PublishState, CallState, CallsCounted, Counted
<1>3. ASSUME NEW h \in Listener, Subscribe(h) \/ SubscribeAll(h) PROVE BusInv'
  <2>1. /\ subscribed' \subseteq Listener /\ wildcard' \subseteq Listener
        /\ Subscribers \subseteq Subscribers'
        /\ UNCHANGED <<publication, calls, stats, throughout>>
    BY <1>1, <1>3 DEF Subscribe, SubscribeAll, Subscribers
  <2>2. Counted' = Counted
    BY <2>1 DEF Counted
  <2>3. \A p \in Publication : CallsFollow(p)'
    BY <1>1, <2>1 DEF CallsFollow
  <2>4. QED
    BY <1>1, <1>2, <2>1, <2>2, <2>3
<1>4. ASSUME NEW h \in Listener, Unsubscribe(h) PROVE BusInv'
  <2>1. /\ subscribed' \subseteq Listener /\ throughout' \in [Publication -> SUBSET Listener]
        /\ Subscribers \ {h} \subseteq Subscribers'
        /\ \A p \in Publication : throughout'[p] = throughout[p] \ {h}
        /\ UNCHANGED <<wildcard, publication, calls, stats>>
    BY <1>1, <1>4 DEF Unsubscribe, Subscribers
  <2>2. Counted' = Counted
    BY <2>1 DEF Counted
  <2>3. \A p \in Publication : CallsFollow(p)'
    BY <1>1, <2>1 DEF CallsFollow
  <2>4. QED
    BY <1>1, <1>2, <2>1, <2>2, <2>3
<1>5. ASSUME NEW p \in Publication, Publish(p) PROVE BusInv'
  <2> DEFINE next == [pc |-> "middleware", middleware |-> Middleware]
  <2>1. next \in PublishState /\ next.pc = "middleware"
    BY DEF PublishState
  <2>2. /\ publication' = [publication EXCEPT ![p] = next] /\ publication[p].pc = "new"
        /\ stats' = [stats EXCEPT !.published = @ + 1]
        /\ throughout' = [throughout EXCEPT ![p] = Subscribers]
        /\ UNCHANGED <<subscribed, wildcard, calls>>
    BY <1>5 DEF Publish
  <2> HIDE DEF next
  <2>3. /\ publication' \in [Publication -> PublishState]
        /\ \A q \in Publication : publication'[q] = IF q = p THEN next ELSE publication[q]
    BY <1>1, <2>1, <2>2
  <2>4. /\ throughout' \in [Publication -> SUBSET Listener]
        /\ \A q \in Publication : throughout'[q] = IF q = p THEN Subscribers ELSE throughout[q]
    BY <1>1, <2>2 DEF Subscribers
  <2>5. /\ stats' \in [published : Nat, handled : Nat, errors : Nat]
        /\ stats'.handled = stats.handled /\ stats'.errors = stats.errors
    BY <1>1, <2>2
  <2>6. Counted' = Counted
    BY <2>1, <2>2, <2>3 DEF Counted
  <2>7. ASSUME NEW q \in Publication PROVE CallsFollow(q)'
    <3>1. Subscribers' = Subscribers
      BY <2>2 DEF Subscribers
    <3>2. CASE q = p
      BY <3>1, <3>2, <1>1, <2>1, <2>2, <2>3, <2>4 DEF CallsFollow
    <3>3. CASE q # p
      BY <3>1, <3>3, <1>1, <2>2, <2>3, <2>4 DEF CallsFollow
    <3>4. QED
      BY <3>2, <3>3
  <2>8. QED
    BY <1>1, <1>2, <2>2, <2>3, <2>4, <2>5, <2>6, <2>7
<1>6. ASSUME NEW p \in Publication, NEW m \in Middleware, RunMiddleware(p, m) PROVE BusInv'
  <2> DEFINE next == [publication[p] EXCEPT !.middleware = @ \ {m}]
  <2>1. next \in PublishState /\ next.pc = publication[p].pc
    BY <1>1 DEF PublishState
  <2>2. publication' = [publication EXCEPT ![p] = next]
        /\ UNCHANGED <<subscribed, wildcard, calls, stats, throughout>>
    BY <1>6 DEF RunMiddleware
  <2> HIDE DEF next
  <2>3. /\ publication' \in [Publication -> PublishState]
        /\ \A q \in Publication : publication'[q].pc = publication[q].pc
    BY <1>1, <2>1, <2>2
  <2>4. Counted' = Counted /\ Subscribers' = Subscribers
    BY <2>2, <2>3 DEF Counted, Subscribers
  <2>5. \A q \in Publication : CallsFollow(q)'
    BY <1>1, <2>2, <2>3, <2>4 DEF CallsFollow
  <2>6. QED
    BY <1>1, <1>2, <2>2, <2>3, <2>4, <2>5
<1>7. ASSUME NEW p \in Publication, Gather(p) PROVE BusInv'
  <2> DEFINE next == [publication[p] EXCEPT !.pc = "gather"]
             run == [h \in Listener |-> IF Chosen(h) THEN "running" ELSE "none"]
  <2>1. /\ next \in PublishState /\ next.pc = "gather"
        /\ run \in [Listener -> CallState] /\ \A h \in Subscribers : h \in Listener => run[h] = "running"
    BY <1>1 DEF PublishState, CallState, Chosen
  <2>2. /\ publication' = [publication EXCEPT ![p] = next] /\ publication[p].pc = "middleware"
        /\ calls' = [calls EXCEPT ![p] = run]
        /\ UNCHANGED <<subscribed, wildcard, stats, throughout>>
    BY <1>7 DEF Gather
  <2> HIDE DEF next, run
  <2>3. /\ publication' \in [Publication -> PublishState]
        /\ \A q \in Publication : publication'[q] = IF q = p THEN next ELSE publication[q]
        /\ calls' \in [Publication -> [Listener -> CallState]]
        /\ \A q \in Publication : calls'[q] = IF q = p THEN run ELSE calls[q]
    BY <1>1, <2>1, <2>2
  <2>4. Counted' = Counted /\ Subscribers' = Subscribers
    BY <2>1, <2>2, <2>3 DEF Counted, Subscribers
  <2>5. ASSUME NEW q \in Publication PROVE CallsFollow(q)'
    <3>1. CASE q = p
      BY <3>1, <1>1, <2>1, <2>2, <2>3 DEF CallsFollow
    <3>2. CASE q # p
      BY <3>2, <1>1, <2>2, <2>3, <2>4 DEF CallsFollow
    <3>3. QED
      BY <3>1, <3>2
  <2>6. QED
    BY <1>1, <1>2, <2>2, <2>3, <2>4, <2>5
<1>8. ASSUME NEW p \in Publication, NEW h \in Listener, NEW ending \in {"handled", "error"},
             Handle(p, h, ending)
      PROVE  BusInv'
  <2>1. /\ calls' \in [Publication -> [Listener -> CallState]]
        /\ \A q \in Publication, g \in Listener :
               calls'[q][g] = IF q = p /\ g = h THEN ending ELSE calls[q][g]
    BY <1>1, <1>8 DEF Handle, CallState
  <2>2. calls[p][h] = "running" /\ UNCHANGED <<subscribed, wildcard, publication, stats, throughout>>
    BY <1>8 DEF Handle
  <2>3. publication[p].pc = "gather"
    BY <1>1, <2>2 DEF CallsFollow, PublishState
  <2>4. Counted' = Counted /\ Subscribers' = Subscribers
    BY <2>1, <2>2, <2>3 DEF Counted, Subscribers
  <2>5. ASSUME NEW q \in Publication PROVE CallsFollow(q)'
    <3>1. throughout[q] \subseteq Listener /\ publication'[q] = publication[q] /\ throughout'[q] = throughout[q]
      BY <1>1, <2>2
    <3>2. CASE q = p
      BY <3>1, <3>2, <1>1, <2>1, <2>3 DEF CallsFollow
    <3>3. CASE q # p
      <4>1. \A g \in Listener : calls'[q][g] = calls[q][g]
        BY <3>3, <2>1
      <4>2. QED
        BY <4>1, <3>1, <1>1, <2>4 DEF CallsFollow
    <3>4. QED
      BY <3>2, <3>3
  <2>6. QED
    BY <1>1, <1>2, <2>1, <2>2, <2>4, <2>5
<1>9. ASSUME NEW p \in Publication, Publishes(p) PROVE BusInv'
  <2> DEFINE next == [publication[p] EXCEPT !.pc = "done"]
  <2>1. next \in PublishState /\ next.pc = "done"
    BY <1>1 DEF PublishState
  <2>2. /\ publication' = [publication EXCEPT ![p] = next] /\ publication[p].pc = "gather"
        /\ UNCHANGED <<subscribed, wildcard, calls, throughout>>
        /\ stats' = [stats EXCEPT !.handled = @ + Outcomes(p, "handled"), !.errors = @ + Outcomes(p, "error")]
        /\ \A h \in Listener : calls[p][h] # "running"
    BY <1>9, OutcomesCounted DEF Publishes, Errors
  <2> HIDE DEF next
  <2>3. /\ publication' \in [Publication -> PublishState]
        /\ \A q \in Publication : publication'[q] = IF q = p THEN next ELSE publication[q]
    BY <1>1, <2>1, <2>2
  <2>4. Outcomes(p, "handled") \in Nat /\ Outcomes(p, "error") \in Nat
    BY OutcomesCounted
  <2>5. /\ stats' \in [published : Nat, handled : Nat, errors : Nat]
        /\ stats'.handled = stats.handled + Outcomes(p, "handled")
        /\ stats'.errors = stats.errors + Outcomes(p, "error")
    <3>1. PICK a \in Nat, e \in Nat : a = Outcomes(p, "handled") /\ e = Outcomes(p, "error")
      BY <2>4
    <3>2. stats' = [stats EXCEPT !.handled = @ + a, !.errors = @ + e]
      BY <2>2, <3>1
    <3>3. /\ stats' \in [published : Nat, handled : Nat, errors : Nat]
          /\ stats'.handled = stats.handled + a /\ stats'.errors = stats.errors + e
      <4>1. stats.handled \in Nat /\ stats.errors \in Nat /\ stats.published \in Nat
        BY <1>1
      <4>2. stats.handled + a \in Nat /\ stats.errors + e \in Nat
        BY <4>1
      <4>3. PICK x \in Nat, y \in Nat : x = stats.handled + a /\ y = stats.errors + e
        BY <4>2
      <4>4. stats' = [stats EXCEPT !.handled = x, !.errors = y]
        BY <3>2, <4>3
      <4>5. stats' \in [published : Nat, handled : Nat, errors : Nat] /\ stats'.handled = x /\ stats'.errors = y
        BY <1>1, <4>4
      <4>6. QED
        BY <4>3, <4>5
    <3>4. QED
      BY <3>1, <3>3
  <2>6. stats'.handled + stats'.errors = Cardinality(Counted')
    <3>1. Cardinality(Counted') = Cardinality(Counted) + Outcomes(p, "handled") + Outcomes(p, "error")
      BY <1>9, CountedGrows
    <3>2. stats.handled \in Nat /\ stats.errors \in Nat
      BY <1>1
    <3>3. QED
      BY <1>1, <2>4, <2>5, <3>1, <3>2
  <2>7. ASSUME NEW q \in Publication PROVE CallsFollow(q)'
    <3>1. Subscribers' = Subscribers
      BY <2>2 DEF Subscribers
    <3>2. CASE q = p
      BY <3>2, <1>1, <2>1, <2>2, <2>3 DEF CallsFollow
    <3>3. CASE q # p
      BY <3>1, <3>3, <1>1, <2>2, <2>3 DEF CallsFollow
    <3>4. QED
      BY <3>2, <3>3
  <2>8. QED
    BY <1>1, <1>2, <2>2, <2>3, <2>5, <2>6, <2>7
<1>10. CASE UNCHANGED busVars
  <2>1. Counted' = Counted /\ Subscribers' = Subscribers
    BY <1>10 DEF busVars, Counted, Subscribers
  <2>2. \A q \in Publication : CallsFollow(q)'
    BY <1>1, <1>10, <2>1 DEF busVars, CallsFollow
  <2>3. QED
    BY <1>1, <1>2, <1>10, <2>1, <2>2 DEF busVars
<1>11. QED
  BY <1>3, <1>4, <1>5, <1>6, <1>7, <1>8, <1>9, <1>10 DEF BusNext

LEMMA BusImplies == BusInv => BusTypeOK /\ BusSafe
<1> SUFFICES ASSUME BusInv PROVE SubscriberCalled
  BY DEF BusInv, BusSafe
<1>1. \A p \in Publication : \A h \in throughout[p] : h \in Listener /\ calls[p][h] \in CallState
  BY DEF BusInv, BusTypeOK, CallState
<1>2. QED
  BY <1>1 DEF BusInv, CallsFollow, SubscriberCalled, CallState

(***************************************************************************)
(* Batches.  What is reported as created is, and at most one item is on    *)
(* the chain without its record, but for calls that raised.                *)
(***************************************************************************)
Orphans == onChain \ (created \union lateRaise)

(* Where the orphan is: it is the item about to be committed, or the one   *)
(* whose commit broke the session, after which no item reaches the chain.  *)
OrphanInv ==
    /\ created \union onChain \union lateRaise \subseteq 1 .. Item
    /\ stage \in {"item", "fiduciary", "chain", "commit"} => Len(results) < Items
    /\ stage \in {"item", "fiduciary", "chain", "answered"} => Item \notin onChain
    /\ Item \notin created
    /\ stage \in {"fiduciary", "chain", "commit"} => batchSession = "usable"
    /\ batchSession = "usable" /\ stage \notin {"commit", "crashed"} => Orphans = {}
    /\ stage = "commit" => Item \in onChain /\ Orphans \subseteq {Item}

BatchInv == BatchTypeOK /\ ReportedAsCreated /\ OneOrphan /\ OrphanInv

LEMMA BatchInitially == BatchInit => BatchInv
  BY ItemsAssumption DEF BatchInit, BatchInv, BatchTypeOK, ReportedAsCreated, OneOrphan,
     OrphanInv, Orphans, Item

(* One more outcome: the items so far keep theirs.                         *)
LEMMA OneMoreOutcome ==
    ASSUME BatchTypeOK, NEW o \in {"created", "error"}, Reported(o), Len(results) < Items
    PROVE  /\ results' \in Seq({"created", "error"})
           /\ Len(results') = Item /\ Item \in Nat
           /\ \A i \in 1 .. Len(results) : results'[i] = results[i]
           /\ results'[Item] = o
           /\ stage' \in {"item", "answered"}
           /\ stage' = "item" => Len(results') < Items
           /\ Len(results') \in 0 .. Items
           /\ Item' = Item + 1
  BY ItemsAssumption DEF BatchTypeOK, Reported, Item

LEMMA BatchStep == BatchInv /\ [BatchNext]_batchVars => BatchInv'
<1> SUFFICES ASSUME BatchInv, [BatchNext]_batchVars PROVE BatchInv'
    OBVIOUS
<1> USE ItemsAssumption
<1>0. /\ results \in Seq({"created", "error"}) /\ Len(results) \in 0 .. Items
      /\ DOMAIN results = 1 .. Len(results) /\ Item = Len(results) + 1 /\ Items \in Nat
    BY DEF BatchInv, BatchTypeOK, Item
(* An item that ends with an error, whatever became of the session and of  *)
(* its call.                                                               *)
<1>1. ASSUME Reported("error"), Len(results) < Items, created' = created,
             batchSession' \in {"usable", "broken"},
             onChain' \subseteq 1 .. Item, lateRaise' \subseteq 1 .. Item,
             created \subseteq onChain',
             \A i, j \in onChain' \ (created \union lateRaise') : i = j,
             batchSession' = "usable" => onChain' \ (created \union lateRaise') = {}
      PROVE  BatchInv'
  <2>1. /\ results' \in Seq({"created", "error"}) /\ Len(results') = Item
        /\ \A i \in 1 .. Len(results) : results'[i] = results[i]
        /\ results'[Item] = "error" /\ stage' \in {"item", "answered"}
        /\ stage' = "item" => Len(results') < Items
        /\ Len(results') \in 0 .. Items /\ Item' = Item + 1
    BY <1>1, OneMoreOutcome DEF BatchInv
  <2>2. BatchTypeOK'
    BY <1>1, <2>1 DEF BatchTypeOK
  <2>3. created = {i \in 1 .. Len(results) : results[i] = "created"}
    BY <1>0 DEF BatchInv, ReportedAsCreated
  <2>4. created' = {i \in DOMAIN results' : results'[i] = "created"}
    <3>1. DOMAIN results' = 1 .. Item
      BY <2>1
    <3>2. 1 .. Item = (1 .. Len(results)) \union {Item}
      BY <1>0
    <3> QED BY <1>1, <2>1, <2>3, <3>1, <3>2
  <2>5. ReportedAsCreated'
    BY <1>1, <2>4 DEF ReportedAsCreated
  <2>6. OneOrphan'
    BY <1>1 DEF OneOrphan
  <2>7. OrphanInv'
    <3>1. created \subseteq 1 .. Len(results)
      BY <2>3
    <3>2. 1 .. Item \subseteq 1 .. Item' /\ Item' \notin 1 .. Item
      BY <1>0, <2>1
    <3> QED BY <1>0, <1>1, <2>1, <3>1, <3>2 DEF OrphanInv, Orphans
  <2> QED BY <2>2, <2>5, <2>6, <2>7 DEF BatchInv
(* The session and the item stay, and the item goes on to its next stage.  *)
<1>2. ASSUME results' = results, created' = created, lateRaise' = lateRaise,
             onChain' = onChain, batchSession' = batchSession,
             \/ batchSession = "usable" /\ stage = "item" /\ stage' = "fiduciary"
             \/ stage = "fiduciary" /\ stage' = "chain"
             \/ stage' = "crashed"
      PROVE  BatchInv'
  <2>1. Item' = Item
    BY <1>2 DEF Item
  <2> QED BY <1>2, <2>1 DEF BatchInv, BatchTypeOK, ReportedAsCreated, OneOrphan, OrphanInv, Orphans
<1>3. CASE Refused
  <2>1. Reported("error") /\ UNCHANGED <<batchSession, created, onChain, lateRaise>> /\ stage = "item"
    BY <1>3 DEF Refused
  <2> QED BY <1>1, <2>1 DEF BatchInv, BatchTypeOK, ReportedAsCreated, OneOrphan, OrphanInv, Orphans
<1>4. CASE PrincipalFound
  BY <1>2, <1>4 DEF PrincipalFound
<1>5. CASE PrincipalFails
  <2>1. /\ Reported("error") /\ UNCHANGED <<created, onChain, lateRaise>>
        /\ stage = "item" /\ batchSession' = "broken"
    BY <1>5 DEF PrincipalFails
  <2> QED BY <1>1, <2>1 DEF BatchInv, BatchTypeOK, ReportedAsCreated, OneOrphan, OrphanInv, Orphans
<1>6. CASE Fiduciary
  <2>1. /\ UNCHANGED <<batchSession, created, onChain, lateRaise>> /\ stage = "fiduciary"
        /\ \/ stage' = "chain" /\ UNCHANGED results
           \/ Reported("error")
    BY <1>6 DEF Fiduciary
  <2>2. CASE stage' = "chain" /\ UNCHANGED results
    BY <1>2, <2>1, <2>2
  <2>3. CASE Reported("error")
    BY <1>1, <2>1, <2>3 DEF BatchInv, BatchTypeOK, ReportedAsCreated, OneOrphan, OrphanInv, Orphans
  <2> QED BY <2>1, <2>2, <2>3
<1>7. CASE Register
  <2>0. /\ stage = "chain" /\ batchSession = "usable" /\ Len(results) < Items
        /\ Orphans = {} /\ Item \notin onChain /\ Item \notin created
        /\ created \union onChain \union lateRaise \subseteq 1 .. Item
        /\ created \subseteq onChain
    BY <1>7 DEF Register, BatchInv, OrphanInv, ReportedAsCreated
  <2>1. UNCHANGED <<batchSession, created>>
    BY <1>7 DEF Register
  <2>2. CASE /\ onChain' = onChain \union {Item}
             /\ stage' = "commit" /\ UNCHANGED <<results, lateRaise>>
    <3>1. Item' = Item
      BY <2>2 DEF Item
    <3>2. Orphans' \subseteq {Item}
      BY <2>0, <2>1, <2>2 DEF Orphans
    <3>3. Item \in 1 .. Item
      BY <1>0
    <3> QED BY <2>0, <2>1, <2>2, <3>1, <3>2, <3>3
            DEF BatchInv, BatchTypeOK, ReportedAsCreated, OneOrphan, OrphanInv, Orphans
  <2>3. CASE /\ onChain' = onChain \union {Item} /\ lateRaise' = lateRaise \union {Item}
             /\ Reported("error")
    <3>1. Item \in 1 .. Item
      BY <1>0
    <3>2. onChain' \ (created \union lateRaise') = {}
      BY <2>0, <2>3 DEF Orphans
    <3> QED BY <1>1, <2>0, <2>1, <2>3, <3>1, <3>2
  <2>4. CASE UNCHANGED <<onChain, lateRaise>> /\ Reported("error")
    BY <1>1, <2>0, <2>1, <2>4 DEF Orphans
  <2> QED BY <1>7, <2>2, <2>3, <2>4 DEF Register
<1>8. CASE CommitItem
  <2>0. /\ stage = "commit" /\ batchSession = "usable" /\ Len(results) < Items
        /\ Orphans \subseteq {Item} /\ Item \in onChain
        /\ created \union onChain \union lateRaise \subseteq 1 .. Item
        /\ created \subseteq onChain
    BY <1>8 DEF CommitItem, BatchInv, OrphanInv, ReportedAsCreated
  <2>1. /\ created' = created \union {Item} /\ Reported("created")
        /\ UNCHANGED <<batchSession, onChain, lateRaise>>
    BY <1>8 DEF CommitItem
  <2>2. /\ results' \in Seq({"created", "error"}) /\ Len(results') = Item
        /\ \A i \in 1 .. Len(results) : results'[i] = results[i]
        /\ results'[Item] = "created" /\ stage' \in {"item", "answered"}
        /\ stage' = "item" => Len(results') < Items
        /\ Len(results') \in 0 .. Items /\ Item' = Item + 1
    BY <2>0, <2>1, OneMoreOutcome DEF BatchInv
  <2>3. BatchTypeOK'
    BY <2>1, <2>2 DEF BatchTypeOK, BatchInv
  <2>4. created = {i \in 1 .. Len(results) : results[i] = "created"}
    BY <1>0 DEF BatchInv, ReportedAsCreated
  <2>5. created' = {i \in DOMAIN results' : results'[i] = "created"}
    <3>1. DOMAIN results' = 1 .. Item
      BY <2>2
    <3>2. 1 .. Item = (1 .. Len(results)) \union {Item}
      BY <1>0
    <3> QED BY <2>1, <2>2, <2>4, <3>1, <3>2
  <2>6. ReportedAsCreated'
    BY <2>0, <2>1, <2>5 DEF ReportedAsCreated
  <2>7. Orphans' = {}
    BY <2>0, <2>1 DEF Orphans
  <2>8. 1 .. Item \subseteq 1 .. Item' /\ Item' \notin 1 .. Item /\ Item \in 1 .. Item
    BY <1>0, <2>2
  <2>9. OrphanInv'
    BY <1>0, <2>0, <2>1, <2>2, <2>7, <2>8 DEF OrphanInv
  <2> QED BY <2>3, <2>6, <2>7, <2>9 DEF BatchInv, OneOrphan, Orphans
<1>9. CASE CommitItemFails
  <2>0. /\ stage = "commit" /\ Len(results) < Items
        /\ created \union onChain \union lateRaise \subseteq 1 .. Item
        /\ created \subseteq onChain
    BY <1>9 DEF CommitItemFails, BatchInv, OrphanInv, ReportedAsCreated
  <2>1. /\ batchSession' = "broken" /\ Reported("error")
        /\ UNCHANGED <<created, onChain, lateRaise>>
    BY <1>9 DEF CommitItemFails
  <2> QED BY <1>1, <2>0, <2>1 DEF BatchInv, OneOrphan
<1>10. CASE BatchCrash
  BY <1>2, <1>10 DEF BatchCrash
<1>11. CASE UNCHANGED batchVars
  BY <1>11 DEF batchVars, BatchInv, BatchTypeOK, ReportedAsCreated, OneOrphan, OrphanInv, Orphans, Item
<1> QED BY <1>3, <1>4, <1>5, <1>6, <1>7, <1>8, <1>9, <1>10, <1>11 DEF BatchNext

(* batch_create_consents reports an item as created exactly when its       *)
(* record, event and audit log are committed, and leaves at most one item  *)
(* on the chain without them, but for calls that raised after their effect *)
(* (api/main.py, api/services.py).                                         *)
THEOREM BatchReportsCreated == BatchSpec => []BatchSafe
<1>1. BatchInv => BatchSafe
  BY DEF BatchInv, BatchSafe
<1> QED BY <1>1, BatchInitially, BatchStep, PTL DEF BatchSpec

(***************************************************************************)
(* The calls of the chain.  A transaction is in the pool or in the ledger  *)
(* and never in both, and no two calls wait for, or returned with, the     *)
(* same one: the node refused the second.                                  *)
(***************************************************************************)
Transactions == [method : Method, first : 0 .. MaxRound]
Effects == [tx : Transactions, round : 1 .. MaxRound]
ChainCalls == [phase : Phases, tx : Transactions, sent : 0 .. MaxRound, number : 0 .. MaxCalls]

PoolOpen == \A tx \in pool : tx.first <= round /\ round < tx.first + Validity /\ ~InLedger(tx)

EffectsOnce ==
    /\ \A e, f \in confirmed : e.tx = f.tx => e = f
    /\ \A e \in confirmed : e.round \in e.tx.first + 1 .. e.tx.first + Validity

(* A call is later than the parameters it asked for. *)
BuiltBefore == \A c \in Caller : call[c].tx.first <= round

ReturnedTook == \A c \in Caller : call[c].phase = "returned" => InLedger(call[c].tx)

(* Two calls that wait or returned are about two transactions. *)
InUse(c) == call[c].phase \in {"waiting", "returned"}
OwnTransaction == \A c, d \in Caller : c # d /\ InUse(c) /\ InUse(d) => call[c].tx # call[d].tx

ChainInv ==
    /\ ChainTypeOK /\ PoolOpen /\ EffectsOnce /\ BuiltBefore
    /\ ReturnedTook /\ OwnTransaction /\ WaitedFor

LEMMA ChainInitially == ChainInit => ChainInv
<1> SUFFICES ASSUME ChainInit PROVE ChainInv
  OBVIOUS
<1>m. MaxRound \in Nat /\ MaxCalls \in Nat
  BY ChainAssumption
<1>1. Uncalled \in ChainCalls /\ Uncalled.phase = "idle" /\ Uncalled.tx.first = 0
  BY <1>m DEF Uncalled, ChainCalls, Transactions, Tx, Phases, Method
<1>2. \A c \in Caller : call[c] = Uncalled
  BY DEF ChainInit
<1>3. ChainTypeOK
  BY <1>1, <1>m DEF ChainInit, ChainTypeOK, ChainCalls, Transactions
<1>4. PoolOpen /\ EffectsOnce
  BY DEF ChainInit, PoolOpen, EffectsOnce
<1>5. BuiltBefore /\ ReturnedTook /\ OwnTransaction /\ WaitedFor
  BY <1>1, <1>2 DEF ChainInit, BuiltBefore, ReturnedTook, OwnTransaction, InUse, WaitedFor
<1>6. QED
  BY <1>3, <1>4, <1>5 DEF ChainInv

(* What one call changes: its own record, and nothing of the ledger. *)
LEMMA CallMoves ==
  ASSUME ChainInv, NEW c \in Caller, NEW later \in ChainCalls,
         call' = [call EXCEPT ![c] = later],
         UNCHANGED <<round, confirmed>>,
         \/ pool' = pool
         \/ /\ pool' = pool \union {later.tx}
            /\ later.tx.first <= round /\ round < later.tx.first + Validity /\ ~InLedger(later.tx)
         \/ /\ pool' = pool \ {later.tx} /\ later.phase \notin {"waiting", "returned"}
            /\ \A d \in Caller \ {c} : InUse(d) => call[d].tx # later.tx,
         later.tx.first <= round,
         later.phase = "returned" => InLedger(later.tx),
         later.phase = "waiting" => later.tx \in pool' \/ InLedger(later.tx) \/ Expired(later.tx),
         later.phase \in {"waiting", "returned"} =>
            \A d \in Caller \ {c} : InUse(d) => call[d].tx # later.tx
  PROVE  ChainInv'
<1>t. /\ pool \subseteq Transactions /\ confirmed \subseteq Effects /\ call \in [Caller -> ChainCalls]
      /\ round \in 0 .. MaxRound
  BY DEF ChainInv, ChainTypeOK, ChainCalls, Transactions, Effects
<1>c. call' \in [Caller -> ChainCalls] /\ \A d \in Caller : call'[d] = IF d = c THEN later ELSE call[d]
  BY <1>t
<1>l. later.tx \in Transactions
  BY DEF ChainCalls
<1>p. /\ pool' \subseteq Transactions
      /\ \A d \in Caller \ {c} : InUse(d) /\ call[d].tx \in pool => call[d].tx \in pool'
  BY <1>t, <1>l
<1>i. \A tx : InLedger(tx)' <=> InLedger(tx)
  BY DEF InLedger
<1>1. ChainTypeOK'
  BY <1>t, <1>c, <1>p DEF ChainTypeOK, ChainCalls, Transactions, Effects
<1>2. PoolOpen'
  BY <1>i DEF ChainInv, PoolOpen
<1>3. EffectsOnce'
  BY DEF ChainInv, EffectsOnce
<1>4. BuiltBefore'
  BY <1>c DEF ChainInv, BuiltBefore
<1>5. ReturnedTook'
  BY <1>c DEF ChainInv, ReturnedTook, InLedger
<1>6. OwnTransaction'
  BY <1>c DEF ChainInv, OwnTransaction, InUse
<1>7. WaitedFor'
  BY <1>c, <1>p DEF ChainInv, WaitedFor, InLedger, Expired, InUse
<1>8. QED
  BY <1>1, <1>2, <1>3, <1>4, <1>5, <1>6, <1>7 DEF ChainInv

(* What a call that raises leaves. *)
LEMMA CallRaises ==
  ASSUME ChainInv, NEW c \in Caller, Raise(c),
         UNCHANGED <<round, confirmed>>,
         \/ pool' = pool
         \/ pool' = pool \union {call[c].tx} /\ ~InLedger(call[c].tx) /\ ~Expired(call[c].tx)
         \/ pool' = pool \ {call[c].tx} /\ InUse(c)
  PROVE  ChainInv'
<1>t. call \in [Caller -> ChainCalls] /\ round \in 0 .. MaxRound
  BY DEF ChainInv, ChainTypeOK, ChainCalls, Transactions
<1>n. call[c].tx.first \in 0 .. MaxRound /\ call[c].tx.first <= round
  BY <1>t DEF ChainInv, BuiltBefore, ChainCalls, Transactions
<1> DEFINE answer == IF call[c].tx.method = "verify_consent" THEN "false" ELSE "raised"
<1> DEFINE later == [call[c] EXCEPT !.phase = answer]
<1>1. later \in ChainCalls /\ later.tx = call[c].tx /\ later.phase \in {"false", "raised"}
  BY <1>t DEF ChainCalls, Phases
<1>2. call' = [call EXCEPT ![c] = later]
  BY <1>t DEF Raise, ChainCalls
<1>3. ~Expired(call[c].tx) => round < call[c].tx.first + Validity
  BY <1>t, <1>n DEF Expired, Validity
<1>4. InUse(c) => \A d \in Caller \ {c} : InUse(d) => call[d].tx # call[c].tx
  BY DEF ChainInv, OwnTransaction
<1> HIDE DEF later, answer
<1>5. QED
  BY <1>1, <1>2, <1>3, <1>4, <1>n, CallMoves

LEMMA BlockKeeps ==
  ASSUME ChainInv, NEW txs, Block(txs)
  PROVE  ChainInv'
<1>t. /\ pool \subseteq Transactions /\ confirmed \subseteq Effects /\ call \in [Caller -> ChainCalls]
      /\ round \in 0 .. MaxRound
  BY DEF ChainInv, ChainTypeOK, ChainCalls, Transactions, Effects
<1>b. /\ round < MaxRound /\ round' = round + 1 /\ call' = call
      /\ txs \subseteq pool
      /\ confirmed' = confirmed \union {[tx |-> tx, round |-> round + 1] : tx \in txs}
      /\ pool' = {tx \in pool \ txs : round + 1 < tx.first + Validity}
  BY DEF Block
<1>n. MaxRound \in Nat /\ \A tx \in Transactions : tx.first \in Nat
  BY ChainAssumption DEF Transactions
<1>x. /\ \A e \in confirmed' : e \in confirmed \/ (e.tx \in txs /\ e.round = round + 1 /\ e = [tx |-> e.tx, round |-> round + 1])
      /\ \A e \in confirmed : e \in confirmed'
      /\ \A tx \in txs : \E e \in confirmed' : e.tx = tx
  <2>1. ASSUME NEW tx \in txs PROVE \E e \in confirmed' : e.tx = tx
    <3>1. [tx |-> tx, round |-> round + 1] \in confirmed' /\ [tx |-> tx, round |-> round + 1].tx = tx
      BY <1>b
    <3>2. QED
      BY <3>1
  <2>2. ASSUME NEW e \in confirmed', e \notin confirmed
        PROVE  e.tx \in txs /\ e.round = round + 1 /\ e = [tx |-> e.tx, round |-> round + 1]
    <3>1. PICK tx \in txs : e = [tx |-> tx, round |-> round + 1]
      BY <1>b, <2>2
    <3>2. QED
      BY <3>1
  <2>3. QED
    BY <2>1, <2>2, <1>b
<1>o. \A tx \in txs : ~InLedger(tx) /\ tx.first <= round /\ round < tx.first + Validity
  BY <1>b DEF ChainInv, PoolOpen
<1>i. \A tx : InLedger(tx)' <=> InLedger(tx) \/ tx \in txs
  BY <1>x DEF InLedger
<1>1. ChainTypeOK'
  <2>1. confirmed' \subseteq Effects
    BY <1>t, <1>b, <1>n DEF Effects
  <2>2. round' \in 0 .. MaxRound /\ pool' \subseteq Transactions
    BY <1>t, <1>b, <1>n
  <2>3. QED
    BY <1>t, <1>b, <2>1, <2>2 DEF ChainTypeOK, ChainCalls, Transactions, Effects
<1>2. PoolOpen'
  BY <1>t, <1>b, <1>n, <1>i DEF ChainInv, PoolOpen
<1>3. EffectsOnce'
  <2>1. ASSUME NEW e \in confirmed', NEW f \in confirmed', e.tx = f.tx PROVE e = f
    BY <2>1, <1>x, <1>o DEF ChainInv, EffectsOnce, InLedger
  <2>2. ASSUME NEW e \in confirmed' PROVE e.round \in e.tx.first + 1 .. e.tx.first + Validity
    <3>1. CASE e \in confirmed
      BY <3>1 DEF ChainInv, EffectsOnce
    <3>2. CASE e.tx \in txs /\ e.round = round + 1
      BY <3>2, <1>t, <1>b, <1>n, <1>o DEF Validity
    <3>3. QED
      BY <3>1, <3>2, <1>x
  <2>3. QED
    BY <2>1, <2>2 DEF EffectsOnce
<1>4. BuiltBefore'
  BY <1>t, <1>b DEF ChainInv, BuiltBefore, ChainCalls, Transactions
<1>5. ReturnedTook' /\ OwnTransaction'
  BY <1>b, <1>x DEF ChainInv, ReturnedTook, OwnTransaction, InUse, InLedger
<1>6. WaitedFor'
  <2> SUFFICES ASSUME NEW c \in Caller, call[c].phase = "waiting"
               PROVE  call[c].tx \in pool' \/ InLedger(call[c].tx)' \/ Expired(call[c].tx)'
    BY <1>b DEF WaitedFor, InLedger, Expired
  <2>1. call[c].tx \in Transactions /\ call[c].tx.first \in Nat
    BY <1>t DEF ChainCalls, Transactions
  <2>2. call[c].tx \in pool \/ InLedger(call[c].tx) \/ Expired(call[c].tx)
    BY DEF ChainInv, WaitedFor
  <2>3. CASE call[c].tx \in pool
    BY <2>1, <2>3, <1>t, <1>b, <1>x DEF InLedger, Expired, Validity
  <2>4. CASE InLedger(call[c].tx)
    BY <2>4, <1>b, <1>x DEF InLedger
  <2>5. CASE Expired(call[c].tx)
    BY <2>1, <2>5, <1>t, <1>b DEF Expired, Validity
  <2>6. QED
    BY <2>2, <2>3, <2>4, <2>5
<1>7. QED
  BY <1>1, <1>2, <1>3, <1>4, <1>5, <1>6 DEF ChainInv

LEMMA ChainStep ==
  ChainInv /\ [ChainNext]_chainVars => ChainInv'
<1> SUFFICES ASSUME ChainInv, [ChainNext]_chainVars PROVE ChainInv'
  OBVIOUS
<1>t. /\ call \in [Caller -> ChainCalls] /\ round \in 0 .. MaxRound /\ pool \subseteq Transactions
      /\ MaxRound \in Nat /\ MaxCalls \in Nat
  BY ChainAssumption DEF ChainInv, ChainTypeOK, ChainCalls, Transactions
<1>n. \A c \in Caller : call[c].tx \in Transactions /\ call[c].tx.first \in 0 .. MaxRound /\ call[c].tx.first <= round
  BY <1>t DEF ChainInv, BuiltBefore, ChainCalls, Transactions
<1>1. ASSUME NEW c \in Caller, NEW method \in Method, Build(c, method) PROVE ChainInv'
  <2> DEFINE later == [phase |-> "built", tx |-> Tx(method, round), sent |-> round,
                       number |-> call[c].number + 1]
  <2>1. later \in ChainCalls /\ later.phase = "built" /\ later.tx.first = round
    BY <1>1, <1>t DEF Build, ChainCalls, Transactions, Tx, Phases
  <2>2. call' = [call EXCEPT ![c] = later] /\ UNCHANGED <<round, pool, confirmed>>
    BY <1>1 DEF Build
  <2>3. later.tx.first <= round
    BY <1>t, <2>1
  <2> HIDE DEF later
  <2>4. QED
    BY <2>1, <2>2, <2>3, CallMoves
<1>2. ASSUME NEW c \in Caller, Send(c) PROVE ChainInv'
  <2>1. CASE call[c].tx \notin pool /\ ~InLedger(call[c].tx) /\ ~Expired(call[c].tx)
    <3> DEFINE later == [call[c] EXCEPT !.phase = "waiting", !.sent = round]
    <3>1. later \in ChainCalls /\ later.phase = "waiting" /\ later.tx = call[c].tx
      BY <1>t DEF ChainCalls, Phases
    <3>2. call' = [call EXCEPT ![c] = later] /\ pool' = pool \union {call[c].tx} /\ UNCHANGED <<round, confirmed>>
      BY <1>2, <2>1, <1>t DEF Send, ChainCalls
    <3>3. round < call[c].tx.first + Validity
      BY <2>1, <1>t, <1>n DEF Expired, Validity
    <3>4. \A d \in Caller \ {c} : InUse(d) => call[d].tx # call[c].tx
      BY <2>1 DEF ChainInv, WaitedFor, ReturnedTook, InUse
    <3> HIDE DEF later
    <3>5. QED
      BY <2>1, <3>1, <3>2, <3>3, <3>4, <1>n, CallMoves
  <2>2. CASE Raise(c) /\ UNCHANGED pool
    BY <1>2, <2>2, CallRaises DEF Send
  <2>3. QED
    BY <1>2, <2>1, <2>2 DEF Send
<1>3. ASSUME NEW c \in Caller, SendFails(c) PROVE ChainInv'
  BY <1>3, CallRaises DEF SendFails
<1>4. ASSUME NEW c \in Caller, Return(c) PROVE ChainInv'
  <2> DEFINE later == [call[c] EXCEPT !.phase = "returned"]
  <2>1. later \in ChainCalls /\ later.phase = "returned" /\ later.tx = call[c].tx
    BY <1>t DEF ChainCalls, Phases
  <2>2. call' = [call EXCEPT ![c] = later] /\ UNCHANGED <<round, pool, confirmed>> /\ InLedger(call[c].tx)
    BY <1>4, <1>t DEF Return, ChainCalls
  <2>3. \A d \in Caller \ {c} : InUse(d) => call[d].tx # call[c].tx
    BY <1>4 DEF Return, ChainInv, OwnTransaction, InUse
  <2> HIDE DEF later
  <2>4. QED
    BY <2>1, <2>2, <2>3, <1>n, CallMoves
<1>5. ASSUME NEW c \in Caller, GiveUp(c) PROVE ChainInv'
  BY <1>5, CallRaises DEF GiveUp
<1>9. ASSUME NEW c \in Caller, WaitFails(c) PROVE ChainInv'
  BY <1>9, CallRaises DEF WaitFails, InUse
<1>6. ASSUME NEW txs \in SUBSET pool, Block(txs) PROVE ChainInv'
  BY <1>6, BlockKeeps
<1>7. CASE UNCHANGED chainVars
  BY <1>7 DEF chainVars, ChainInv, ChainTypeOK, PoolOpen, EffectsOnce, BuiltBefore,
     ReturnedTook, OwnTransaction, InUse, WaitedFor, InLedger, Expired
<1>8. QED
  BY <1>1, <1>2, <1>3, <1>4, <1>5, <1>6, <1>7, <1>9 DEF ChainNext

LEMMA ChainInvImplies == ChainInv => ChainClientSafe
<1> SUFFICES ASSUME ChainInv PROVE ChainClientSafe
  OBVIOUS
<1>1. ChainTypeOK /\ WaitedFor
  BY DEF ChainInv
<1>2. OwnEffect
  BY DEF ChainInv, OwnTransaction, InUse, OwnEffect
<1>3. TakesEffectOnce
  <2>1. ASSUME NEW e \in confirmed PROVE e.round \in Nat /\ e.tx.first \in Nat /\ e.round > e.tx.first
    BY <1>1 DEF ChainInv, EffectsOnce, ChainTypeOK
  <2>2. QED
    BY <2>1 DEF ChainInv, EffectsOnce, ReturnedTook, InLedger, TakesEffectOnce
<1>4. QED
  BY <1>1, <1>2, <1>3 DEF ChainClientSafe

(***************************************************************************)
(* The hash trees.  A node has the height of its level, so that a proof    *)
(* that leaves a level out never meets the root, and one that does not     *)
(* climbs from its own leaf only.                                          *)
(***************************************************************************)
(* The levels of a tree are what the loop computes.                        *)
LEMMA LevelsFollow ==
  ASSUME NEW leaves, Len(leaves) \in Nat
  PROVE  /\ DOMAIN Levels(leaves) = 0 .. Len(leaves)
         /\ Levels(leaves)[0] = leaves
         /\ \A k \in 0 .. Len(leaves) - 1 : Levels(leaves)[k + 1] = NextLevel(Levels(leaves)[k])
<1> DEFINE n == Len(leaves)
           Follows(g, m) == /\ DOMAIN g = 0 .. m /\ g[0] = leaves
                            /\ \A k \in 0 .. m - 1 : g[k + 1] = NextLevel(g[k])
           S == {m \in Nat : \E g : Follows(g, m)}
<1>1. 0 \in S
  <2>1. Follows([k \in 0 .. 0 |-> leaves], 0)
    OBVIOUS
  <2>2. QED
    BY <2>1
<1>2. ASSUME NEW m \in Nat, m \in S PROVE m + 1 \in S
  <2>1. PICK g : Follows(g, m)
    BY <1>2
  <2> DEFINE h == [k \in 0 .. m + 1 |-> IF k <= m THEN g[k] ELSE NextLevel(g[m])]
  <2>2. DOMAIN h = 0 .. m + 1 /\ h[0] = leaves
    BY <2>1
  <2>3. ASSUME NEW k \in 0 .. m PROVE h[k + 1] = NextLevel(h[k])
    <3>1. h[k] = g[k] /\ k + 1 \in 0 .. m + 1
      OBVIOUS
    <3>2. CASE k = m
      BY <3>1, <3>2
    <3>3. CASE k \in 0 .. m - 1
      <4>1. h[k + 1] = g[k + 1]
        BY <3>3
      <4>2. QED
        BY <2>1, <3>1, <3>3, <4>1
    <3>4. QED
      BY <3>2, <3>3
  <2>4. Follows(h, m + 1)
    <3> HIDE DEF h
    <3>1. \A k \in 0 .. (m + 1) - 1 : k \in 0 .. m
      OBVIOUS
    <3>2. \A k \in 0 .. (m + 1) - 1 : h[k + 1] = NextLevel(h[k])
      BY <2>3, <3>1
    <3>3. QED
      BY <2>2, <3>2
  <2> HIDE DEF h
  <2>5. \E e : Follows(e, m + 1)
    BY <2>4
  <2>6. QED
    BY <2>5
<1> HIDE DEF S
<1>3. n \in S
  BY <1>1, <1>2, EveryNatural
<1>4. PICK g : Follows(g, n)
  BY <1>3 DEF S
<1> DEFINE f == [k \in 0 .. n |-> g[k]]
<1>5. f = [k \in 0 .. n |-> IF k = 0 THEN leaves ELSE NextLevel(f[k - 1])]
  BY <1>4
<1>6. \E e : e = [k \in 0 .. n |-> IF k = 0 THEN leaves ELSE NextLevel(e[k - 1])]
  BY <1>5
<1>7. Levels(leaves) = [k \in 0 .. n |-> IF k = 0 THEN leaves ELSE NextLevel(Levels(leaves)[k - 1])]
  BY <1>6, Zenon DEF Levels
<1> HIDE DEF f
<1>8. QED
  BY <1>7

(* Where a leaf's ancestors are.                                           *)
LEMMA PathFollows ==
  ASSUME NEW tree, Len(tree) \in Nat, NEW leaf \in Nat
  PROVE  /\ Path(tree, leaf)[0] = leaf
         /\ \A k \in 0 .. Len(tree) : Path(tree, leaf)[k] \in Nat
         /\ \A k \in 0 .. Len(tree) - 1 : Path(tree, leaf)[k + 1] = Path(tree, leaf)[k] \div 2
<1> DEFINE n == Len(tree)
           Follows(g, m) == /\ g \in [0 .. m -> Nat] /\ g[0] = leaf
                            /\ \A k \in 0 .. m - 1 : g[k + 1] = g[k] \div 2
           S == {m \in Nat : \E g : Follows(g, m)}
<1>1. 0 \in S
  <2>1. Follows([k \in 0 .. 0 |-> leaf], 0)
    OBVIOUS
  <2>2. QED
    BY <2>1
<1>2. ASSUME NEW m \in Nat, m \in S PROVE m + 1 \in S
  <2>1. PICK g : Follows(g, m)
    BY <1>2
  <2> DEFINE h == [k \in 0 .. m + 1 |-> IF k <= m THEN g[k] ELSE g[m] \div 2]
  <2>2. h \in [0 .. m + 1 -> Nat] /\ h[0] = leaf
    <3>1. \A k \in 0 .. m : g[k] \in Nat
      BY <2>1
    <3>2. g[m] \in Nat /\ g[m] \div 2 \in Nat
      BY <3>1
    <3>3. QED
      BY <2>1, <3>1, <3>2
  <2>3. ASSUME NEW k \in 0 .. m PROVE h[k + 1] = h[k] \div 2
    <3>1. h[k] = g[k] /\ k + 1 \in 0 .. m + 1
      OBVIOUS
    <3>2. CASE k = m
      BY <3>1, <3>2
    <3>3. CASE k \in 0 .. m - 1
      <4>1. h[k + 1] = g[k + 1]
        BY <3>3
      <4>2. QED
        BY <2>1, <3>1, <3>3, <4>1
    <3>4. QED
      BY <3>2, <3>3
  <2> HIDE DEF h
  <2>4. \A k \in 0 .. (m + 1) - 1 : h[k + 1] = h[k] \div 2
    <3>1. \A k \in 0 .. (m + 1) - 1 : k \in 0 .. m
      OBVIOUS
    <3>2. QED
      BY <2>3, <3>1
  <2>5. \E e : Follows(e, m + 1)
    BY <2>2, <2>4
  <2>6. QED
    BY <2>5
<1> HIDE DEF S
<1>3. n \in S
  BY <1>1, <1>2, EveryNatural
<1>4. PICK g : Follows(g, n)
  BY <1>3 DEF S
<1>5. g = [k \in 0 .. n |-> IF k = 0 THEN leaf ELSE g[k - 1] \div 2]
  BY <1>4
<1>6. \E e : e = [k \in 0 .. n |-> IF k = 0 THEN leaf ELSE e[k - 1] \div 2]
  BY <1>5
<1> DEFINE f == Path(tree, leaf)
<1>7. f = [k \in 0 .. n |-> IF k = 0 THEN leaf ELSE f[k - 1] \div 2]
  BY <1>6, Zenon DEF Path
<1> HIDE DEF f
<1>8. f[0] = leaf /\ \A k \in 0 .. n - 1 : f[k + 1] = f[k] \div 2
  BY <1>7
<1>9. \A k \in 0 .. n : f[k] \in Nat
  <2> DEFINE T == {k \in 0 .. n : f[k] \in Nat}
  <2>1. 0 \in T
    BY <1>8
  <2>2. ASSUME NEW k \in 0 .. n - 1, k \in T PROVE k + 1 \in T
    BY <1>8, <2>2
  <2> HIDE DEF T
  <2>3. \A k \in 0 .. n : k \in T
    BY <2>1, <2>2, EveryUpTo
  <2>4. QED
    BY <2>3 DEF T
<1>10. QED
  BY <1>8, <1>9 DEF f

(* What a verification has computed after each step of the proof.          *)
LEMMA ClimbFollows ==
  ASSUME NEW leaf, NEW proof, Len(proof) \in Nat
  PROVE  /\ Climb(leaf, proof)[0] = leaf
         /\ \A k \in 0 .. Len(proof) - 1 :
                Climb(leaf, proof)[k + 1] = Climbed(Climb(leaf, proof)[k], proof[k + 1])
<1> DEFINE n == Len(proof)
           Follows(g, m) == /\ DOMAIN g = 0 .. m /\ g[0] = leaf
                            /\ \A k \in 0 .. m - 1 : g[k + 1] = Climbed(g[k], proof[k + 1])
           S == {m \in Nat : \E g : Follows(g, m)}
<1>1. 0 \in S
  <2>1. Follows([k \in 0 .. 0 |-> leaf], 0)
    OBVIOUS
  <2>2. QED
    BY <2>1
<1>2. ASSUME NEW m \in Nat, m \in S PROVE m + 1 \in S
  <2>1. PICK g : Follows(g, m)
    BY <1>2
  <2> DEFINE h == [k \in 0 .. m + 1 |-> IF k <= m THEN g[k] ELSE Climbed(g[m], proof[m + 1])]
  <2>2. DOMAIN h = 0 .. m + 1 /\ h[0] = leaf
    BY <2>1
  <2>3. ASSUME NEW k \in 0 .. m PROVE h[k + 1] = Climbed(h[k], proof[k + 1])
    <3>1. h[k] = g[k] /\ k + 1 \in 0 .. m + 1
      OBVIOUS
    <3>2. CASE k = m
      BY <3>1, <3>2
    <3>3. CASE k \in 0 .. m - 1
      <4>1. h[k + 1] = g[k + 1]
        BY <3>3
      <4>2. QED
        BY <2>1, <3>1, <3>3, <4>1
    <3>4. QED
      BY <3>2, <3>3
  <2> HIDE DEF h
  <2>4. \A k \in 0 .. (m + 1) - 1 : h[k + 1] = Climbed(h[k], proof[k + 1])
    <3>1. \A k \in 0 .. (m + 1) - 1 : k \in 0 .. m
      OBVIOUS
    <3>2. QED
      BY <2>3, <3>1
  <2>5. \E e : Follows(e, m + 1)
    BY <2>2, <2>4
  <2>6. QED
    BY <2>5
<1> HIDE DEF S
<1>3. n \in S
  BY <1>1, <1>2, EveryNatural
<1>4. PICK g : Follows(g, n)
  BY <1>3 DEF S
<1> DEFINE f == [k \in 0 .. n |-> g[k]]
<1>5. f = [k \in 0 .. n |-> IF k = 0 THEN leaf ELSE Climbed(f[k - 1], proof[k])]
  BY <1>4
<1>6. \E e : e = [k \in 0 .. n |-> IF k = 0 THEN leaf ELSE Climbed(e[k - 1], proof[k])]
  BY <1>5
<1>7. Climb(leaf, proof) =
         [k \in 0 .. n |-> IF k = 0 THEN leaf ELSE Climbed(Climb(leaf, proof)[k - 1], proof[k])]
  BY <1>6, Zenon DEF Climb
<1> HIDE DEF f
<1>8. QED
  BY <1>7
LEMMA NextLevelShape ==
  ASSUME NEW level, Len(level) \in Nat
  PROVE  /\ Len(NextLevel(level)) = (Len(level) + 1) \div 2
         /\ DOMAIN NextLevel(level) = 1 .. Len(NextLevel(level))
<1>1. (Len(level) + 1) \div 2 \in Nat
  OBVIOUS
<1>2. QED
  BY <1>1 DEF NextLevel

(* No level is empty, and they shrink until one has a single element.      *)
LEMMA LevelLengths ==
  ASSUME NEW leaves, Len(leaves) \in Nat \ {0}, NEW k \in 0 .. Len(leaves)
  PROVE  /\ Len(Levels(leaves)[k]) \in Nat \ {0}
         /\ Len(Levels(leaves)[k]) = 1 \/ Len(Levels(leaves)[k]) <= Len(leaves) - k
<1> DEFINE n == Len(leaves)
           L == Levels(leaves)
           S == {j \in 0 .. n : Len(L[j]) \in Nat \ {0} /\ (Len(L[j]) = 1 \/ Len(L[j]) <= n - j)}
<1>1. 0 \in S
  BY LevelsFollow
<1>2. ASSUME NEW j \in 0 .. n - 1, j \in S PROVE j + 1 \in S
  <2>1. Len(L[j]) \in Nat \ {0} /\ (Len(L[j]) = 1 \/ Len(L[j]) <= n - j)
    BY <1>2
  <2>2. Len(L[j + 1]) = (Len(L[j]) + 1) \div 2
    BY <2>1, LevelsFollow, NextLevelShape
  <2>4. Len(L[j + 1]) \in Nat \ {0} /\ (Len(L[j + 1]) = 1 \/ Len(L[j + 1]) <= n - (j + 1))
    <3> HIDE DEF L
    <3>1. PICK b : b = Len(L[j])
      OBVIOUS
    <3>2. PICK c : c = Len(L[j + 1])
      OBVIOUS
    <3>3. /\ b \in Nat \ {0} /\ (b = 1 \/ b <= n - j) /\ c = (b + 1) \div 2
      BY <2>1, <2>2, <3>1, <3>2
    <3>4. c \in Nat \ {0} /\ (c = 1 \/ c <= b - 1)
      BY ONLY <3>3
    <3>5. c = 1 \/ c <= n - (j + 1)
      BY <3>3, <3>4
    <3>6. QED
      BY <3>2, <3>4, <3>5
  <2>5. j + 1 \in 0 .. n
    OBVIOUS
  <2> HIDE DEF L
  <2>6. QED
    BY <2>4, <2>5
<1> HIDE DEF S
<1>3. k \in S
  BY <1>1, <1>2, EveryUpTo
<1>4. QED
  BY <1>3 DEF S

LEMMA HeightIs ==
  ASSUME NEW leaves, Len(leaves) \in Nat \ {0}
  PROVE  /\ Height(leaves) \in 0 .. Len(leaves)
         /\ Len(Levels(leaves)[Height(leaves)]) = 1
         /\ \A k \in 0 .. Height(leaves) - 1 : Len(Levels(leaves)[k]) # 1
<1> DEFINE n == Len(leaves)
           S == {k \in 0 .. n : Len(Levels(leaves)[k]) = 1}
           First(h) == /\ Len(Levels(leaves)[h]) = 1
                       /\ \A k \in 0 .. h - 1 : Len(Levels(leaves)[k]) # 1
<1>1. n - 1 \in S
  <2>1. n - 1 \in 0 .. n /\ n - (n - 1) = 1
    OBVIOUS
  <2>2. Len(Levels(leaves)[n - 1]) = 1 \/ Len(Levels(leaves)[n - 1]) <= 1
    BY <2>1, LevelLengths
  <2>3. Len(Levels(leaves)[n - 1]) \in Nat \ {0}
    BY <2>1, LevelLengths
  <2>4. Len(Levels(leaves)[n - 1]) = 1
    <3>1. \A b \in Nat \ {0} : b = 1 \/ b <= 1 => b = 1
      OBVIOUS
    <3>2. QED
      BY <2>2, <2>3, <3>1
  <2>5. QED
    BY <2>1, <2>4
<1>2. S \subseteq Nat
  OBVIOUS
<1>3. PICK h \in S : \A k \in S : h <= k
  BY <1>1, <1>2, LeastNatural
<1>4. h \in 0 .. n /\ First(h)
  BY <1>3
<1> HIDE DEF First
<1>5. \E e \in 0 .. n : First(e)
  BY <1>4
<1>6. Height(leaves) = CHOOSE e \in 0 .. n : First(e)
  BY DEF Height, First
<1>7. Height(leaves) \in 0 .. n /\ First(Height(leaves))
  BY <1>5, <1>6, Zenon
<1>8. QED
  BY <1>7 DEF First
(* How deep a hash is, down its left sides to a leaf.                      *)
HasHeight(hash, k) ==
    \E d : /\ DOMAIN d = 0 .. k /\ d[0] = hash
           /\ \A i \in 0 .. k - 1 : Len(d[i]) = 2 /\ d[i + 1] = d[i][1]
           /\ Len(d[k]) = 1

LEMMA LeafHeight == ASSUME NEW e PROVE HasHeight(Leaf(e), 0)
<1> DEFINE d == [i \in 0 .. 0 |-> Leaf(e)]
<1>1. Len(Leaf(e)) = 1
  BY DEF Leaf
<1>2. DOMAIN d = 0 .. 0 /\ d[0] = Leaf(e) /\ Len(d[0]) = 1
  BY <1>1
<1>3. \A i \in 0 .. 0 - 1 : Len(d[i]) = 2 /\ d[i + 1] = d[i][1]
  OBVIOUS
<1> HIDE DEF d
<1>4. QED
  BY <1>2, <1>3 DEF HasHeight

LEMMA HashHeight ==
  ASSUME NEW left, NEW right, NEW k \in Nat, HasHeight(left, k)
  PROVE  HasHeight(Hash(left, right), k + 1)
<1>1. PICK c : /\ DOMAIN c = 0 .. k /\ c[0] = left
               /\ \A i \in 0 .. k - 1 : Len(c[i]) = 2 /\ c[i + 1] = c[i][1]
               /\ Len(c[k]) = 1
  BY DEF HasHeight
<1> DEFINE d == [i \in 0 .. k + 1 |-> IF i = 0 THEN Hash(left, right) ELSE c[i - 1]]
<1>2. Len(Hash(left, right)) = 2 /\ Hash(left, right)[1] = left
  BY DEF Hash
<1>3. DOMAIN d = 0 .. k + 1 /\ d[0] = Hash(left, right) /\ Len(d[k + 1]) = 1
  BY <1>1
<1>4. \A i \in 1 .. k + 1 : d[i] = c[i - 1]
  OBVIOUS
<1> HIDE DEF d
<1>5. ASSUME NEW i \in 0 .. (k + 1) - 1 PROVE Len(d[i]) = 2 /\ d[i + 1] = d[i][1]
  <2>1. CASE i = 0
    <3>1. d[1] = c[0]
      BY <1>4
    <3>2. QED
      BY <1>1, <1>2, <1>3, <2>1, <3>1
  <2>2. CASE i # 0
    <3>1. i - 1 \in 0 .. k - 1 /\ i \in 1 .. k + 1 /\ i + 1 \in 1 .. k + 1
      BY <2>2
    <3>2. d[i] = c[i - 1] /\ d[i + 1] = c[i]
      BY <1>4, <3>1
    <3>3. Len(c[i - 1]) = 2 /\ c[(i - 1) + 1] = c[i - 1][1]
      BY <1>1, <3>1
    <3>4. QED
      BY <3>2, <3>3
  <2>3. QED
    BY <2>1, <2>2
<1>6. QED
  BY <1>3, <1>5 DEF HasHeight

LEMMA OneHeight ==
  ASSUME NEW hash, NEW j \in Nat, NEW k \in Nat, HasHeight(hash, j), HasHeight(hash, k)
  PROVE  ~ (j < k)
<1> SUFFICES ASSUME j < k PROVE FALSE
  OBVIOUS
<1>1. PICK c : /\ DOMAIN c = 0 .. j /\ c[0] = hash
               /\ \A i \in 0 .. j - 1 : Len(c[i]) = 2 /\ c[i + 1] = c[i][1]
               /\ Len(c[j]) = 1
  BY DEF HasHeight
<1>2. PICK d : /\ DOMAIN d = 0 .. k /\ d[0] = hash
               /\ \A i \in 0 .. k - 1 : Len(d[i]) = 2 /\ d[i + 1] = d[i][1]
               /\ Len(d[k]) = 1
  BY DEF HasHeight
<1> DEFINE S == {i \in 0 .. j : c[i] = d[i]}
<1>3. 0 \in S
  BY <1>1, <1>2
<1>4. ASSUME NEW i \in 0 .. j - 1, i \in S PROVE i + 1 \in S
  <2>1. c[i] = d[i] /\ i \in 0 .. k - 1 /\ i + 1 \in 0 .. j
    BY <1>4
  <2>2. QED
    BY <1>1, <1>2, <2>1
<1> HIDE DEF S
<1>5. j \in S
  BY <1>3, <1>4, EveryUpTo
<1>6. c[j] = d[j] /\ j \in 0 .. k - 1
  BY <1>5 DEF S
<1>7. Len(c[j]) = 1 /\ Len(d[j]) = 2
  BY <1>1, <1>2, <1>6
<1>8. QED
  BY <1>6, <1>7
(* Every node of the k-th level has height k.                              *)
LEMMA NodeHeights ==
  ASSUME NEW leaves, Len(leaves) \in Nat \ {0},
         \A i \in 1 .. Len(leaves) : HasHeight(leaves[i], 0),
         NEW k \in 0 .. Len(leaves)
  PROVE  \A i \in 1 .. Len(Levels(leaves)[k]) : HasHeight(Levels(leaves)[k][i], k)
<1> DEFINE n == Len(leaves)
           L == Levels(leaves)
           S == {j \in 0 .. n : \A i \in 1 .. Len(L[j]) : HasHeight(L[j][i], j)}
<1>1. 0 \in S
  BY LevelsFollow
<1>2. ASSUME NEW j \in 0 .. n - 1, j \in S PROVE j + 1 \in S
  <2>1. j \in 0 .. n /\ j + 1 \in 0 .. n /\ j \in Nat
    OBVIOUS
  <2>2. Len(L[j]) \in Nat /\ L[j + 1] = NextLevel(L[j])
    BY <2>1, LevelLengths, LevelsFollow
  <2>3. \A i \in 1 .. Len(L[j]) : HasHeight(L[j][i], j)
    BY <1>2
  <2> DEFINE level == L[j]
  <2>4. Len(NextLevel(level)) = (Len(level) + 1) \div 2
    BY <2>2, NextLevelShape
  <2>5. ASSUME NEW i \in 1 .. Len(L[j + 1]) PROVE HasHeight(L[j + 1][i], j + 1)
    <3> HIDE DEF level
    <3>1. i \in 1 .. (Len(level) + 1) \div 2 /\ Len(level) \in Nat
      BY <2>2, <2>4 DEF level
    <3>2. 2 * i - 1 \in 1 .. Len(level)
      BY <3>1
    <3>3. PICK right : NextLevel(level)[i] = Hash(level[2 * i - 1], right)
      BY <3>1 DEF NextLevel
    <3>4. HasHeight(level[2 * i - 1], j)
      BY <2>3, <3>2 DEF level
    <3>5. HasHeight(NextLevel(level)[i], j + 1)
      BY <2>1, <3>3, <3>4, HashHeight
    <3>6. QED
      BY <2>2, <3>5 DEF level
  <2> HIDE DEF L, level
  <2>6. QED
    BY <2>1, <2>5
<1> HIDE DEF S
<1>3. k \in S
  BY <1>1, <1>2, EveryUpTo
<1>4. QED
  BY <1>3 DEF S

(* The step of a proof against what the tree has there.                    *)
LEMMA ParentIs ==
  ASSUME NEW level, Len(level) \in Nat, NEW p \in 0 .. Len(level) - 1
  PROVE  /\ p \div 2 \in 0 .. Len(NextLevel(level)) - 1
         /\ Sibling(p) \in Nat
         /\ Sibling(p) >= Len(level) =>
               /\ Step(level, p) = NoStep
               /\ NextLevel(level)[p \div 2 + 1] = Hash(level[p + 1], level[p + 1])
         /\ ~ (Sibling(p) >= Len(level)) =>
               /\ Sibling(p) + 1 \in 1 .. Len(level)
               /\ \/ /\ Step(level, p) = [position |-> "left", hash |-> level[Sibling(p) + 1]]
                     /\ NextLevel(level)[p \div 2 + 1] = Hash(level[Sibling(p) + 1], level[p + 1])
                  \/ /\ Step(level, p) = [position |-> "right", hash |-> level[Sibling(p) + 1]]
                     /\ NextLevel(level)[p \div 2 + 1] = Hash(level[p + 1], level[Sibling(p) + 1])
<1> DEFINE i == p \div 2 + 1
           n == Len(level)
<1>1. p \in Nat /\ n \in Nat /\ p < n
  OBVIOUS
<1>2. p \div 2 \in 0 .. ((n + 1) \div 2) - 1 /\ i \in 1 .. (n + 1) \div 2
  BY <1>1
<1>3. NextLevel(level)[i] = Hash(level[2 * i - 1], IF 2 * i <= n THEN level[2 * i] ELSE level[2 * i - 1])
  BY <1>2 DEF NextLevel
<1>4. Len(NextLevel(level)) = (n + 1) \div 2
  BY NextLevelShape
<1>5. CASE p % 2 = 0
  <2>1. Sibling(p) = p + 1 /\ 2 * i - 1 = p + 1 /\ 2 * i = p + 2
    BY <1>1, <1>5 DEF Sibling
  <2>2. CASE p + 1 >= n
    <3>1. NextLevel(level)[i] = Hash(level[p + 1], level[p + 1])
      BY <1>1, <1>3, <2>1, <2>2
    <3>2. Step(level, p) = NoStep
      BY <2>1, <2>2 DEF Step
    <3>3. QED
      BY <1>1, <1>2, <1>4, <2>1, <2>2, <3>1, <3>2
  <2>3. CASE ~ (p + 1 >= n)
    <3>1. NextLevel(level)[i] = Hash(level[p + 1], level[p + 2])
      BY <1>1, <1>3, <2>1, <2>3
    <3>2. Step(level, p) = [position |-> "right", hash |-> level[p + 2]]
      <4>1. ~ (Sibling(p) >= Len(level)) /\ ~ (Sibling(p) < p) /\ Sibling(p) + 1 = p + 2
        BY <1>1, <2>1, <2>3
      <4>2. QED
        BY <4>1 DEF Step
    <3>3. QED
      BY <1>1, <1>2, <1>4, <2>1, <2>3, <3>1, <3>2
  <2>4. QED
    BY <2>2, <2>3
<1>6. CASE p % 2 # 0
  <2>1. Sibling(p) = p - 1 /\ 2 * i - 1 = p /\ 2 * i = p + 1
    BY <1>1, <1>6 DEF Sibling
  <2>2. NextLevel(level)[i] = Hash(level[p], level[p + 1])
    BY <1>1, <1>3, <2>1
  <2>3. /\ ~ (Sibling(p) >= Len(level)) /\ Sibling(p) < p /\ Sibling(p) + 1 = p
        /\ p \in 1 .. n /\ Sibling(p) \in Nat
    BY <1>1, <1>6, <2>1
  <2>4. Step(level, p) = [position |-> "left", hash |-> level[p]]
    BY <2>3 DEF Step
  <2>5. QED
    BY <1>1, <1>2, <1>4, <2>2, <2>3, <2>4
<1>7. QED
  BY <1>5, <1>6

(* One step up: the two agree if they did and the sibling is there.        *)
LEMMA ClimbOne ==
  ASSUME NEW level, Len(level) \in Nat, NEW p \in 0 .. Len(level) - 1, NEW k \in Nat,
         \A i \in 1 .. Len(level) : HasHeight(level[i], k),
         NEW hash, NEW j \in 0 .. k, HasHeight(hash, j)
  PROVE  /\ \E h \in 0 .. k + 1 : HasHeight(Climbed(hash, Step(level, p)), h)
         /\ Climbed(hash, Step(level, p)) = NextLevel(level)[p \div 2 + 1]
                <=> hash = level[p + 1] /\ ~ (Sibling(p) >= Len(level))
<1> DEFINE up == NextLevel(level)[p \div 2 + 1]
           new == Climbed(hash, Step(level, p))
           there == level[Sibling(p) + 1]
<1>1. p + 1 \in 1 .. Len(level) /\ j \in Nat /\ k + 1 \in Nat /\ j + 1 \in 0 .. k + 1 /\ j \in 0 .. k + 1
         /\ j < k + 1 /\ k + 1 \in 0 .. k + 1
  OBVIOUS
<1>2. HasHeight(level[p + 1], k)
  BY <1>1
<1>3. CASE Sibling(p) >= Len(level)
  <2>1. Step(level, p) = NoStep /\ up = Hash(level[p + 1], level[p + 1])
    BY <1>3, ParentIs
  <2>2. new = hash
    BY <2>1 DEF Climbed, NoStep
  <2>3. HasHeight(up, k + 1)
    BY <1>2, <2>1, HashHeight
  <2>4. hash # up
    <3> HIDE DEF up, new
    <3> QED BY <1>1, <2>3, OneHeight
  <2> HIDE DEF up, new
  <2>5. new # up /\ HasHeight(new, j)
    BY <2>2, <2>4
  <2>6. QED
    BY <1>1, <1>3, <2>5 DEF new, up
<1>4. CASE ~ (Sibling(p) >= Len(level))
  <2>1. HasHeight(there, k)
    BY <1>4, ParentIs
  <2>2. CASE /\ Step(level, p) = [position |-> "left", hash |-> there]
             /\ up = Hash(there, level[p + 1])
    <3>1. new = Hash(there, hash)
      BY <2>2 DEF Climbed
    <3>2. HasHeight(new, k + 1)
      BY <2>1, <3>1, HashHeight
    <3>3. new = up <=> hash = level[p + 1]
      BY <2>2, <3>1 DEF Hash
    <3> HIDE DEF up, new
    <3>4. QED
      BY <1>1, <1>4, <3>2, <3>3 DEF up, new
  <2>3. CASE /\ Step(level, p) = [position |-> "right", hash |-> there]
             /\ up = Hash(level[p + 1], there)
    <3>1. new = Hash(hash, there)
      BY <2>3 DEF Climbed
    <3>2. HasHeight(new, j + 1)
      BY <1>1, <3>1, HashHeight
    <3>3. new = up <=> hash = level[p + 1]
      BY <2>3, <3>1 DEF Hash
    <3> HIDE DEF up, new
    <3>4. QED
      BY <1>1, <1>4, <3>2, <3>3 DEF up, new
  <2>4. QED
    BY <1>4, <2>2, <2>3, ParentIs
<1>5. QED
  BY <1>3, <1>4
LEMMA TreeIs ==
  ASSUME NEW leaves, Len(leaves) \in Nat \ {0}
  PROVE  /\ Len(Tree(leaves)) = Height(leaves) + 1
         /\ \A k \in 1 .. Height(leaves) + 1 : Tree(leaves)[k] = Levels(leaves)[k - 1]
<1>1. Height(leaves) \in Nat
  BY HeightIs
<1>2. QED
  BY <1>1 DEF Tree

(* The ancestors of a leaf are nodes of the tree, the last is the root.    *)
LEMMA PathInside ==
  ASSUME NEW leaves, Len(leaves) \in Nat \ {0}, NEW leaf \in 0 .. Len(leaves) - 1,
         NEW k \in 0 .. Height(leaves)
  PROVE  Path(Tree(leaves), leaf)[k] \in 0 .. Len(Levels(leaves)[k]) - 1
<1> DEFINE P == Path(Tree(leaves), leaf)
           L == Levels(leaves)
           H == Height(leaves)
           S == {j \in 0 .. H : P[j] \in 0 .. Len(L[j]) - 1}
<1>1. H \in 0 .. Len(leaves) /\ Len(Tree(leaves)) = H + 1 /\ leaf \in Nat
  BY HeightIs, TreeIs
<1>2. P[0] = leaf /\ \A j \in 0 .. H : P[j + 1] = P[j] \div 2
  BY <1>1, PathFollows
<1>3. 0 \in S
  BY <1>1, <1>2, LevelsFollow
<1>4. ASSUME NEW j \in 0 .. H - 1, j \in S PROVE j + 1 \in S
  <2>1. j \in 0 .. Len(leaves) - 1 /\ j \in 0 .. Len(leaves) /\ j \in 0 .. H /\ j + 1 \in 0 .. H
    BY <1>1
  <2>2. Len(L[j]) \in Nat /\ L[j + 1] = NextLevel(L[j])
    BY <2>1, LevelLengths, LevelsFollow
  <2>3. P[j] \in 0 .. Len(L[j]) - 1
    BY <1>4
  <2> DEFINE level == L[j]
             p == P[j]
  <2> HIDE DEF level, p
  <2>4. p \div 2 \in 0 .. Len(NextLevel(level)) - 1
    BY <2>2, <2>3, ParentIs DEF level, p
  <2>5. P[j + 1] \in 0 .. Len(L[j + 1]) - 1
    BY <1>2, <2>1, <2>2, <2>4 DEF level, p
  <2> HIDE DEF P, L
  <2>6. QED
    BY <2>1, <2>5
<1> HIDE DEF S
<1>5. k \in S
  <2> HIDE DEF H
  <2>1. H \in Nat /\ k \in 0 .. H
    BY <1>1 DEF H
  <2>2. QED
    BY <1>3, <1>4, <2>1, EveryUpTo
<1>6. QED
  BY <1>5 DEF S

(* The proof of the leaf at a position proves that leaf, and no other, and *)
(* only if every node on its way up has a sibling.                         *)
LEMMA ProofOfLeaf ==
  ASSUME NEW leaves, Len(leaves) \in Nat \ {0},
         \A i \in 1 .. Len(leaves) : HasHeight(leaves[i], 0),
         NEW leaf \in 0 .. Len(leaves) - 1, NEW hash, HasHeight(hash, 0)
  PROVE  VerifyProof(hash, GetProof(Tree(leaves), leaf), Root(leaves))
            <=> hash = leaves[leaf + 1] /\ ~ Alone(Tree(leaves), leaf)
<1> DEFINE T == Tree(leaves)
           L == Levels(leaves)
           H == Height(leaves)
           P == Path(T, leaf)
           proof == GetProof(T, leaf)
           C == Climb(hash, proof)
           Missing(m) == Sibling(P[m]) >= Len(L[m])
           Agrees(k) == C[k] = L[k][P[k] + 1]
                           <=> hash = leaves[leaf + 1] /\ \A m \in 0 .. k - 1 : ~ Missing(m)
           S == {k \in 0 .. H : (\E h \in 0 .. k : HasHeight(C[k], h)) /\ Agrees(k)}
<1>1. H \in 0 .. Len(leaves) /\ Len(T) = H + 1 /\ H \in Nat
  BY HeightIs, TreeIs
<1>2. /\ Len(proof) = H
      /\ \A k \in 0 .. H - 1 : proof[k + 1] = Step(L[k], P[k])
  <2>1. \A k \in 0 .. H - 1 : T[k + 1] = L[k]
    <3>1. \A k \in 0 .. H - 1 : k + 1 \in 1 .. H + 1 /\ (k + 1) - 1 = k
      BY <1>1
    <3>2. QED
      BY <3>1, TreeIs
  <2>2. Len(T) - 1 = H
    BY <1>1
  <2> HIDE DEF T, H, L, P
  <2>3. proof = [k \in 1 .. H |-> Step(T[k], P[k - 1])]
    BY <2>2 DEF GetProof, P
  <2>4. ASSUME NEW k \in 0 .. H - 1 PROVE proof[k + 1] = Step(L[k], P[k])
    <3>1. k + 1 \in 1 .. H /\ (k + 1) - 1 = k
      BY <1>1
    <3>2. QED
      BY <2>1, <2>3, <3>1
  <2> HIDE DEF proof
  <2>5. Len(proof) = H
    BY <1>1, <2>3
  <2>6. QED
    BY <2>4, <2>5
<1>3. C[0] = hash /\ \A k \in 0 .. H - 1 : C[k + 1] = Climbed(C[k], Step(L[k], P[k]))
  <2> HIDE DEF proof
  <2>1. Len(proof) \in Nat
    BY <1>1, <1>2
  <2>2. C[0] = hash /\ \A k \in 0 .. H - 1 : C[k + 1] = Climbed(C[k], proof[k + 1])
    BY <1>2, <2>1, ClimbFollows
  <2> HIDE DEF C
  <2>3. QED
    BY <1>2, <2>2
<1>4. L[0] = leaves /\ P[0] = leaf /\ \A k \in 0 .. H - 1 : P[k + 1] = P[k] \div 2
  BY <1>1, LevelsFollow, PathFollows
<1>5. 0 \in S
  <2> HIDE DEF C, L, P, H
  <2>1. Agrees(0)
    BY <1>3, <1>4
  <2>2. 0 \in 0 .. 0 /\ HasHeight(C[0], 0) /\ 0 \in 0 .. H
    BY <1>1, <1>3
  <2> HIDE DEF Agrees
  <2>3. QED
    BY <2>1, <2>2
<1>6. ASSUME NEW k \in 0 .. H - 1, k \in S PROVE k + 1 \in S
  <2>1. k \in 0 .. Len(leaves) - 1 /\ k \in 0 .. Len(leaves) /\ k \in 0 .. H /\ k + 1 \in 0 .. H
           /\ k \in Nat
    BY <1>1
  <2>2. Len(L[k]) \in Nat /\ L[k + 1] = NextLevel(L[k])
    BY <2>1, LevelLengths, LevelsFollow
  <2>3. P[k] \in 0 .. Len(L[k]) - 1
    BY <2>1, PathInside
  <2>4. \A i \in 1 .. Len(L[k]) : HasHeight(L[k][i], k)
    BY <2>1, NodeHeights
  <2>5. PICK h \in 0 .. k : HasHeight(C[k], h)
    BY <1>6
  <2>6. Agrees(k)
    BY <1>6
  <2> HIDE DEF C, L, P, H, S
  <2>7. /\ \E g \in 0 .. k + 1 : HasHeight(Climbed(C[k], Step(L[k], P[k])), g)
        /\ Climbed(C[k], Step(L[k], P[k])) = NextLevel(L[k])[P[k] \div 2 + 1]
              <=> C[k] = L[k][P[k] + 1] /\ ~ Missing(k)
    BY <2>1, <2>2, <2>3, <2>4, <2>5, ClimbOne
  <2>8. \E g \in 0 .. k + 1 : HasHeight(C[k + 1], g)
    BY <1>3, <2>7
  <2>9. C[k + 1] = L[k + 1][P[k + 1] + 1] <=> C[k] = L[k][P[k] + 1] /\ ~ Missing(k)
    BY <1>3, <1>4, <2>2, <2>7
  <2>10. (\A m \in 0 .. (k + 1) - 1 : ~ Missing(m)) <=> (\A m \in 0 .. k - 1 : ~ Missing(m)) /\ ~ Missing(k)
    <3> HIDE DEF Missing
    <3>1. \A m : m \in 0 .. (k + 1) - 1 <=> m \in 0 .. k - 1 \/ m = k
      BY <2>1
    <3>2. QED
      BY <3>1
  <2>11. Agrees(k + 1)
    <3> HIDE DEF Missing
    <3>1. QED
      BY <2>6, <2>9, <2>10
  <2> HIDE DEF Agrees
  <2>12. QED
    BY <2>1, <2>8, <2>11 DEF S
<1> HIDE DEF S
<1>7. H \in S
  <2> HIDE DEF H
  <2>1. H \in 0 .. H
    BY <1>1
  <2>2. QED
    BY <1>1, <1>5, <1>6, <2>1, EveryUpTo
<1>8. Agrees(H)
  BY <1>7 DEF S
<1>9. P[H] = 0
  <2>1. P[H] \in 0 .. Len(L[H]) - 1 /\ Len(L[H]) = 1
    BY <1>1, PathInside, HeightIs
  <2>2. QED
    BY <2>1
<1>10. Alone(T, leaf) <=> \E m \in 0 .. H - 1 : Missing(m)
  <2>1. \A k \in 1 .. H : T[k] = L[k - 1]
    BY <1>1, TreeIs
  <2>2. Len(T) - 1 = H
    BY <1>1
  <2> HIDE DEF T, H, L, P
  <2>3. Alone(T, leaf) <=> \E k \in 1 .. H : Sibling(P[k - 1]) >= Len(L[k - 1])
    BY <2>1, <2>2 DEF Alone, P
  <2>4. \A k \in 1 .. H : k - 1 \in 0 .. H - 1
    BY <1>1
  <2>5. \A m \in 0 .. H - 1 : m + 1 \in 1 .. H /\ (m + 1) - 1 = m
    BY <1>1
  <2>6. QED
    BY <2>3, <2>4, <2>5
<1>11. VerifyProof(hash, proof, Root(leaves)) <=> C[H] = L[H][P[H] + 1]
  <2> HIDE DEF proof
  <2>1. VerifyProof(hash, proof, Root(leaves)) <=> L[H][1] = C[H]
    BY <1>2 DEF VerifyProof, Root
  <2>2. QED
    BY <1>9, <2>1
<1>12. QED
  <2> HIDE DEF C, L, P, H, T, proof, Missing
  <2>1. QED
    BY <1>8, <1>10, <1>11 DEF T, proof

(* Of a list of any length: the proof taken for the event at a position is *)
(* accepted for that event and for no other, and only if no node on its    *)
(* way up was without a sibling (core/crypto.py).                          *)
THEOREM ProofOfEvent ==
  ASSUME NEW events \in Seq(Nat), events # << >>, NEW i \in DOMAIN events, NEW e
  PROVE  VerifyProof(Leaf(e), GetProof(Tree(Leaves(events)), i - 1), Root(Leaves(events)))
            <=> e = events[i] /\ ~ Alone(Tree(Leaves(events)), i - 1)
<1> DEFINE leaves == Leaves(events)
<1>1. Len(events) \in Nat \ {0} /\ DOMAIN events = 1 .. Len(events) /\ i \in 1 .. Len(events)
  OBVIOUS
<1>2. Len(leaves) = Len(events) /\ \A j \in 1 .. Len(events) : leaves[j] = Leaf(events[j])
  BY <1>1 DEF Leaves
<1> HIDE DEF leaves
<1>3. \A j \in 1 .. Len(leaves) : HasHeight(leaves[j], 0)
  BY <1>2, LeafHeight
<1>4. i - 1 \in 0 .. Len(leaves) - 1 /\ (i - 1) + 1 = i
  BY <1>1, <1>2
<1>5. VerifyProof(Leaf(e), GetProof(Tree(leaves), i - 1), Root(leaves))
         <=> Leaf(e) = leaves[(i - 1) + 1] /\ ~ Alone(Tree(leaves), i - 1)
  BY <1>1, <1>2, <1>3, <1>4, LeafHeight, ProofOfLeaf
<1>6. Leaf(e) = leaves[(i - 1) + 1] <=> e = events[i]
  BY <1>1, <1>2, <1>4 DEF Leaf
<1>7. QED
  BY <1>5, <1>6 DEF leaves

(***************************************************************************)
(* The audit trail.  The contract's last hash is the last one logged, or   *)
(* the last leaf of the last batch; a request that has anchored is of one  *)
(* of the batches anchored.                                                *)
(***************************************************************************)
LedgerPhases == {"idle", "collected", "anchored", "done", "failed"}
LinkHashes == {NoHash} \union {<<h>> : h \in LogEntry} \union {Leaf(e) : e \in Event}
Batches == Seq(Event) \ {<< >>}
LastLink == IF logged # << >> THEN <<Last(logged)>>
          ELSE IF anchored = << >> THEN NoHash ELSE Leaf(Last(Last(anchored)))

LedgerTyped ==
    /\ boxes \in [LogEntry -> [known : BOOLEAN, previous : LinkHashes]]
    /\ counter \in Nat
    /\ logged \in Seq(LogEntry)
    /\ anchored \in Seq(Batches)
    /\ DOMAIN generator = Generator
    /\ \A g \in Generator :
          /\ generator[g].phase \in LedgerPhases
          /\ generator[g].phase \in {"collected", "anchored"} => generator[g].events \in Batches

AnchoredKnown == \A g \in Generator : generator[g].phase = "anchored" =>
    \E i \in DOMAIN anchored : anchored[i] = generator[g].events

RootsOfRows == \A r \in rows : r.root = Root(Leaves(r.events))

LedgerInv ==
    /\ LedgerTyped /\ lastHash = LastLink /\ AnchoredKnown
    /\ RowsAnchored /\ LinksLeadBack /\ RootsOfRows

LEMMA EventsOfTyped ==
  ASSUME NEW ids \in Asked
  PROVE  EventsOf(ids) \in Seq(Event)
<1>1. PICK n \in Size : ids = [k \in 1 .. n |-> k]
  BY DEF Asked
<1>2. n \in Nat /\ Cardinality(Event) \in Nat
  BY EventAssumption, FS_CardinalityType
<1>3. PICK m \in Nat : m = IF n <= Cardinality(Event) THEN n ELSE Cardinality(Event)
  BY <1>2
<1>4. {i \in DOMAIN ids : ids[i] \in Event} = 1 .. m
  BY <1>1, <1>2, <1>3, EventAssumption
<1>5. \A k \in 1 .. m : ids[k] \in Event
  BY <1>4
<1>6. EventsOf(ids) = [k \in 1 .. m |-> ids[k]]
  BY <1>4 DEF EventsOf
<1>7. QED
  BY <1>5, <1>6

LEMMA LastLinkTyped == LedgerTyped => LastLink \in LinkHashes
<1> SUFFICES ASSUME LedgerTyped PROVE LastLink \in LinkHashes
  OBVIOUS
<1>1. CASE logged # << >>
  <2>1. Last(logged) \in LogEntry
    BY <1>1 DEF LedgerTyped, Last
  <2>2. QED
    BY <1>1, <2>1 DEF LastLink, LinkHashes
<1>2. CASE logged = << >> /\ anchored # << >>
  <2>1. Last(anchored) \in Batches
    BY <1>2 DEF LedgerTyped, Last
  <2>2. Last(Last(anchored)) \in Event
    BY <2>1 DEF Batches, Last
  <2>3. QED
    BY <1>2, <2>2 DEF LastLink, LinkHashes
<1>3. CASE logged = << >> /\ anchored = << >>
  BY <1>3 DEF LastLink, LinkHashes
<1>4. QED
  BY <1>1, <1>2, <1>3

LEMMA LedgerInitially == LedgerInit => LedgerInv
<1> SUFFICES ASSUME LedgerInit PROVE LedgerInv
  OBVIOUS
<1>1. NoLink \in [known : BOOLEAN, previous : LinkHashes]
  BY DEF NoLink, LinkHashes
<1>2. LedgerTyped
  BY <1>1 DEF LedgerInit, LedgerTyped, LedgerPhases
<1>3. lastHash = LastLink
  BY DEF LedgerInit, LastLink
<1>4. AnchoredKnown /\ RowsAnchored /\ LinksLeadBack /\ RootsOfRows
  BY DEF LedgerInit, AnchoredKnown, RowsAnchored, LinksLeadBack, RootsOfRows
<1>5. QED
  BY <1>2, <1>3, <1>4 DEF LedgerInv

(* A hash that is logged is linked to the one before. *)
LEMMA LedgerLogs == ASSUME LedgerInv, NEW h \in LogEntry, LogEvent(h) PROVE LedgerInv'
<1>t. LedgerTyped /\ lastHash \in LinkHashes
  BY LastLinkTyped DEF LedgerInv
<1>0. logged \in Seq(LogEntry) /\ Len(logged) \in Nat /\ logged' = Append(logged, h)
  BY <1>t DEF LogEvent, LedgerTyped
<1>1. /\ logged' = Append(logged, h) /\ logged' \in Seq(LogEntry) /\ logged' # << >>
      /\ Len(logged') = Len(logged) + 1 /\ logged'[Len(logged) + 1] = h
      /\ \A i \in 1 .. Len(logged) : logged'[i] = logged[i]
      /\ DOMAIN logged' = 1 .. Len(logged) + 1 /\ DOMAIN logged = 1 .. Len(logged)
      /\ Len(logged) \in Nat
  BY ONLY <1>0, h \in LogEntry
<1>2. UNCHANGED <<merkleRoot, rows, generator, anchored>>
  BY DEF LogEvent
<1>b. [known |-> TRUE, previous |-> lastHash] \in [known : BOOLEAN, previous : LinkHashes]
  BY <1>t
<1>3. LedgerTyped'
  BY <1>t, <1>1, <1>2, <1>b DEF LogEvent, LedgerTyped
<1>4. (lastHash = LastLink)'
  BY <1>1 DEF LogEvent, LastLink, Last
<1>5. AnchoredKnown' /\ RowsAnchored'
  BY <1>2 DEF LedgerInv, AnchoredKnown, RowsAnchored
<1>6. LinksLeadBack'
  <2> SUFFICES ASSUME IsInjective(logged'), NEW i \in 1 .. Len(logged) + 1
               PROVE  boxes'[logged'[i]] = [known |-> TRUE, previous |->
                         IF i > 1 THEN <<logged'[i - 1]>>
                         ELSE IF anchored = << >> THEN NoHash ELSE Leaf(Last(Last(anchored)))]
    BY <1>1, <1>2 DEF LinksLeadBack
  <2>j. \A a, b \in 1 .. Len(logged) + 1 : logged'[a] = logged'[b] => a = b
    BY <1>1 DEF IsInjective
  <2>1. IsInjective(logged)
    BY <1>1, <2>j DEF IsInjective
  <2>2. boxes' = [boxes EXCEPT ![h] = [known |-> TRUE, previous |-> lastHash]] /\ DOMAIN boxes = LogEntry
    BY <1>t DEF LogEvent, LedgerTyped
  <2>3. CASE i = Len(logged) + 1
    <3>1. boxes'[logged'[i]] = [known |-> TRUE, previous |-> lastHash]
      BY <1>1, <2>2, <2>3
    <3>2. CASE i > 1
      <4>n. logged # << >> /\ i - 1 = Len(logged) /\ i - 1 \in 1 .. Len(logged)
        BY <1>1, <2>3, <3>2
      <4>1. lastHash = <<logged[Len(logged)]>> /\ logged'[i - 1] = logged[Len(logged)]
        BY <1>1, <4>n DEF LedgerInv, LastLink, Last
      <4>2. QED
        BY <3>1, <3>2, <4>1
    <3>3. CASE ~(i > 1)
      <4>1. logged = << >>
        BY <1>t, <1>1, <2>3, <3>3 DEF LedgerTyped
      <4>2. QED
        BY <3>1, <3>3, <4>1 DEF LedgerInv, LastLink
    <3>4. QED
      BY <3>2, <3>3
  <2>4. CASE i # Len(logged) + 1
    <3>1. i \in 1 .. Len(logged) /\ logged'[i] = logged[i] /\ logged[i] \in LogEntry
      BY <1>t, <1>1, <2>4 DEF LedgerTyped
    <3>2. logged[i] # h
      BY <1>1, <2>j, <2>4, <3>1
    <3>3. boxes'[logged'[i]] = boxes[logged[i]]
      BY <2>2, <3>1, <3>2
    <3>4. i > 1 => logged'[i - 1] = logged[i - 1]
      BY <1>1, <3>1
    <3>5. boxes[logged[i]] = [known |-> TRUE, previous |->
                         IF i > 1 THEN <<logged[i - 1]>>
                         ELSE IF anchored = << >> THEN NoHash ELSE Leaf(Last(Last(anchored)))]
      BY <1>1, <2>1, <3>1 DEF LedgerInv, LinksLeadBack
    <3>6. QED
      BY <3>1, <3>3, <3>4, <3>5
  <2>5. QED
    BY <2>3, <2>4
<1>7. RootsOfRows'
  BY <1>2 DEF LedgerInv, RootsOfRows
<1>8. QED
  BY <1>3, <1>4, <1>5, <1>6, <1>7 DEF LedgerInv

(* A batch is anchored, whether or not its request learns of it. *)
LEMMA LedgerAnchors == ASSUME LedgerInv, NEW g \in Generator, Anchor(g) PROVE LedgerInv'
<1>t. LedgerTyped
  BY DEF LedgerInv
<1>e. PICK events : events = generator[g].events
  OBVIOUS
<1>0. events \in Batches /\ generator[g].phase = "collected" /\ BatchLogEvents(events)
  BY <1>t, <1>e DEF Anchor, LedgerTyped
<1>p. PICK phase \in {"anchored", "failed"} : generator' = [generator EXCEPT ![g].phase = phase]
  BY DEF Anchor
<1>g. /\ DOMAIN generator' = Generator /\ generator'[g].phase = phase /\ generator'[g].events = events
      /\ \A q \in Generator : q # g => generator'[q] = generator[q]
  BY <1>t, <1>p, <1>e DEF LedgerTyped
<1>1. /\ anchored' = Append(anchored, events) /\ anchored' \in Seq(Batches) /\ anchored' # << >>
      /\ Last(anchored') = events
      /\ DOMAIN anchored = 1 .. Len(anchored) /\ DOMAIN anchored' = 1 .. Len(anchored) + 1
      /\ Len(anchored) \in Nat
      /\ anchored'[Len(anchored) + 1] = events
      /\ \A i \in 1 .. Len(anchored) : anchored'[i] = anchored[i]
  BY <1>t, <1>0 DEF BatchLogEvents, LedgerTyped, Last
<1>2. /\ logged' = << >> /\ boxes' = boxes /\ rows' = rows /\ counter' = counter + Len(events)
      /\ merkleRoot' = Root(Leaves(events)) /\ lastHash' = Leaf(Last(events))
  BY <1>0 DEF BatchLogEvents
<1>3. LedgerTyped'
  <2>1. Len(events) \in Nat
    BY <1>0 DEF Batches
  <2>2. \A q \in Generator : /\ generator'[q].phase \in LedgerPhases
                             /\ generator'[q].phase \in {"collected", "anchored"} => generator'[q].events \in Batches
    BY <1>t, <1>0, <1>g DEF LedgerTyped, LedgerPhases
  <2>3. QED
    BY <1>t, <1>1, <1>2, <1>g, <2>1, <2>2 DEF LedgerTyped
<1>4. (lastHash = LastLink)'
  BY <1>1, <1>2 DEF LastLink
<1>5. AnchoredKnown'
  BY <1>1, <1>g DEF LedgerInv, AnchoredKnown
<1>6. RowsAnchored'
  <2>1. \A r \in rows : \E i \in DOMAIN anchored' : anchored'[i] = r.events
    BY <1>1 DEF LedgerInv, RowsAnchored
  <2>2. QED
    BY <1>1, <1>2, <1>g, <2>1 DEF RowsAnchored
<1>7. LinksLeadBack'
  BY <1>2 DEF LinksLeadBack
<1>8. RootsOfRows'
  BY <1>2 DEF LedgerInv, RootsOfRows
<1>9. QED
  BY <1>3, <1>4, <1>5, <1>6, <1>7, <1>8 DEF LedgerInv

(* A request takes another step, and commits a row only of what it anchored. *)
GeneratorMove(g, new, made) ==
    /\ UNCHANGED <<boxes, counter, lastHash, merkleRoot, logged, anchored>>
    /\ generator' = [generator EXCEPT ![g] = new]
    /\ new.phase \in {"collected", "done", "failed"}
    /\ new.phase = "collected" => new.events \in Batches
    /\ rows' = rows \union made
    /\ \A r \in made : /\ generator[g].phase = "anchored" /\ r.events = generator[g].events
                      /\ r.root = Root(Leaves(r.events))
    /\ generator[g].phase \in {"anchored", "failed"} =>
         \/ new.phase = "failed" /\ new.events = generator[g].events
         \/ \E r \in made : r.root = Root(Leaves(generator[g].events))

LEMMA GeneratorMoves ==
  ASSUME LedgerInv, NEW g \in Generator, NEW new, NEW made, GeneratorMove(g, new, made)
  PROVE  LedgerInv'
<1>t. LedgerTyped
  BY DEF LedgerInv
<1>m. /\ UNCHANGED <<boxes, counter, lastHash, merkleRoot, logged, anchored>>
      /\ generator' = [generator EXCEPT ![g] = new]
      /\ new.phase \in {"collected", "done", "failed"}
      /\ new.phase = "collected" => new.events \in Batches
      /\ rows' = rows \union made
      /\ \A r \in made : /\ generator[g].phase = "anchored" /\ r.events = generator[g].events
                      /\ r.root = Root(Leaves(r.events))
  BY DEF GeneratorMove
<1>n. generator[g].phase \in {"anchored", "failed"} =>
         \/ new.phase = "failed" /\ new.events = generator[g].events
         \/ \E r \in made : r.root = Root(Leaves(generator[g].events))
  BY DEF GeneratorMove
<1>g. /\ DOMAIN generator' = Generator /\ generator'[g] = new
      /\ \A q \in Generator : q # g => generator'[q] = generator[q]
  BY <1>t, <1>m DEF LedgerTyped
<1>1. LedgerTyped'
  BY <1>t, <1>g, <1>m DEF LedgerTyped, LedgerPhases
<1>2. (lastHash = LastLink)' /\ LinksLeadBack'
  BY <1>m DEF LedgerInv, LastLink, LinksLeadBack
<1>3. AnchoredKnown'
  BY <1>g, <1>m DEF LedgerInv, AnchoredKnown
<1>4. \A r \in rows' : \E i \in DOMAIN anchored : anchored[i] = r.events
  BY <1>m DEF LedgerInv, RowsAnchored, AnchoredKnown
<1>5. ASSUME anchored # << >>
      PROVE  \/ \E r \in rows' : r.root = merkleRoot
             \/ \E q \in Generator : /\ generator'[q].phase \in {"anchored", "failed"}
                                     /\ generator'[q].events = Last(anchored)
  <2>1. CASE \E r \in rows : r.root = merkleRoot
    BY <2>1, <1>m
  <2>2. ASSUME NEW q \in Generator, generator[q].phase \in {"anchored", "failed"},
               generator[q].events = Last(anchored)
        PROVE  <1>5!2
    <3>1. CASE q # g
      BY <2>2, <3>1, <1>g
    <3>2. CASE q = g
      <4>1. merkleRoot = Root(Leaves(generator[g].events))
        BY <1>5, <2>2, <3>2 DEF LedgerInv, RowsAnchored
      <4>2. QED
        BY <2>2, <3>2, <4>1, <1>g, <1>m, <1>n
    <3>3. QED
      BY <3>1, <3>2
  <2>3. QED
    BY <1>5, <2>1, <2>2 DEF LedgerInv, RowsAnchored
<1>6. RowsAnchored'
  <2>1. anchored # << >> => merkleRoot = Root(Leaves(Last(anchored)))
    BY DEF LedgerInv, RowsAnchored
  <2>2. QED
    BY <1>4, <1>5, <1>m, <2>1 DEF RowsAnchored
<1>7. RootsOfRows'
  BY <1>m DEF LedgerInv, RootsOfRows
<1>8. QED
  BY <1>1, <1>2, <1>3, <1>6, <1>7 DEF LedgerInv

LEMMA LedgerStep == LedgerInv /\ [LedgerNext]_ledgerVars => LedgerInv'
<1> SUFFICES ASSUME LedgerInv, [LedgerNext]_ledgerVars PROVE LedgerInv'
  OBVIOUS
<1>t. LedgerTyped
  BY DEF LedgerInv
<1>1. ASSUME NEW h \in LogEntry, LogEvent(h) PROVE LedgerInv'
  BY <1>1, LedgerLogs
<1>2. ASSUME NEW g \in Generator, NEW ids \in Asked, Collect(g, ids) PROVE LedgerInv'
  <2> DEFINE new == [phase |-> IF EventsOf(ids) = << >> THEN "failed" ELSE "collected",
                     ids |-> ids, events |-> EventsOf(ids)]
  <2>1. /\ generator[g].phase = "idle" /\ generator' = [generator EXCEPT ![g] = new]
        /\ UNCHANGED <<boxes, counter, lastHash, merkleRoot, logged, anchored>>
        /\ rows' = rows \union {}
    BY <1>2 DEF Collect
  <2>2. /\ new.phase \in {"collected", "done", "failed"}
        /\ new.phase = "collected" => new.events \in Batches
    BY EventsOfTyped DEF Batches
  <2> HIDE DEF new
  <2>3. GeneratorMove(g, new, {})
    BY <2>1, <2>2 DEF GeneratorMove
  <2>4. QED
    BY <2>3, GeneratorMoves
<1>3. ASSUME NEW g \in Generator, Anchor(g) PROVE LedgerInv'
  BY <1>3, LedgerAnchors
<1>4. ASSUME NEW g \in Generator, AnchorFails(g) \/ CommitRootFails(g) PROVE LedgerInv'
  <2> DEFINE new == [generator[g] EXCEPT !.phase = "failed"]
  <2>1. /\ generator' = [generator EXCEPT ![g] = new]
        /\ UNCHANGED <<boxes, counter, lastHash, merkleRoot, logged, anchored>>
        /\ rows' = rows \union {}
    BY <1>4 DEF AnchorFails, CommitRootFails
  <2>2. new.phase = "failed" /\ new.events = generator[g].events
    OBVIOUS
  <2> HIDE DEF new
  <2>3. GeneratorMove(g, new, {})
    BY <2>1, <2>2 DEF GeneratorMove
  <2>4. QED
    BY <2>3, GeneratorMoves
<1>5. ASSUME NEW g \in Generator, CommitRoot(g) PROVE LedgerInv'
  <2> DEFINE new == [generator[g] EXCEPT !.phase = "done"]
  <2> DEFINE newRow == [ids |-> generator[g].ids, events |-> generator[g].events,
                     root |-> Root(Leaves(generator[g].events))]
  <2>1. /\ generator' = [generator EXCEPT ![g] = new]
        /\ UNCHANGED <<boxes, counter, lastHash, merkleRoot, logged, anchored>>
        /\ rows' = rows \union {newRow} /\ generator[g].phase = "anchored"
    BY <1>5 DEF CommitRoot
  <2>2. new.phase = "done"
    OBVIOUS
  <2>3. newRow.events = generator[g].events /\ newRow.root = Root(Leaves(generator[g].events))
    OBVIOUS
  <2> HIDE DEF new, newRow
  <2>4. \A r \in {newRow} : /\ generator[g].phase = "anchored" /\ r.events = generator[g].events
                            /\ r.root = Root(Leaves(r.events))
    BY <2>1, <2>3
  <2>5. \E r \in {newRow} : r.root = Root(Leaves(generator[g].events))
    BY <2>3
  <2>6. GeneratorMove(g, new, {newRow})
    BY <2>1, <2>2, <2>4, <2>5 DEF GeneratorMove
  <2>7. QED
    BY <2>6, GeneratorMoves
<1>6. CASE UNCHANGED ledgerVars
  BY <1>6 DEF ledgerVars, LedgerInv, LedgerTyped, LastLink, AnchoredKnown, RowsAnchored, LinksLeadBack,
     RootsOfRows
<1>7. QED
  BY <1>1, <1>2, <1>3, <1>4, <1>5, <1>6 DEF LedgerNext

LEMMA LedgerInvImplies == LedgerInv => LedgerTypeOK /\ RowsAnchored /\ LinksLeadBack
  BY DEF LedgerInv, LedgerTyped, LedgerTypeOK, LedgerPhases, LinkHashes

LEMMA EventsAreNumbers == ASSUME NEW s \in Seq(Event) PROVE s \in Seq(Nat)
<1>1. Event \subseteq Nat
  BY EventAssumption, FS_CardinalityType
<1>2. s \in [1 .. Len(s) -> Event] /\ Len(s) \in Nat
  OBVIOUS
<1>3. s \in [1 .. Len(s) -> Nat]
  BY <1>1, <1>2
<1>4. QED
  BY <1>2, <1>3

LEMMA LedgerProofs == LedgerInv => ProofsOfRows
<1> SUFFICES ASSUME LedgerInv, NEW r \in rows, NEW i \in DOMAIN r.events, NEW e \in Event
             PROVE  VerifyProof(Leaf(e), GetProof(Tree(Leaves(r.events)), i - 1), r.root)
                       <=> e = r.events[i] /\ ~ Alone(Tree(Leaves(r.events)), i - 1)
  BY DEF ProofsOfRows
<1>1. r.root = Root(Leaves(r.events))
  BY DEF LedgerInv, RootsOfRows
<1>2. r.events \in Batches
  BY DEF LedgerInv, RowsAnchored, LedgerTyped
<1>4. r.events \in Seq(Nat) /\ r.events # << >>
  <2>1. r.events \in Seq(Event) /\ r.events # << >>
    BY <1>2 DEF Batches
  <2>2. QED
    BY <2>1, EventsAreNumbers
<1>5. QED
  BY <1>1, <1>4, ProofOfEvent

(***************************************************************************)
(* Reports.  A consent that a report listed is still there with its logs   *)
(* and the event of its status when the next query looks for them, unless  *)
(* it was erased, or a deletion took its logs; and counts without a commit *)
(* in between are of one state.                                            *)
(***************************************************************************)
Kinds == {"trail", "export", "report", "audit", "dashboard"}
LoggedKinds == {"export", "trail", "report"}
StoredRow == [status : Statuses \union {"none"}, events : SUBSET Statuses, logs : 0 .. MaxLogs]
CountRecord == [total : Nat, GRANTED : Nat, REVOKED : Nat, EXPIRED : Nat]
ReportRecord == [kind : Kinds \union {"none"}, step : 0 .. 5, listed : [Record -> Statuses \union {"none"}],
                 events : [Record -> SUBSET Statuses], logs : [Record -> Nat], count : CountRecord,
                 crossed : Nat, erased : SUBSET Record]

WithStatus(status) == {r \in Record : stored[r].status = status}
TrulyThere == {r \in Record : There(r)}

ErasureRecord == [step : {"none", "records", "logs"}, pair : SUBSET Record, rows : SUBSET Record,
                  taken : [Record -> 0 .. MaxLogs]]

ReportsTyped ==
    /\ stored \in [Record -> StoredRow] /\ report \in ReportRecord
    /\ erasing \in ErasureRecord /\ stripped \subseteq Record
    /\ Reading => report.step >= 1

(* What is stored explains itself: every row has its event, and a log      *)
(* unless a deletion took it.                                              *)
RowsExplained == \A r \in Record : There(r) =>
    /\ r \in stripped \/ stored[r].logs > 0
    /\ stored[r].status \in stored[r].events \union {"EXPIRED"}

(* The logs that the deletion is about to take are there.                  *)
TakenThere == \A r \in Record \ erasing.rows : erasing.taken[r] <= stored[r].logs

ListedThere == report.kind \in LoggedKinds /\ report.step > 1 =>
    \A r \in Listed : /\ There(r)
                      /\ report.kind = "trail" => report.listed[r] \in stored[r].events \union {"EXPIRED"}
EventsRead == report.kind = "trail" /\ report.step > 2 =>
    \A r \in Listed : report.listed[r] \in report.events[r] \union {"EXPIRED"}
LogsRead ==
    ((report.kind = "trail" /\ report.step > 3) \/ (report.kind \in LoggedKinds \ {"trail"} /\ report.step > 2)) =>
        \A r \in Listed \ stripped : report.logs[r] > 0
CountedNow == report.kind = "dashboard" /\ report.crossed = 0 =>
    /\ report.step > 1 => report.count.total = Cardinality(TrulyThere)
    /\ report.step > 2 => report.count.GRANTED = Cardinality(WithStatus("GRANTED"))
    /\ report.step > 3 => report.count.REVOKED = Cardinality(WithStatus("REVOKED"))
    /\ report.step > 4 => report.count.EXPIRED = Cardinality(WithStatus("EXPIRED"))

ReportsInv ==
    /\ ReportsTyped /\ RowsExplained /\ TakenThere
    /\ ListedThere /\ EventsRead /\ LogsRead /\ CountedNow

LEMMA QueriesOfKinds ==
  /\ DOMAIN Queries = Kinds
  /\ Queries["trail"] = <<"consents", "events", "logs", "chain">>
  /\ Queries["export"] = <<"consents", "logs">>
  /\ Queries["report"] = <<"consents", "logs", "commit">>
  /\ Queries["audit"] = <<"consents">>
  /\ Queries["dashboard"] = <<"total", "GRANTED", "REVOKED", "EXPIRED">>
  BY DEF Queries, Kinds

(* Where each query stands in its report. *)
LEMMA QueryStands ==
  ASSUME ReportsTyped, NEW query, At(query)
  PROVE  /\ report.kind \in Kinds /\ report.step \in 1 .. 4
         /\ report.step = 1 => query \in {"consents", "total"}
         /\ query = "consents" => report.step = 1 /\ report.kind \in LoggedKinds \union {"audit"}
         /\ query = "events" => report.step = 2 /\ report.kind = "trail"
         /\ query = "logs" => (report.step = 3 /\ report.kind = "trail") \/ (report.step = 2 /\ report.kind \in {"export", "report"})
         /\ query = "chain" => report.step = 4 /\ report.kind = "trail"
         /\ query = "commit" => report.step = 3 /\ report.kind = "report"
         /\ report.kind = "dashboard" => /\ query = "total" <=> report.step = 1
                                         /\ query = "GRANTED" <=> report.step = 2
                                         /\ query = "REVOKED" <=> report.step = 3
                                         /\ query = "EXPIRED" <=> report.step = 4
         /\ query \in {"total", "GRANTED", "REVOKED", "EXPIRED"} => report.kind = "dashboard"
         /\ report.step <= Len(Queries[report.kind])
<1>1. report.kind \in Kinds /\ report.step \in 1 .. 5 /\ Queries[report.kind][report.step] = query
      /\ report.step <= Len(Queries[report.kind])
  BY DEF ReportsTyped, ReportRecord, At, Reading
<1>2. CASE report.kind = "trail"
  <2>1. report.step \in 1 .. 4 /\ <<"consents", "events", "logs", "chain">>[report.step] = query
    BY <1>1, <1>2, QueriesOfKinds
  <2>2. report.step = 1 \/ report.step = 2 \/ report.step = 3 \/ report.step = 4
    BY <2>1
  <2>3. QED
    BY <1>1, <1>2, <2>1, <2>2 DEF LoggedKinds
<1>3. CASE report.kind = "export"
  <2>1. report.step \in 1 .. 2 /\ <<"consents", "logs">>[report.step] = query
    BY <1>1, <1>3, QueriesOfKinds
  <2>2. report.step = 1 \/ report.step = 2
    BY <2>1
  <2>3. QED
    BY <1>1, <1>3, <2>1, <2>2 DEF LoggedKinds
<1>4. CASE report.kind = "report"
  <2>1. report.step \in 1 .. 3 /\ <<"consents", "logs", "commit">>[report.step] = query
    BY <1>1, <1>4, QueriesOfKinds
  <2>2. report.step = 1 \/ report.step = 2 \/ report.step = 3
    BY <2>1
  <2>3. QED
    BY <1>1, <1>4, <2>1, <2>2 DEF LoggedKinds
<1>5. CASE report.kind = "audit"
  <2>1. report.step = 1 /\ <<"consents">>[report.step] = query
    BY <1>1, <1>5, QueriesOfKinds
  <2>2. QED
    BY <1>1, <1>5, <2>1 DEF LoggedKinds
<1>6. CASE report.kind = "dashboard"
  <2>1. report.step \in 1 .. 4 /\ <<"total", "GRANTED", "REVOKED", "EXPIRED">>[report.step] = query
    BY <1>1, <1>6, QueriesOfKinds
  <2>2. report.step = 1 \/ report.step = 2 \/ report.step = 3 \/ report.step = 4
    BY <2>1
  <2>3. QED
    BY <1>1, <1>6, <2>1, <2>2 DEF LoggedKinds
<1>7. QED
  BY <1>1, <1>2, <1>3, <1>4, <1>5, <1>6 DEF Kinds

LEMMA QueryPlaces ==
  ASSUME ReportsTyped, NEW query, At(query)
  PROVE  /\ report.kind = "trail" =>
               /\ report.step = 1 => query = "consents"
               /\ report.step = 2 => query = "events"
               /\ report.step = 3 => query = "logs"
         /\ report.kind \in {"export", "report"} =>
               /\ report.step = 1 => query = "consents"
               /\ report.step = 2 => query = "logs"
         /\ report.kind = "trail" /\ query \notin {"consents", "events"} => report.step > 2
         /\ report.kind = "trail" /\ query \notin {"consents", "events", "logs"} => report.step > 3
         /\ report.kind \in {"export", "report"} /\ query \notin {"consents", "logs"} => report.step > 2
<1>1. Queries[report.kind][report.step] = query /\ report.step \in 1 .. 4
  BY QueryStands DEF At
<1>2. report.step = 1 \/ report.step = 2 \/ report.step = 3 \/ report.step = 4
  BY <1>1
<1>3. CASE report.kind = "trail"
  BY <1>1, <1>2, <1>3, QueriesOfKinds
<1>4. CASE report.kind = "export"
  <2>1. report.step <= Len(Queries[report.kind])
    BY QueryStands
  <2>2. QED
    BY <1>1, <1>2, <1>4, <2>1, QueriesOfKinds
<1>5. CASE report.kind = "report"
  BY <1>1, <1>2, <1>5, QueriesOfKinds
<1>6. QED
  BY <1>3, <1>4, <1>5

LEMMA UnaskedTyped == Unasked \in ReportRecord /\ Unasked.kind = "none"
  BY DEF Unasked, ReportRecord, CountRecord

LEMMA NotErasingTyped ==
  /\ NotErasing \in ErasureRecord /\ NotErasing.rows = {} /\ NotErasing.pair = {}
  /\ \A r \in Record : NotErasing.taken[r] = 0
  BY ReportAssumption DEF NotErasing, ErasureRecord

LEMMA ReportsInitially == ReportsInit => ReportsInv
<1> SUFFICES ASSUME ReportsInit PROVE ReportsInv
  OBVIOUS
<1>1. NoRow \in StoredRow /\ NoRow.status = "none"
  BY ReportAssumption DEF NoRow, StoredRow
<1>2. Unasked \in ReportRecord /\ Unasked.kind = "none"
  BY UnaskedTyped
<1>3. ReportsTyped
  BY <1>1, <1>2, NotErasingTyped DEF ReportsInit, ReportsTyped, Reading
<1>4. RowsExplained /\ TakenThere
  BY <1>1, NotErasingTyped DEF ReportsInit, RowsExplained, TakenThere, There, StoredRow
<1>5. ListedThere /\ EventsRead /\ LogsRead /\ CountedNow
  BY <1>2 DEF ReportsInit, ListedThere, EventsRead, LogsRead, CountedNow, LoggedKinds
<1>6. QED
  BY <1>3, <1>4, <1>5 DEF ReportsInv

(* A commit: what was listed of the rows is still there, or erased. *)
LEMMA CommitKeeps ==
  ASSUME ReportsInv, NEW gone \in SUBSET Record, stored' \in [Record -> StoredRow],
         report' = IF Reading THEN [report EXCEPT !.crossed = report.crossed + 1, !.erased = report.erased \union gone]
                   ELSE report,
         erasing' \in ErasureRecord, stripped' \subseteq Record, stripped \ gone \subseteq stripped',
         RowsExplained', TakenThere',
         \A r \in Record \ gone : There(r) =>
             stored'[r].status # "none" /\ stored[r].events \subseteq stored'[r].events
  PROVE  ReportsInv'
<1>t. stored \in [Record -> StoredRow] /\ report \in ReportRecord
  BY DEF ReportsInv, ReportsTyped
<1>1. CASE ~Reading
  <2>1. report' = report /\ report.kind = "none"
    BY <1>1 DEF Reading
  <2>2. ReportsTyped'
    BY <1>t, <2>1 DEF ReportsTyped, Reading
  <2>3. QED
    BY <2>1, <2>2 DEF ReportsInv, ListedThere, EventsRead, LogsRead, CountedNow, LoggedKinds
<1>2. CASE Reading
  <2> DEFINE later == [report EXCEPT !.crossed = report.crossed + 1, !.erased = report.erased \union gone]
  <2>1. report.crossed + 1 \in Nat \ {0} /\ report.erased \union gone \in SUBSET Record
    BY <1>t DEF ReportRecord
  <2>2. /\ later \in ReportRecord /\ later.kind = report.kind /\ later.step = report.step
        /\ later.listed = report.listed /\ later.events = report.events /\ later.logs = report.logs
        /\ later.crossed # 0 /\ later.erased = report.erased \union gone
    BY <1>t, <2>1 DEF ReportRecord
  <2>3. report' = later
    BY <1>2
  <2> HIDE DEF later
  <2>4. ReportsTyped'
    BY <2>2, <2>3 DEF ReportsInv, ReportsTyped, Reading
  <2>5. Listed' = Listed \ gone
    BY <2>2, <2>3 DEF Listed
  <2>6. ListedThere'
    <3> SUFFICES ASSUME report.kind \in LoggedKinds, report.step > 1, NEW q \in Listed, q \notin gone
                 PROVE  /\ stored'[q].status # "none"
                        /\ report.kind = "trail" => report.listed[q] \in stored'[q].events \union {"EXPIRED"}
      BY <2>2, <2>3, <2>5 DEF ListedThere, There
    <3>1. q \in Record /\ There(q) /\ (report.kind = "trail" => report.listed[q] \in stored[q].events \union {"EXPIRED"})
      BY DEF ReportsInv, ListedThere, Listed
    <3>2. QED
      BY <3>1
  <2>7. EventsRead' /\ LogsRead'
    BY <2>2, <2>3, <2>5 DEF ReportsInv, EventsRead, LogsRead
  <2>8. CountedNow'
    BY <2>2, <2>3 DEF CountedNow
  <2>9. QED
    BY <2>4, <2>6, <2>7, <2>8 DEF ReportsInv
<1>3. QED
  BY <1>1, <1>2

(* A commit of one row by the service or by the expiry worker. *)
LEMMA ReportCommits ==
  ASSUME ReportsInv, NEW r \in Record,
         \/ \E to \in Statuses \ {"EXPIRED"} : Change(r, to)
         \/ \E event \in BOOLEAN : Expire(r, event)
  PROVE  ReportsInv'
<1>t. /\ stored \in [Record -> StoredRow] /\ report \in ReportRecord /\ stored[r] \in StoredRow
      /\ erasing \in ErasureRecord /\ stripped \subseteq Record
  BY DEF ReportsInv, ReportsTyped
<1>e. There(r) => /\ r \in stripped \/ stored[r].logs > 0
                  /\ stored[r].status \in stored[r].events \union {"EXPIRED"}
  BY DEF ReportsInv, RowsExplained
<1>c. report' = Crossing => report' = IF Reading THEN [report EXCEPT !.crossed = report.crossed + 1,
                                                                    !.erased = report.erased \union {}]
                                      ELSE report
  BY <1>t DEF ReportRecord, Crossing
<1>k. ASSUME NEW new \in StoredRow, stored' = [stored EXCEPT ![r] = new], report' = Crossing,
             UNCHANGED <<erasing, stripped>>,
             new.status # "none", r \in stripped \/ new.logs > 0,
             new.status \in new.events \union {"EXPIRED"},
             stored[r].events \subseteq new.events, stored[r].logs <= new.logs
      PROVE  ReportsInv'
  <2>1. stored' \in [Record -> StoredRow] /\ \A q \in Record : stored'[q] = IF q = r THEN new ELSE stored[q]
    BY <1>t, <1>k
  <2>2. RowsExplained'
    BY <1>k, <2>1 DEF ReportsInv, RowsExplained, There
  <2>3. TakenThere'
    <3> SUFFICES ASSUME NEW q \in Record \ erasing.rows PROVE erasing.taken[q] <= stored'[q].logs
      BY <1>k DEF TakenThere
    <3>1. erasing.taken[q] <= stored[q].logs /\ erasing.taken[q] \in Nat
      BY <1>t DEF ReportsInv, TakenThere, ErasureRecord
    <3>2. stored[q].logs \in Nat /\ new.logs \in Nat
      BY <1>t DEF StoredRow
    <3>3. QED
      BY <3>1, <3>2, <2>1, <1>k
  <2>4. {} \in SUBSET Record
    OBVIOUS
  <2>5. \A q \in Record \ {} : There(q) =>
            stored'[q].status # "none" /\ stored[q].events \subseteq stored'[q].events
    BY <1>k, <2>1 DEF There
  <2>6. erasing' \in ErasureRecord /\ stripped' \subseteq Record /\ stripped \ {} \subseteq stripped'
    BY <1>k, <1>t
  <2>7. QED
    BY <1>k, <1>c, <2>1, <2>2, <2>3, <2>4, <2>5, <2>6, CommitKeeps
<1>1. ASSUME NEW to \in Statuses \ {"EXPIRED"}, Change(r, to) PROVE ReportsInv'
  <2> DEFINE new == [status |-> to, events |-> stored[r].events \union {to}, logs |-> stored[r].logs + 1]
  <2>1. stored' = [stored EXCEPT ![r] = new] /\ report' = Crossing /\ UNCHANGED <<erasing, stripped>>
    BY <1>1 DEF Change, Commit
  <2>2. new \in StoredRow
    BY <1>1, <1>t, ReportAssumption DEF Change, StoredRow, Statuses
  <2>3. /\ new.logs > 0 /\ new.status \in new.events /\ stored[r].events \subseteq new.events
        /\ new.status # "none" /\ stored[r].logs <= new.logs
    BY <1>t DEF StoredRow, Statuses
  <2> HIDE DEF new
  <2>4. QED
    BY <2>1, <2>2, <2>3, <1>k
<1>2. ASSUME NEW event \in BOOLEAN, Expire(r, event) PROVE ReportsInv'
  <2> DEFINE events == IF event THEN stored[r].events \union {"EXPIRED"} ELSE stored[r].events
  <2> DEFINE new == [stored[r] EXCEPT !.status = "EXPIRED", !.events = events]
  <2>1. stored' = [stored EXCEPT ![r] = new] /\ report' = Crossing /\ UNCHANGED <<erasing, stripped>>
    BY <1>2 DEF Expire, Commit
  <2>2. events \in SUBSET Statuses /\ stored[r].events \subseteq events
    BY <1>t DEF StoredRow, Statuses
  <2> HIDE DEF events
  <2>3. /\ new \in StoredRow /\ new.status = "EXPIRED" /\ new.logs = stored[r].logs
        /\ new.events = events
    BY <1>t, <2>2 DEF StoredRow, Statuses
  <2> HIDE DEF new
  <2>4. (r \in stripped \/ new.logs > 0) /\ stored[r].logs <= new.logs
    <3>1. There(r)
      BY <1>2 DEF Expire
    <3>2. stored[r].logs \in 0 .. MaxLogs
      BY <1>t DEF StoredRow
    <3>3. stored[r].logs \in Nat /\ new.logs = stored[r].logs
      BY <2>3, <3>2
    <3>4. QED
      BY <1>e, <3>1, <3>3
  <2>5. QED
    BY <2>1, <2>2, <2>3, <2>4, <1>k
<1>3. QED
  BY <1>1, <1>2

(* The deletion takes the rows it locked, and every log it saw of its pair. *)
LEMMA EraseKeeps ==
  ASSUME ReportsInv, (\E pair \in Pairs : EraseRecords(pair)) \/ EraseLogs \/ EraseFails \/ EraseCommits
  PROVE  ReportsInv'
<1>t. /\ stored \in [Record -> StoredRow] /\ report \in ReportRecord
      /\ erasing \in ErasureRecord /\ stripped \subseteq Record
  BY DEF ReportsInv, ReportsTyped
<1>l. /\ \A r \in Record : stored[r] \in StoredRow /\ stored[r].logs \in 0 .. MaxLogs
      /\ MaxLogs \in Nat
  BY <1>t, ReportAssumption DEF StoredRow
<1>k. ASSUME UNCHANGED <<stored, stripped, report>>, erasing' \in ErasureRecord, TakenThere' PROVE ReportsInv'
  <2>1. ReportsTyped' /\ RowsExplained'
    BY <1>k DEF ReportsInv, ReportsTyped, RowsExplained, Reading, There
  <2>2. ListedThere' /\ EventsRead' /\ LogsRead' /\ CountedNow'
    BY <1>k DEF ReportsInv, ListedThere, EventsRead, LogsRead, CountedNow, TrulyThere, WithStatus, There, Listed
  <2>3. QED
    BY <1>k, <2>1, <2>2 DEF ReportsInv
<1>1. ASSUME NEW pair \in Pairs, EraseRecords(pair) PROVE ReportsInv'
  <2> DEFINE seen == {r \in pair : There(r)}
  <2>1. erasing' = [NotErasing EXCEPT !.step = "records", !.pair = pair, !.rows = seen]
        /\ UNCHANGED <<stored, stripped, report>>
    BY <1>1 DEF EraseRecords
  <2>2. pair \in SUBSET Record /\ seen \in SUBSET Record
    BY ReportAssumption
  <2> HIDE DEF seen
  <2>3. erasing' \in ErasureRecord /\ \A r \in Record : erasing'.taken[r] = 0
    BY <2>1, <2>2, NotErasingTyped DEF ErasureRecord
  <2>4. TakenThere'
    BY <1>l, <2>1, <2>3 DEF TakenThere
  <2>5. QED
    BY <1>k, <2>1, <2>3, <2>4
<1>2. CASE EraseLogs
  <2> DEFINE taken == [r \in Record |-> IF r \in erasing.pair THEN stored[r].logs ELSE 0]
  <2>1. erasing' = [erasing EXCEPT !.step = "logs", !.taken = taken] /\ UNCHANGED <<stored, stripped, report>>
    BY <1>2 DEF EraseLogs
  <2>2. taken \in [Record -> 0 .. MaxLogs] /\ \A r \in Record : taken[r] <= stored[r].logs
    BY <1>l
  <2> HIDE DEF taken
  <2>3. erasing' \in ErasureRecord /\ erasing'.taken = taken
    BY <1>t, <2>1, <2>2 DEF ErasureRecord
  <2>4. TakenThere'
    BY <2>1, <2>2, <2>3 DEF TakenThere
  <2>5. QED
    BY <1>k, <2>1, <2>3, <2>4
<1>3. CASE EraseFails
  <2>1. erasing' = NotErasing /\ UNCHANGED <<stored, stripped, report>>
    BY <1>3 DEF EraseFails
  <2>2. TakenThere'
    BY <1>l, <2>1, NotErasingTyped DEF TakenThere
  <2>3. QED
    BY <1>k, <2>1, <2>2, NotErasingTyped
<1>4. CASE EraseCommits
  <2> DEFINE gone == erasing.rows
             left(r) == [stored[r] EXCEPT !.logs = stored[r].logs - erasing.taken[r]]
  <2>0. gone \in SUBSET Record /\ erasing.taken \in [Record -> 0 .. MaxLogs]
    BY <1>t DEF ErasureRecord
  <2>1. /\ stored' = [r \in Record |-> IF r \in gone THEN NoRow ELSE left(r)]
        /\ stripped' = (stripped \union {r \in Record : erasing.taken[r] > 0}) \ gone
        /\ erasing' = NotErasing
    BY <1>4 DEF EraseCommits
  <2>2. report' = IF Reading THEN [report EXCEPT !.crossed = report.crossed + 1, !.erased = report.erased \union gone]
                  ELSE report
    <3>1. CASE Reading
      BY <1>4, <1>t, <3>1 DEF EraseCommits, Crossing, ReportRecord
    <3>2. CASE ~Reading
      BY <1>4, <1>t, <3>2 DEF EraseCommits, Crossing, ReportRecord
    <3>3. QED
      BY <3>1, <3>2
  <2>3. ASSUME NEW r \in Record \ gone
        PROVE  /\ left(r) \in StoredRow /\ left(r).status = stored[r].status
               /\ left(r).events = stored[r].events /\ left(r).logs = stored[r].logs - erasing.taken[r]
    <3>1. erasing.taken[r] <= stored[r].logs /\ erasing.taken[r] \in 0 .. MaxLogs
      BY <2>0 DEF ReportsInv, TakenThere
    <3>2. stored[r].logs - erasing.taken[r] \in 0 .. MaxLogs
      BY <3>1, <1>l
    <3>3. QED
      BY <3>2, <1>l DEF StoredRow
  <2> HIDE DEF left, gone
  <2>4. NoRow \in StoredRow /\ NoRow.status = "none"
    BY <1>l DEF NoRow, StoredRow
  <2>5. stored' \in [Record -> StoredRow]
    BY <2>1, <2>3, <2>4
  <2>6. \A r \in Record : stored'[r] = IF r \in gone THEN NoRow ELSE left(r)
    BY <2>1
  <2>7. RowsExplained'
    <3> SUFFICES ASSUME NEW r \in Record \ gone, There(r)
                 PROVE  /\ r \in stripped' \/ stored'[r].logs > 0
                        /\ stored'[r].status \in stored'[r].events \union {"EXPIRED"}
      BY <2>3, <2>4, <2>6 DEF RowsExplained, There
    <3>1. /\ r \in stripped \/ stored[r].logs > 0
          /\ stored[r].status \in stored[r].events \union {"EXPIRED"}
      BY DEF ReportsInv, RowsExplained
    <3>2. stored'[r].logs = stored[r].logs - erasing.taken[r] /\ stored[r].logs \in Nat
          /\ erasing.taken[r] \in Nat
      BY <2>0, <2>3, <2>6, <1>l
    <3>3. QED
      BY <3>1, <3>2, <2>1, <2>3, <2>6
  <2>8. TakenThere' /\ erasing' \in ErasureRecord
    <3>1. \A r \in Record : stored'[r].logs >= 0
      BY <2>5 DEF StoredRow
    <3>2. QED
      BY <3>1, <2>1, NotErasingTyped DEF TakenThere
  <2>9. stripped' \subseteq Record /\ stripped \ gone \subseteq stripped'
    BY <2>1, <1>t
  <2>10. \A r \in Record \ gone : There(r) =>
             stored'[r].status # "none" /\ stored[r].events \subseteq stored'[r].events
    BY <2>3, <2>6 DEF There
  <2>11. gone \in SUBSET Record
    BY <2>0 DEF gone
  <2>12. QED
    BY <2>2, <2>5, <2>7, <2>8, <2>9, <2>10, <2>11, CommitKeeps
<1>5. QED
  BY <1>1, <1>2, <1>3, <1>4

(* A report begins, or ends. *)
LEMMA ReportBegins ==
  ASSUME ReportsInv, UNCHANGED <<stored, erasing, stripped>>, report' \in ReportRecord,
         report'.kind = "none" \/ report'.step = 1
  PROVE  ReportsInv'
<1>1. RowsExplained' /\ TakenThere'
  BY DEF ReportsInv, RowsExplained, TakenThere, There
<1>2. ReportsTyped'
  BY DEF ReportsInv, ReportsTyped, Reading
<1>3. ListedThere' /\ EventsRead' /\ LogsRead' /\ CountedNow'
  BY DEF ListedThere, EventsRead, LogsRead, CountedNow, LoggedKinds
<1>4. QED
  BY <1>1, <1>2, <1>3 DEF ReportsInv

(* The answer of a query is written down, and the next one follows. *)
(* What the answer to a query may change of a report.                      *)
AnswerOf(query, new) ==
    /\ new \in ReportRecord
    /\ new.kind = report.kind /\ new.step = report.step
    /\ new.crossed = report.crossed /\ new.erased = report.erased
    /\ new.listed = IF query = "consents" THEN [r \in Record |-> stored[r].status] ELSE report.listed
    /\ new.events = IF query = "events" THEN [r \in Record |-> stored[r].events] ELSE report.events
    /\ new.logs = IF query = "logs" THEN [r \in Record |-> stored[r].logs] ELSE report.logs
    /\ report.kind = "dashboard" =>
       /\ new.count.total = IF query = "total" THEN Cardinality(TrulyThere) ELSE report.count.total
       /\ new.count.GRANTED = IF query = "GRANTED" THEN Cardinality(WithStatus("GRANTED")) ELSE report.count.GRANTED
       /\ new.count.REVOKED = IF query = "REVOKED" THEN Cardinality(WithStatus("REVOKED")) ELSE report.count.REVOKED
       /\ new.count.EXPIRED = IF query = "EXPIRED" THEN Cardinality(WithStatus("EXPIRED")) ELSE report.count.EXPIRED

LEMMA QueryAnswered ==
  ASSUME ReportsInv, NEW query, NEW new, At(query), Answer(new), AnswerOf(query, new)
  PROVE  ReportsInv'
<1>a. /\ new \in ReportRecord
      /\ new.kind = report.kind /\ new.step = report.step
      /\ new.crossed = report.crossed /\ new.erased = report.erased
      /\ query = "consents" => new.listed = [r \in Record |-> stored[r].status]
      /\ query # "consents" => new.listed = report.listed
      /\ query = "events" => new.events = [r \in Record |-> stored[r].events]
      /\ query # "events" => new.events = report.events
      /\ query = "logs" => new.logs = [r \in Record |-> stored[r].logs]
      /\ query # "logs" => new.logs = report.logs
  BY DEF AnswerOf
<1>b. report.kind = "dashboard" =>
      /\ new.count.total = IF query = "total" THEN Cardinality(TrulyThere) ELSE report.count.total
      /\ new.count.GRANTED = IF query = "GRANTED" THEN Cardinality(WithStatus("GRANTED")) ELSE report.count.GRANTED
      /\ new.count.REVOKED = IF query = "REVOKED" THEN Cardinality(WithStatus("REVOKED")) ELSE report.count.REVOKED
      /\ new.count.EXPIRED = IF query = "EXPIRED" THEN Cardinality(WithStatus("EXPIRED")) ELSE report.count.EXPIRED
  BY DEF AnswerOf
<1>t. stored \in [Record -> StoredRow] /\ report \in ReportRecord /\ ReportsTyped
  BY DEF ReportsInv, ReportsTyped
<1>q. /\ report.kind \in Kinds /\ report.step \in 1 .. 4
      /\ report.step = 1 => query \in {"consents", "total"}
      /\ query = "consents" => report.step = 1 /\ report.kind \in LoggedKinds \union {"audit"}
      /\ query = "events" => report.step = 2 /\ report.kind = "trail"
      /\ query = "logs" => (report.step = 3 /\ report.kind = "trail") \/ (report.step = 2 /\ report.kind \in {"export", "report"})
      /\ query \in {"total", "GRANTED", "REVOKED", "EXPIRED"} => report.kind = "dashboard"
  BY <1>t, QueryStands
<1>d. report.kind = "dashboard" => /\ query = "total" <=> report.step = 1
                                   /\ query = "GRANTED" <=> report.step = 2
                                   /\ query = "REVOKED" <=> report.step = 3
                                   /\ query = "EXPIRED" <=> report.step = 4
  BY <1>t, QueryStands
<1>p. /\ report.kind = "trail" =>
            /\ report.step = 1 => query = "consents"
            /\ report.step = 2 => query = "events"
            /\ report.step = 3 => query = "logs"
      /\ report.kind \in {"export", "report"} =>
            /\ report.step = 1 => query = "consents"
            /\ report.step = 2 => query = "logs"
  BY <1>t, QueryPlaces
<1> DEFINE later == [new EXCEPT !.step = new.step + 1]
<1>1. /\ later \in ReportRecord /\ later.kind = report.kind /\ later.step = report.step + 1
      /\ later.crossed = report.crossed /\ later.erased = report.erased
      /\ later.listed = new.listed /\ later.events = new.events /\ later.logs = new.logs
      /\ later.count = new.count
  BY <1>q, <1>a DEF ReportRecord
<1>2. report' = later /\ stored' = stored /\ erasing' = erasing /\ stripped' = stripped
  BY DEF Answer
<1> HIDE DEF later
<1>3. ReportsTyped'
  BY <1>t, <1>1, <1>2, <1>a, <1>q DEF ReportsTyped
<1>4. RowsExplained' /\ TakenThere'
  BY <1>2 DEF ReportsInv, RowsExplained, TakenThere, There
<1>l. query # "consents" => Listed' = Listed
  BY <1>1, <1>2, <1>a DEF Listed
<1>5. ListedThere'
  <2>1. CASE query = "consents"
    <3> SUFFICES ASSUME NEW r \in Listed'
                 PROVE  There(r) /\ report'.listed[r] \in stored[r].events \union {"EXPIRED"}
      BY <1>1, <1>2, <1>a DEF ListedThere, There
    <3>1. r \in Record /\ report'.listed[r] = stored[r].status /\ There(r)
      BY <2>1, <1>1, <1>2, <1>a DEF Listed, There
    <3>2. QED
      BY <3>1 DEF ReportsInv, RowsExplained
  <2>2. CASE query # "consents"
    <3>1. report.kind \in LoggedKinds => report.step > 1
      BY <2>2, <1>p, <1>q DEF LoggedKinds
    <3>2. QED
      BY <2>2, <3>1, <1>1, <1>2, <1>a, <1>l DEF ReportsInv, ListedThere, There
  <2>3. QED
    BY <2>1, <2>2
<1>6. EventsRead'
  <2> SUFFICES ASSUME report.kind = "trail", report.step + 1 > 2, NEW r \in Listed'
               PROVE  report'.listed[r] \in report'.events[r] \union {"EXPIRED"}
    BY <1>1, <1>2, <1>a DEF EventsRead
  <2>1. query # "consents" /\ report'.listed[r] = report.listed[r] /\ r \in Listed /\ r \in Record
    BY <1>1, <1>2, <1>a, <1>q, <1>l DEF Listed
  <2>2. CASE query = "events"
    BY <2>1, <2>2, <1>1, <1>2, <1>a, <1>q DEF ReportsInv, ListedThere, LoggedKinds
  <2>3. CASE query # "events"
    <3>1. report.step > 2
      BY <2>1, <2>3, <1>t, QueryPlaces
    <3>2. QED
      BY <2>1, <2>3, <3>1, <1>1, <1>2, <1>a DEF ReportsInv, EventsRead
  <2>4. QED
    BY <2>2, <2>3
<1>7. LogsRead'
  <2> SUFFICES ASSUME (report.kind = "trail" /\ report.step + 1 > 3)
                        \/ (report.kind \in LoggedKinds \ {"trail"} /\ report.step + 1 > 2),
                      NEW r \in Listed', r \notin stripped
               PROVE  report'.logs[r] > 0
    BY <1>1, <1>2, <1>a DEF LogsRead
  <2>1. query # "consents" /\ r \in Listed /\ r \in Record
    BY <1>1, <1>2, <1>a, <1>q, <1>l DEF Listed
  <2>2. CASE query = "logs"
    <3>1. There(r)
      BY <2>1, <1>q DEF ReportsInv, ListedThere, LoggedKinds
    <3>2. report'.logs[r] = stored[r].logs
      BY <2>1, <2>2, <1>1, <1>2, <1>a
    <3>3. QED
      BY <2>1, <3>1, <3>2 DEF ReportsInv, RowsExplained
  <2>3. CASE query # "logs"
    <3>1. (report.kind = "trail" /\ report.step > 3) \/ (report.kind \in LoggedKinds \ {"trail"} /\ report.step > 2)
      <4>1. CASE report.kind = "trail"
        BY <2>1, <2>3, <1>q, <4>1, <1>t, QueryPlaces
      <4>2. CASE report.kind \in {"export", "report"}
        BY <2>1, <2>3, <4>2, <1>t, QueryPlaces DEF LoggedKinds
      <4>3. QED
        BY <4>1, <4>2 DEF LoggedKinds
    <3>2. QED
      BY <2>1, <2>3, <3>1, <1>1, <1>2, <1>a DEF ReportsInv, LogsRead
  <2>4. QED
    BY <2>2, <2>3
<1>8. CountedNow'
  <2>1. Cardinality(TrulyThere)' = Cardinality(TrulyThere)
        /\ \A status \in Statuses : Cardinality(WithStatus(status))' = Cardinality(WithStatus(status))
    BY <1>2 DEF TrulyThere, WithStatus, There
  <2>2. "GRANTED" \in Statuses /\ "REVOKED" \in Statuses /\ "EXPIRED" \in Statuses
    BY DEF Statuses
  <2>3. QED
    BY <2>1, <2>2, <1>1, <1>2, <1>a, <1>b, <1>q, <1>d DEF ReportsInv, CountedNow
<1>9. QED
  BY <1>3, <1>4, <1>5, <1>6, <1>7, <1>8 DEF ReportsInv

LEMMA ReportsStep == ReportsInv /\ [ReportsNext]_reportVars => ReportsInv'
<1> SUFFICES ASSUME ReportsInv, [ReportsNext]_reportVars PROVE ReportsInv'
  OBVIOUS
<1>t. stored \in [Record -> StoredRow] /\ report \in ReportRecord /\ ReportsTyped
  BY DEF ReportsInv, ReportsTyped
<1>n. /\ \A status : WithStatus(status) = {r \in Record : stored[r].status = status}
      /\ TrulyThere = {r \in Record : There(r)}
      /\ Cardinality(TrulyThere) \in Nat
      /\ \A status : Cardinality(WithStatus(status)) \in Nat
  BY ReportAssumption, FS_Subset, FS_CardinalityType DEF WithStatus, TrulyThere
<1>1. ASSUME NEW r \in Record,
             \/ \E to \in Statuses \ {"EXPIRED"} : Change(r, to)
             \/ \E event \in BOOLEAN : Expire(r, event)
      PROVE  ReportsInv'
  BY <1>1, ReportCommits
<1>2. ASSUME NEW kind \in DOMAIN Queries, Ask(kind) PROVE ReportsInv'
  <2> DEFINE asked == [Unasked EXCEPT !.kind = kind, !.step = 1]
  <2>1. kind \in Kinds
    BY QueriesOfKinds
  <2>u. Unasked \in ReportRecord /\ kind \in Kinds \union {"none"} /\ 1 \in 0 .. 5
    BY <2>1, UnaskedTyped
  <2>2. asked \in ReportRecord
    BY ONLY <2>u DEF ReportRecord
  <2>a. asked.step = 1
    BY ONLY <2>u DEF ReportRecord
  <2>3. report' = asked /\ UNCHANGED <<stored, erasing, stripped>>
    BY <1>2 DEF Ask
  <2> HIDE DEF asked
  <2>4. QED
    BY <2>2, <2>a, <2>3, ReportBegins
<1>3. CASE QueryConsents
  <2> DEFINE answer == [r \in Record |-> stored[r].status]
  <2> DEFINE new == [report EXCEPT !.listed = answer]
  <2>1. answer \in [Record -> Statuses \union {"none"}]
    BY <1>t DEF StoredRow
  <2> HIDE DEF answer
  <2>2. /\ new \in ReportRecord /\ new.kind = report.kind /\ new.step = report.step
        /\ new.crossed = report.crossed /\ new.erased = report.erased
        /\ new.listed = answer /\ new.events = report.events /\ new.logs = report.logs
        /\ new.count = report.count
    BY <1>t, <2>1 DEF ReportRecord
  <2>3. At("consents") /\ Answer(new)
    BY <1>3 DEF QueryConsents, answer
  <2>4. report.kind # "dashboard"
    BY <1>t, <2>3, QueryStands DEF LoggedKinds
  <2> HIDE DEF new
  <2>5. AnswerOf("consents", new)
    BY <2>2, <2>4 DEF AnswerOf, answer
  <2>6. QED
    BY <2>3, <2>5, QueryAnswered
<1>4. CASE QueryEvents
  <2> DEFINE answer == [r \in Record |-> stored[r].events]
  <2> DEFINE new == [report EXCEPT !.events = answer]
  <2>1. answer \in [Record -> SUBSET Statuses]
    BY <1>t DEF StoredRow
  <2> HIDE DEF answer
  <2>2. /\ new \in ReportRecord /\ new.kind = report.kind /\ new.step = report.step
        /\ new.crossed = report.crossed /\ new.erased = report.erased
        /\ new.listed = report.listed /\ new.events = answer /\ new.logs = report.logs
        /\ new.count = report.count
    BY <1>t, <2>1 DEF ReportRecord
  <2>3. At("events") /\ Answer(new)
    BY <1>4 DEF QueryEvents, answer
  <2>4. report.kind # "dashboard"
    BY <1>t, <2>3, QueryStands
  <2> HIDE DEF new
  <2>5. AnswerOf("events", new)
    BY <2>2, <2>4 DEF AnswerOf, answer
  <2>6. QED
    BY <2>3, <2>5, QueryAnswered
<1>5. CASE QueryLogs
  <2> DEFINE answer == [r \in Record |-> stored[r].logs]
  <2> DEFINE new == [report EXCEPT !.logs = answer]
  <2>1. answer \in [Record -> Nat]
    BY <1>t, ReportAssumption DEF StoredRow
  <2> HIDE DEF answer
  <2>2. /\ new \in ReportRecord /\ new.kind = report.kind /\ new.step = report.step
        /\ new.crossed = report.crossed /\ new.erased = report.erased
        /\ new.listed = report.listed /\ new.events = report.events /\ new.logs = answer
        /\ new.count = report.count
    BY <1>t, <2>1 DEF ReportRecord
  <2>3. At("logs") /\ Answer(new)
    BY <1>5 DEF QueryLogs, answer
  <2>4. report.kind # "dashboard"
    BY <1>t, <2>3, QueryStands
  <2> HIDE DEF new
  <2>5. AnswerOf("logs", new)
    BY <2>2, <2>4 DEF AnswerOf, answer
  <2>6. QED
    BY <2>3, <2>5, QueryAnswered
<1>6. CASE QueryOnChain \/ CountTotal
  <2> DEFINE n == Cardinality(TrulyThere)
  <2> DEFINE counted == [report.count EXCEPT !.total = n]
  <2> DEFINE new == [report EXCEPT !.count = counted]
  <2>0. n \in Nat
    BY <1>n
  <2> HIDE DEF n
  <2>1. /\ counted \in CountRecord /\ counted.total = n /\ counted.GRANTED = report.count.GRANTED
        /\ counted.REVOKED = report.count.REVOKED /\ counted.EXPIRED = report.count.EXPIRED
    BY <1>t, <2>0 DEF ReportRecord, CountRecord
  <2>e. report.count \in CountRecord
    BY <1>t DEF ReportRecord
  <2>a. Answer(new) /\ (At("chain") \/ At("total"))
    BY <1>6 DEF QueryOnChain, CountTotal, n, TrulyThere
  <2> HIDE DEF counted
  <2>2. /\ new \in ReportRecord /\ new.kind = report.kind /\ new.step = report.step
        /\ new.crossed = report.crossed /\ new.erased = report.erased
        /\ new.listed = report.listed /\ new.events = report.events /\ new.logs = report.logs
        /\ new.count = counted
    BY <1>t, <2>1 DEF ReportRecord
  <2> HIDE DEF new
  <2>3. CASE At("total")
    <3>1. AnswerOf("total", new)
      BY <2>1, <2>2 DEF AnswerOf, n
    <3>2. QED
      BY <2>a, <2>3, <3>1, QueryAnswered
  <2>4. CASE At("chain")
    <3>1. report.kind # "dashboard"
      BY <1>t, <2>4, QueryStands
    <3>2. AnswerOf("chain", new)
      BY <2>2, <3>1 DEF AnswerOf
    <3>3. QED
      BY <2>a, <2>4, <3>2, QueryAnswered
  <2>5. QED
    BY <2>a, <2>3, <2>4
<1>7. ASSUME NEW status \in {"GRANTED", "REVOKED", "EXPIRED"}, CountStatus(status) PROVE ReportsInv'
  <2> DEFINE n == Cardinality(WithStatus(status))
  <2> DEFINE counted == [report.count EXCEPT ![status] = n]
  <2> DEFINE new == [report EXCEPT !.count = counted]
  <2>0. n \in Nat
    BY <1>n
  <2>a. Answer(new) /\ At(status)
    BY <1>7 DEF CountStatus, WithStatus
  <2>e. report.count \in CountRecord
    BY <1>t DEF ReportRecord
  <2> HIDE DEF n
  <2>1. /\ counted \in CountRecord /\ counted.total = report.count.total
        /\ counted.GRANTED = IF status = "GRANTED" THEN n ELSE report.count.GRANTED
        /\ counted.REVOKED = IF status = "REVOKED" THEN n ELSE report.count.REVOKED
        /\ counted.EXPIRED = IF status = "EXPIRED" THEN n ELSE report.count.EXPIRED
    <3>1. CASE status = "GRANTED"
      BY <2>0, <2>e, <3>1 DEF CountRecord
    <3>2. CASE status = "REVOKED"
      BY <2>0, <2>e, <3>2 DEF CountRecord
    <3>3. CASE status = "EXPIRED"
      BY <2>0, <2>e, <3>3 DEF CountRecord
    <3>4. QED
      BY <3>1, <3>2, <3>3
  <2> HIDE DEF counted
  <2>2. /\ new \in ReportRecord /\ new.kind = report.kind /\ new.step = report.step
        /\ new.crossed = report.crossed /\ new.erased = report.erased
        /\ new.listed = report.listed /\ new.events = report.events /\ new.logs = report.logs
        /\ new.count = counted
    BY <1>t, <2>1 DEF ReportRecord
  <2> HIDE DEF new
  <2>3. /\ new.count.total = IF status = "total" THEN Cardinality(TrulyThere) ELSE report.count.total
        /\ new.count.GRANTED = IF status = "GRANTED" THEN Cardinality(WithStatus("GRANTED")) ELSE report.count.GRANTED
        /\ new.count.REVOKED = IF status = "REVOKED" THEN Cardinality(WithStatus("REVOKED")) ELSE report.count.REVOKED
        /\ new.count.EXPIRED = IF status = "EXPIRED" THEN Cardinality(WithStatus("EXPIRED")) ELSE report.count.EXPIRED
    BY <2>1, <2>2 DEF n
  <2>4. status \notin {"consents", "events", "logs"}
    OBVIOUS
  <2>5. AnswerOf(status, new)
    BY <2>2, <2>3, <2>4 DEF AnswerOf
  <2>6. QED
    BY <2>a, <2>5, QueryAnswered
<1>8. CASE CommitReport
  <2>1. At("commit") /\ Answer(report)
    BY <1>8 DEF CommitReport
  <2>2. report.kind # "dashboard"
    BY <1>t, <2>1, QueryStands
  <2>3. AnswerOf("commit", report)
    BY <1>t, <2>2 DEF AnswerOf
  <2>4. QED
    BY <2>1, <2>3, QueryAnswered
<1>9. CASE ReportFails \/ Deliver
  BY <1>9, UnaskedTyped, ReportBegins DEF ReportFails, Deliver
<1>10. CASE UNCHANGED reportVars
  BY <1>10 DEF reportVars, ReportsInv, ReportsTyped, Reading, RowsExplained, TakenThere, ListedThere, EventsRead, LogsRead,
     CountedNow, TrulyThere, WithStatus, There, Listed
<1>11. CASE (\E pair \in Pairs : EraseRecords(pair)) \/ EraseLogs \/ EraseCommits \/ EraseFails
  BY <1>11, EraseKeeps
<1>12. QED
  BY <1>1, <1>2, <1>3, <1>4, <1>5, <1>6, <1>7, <1>8, <1>9, <1>10, <1>11 DEF ReportsNext

LEMMA ReportsInvImplies == ReportsInv => ReportsSafe
<1> SUFFICES ASSUME ReportsInv PROVE ReportsSafe
  OBVIOUS
<1>t. /\ stored \in [Record -> StoredRow] /\ report \in ReportRecord
      /\ erasing \in ErasureRecord /\ stripped \subseteq Record
  BY DEF ReportsInv, ReportsTyped
<1>1. ReportsTypeOK
  BY <1>t, QueriesOfKinds DEF ReportsTypeOK, StoredRow, ReportRecord, ErasureRecord
<1>a. Answered => report.kind \in Kinds /\ report.step > Len(Queries[report.kind])
  BY <1>t DEF Answered, Reading, ReportRecord
<1>2. ListedAreLogged
  <2> SUFFICES ASSUME Answered, report.kind \in {"export", "trail", "report"}
               PROVE  \A r \in Listed \ stripped : report.logs[r] > 0
    BY DEF ListedAreLogged
  <2>1. CASE report.kind = "trail"
    <3>1. report.step > 4 /\ report.step \in Nat
      BY <1>a, <1>t, <2>1, QueriesOfKinds DEF ReportRecord
    <3>2. report.step > 3
      BY <3>1
    <3>3. LogsRead
      BY DEF ReportsInv
    <3>4. QED
      BY ONLY <2>1, <3>2, <3>3 DEF LogsRead
  <2>2. CASE report.kind \in {"export", "report"}
    <3>n. report.step \in Nat
      BY <1>t DEF ReportRecord
    <3>1. ASSUME report.kind = "export" PROVE report.step > 2
      <4>1. Queries[report.kind] = <<"consents", "logs">> /\ report.step > Len(Queries[report.kind])
        BY <1>a, <3>1, QueriesOfKinds
      <4>2. QED
        BY ONLY <3>n, <4>1
    <3>2. ASSUME report.kind = "report" PROVE report.step > 2
      <4>1. Queries[report.kind] = <<"consents", "logs", "commit">> /\ report.step > Len(Queries[report.kind])
        BY <1>a, <3>2, QueriesOfKinds
      <4>2. QED
        BY ONLY <3>n, <4>1
    <3>3. report.step > 2
      BY <2>2, <3>1, <3>2
    <3>4. QED
      BY <2>2, <3>3 DEF ReportsInv, LogsRead, LoggedKinds
  <2>3. QED
    BY <2>1, <2>2
<1>3. StatusExplained
  <2> SUFFICES ASSUME Answered, report.kind = "trail"
               PROVE  \A r \in Listed : report.listed[r] \in report.events[r] \union {"EXPIRED"}
    BY DEF StatusExplained
  <2>1. report.step > 4
    BY <1>a, QueriesOfKinds
  <2>2. QED
    BY <1>t, <2>1 DEF ReportsInv, EventsRead, ReportRecord
<1>4. CountsFit
  <2> SUFFICES ASSUME Answered, report.kind = "dashboard", report.crossed = 0
               PROVE  report.count.GRANTED + report.count.REVOKED + report.count.EXPIRED <= report.count.total
    BY DEF CountsFit
  <2>1. report.step > 4 /\ report.step \in Nat
    BY <1>a, <1>t, QueriesOfKinds DEF ReportRecord
  <2> DEFINE G == WithStatus("GRANTED")
  <2> DEFINE R == WithStatus("REVOKED")
  <2> DEFINE E == WithStatus("EXPIRED")
  <2>2. /\ report.count.total = Cardinality(TrulyThere) /\ report.count.GRANTED = Cardinality(G)
        /\ report.count.REVOKED = Cardinality(R) /\ report.count.EXPIRED = Cardinality(E)
    BY <2>1 DEF ReportsInv, CountedNow
  <2>3. /\ G \subseteq Record /\ R \subseteq Record /\ E \subseteq Record /\ TrulyThere \subseteq Record
        /\ G \intersect R = {} /\ (G \union R) \intersect E = {} /\ (G \union R) \union E \subseteq TrulyThere
    BY DEF WithStatus, TrulyThere, There
  <2> HIDE DEF G, R, E
  <2>4. IsFiniteSet(G) /\ IsFiniteSet(R) /\ IsFiniteSet(E) /\ IsFiniteSet(TrulyThere)
    BY <2>3, ReportAssumption, FS_Subset
  <2>5. /\ IsFiniteSet(G \union R)
        /\ Cardinality(G \union R) = Cardinality(G) + Cardinality(R) - Cardinality(G \intersect R)
    BY <2>4, FS_Union
  <2>6. Cardinality((G \union R) \union E) = Cardinality(G \union R) + Cardinality(E) - Cardinality((G \union R) \intersect E)
    BY <2>4, <2>5, FS_Union
  <2>7. Cardinality(G \intersect R) = 0 /\ Cardinality((G \union R) \intersect E) = 0
    <3>1. Cardinality({}) = 0
      BY FS_EmptySet
    <3>2. QED
      BY Zenon, <2>3, <3>1
  <2>8. Cardinality((G \union R) \union E) <= Cardinality(TrulyThere)
    BY <2>3, <2>4, FS_Subset
  <2>9. /\ Cardinality(G) \in Nat /\ Cardinality(R) \in Nat /\ Cardinality(E) \in Nat
        /\ Cardinality(TrulyThere) \in Nat
    BY <2>4, FS_CardinalityType
  <2>10. QED
    BY <2>2, <2>5, <2>6, <2>7, <2>8, <2>9
<1>5. QED
  BY <1>1, <1>2, <1>3, <1>4 DEF ReportsSafe

(***************************************************************************)
(* The client of the API.  Every consent a call of create_consent made,    *)
(* and every request of it that still runs, is an attempt that was not     *)
(* heard of, or the one whose answer is under way or returned.             *)
(***************************************************************************)
ConsentRow == [status : {"GRANTED", "REVOKED", "EXPIRED", "MODIFIED"}, covers : BOOLEAN,
               expires : Ends, by : Creation]
Listing == [row : Nat, covers : BOOLEAN, expires : Ends]
CallRecord == [phase : SdkPhases, attempt : 0 .. RetryCount, unheard : Nat, page : SUBSET Listing,
               chosen : Nat, asked : Nat, modified : SUBSET Nat, ended : BOOLEAN]

SdkTyped ==
    /\ consents \in Seq(ConsentRow) /\ Len(consents) <= MaxConsents
    /\ server \in [Creation -> [Attempt -> Outcome]]
    /\ client \in [SdkCall -> CallRecord]
    /\ sdkDay \in 0 .. MaxSdkDay

(* What a call holds of the consents is about rows that exist. *)
KnownRows == \A i \in SdkCall :
    /\ client[i].chosen \in 0 .. Len(consents)
    /\ client[i].modified \subseteq DOMAIN consents
    /\ \A p \in client[i].page : p.row \in DOMAIN consents

(* The attempts of a call are made one after the other. *)
TriesInOrder == \A i \in SdkCall :
    /\ client[i].unheard <= client[i].attempt
    /\ client[i].phase = "idle" => client[i].attempt = 0
    /\ client[i].phase = "sleeping" => client[i].attempt < RetryCount
    /\ client[i].phase = "waiting" => client[i].unheard < client[i].attempt
Unsent == \A i \in Creation, n \in Attempt : n > client[i].attempt => server[i][n] = "none"

Running(i) == {n \in Attempt : server[i][n] = "running"}
Answering(i) == client[i].phase = "waiting" /\ Replied(i) \in {"running", "created"}
Answerable(i) == IF client[i].phase = "ConsentRecord" \/ Answering(i) THEN 1 ELSE 0

AttemptsMake == \A i \in Creation :
    Cardinality(Made(i)) + Cardinality(Running(i)) <= client[i].unheard + Answerable(i)

AnsweredMade == \A i \in Creation :
    \/ client[i].phase = "ConsentRecord"
    \/ client[i].phase = "waiting" /\ Replied(i) = "created"
    => Made(i) # {}

(* A page, the chosen consent and the consent acted on are as they were    *)
(* read, unless they were modified since, and what ended since is known.   *)
Unmodified(n) == Row(n).status # "MODIFIED" /\ Row(n).covers
PageTrue == \A i \in Check : \A p \in client[i].page : p.row \notin client[i].modified =>
    /\ Row(p.row).status # "MODIFIED"
    /\ Row(p.row).covers = p.covers
ChosenTrue == \A i \in Check : client[i].phase \in {"chosen", "valid", "executed"} =>
    /\ client[i].chosen # 0
    /\ client[i].chosen \notin client[i].modified =>
          /\ Unmodified(client[i].chosen)
          /\ client[i].phase # "chosen" => Row(client[i].chosen).expires >= client[i].asked
EndedSeen == \A i \in Acting : Rejected(client[i].chosen) => client[i].ended

SdkInv ==
    /\ SdkTyped /\ KnownRows /\ TriesInOrder /\ Unsent
    /\ AttemptsMake /\ AnsweredMade
    /\ PageTrue /\ ChosenTrue /\ EndedSeen

LEMMA SdkFinite ==
  ASSUME SdkTyped, NEW i
  PROVE  /\ IsFiniteSet(Made(i)) /\ Cardinality(Made(i)) \in Nat
         /\ IsFiniteSet(Running(i)) /\ Cardinality(Running(i)) \in Nat
<1>1. IsFiniteSet(1 .. Len(consents)) /\ DOMAIN consents = 1 .. Len(consents)
  BY FS_Interval DEF SdkTyped
<1>2. IsFiniteSet(Attempt)
  BY SdkAssumption, FS_Interval DEF Attempt
<1>3. Made(i) \subseteq 1 .. Len(consents) /\ Running(i) \subseteq Attempt
  BY <1>1 DEF Made, Running
<1>4. IsFiniteSet(Made(i)) /\ IsFiniteSet(Running(i))
  BY <1>1, <1>2, <1>3, FS_Subset
<1>5. QED
  BY <1>4, FS_CardinalityType

LEMMA SdkInitially == SdkInit => SdkInv
<1> SUFFICES ASSUME SdkInit PROVE SdkInv
  OBVIOUS
<1>1. Unstarted \in CallRecord
  <2>1. Unstarted.ended \in BOOLEAN
    BY DEF Unstarted
  <2>2. QED
    BY <2>1, SdkAssumption DEF Unstarted, CallRecord, SdkPhases
<1>2. \A i \in SdkCall : client[i] = Unstarted
  BY DEF SdkInit
<1>3. consents = <<>> /\ Len(consents) = 0 /\ DOMAIN consents = {}
  BY DEF SdkInit
<1>4. SdkTyped
  <2>1. client \in [SdkCall -> CallRecord]
    BY <1>1 DEF SdkInit
  <2>2. server \in [Creation -> [Attempt -> Outcome]]
    BY DEF SdkInit, Outcome
  <2>3. QED
    BY <1>3, <2>1, <2>2, SdkAssumption DEF SdkInit, SdkTyped
<1>5. KnownRows /\ TriesInOrder
  BY <1>2, <1>3 DEF KnownRows, TriesInOrder, Unstarted
<1>6. Unsent
  BY DEF SdkInit, Unsent
<1>7. AttemptsMake
  <2> SUFFICES ASSUME NEW i \in Creation
               PROVE  Cardinality(Made(i)) + Cardinality(Running(i)) <= client[i].unheard + Answerable(i)
    BY DEF AttemptsMake
  <2>1. Made(i) = {} /\ Running(i) = {}
    BY <1>3 DEF SdkInit, Made, Running
  <2>2. Cardinality(Made(i)) = 0 /\ Cardinality(Running(i)) = 0
    BY <2>1, FS_EmptySet
  <2>3. client[i].unheard = 0 /\ Answerable(i) = 0
    BY <1>2 DEF SdkCall, Unstarted, Answerable, Answering
  <2>4. QED
    BY <2>2, <2>3
<1>8. AnsweredMade
  BY <1>2 DEF AnsweredMade, SdkCall, Unstarted
<1>9. PageTrue /\ ChosenTrue /\ EndedSeen
  BY <1>2 DEF PageTrue, ChosenTrue, EndedSeen, Acting, SdkCall, Unstarted
<1>10. QED
  BY <1>4, <1>5, <1>6, <1>7, <1>8, <1>9 DEF SdkInv

(* A step of a check changes the record of the check alone. *)
LEMMA CheckMoves ==
  ASSUME SdkInv, NEW i \in Check, NEW later \in CallRecord,
         client' = [client EXCEPT ![i] = later], UNCHANGED <<consents, server, sdkDay>>,
         client[i].phase \in {"idle", "queried", "chosen", "valid"},
         later.phase \notin {"idle", "sleeping", "waiting", "ConsentRecord"},
         later.attempt = client[i].attempt, later.unheard = client[i].unheard,
         later.chosen \in 0 .. Len(consents), later.modified \subseteq DOMAIN consents,
         \A p \in later.page : p.row \in DOMAIN consents,
         \A p \in later.page : p.row \notin later.modified =>
            Row(p.row).status # "MODIFIED" /\ Row(p.row).covers = p.covers,
         later.phase \in {"chosen", "valid", "executed"} =>
            /\ later.chosen # 0
            /\ later.chosen \notin later.modified =>
                  /\ Unmodified(later.chosen)
                  /\ later.phase # "chosen" => Row(later.chosen).expires >= later.asked,
         later.phase \in {"valid", "executed"} /\ Rejected(later.chosen) => later.ended
  PROVE  SdkInv'
<1>t. i \in SdkCall /\ client \in [SdkCall -> CallRecord]
  BY DEF SdkCall, SdkInv, SdkTyped
<1>c. client' \in [SdkCall -> CallRecord] /\ \A j \in SdkCall : client'[j] = IF j = i THEN later ELSE client[j]
  BY <1>t
<1>r. /\ \A n : Row(n)' = Row(n)
      /\ \A n : Rejected(n)' <=> Rejected(n)
      /\ \A n : Unmodified(n)' <=> Unmodified(n)
  BY DEF Row, Rejected, Unmodified
<1>1. SdkTyped'
  BY <1>c DEF SdkInv, SdkTyped
<1>2. KnownRows'
  BY <1>c DEF SdkInv, KnownRows
<1>3. TriesInOrder'
  BY <1>c DEF SdkInv, TriesInOrder
<1>4. Unsent'
  BY <1>c DEF SdkInv, Unsent, SdkCall
<1>m. ASSUME NEW j \in Creation
      PROVE  /\ Made(j)' = Made(j) /\ Running(j)' = Running(j)
             /\ client'[j].unheard = client[j].unheard /\ Answerable(j)' = Answerable(j)
  BY <1>c DEF Made, Running, Row, Answerable, Answering, Replied, SdkCall
<1>5. AttemptsMake'
  BY <1>m DEF SdkInv, AttemptsMake
<1>6. AnsweredMade'
  BY <1>c, <1>m DEF SdkInv, AnsweredMade, SdkCall, Replied
<1>7. PageTrue'
  BY <1>c, <1>r DEF SdkInv, PageTrue, SdkCall
<1>8. ChosenTrue'
  BY <1>c, <1>r DEF SdkInv, ChosenTrue, SdkCall
<1>9. EndedSeen'
  BY <1>c, <1>r DEF SdkInv, EndedSeen, Acting, SdkCall
<1>10. QED
  BY <1>1, <1>2, <1>3, <1>4, <1>5, <1>6, <1>7, <1>8, <1>9 DEF SdkInv

(* A turn of a creation changes its record and the answer to one attempt. *)
LEMMA RequestMoves ==
  ASSUME SdkInv, NEW i \in Creation, NEW later \in CallRecord, NEW n \in Attempt, NEW answer \in Outcome,
         client' = [client EXCEPT ![i] = later],
         server' = [server EXCEPT ![i] = [server[i] EXCEPT ![n] = answer]],
         UNCHANGED <<consents, sdkDay>>,
         later.page = client[i].page, later.chosen = client[i].chosen, later.asked = client[i].asked,
         later.modified = client[i].modified, later.ended = client[i].ended,
         later.phase \in {"chosen", "valid", "executed"} => later.phase = client[i].phase,
         n <= later.attempt, client[i].attempt <= later.attempt,
         /\ later.unheard <= later.attempt
         /\ later.phase = "idle" => later.attempt = 0
         /\ later.phase = "sleeping" => later.attempt < RetryCount
         /\ later.phase = "waiting" => later.unheard < later.attempt,
         Cardinality(Made(i)) + Cardinality(Running(i)') <= later.unheard + Answerable(i)',
         later.phase = "ConsentRecord" \/ (later.phase = "waiting" /\ Replied(i)' = "created")
            => Made(i) # {}
  PROVE  SdkInv'
<1>t. /\ i \in SdkCall /\ client \in [SdkCall -> CallRecord]
      /\ server \in [Creation -> [Attempt -> Outcome]]
  BY DEF SdkCall, SdkInv, SdkTyped
<1>c. client' \in [SdkCall -> CallRecord] /\ \A j \in SdkCall : client'[j] = IF j = i THEN later ELSE client[j]
  BY <1>t
<1>s. /\ server' \in [Creation -> [Attempt -> Outcome]]
      /\ \A j \in Creation, k \in Attempt :
            server'[j][k] = IF j = i /\ k = n THEN answer ELSE server[j][k]
      /\ \A j \in Creation : j # i => server'[j] = server[j]
  BY <1>t
<1>r. /\ \A k : Row(k)' = Row(k)
      /\ \A k : Rejected(k)' <=> Rejected(k)
      /\ \A k : Unmodified(k)' <=> Unmodified(k)
      /\ \A j : Made(j)' = Made(j)
  BY DEF Row, Rejected, Unmodified, Made
<1>a. /\ \A j \in SdkCall : client[j].attempt \in 0 .. RetryCount /\ client'[j].attempt \in 0 .. RetryCount
      /\ Attempt \subseteq Nat
  BY <1>t, <1>c, SdkAssumption DEF CallRecord, Attempt
<1>1. SdkTyped'
  BY <1>c, <1>s DEF SdkInv, SdkTyped
<1>2. KnownRows'
  BY <1>c DEF SdkInv, KnownRows
<1>3. TriesInOrder'
  BY <1>c DEF SdkInv, TriesInOrder
<1>4. Unsent'
  <2> SUFFICES ASSUME NEW j \in Creation, NEW k \in Attempt, k > client'[j].attempt
               PROVE  server'[j][k] = "none"
    BY DEF Unsent
  <2>1. j \in SdkCall /\ client[j].attempt <= client'[j].attempt
    BY <1>c, <1>a DEF SdkCall
  <2>2. k > client[j].attempt /\ ~(j = i /\ k = n)
    BY <2>1, <1>a, <1>c
  <2>3. QED
    BY <2>2, <1>s DEF SdkInv, Unsent
<1>m. ASSUME NEW j \in Creation, j # i
      PROVE  /\ Running(j)' = Running(j) /\ client'[j] = client[j]
             /\ Answerable(j)' = Answerable(j) /\ Replied(j)' = Replied(j)
  BY <1>m, <1>c, <1>s DEF Running, Answerable, Answering, Replied, SdkCall
<1>i. client'[i] = later
  BY <1>t, <1>c
<1>5. AttemptsMake'
  <2> SUFFICES ASSUME NEW j \in Creation
               PROVE  Cardinality(Made(j)') + Cardinality(Running(j)') <= client'[j].unheard + Answerable(j)'
    BY DEF AttemptsMake
  <2>1. CASE j = i
    BY <2>1, <1>r, <1>i
  <2>2. CASE j # i
    BY <2>2, <1>r, <1>m DEF SdkInv, AttemptsMake
  <2>3. QED
    BY <2>1, <2>2
<1>6. AnsweredMade'
  <2>1. ASSUME NEW j \in Creation,
               client'[j].phase = "ConsentRecord" \/ (client'[j].phase = "waiting" /\ Replied(j)' = "created")
        PROVE  Made(j) # {}
    <3>1. CASE j = i
      BY <2>1, <3>1, <1>i DEF Replied
    <3>2. CASE j # i
      BY <2>1, <3>2, <1>m DEF SdkInv, AnsweredMade
    <3>3. QED
      BY <3>1, <3>2
  <2>2. ASSUME NEW j \in Creation PROVE Made(j)' = Made(j)
    BY <1>r
  <2>3. QED
    BY <2>1, <2>2 DEF AnsweredMade
<1>7. PageTrue'
  BY <1>c, <1>r DEF SdkInv, PageTrue, SdkCall
<1>8. ChosenTrue'
  BY <1>c, <1>r DEF SdkInv, ChosenTrue, SdkCall
<1>9. EndedSeen'
  BY <1>c, <1>r DEF SdkInv, EndedSeen, Acting, SdkCall
<1>10. QED
  BY <1>1, <1>2, <1>3, <1>4, <1>5, <1>6, <1>7, <1>8, <1>9 DEF SdkInv

(* What the requests of a creation that run become: one more, one less. *)
LEMMA RunningMoves ==
  ASSUME SdkTyped, NEW i \in Creation, NEW n \in Attempt, NEW answer \in Outcome,
         server' = [server EXCEPT ![i] = [server[i] EXCEPT ![n] = answer]]
  PROVE  /\ server[i][n] = "running" /\ answer # "running"
               => Cardinality(Running(i)') = Cardinality(Running(i)) - 1
         /\ server[i][n] # "running" /\ answer = "running"
               => Cardinality(Running(i)') = Cardinality(Running(i)) + 1
         /\ (server[i][n] = "running" <=> answer = "running") => Running(i)' = Running(i)
<1>t. server \in [Creation -> [Attempt -> Outcome]]
  BY DEF SdkTyped
<1>s. \A k \in Attempt : server'[i][k] = IF k = n THEN answer ELSE server[i][k]
  BY <1>t
<1>f. IsFiniteSet(Running(i)) /\ Cardinality(Running(i)) \in Nat
  BY SdkFinite
<1>1. ASSUME server[i][n] = "running", answer # "running"
      PROVE  Cardinality(Running(i)') = Cardinality(Running(i)) - 1
  <2>1. Running(i)' = Running(i) \ {n} /\ n \in Running(i)
    BY <1>1, <1>s DEF Running
  <2>2. Cardinality(Running(i) \ {n}) = Cardinality(Running(i)) - 1
    BY <2>1, <1>f, FS_RemoveElement
  <2>3. QED
    BY Zenon, <2>1, <2>2
<1>2. ASSUME server[i][n] # "running", answer = "running"
      PROVE  Cardinality(Running(i)') = Cardinality(Running(i)) + 1
  <2>1. Running(i)' = Running(i) \union {n} /\ n \notin Running(i)
    BY <1>2, <1>s DEF Running
  <2>2. Cardinality(Running(i) \union {n}) = Cardinality(Running(i)) + 1
    BY <2>1, <1>f, FS_AddElement
  <2>3. QED
    BY Zenon, <2>1, <2>2
<1>3. ASSUME server[i][n] = "running" <=> answer = "running"
      PROVE  Running(i)' = Running(i)
  BY <1>3, <1>s DEF Running
<1>4. QED
  BY <1>1, <1>2, <1>3

LEMMA RequestSent ==
  ASSUME SdkInv, NEW i \in Creation, SendRequest(i)
  PROVE  SdkInv'
<1>t. /\ i \in SdkCall /\ client \in [SdkCall -> CallRecord] /\ client[i] \in CallRecord
      /\ server \in [Creation -> [Attempt -> Outcome]]
  BY DEF SdkCall, SdkInv, SdkTyped
<1> DEFINE n == client[i].attempt + 1
<1> DEFINE later == [client[i] EXCEPT !.phase = "waiting", !.attempt = n]
<1>1. client[i].attempt < RetryCount /\ client[i].attempt \in Nat /\ client[i].unheard <= client[i].attempt
      /\ client[i].unheard \in Nat
  BY <1>t, SdkAssumption DEF SendRequest, SdkInv, TriesInOrder, CallRecord
<1>2. n \in Attempt
  BY <1>1, SdkAssumption DEF Attempt
<1>3. PICK reached \in {"running", "lost"} : server' = [server EXCEPT ![i][client[i].attempt + 1] = reached]
  BY DEF SendRequest
<1>4. server' = [server EXCEPT ![i] = [server[i] EXCEPT ![n] = reached]] /\ reached \in Outcome
  BY <1>3, <1>t DEF Outcome
<1>5. /\ later \in CallRecord /\ later.phase = "waiting" /\ later.attempt = n
      /\ later.unheard = client[i].unheard /\ later.page = client[i].page
      /\ later.chosen = client[i].chosen /\ later.asked = client[i].asked
      /\ later.modified = client[i].modified /\ later.ended = client[i].ended
  <2> HIDE DEF n
  <2>1. n \in 0 .. RetryCount
    BY <1>2, SdkAssumption DEF Attempt
  <2>2. later \in CallRecord
    BY <2>1, <1>t DEF CallRecord, SdkPhases
  <2>3. QED
    BY <2>2, <1>t DEF CallRecord
<1>6. client' = [client EXCEPT ![i] = later] /\ UNCHANGED <<consents, sdkDay>>
  BY <1>t DEF SendRequest, CallRecord
<1>7. client'[i] = later
  BY <1>6, <1>t
<1>8. server[i][n] = "none"
  BY <1>1, <1>2 DEF SdkInv, Unsent
<1>9. Replied(i)' = reached
  BY <1>2, <1>4, <1>5, <1>7, <1>t DEF Replied
<1>10. Answerable(i) = 0
  BY DEF SendRequest, Answerable, Answering
<1>11. Answerable(i)' = IF reached = "running" THEN 1 ELSE 0
  BY <1>5, <1>7, <1>9 DEF Answerable, Answering
<1>12. Cardinality(Made(i)) + Cardinality(Running(i)) <= client[i].unheard
  BY <1>10, <1>1 DEF SdkInv, AttemptsMake
<1>13. SdkTyped
  BY DEF SdkInv
<1> HIDE DEF n, later
<1>14. Cardinality(Running(i)') = Cardinality(Running(i)) + (IF reached = "running" THEN 1 ELSE 0)
  <2>1. CASE reached = "running"
    BY <2>1, <1>2, <1>4, <1>8, <1>13, RunningMoves
  <2>2. CASE reached = "lost"
    <3>1. Running(i)' = Running(i)
      BY <2>2, <1>2, <1>4, <1>8, <1>13, RunningMoves
    <3>2. Cardinality(Running(i)') = Cardinality(Running(i))
      BY Zenon, <3>1
    <3>3. QED
      BY <2>2, <3>2, <1>13, SdkFinite
  <2>3. QED
    BY <2>1, <2>2, <1>3
<1>15. Cardinality(Made(i)) + Cardinality(Running(i)') <= later.unheard + Answerable(i)'
  BY <1>1, <1>5, <1>11, <1>12, <1>13, <1>14, SdkFinite
<1>16. n <= later.attempt /\ client[i].attempt <= later.attempt /\ later.unheard < later.attempt
  BY <1>1, <1>5 DEF n
<1>17. later.unheard <= later.attempt
  BY <1>1, <1>5, <1>16 DEF n
<1>18. QED
  BY <1>2, <1>3, <1>4, <1>5, <1>6, <1>9, <1>15, <1>16, <1>17, RequestMoves

LEMMA ReplyReceived ==
  ASSUME SdkInv, NEW i \in Creation, Receive(i)
  PROVE  SdkInv'
<1>t. /\ i \in SdkCall /\ client \in [SdkCall -> CallRecord] /\ client[i] \in CallRecord
      /\ server \in [Creation -> [Attempt -> Outcome]]
  BY DEF SdkCall, SdkInv, SdkTyped
<1>p. client[i].phase = "waiting" /\ Replied(i) \notin {"none", "running", "lost"}
  BY DEF Receive
<1> DEFINE n == client[i].attempt
<1> DEFINE phase == IF Replied(i) = "error" THEN NextTurn(i) ELSE Raised(Replied(i))
<1> DEFINE later == [client[i] EXCEPT !.phase = phase]
<1>1. /\ client[i].attempt \in 0 .. RetryCount /\ client[i].unheard < client[i].attempt
      /\ client[i].unheard \in Nat
  BY <1>t, <1>p DEF SdkInv, TriesInOrder, CallRecord
<1>2. n \in Attempt
  BY <1>1, SdkAssumption DEF Attempt
<1>3. Replied(i) \in {"created", "refused", "denied", "error"}
  BY <1>2, <1>p, <1>t DEF Replied, Outcome
<1>4. /\ phase \in {"sleeping", "ConnectionError", "ConsentRecord", "ValueError", "PermissionError"}
      /\ phase = "ConsentRecord" <=> Replied(i) = "created"
      /\ phase = "sleeping" => client[i].attempt < RetryCount
  BY <1>3 DEF NextTurn, Raised
<1> HIDE DEF phase
<1>5. /\ later \in CallRecord /\ later.phase = phase /\ later.attempt = n
      /\ later.unheard = client[i].unheard /\ later.page = client[i].page
      /\ later.chosen = client[i].chosen /\ later.asked = client[i].asked
      /\ later.modified = client[i].modified /\ later.ended = client[i].ended
  <2>1. later \in CallRecord
    BY <1>t, <1>4 DEF CallRecord, SdkPhases
  <2>2. QED
    BY <2>1, <1>t DEF CallRecord
<1>6. client' = [client EXCEPT ![i] = later] /\ UNCHANGED <<consents, sdkDay>>
  BY <1>t DEF Receive, To, CallRecord, phase
<1>7. client'[i] = later
  BY <1>6, <1>t
<1>8. server' = [server EXCEPT ![i] = [server[i] EXCEPT ![n] = "lost"]] /\ "lost" \in Outcome
  BY <1>t DEF Receive, Outcome
<1>9. SdkTyped
  BY DEF SdkInv
<1>10. server[i][n] # "running"
  BY <1>p DEF Replied
<1> HIDE DEF n, later
<1>11. Running(i)' = Running(i)
  BY <1>2, <1>8, <1>9, <1>10, RunningMoves
<1>12. Cardinality(Running(i)') = Cardinality(Running(i))
  BY Zenon, <1>11
<1>13. Answerable(i) = (IF Replied(i) = "created" THEN 1 ELSE 0)
  BY <1>p, <1>3 DEF Answerable, Answering
<1>14. Answerable(i)' = (IF Replied(i) = "created" THEN 1 ELSE 0)
  BY <1>4, <1>5, <1>7 DEF Answerable, Answering
<1>15. Cardinality(Made(i)) + Cardinality(Running(i)) <= client[i].unheard + Answerable(i)
  BY DEF SdkInv, AttemptsMake
<1>16. Cardinality(Made(i)) + Cardinality(Running(i)') <= later.unheard + Answerable(i)'
  BY <1>5, <1>12, <1>13, <1>14, <1>15, <1>3
<1>17. phase = "ConsentRecord" => Made(i) # {}
  BY <1>4, <1>p DEF SdkInv, AnsweredMade
<1>18. /\ later.phase \in {"chosen", "valid", "executed"} => later.phase = client[i].phase
       /\ n <= later.attempt /\ client[i].attempt <= later.attempt
       /\ later.unheard <= later.attempt
       /\ later.phase = "idle" => later.attempt = 0
       /\ later.phase = "sleeping" => later.attempt < RetryCount
       /\ later.phase = "waiting" => later.unheard < later.attempt
  BY <1>1, <1>4, <1>5 DEF n
<1>19. later.phase = "ConsentRecord" \/ (later.phase = "waiting" /\ Replied(i)' = "created") => Made(i) # {}
  BY <1>4, <1>5, <1>17
<1>20. QED
  BY <1>2, <1>5, <1>6, <1>8, <1>16, <1>18, <1>19, RequestMoves

LEMMA RequestUnanswered ==
  ASSUME SdkInv, NEW i \in Creation, Unanswered(i)
  PROVE  SdkInv'
<1>t. /\ i \in SdkCall /\ client \in [SdkCall -> CallRecord] /\ client[i] \in CallRecord
      /\ server \in [Creation -> [Attempt -> Outcome]]
  BY DEF SdkCall, SdkInv, SdkTyped
<1>p. client[i].phase = "waiting"
  BY DEF Unanswered
<1> DEFINE n == client[i].attempt
<1> DEFINE phase == NextTurn(i)
<1> DEFINE later == [client[i] EXCEPT !.phase = phase, !.unheard = client[i].unheard + 1]
<1> DEFINE answer == IF server[i][n] = "running" THEN "running" ELSE "lost"
<1>1. /\ client[i].attempt \in 0 .. RetryCount /\ client[i].unheard < client[i].attempt
      /\ client[i].unheard \in Nat
  BY <1>t, <1>p DEF SdkInv, TriesInOrder, CallRecord
<1>2. n \in Attempt
  BY <1>1, SdkAssumption DEF Attempt
<1>4. /\ phase \in {"sleeping", "ConnectionError"}
      /\ phase = "sleeping" => client[i].attempt < RetryCount
  BY DEF NextTurn
<1> HIDE DEF phase
<1>5. /\ later \in CallRecord /\ later.phase = phase /\ later.attempt = n
      /\ later.unheard = client[i].unheard + 1 /\ later.page = client[i].page
      /\ later.chosen = client[i].chosen /\ later.asked = client[i].asked
      /\ later.modified = client[i].modified /\ later.ended = client[i].ended
  <2>1. later \in CallRecord
    <3> HIDE DEF n, answer
    <3>1. client[i].unheard + 1 \in Nat /\ phase \in SdkPhases
      BY <1>1, <1>4 DEF SdkPhases
    <3>2. QED
      BY <1>t, <3>1 DEF CallRecord
  <2>2. QED
    BY <2>1, <1>t DEF CallRecord
<1>6. client' = [client EXCEPT ![i] = later] /\ UNCHANGED <<consents, sdkDay>>
  BY <1>t DEF Unanswered, CallRecord, phase
<1>7. client'[i] = later
  BY <1>6, <1>t
<1>8. server' = [server EXCEPT ![i] = [server[i] EXCEPT ![n] = answer]] /\ answer \in Outcome
  BY <1>t, <1>2 DEF Unanswered, Outcome
<1>9. SdkTyped
  BY DEF SdkInv
<1>10. server[i][n] = "running" <=> answer = "running"
  OBVIOUS
<1> HIDE DEF n, later, answer
<1>11. Running(i)' = Running(i)
  BY <1>2, <1>8, <1>9, <1>10, RunningMoves
<1>12. Cardinality(Running(i)') = Cardinality(Running(i))
  BY Zenon, <1>11
<1>13. Answerable(i) \in {0, 1}
  BY DEF Answerable
<1>14. Answerable(i)' = 0
  BY <1>4, <1>5, <1>7 DEF Answerable, Answering
<1>15. Cardinality(Made(i)) + Cardinality(Running(i)) <= client[i].unheard + Answerable(i)
  BY DEF SdkInv, AttemptsMake
<1>16. Cardinality(Made(i)) + Cardinality(Running(i)') <= later.unheard + Answerable(i)'
  BY <1>1, <1>5, <1>9, <1>12, <1>13, <1>14, <1>15, SdkFinite
<1>17. /\ later.phase \in {"chosen", "valid", "executed"} => later.phase = client[i].phase
       /\ n <= later.attempt /\ client[i].attempt <= later.attempt
       /\ later.unheard <= later.attempt
       /\ later.phase = "idle" => later.attempt = 0
       /\ later.phase = "sleeping" => later.attempt < RetryCount
       /\ later.phase = "waiting" => later.unheard < later.attempt
  BY <1>1, <1>4, <1>5 DEF n
<1>18. ~(later.phase = "ConsentRecord" \/ (later.phase = "waiting" /\ Replied(i)' = "created"))
  BY <1>4, <1>5
<1>19. QED
  BY <1>2, <1>5, <1>6, <1>8, <1>16, <1>17, <1>18, RequestMoves

LEMMA RequestRefused ==
  ASSUME SdkInv, NEW i \in Creation, NEW n \in Attempt, NEW answer, CreateRecordFails(i, n, answer)
  PROVE  SdkInv'
<1>t. /\ i \in SdkCall /\ client \in [SdkCall -> CallRecord] /\ client[i] \in CallRecord
      /\ server \in [Creation -> [Attempt -> Outcome]]
  BY DEF SdkCall, SdkInv, SdkTyped
<1>p. server[i][n] = "running" /\ answer \in {"denied", "refused", "error"}
  BY DEF CreateRecordFails
<1> DEFINE reply == Reply(i, n, answer)
<1>1. client[i].attempt \in 0 .. RetryCount /\ n \in Nat /\ client[i].unheard \in Nat
  BY <1>t, SdkAssumption DEF CallRecord, Attempt
<1>2. n <= client[i].attempt
  BY <1>1, <1>p DEF SdkInv, Unsent
<1>3. reply \in {"denied", "refused", "error", "lost"} /\ reply \in Outcome
  BY <1>p DEF Reply, Outcome
<1>4. server' = [server EXCEPT ![i] = [server[i] EXCEPT ![n] = reply]]
  BY <1>t DEF CreateRecordFails
<1>5. client' = client /\ client' = [client EXCEPT ![i] = client[i]] /\ UNCHANGED <<consents, sdkDay>>
  BY <1>t DEF CreateRecordFails
<1>6. SdkTyped
  BY DEF SdkInv
<1> HIDE DEF reply
<1>7. Cardinality(Running(i)') = Cardinality(Running(i)) - 1
  BY <1>3, <1>4, <1>6, <1>p, RunningMoves
<1>8. Replied(i)' = IF client[i].attempt = n THEN reply ELSE Replied(i)
  BY <1>4, <1>5, <1>t, <1>p DEF Replied
<1>9. Answerable(i) <= Answerable(i)' + 1 /\ Answerable(i) \in Nat /\ Answerable(i)' \in Nat
  BY <1>5, <1>8, <1>3 DEF Answerable, Answering
<1>10. Cardinality(Made(i)) + Cardinality(Running(i)) <= client[i].unheard + Answerable(i)
  BY DEF SdkInv, AttemptsMake
<1>11. Cardinality(Made(i)) + Cardinality(Running(i)') <= client[i].unheard + Answerable(i)'
  BY <1>1, <1>6, <1>7, <1>9, <1>10, SdkFinite
<1>12. client[i].phase = "ConsentRecord" \/ (client[i].phase = "waiting" /\ Replied(i)' = "created") => Made(i) # {}
  BY <1>3, <1>8 DEF SdkInv, AnsweredMade
<1>13. /\ client[i].unheard <= client[i].attempt
       /\ client[i].phase = "idle" => client[i].attempt = 0
       /\ client[i].phase = "sleeping" => client[i].attempt < RetryCount
       /\ client[i].phase = "waiting" => client[i].unheard < client[i].attempt
  BY <1>t DEF SdkInv, TriesInOrder
<1>14. client[i].attempt <= client[i].attempt
  BY <1>1
<1>15. QED
  BY <1>t, <1>2, <1>3, <1>4, <1>5, <1>11, <1>12, <1>13, <1>14, RequestMoves

LEMMA RecordMade ==
  ASSUME SdkInv, NEW i \in Creation, NEW n \in Attempt, NEW covers \in BOOLEAN, NEW expires \in Ends,
         CreateRecord(i, n, covers, expires)
  PROVE  SdkInv'
<1>t. /\ i \in SdkCall /\ client \in [SdkCall -> CallRecord] /\ client[i] \in CallRecord
      /\ server \in [Creation -> [Attempt -> Outcome]]
      /\ consents \in Seq(ConsentRow) /\ SdkTyped
  BY DEF SdkCall, SdkInv, SdkTyped
<1> DEFINE newRow == [status |-> "GRANTED", covers |-> covers, expires |-> expires, by |-> i]
<1> DEFINE last == Len(consents) + 1
<1> DEFINE reply == Reply(i, n, "created")
<1>p. /\ server[i][n] = "running" /\ Len(consents) < MaxConsents
      /\ consents' = Append(consents, newRow) /\ client' = client /\ sdkDay' = sdkDay
      /\ server' = [server EXCEPT ![i] = [server[i] EXCEPT ![n] = reply]]
  BY <1>t DEF CreateRecord
<1>1. newRow \in ConsentRow /\ newRow.by = i
  BY DEF ConsentRow
<1>2. reply \in {"created", "lost"} /\ reply \in Outcome
  BY DEF Reply, Outcome
<1>3. reply = "created" <=> client[i].phase = "waiting" /\ client[i].attempt = n
  BY DEF Reply
<1> HIDE DEF newRow, reply
<1>4. /\ consents' \in Seq(ConsentRow) /\ Len(consents') = last /\ Len(consents) \in Nat
      /\ DOMAIN consents = 1 .. Len(consents) /\ DOMAIN consents' = 1 .. last
      /\ \A k \in 1 .. Len(consents) : consents'[k] = consents[k]
      /\ consents'[last] = newRow
  BY <1>t, <1>p, <1>1
<1>5. \A k \in DOMAIN consents : /\ Row(k)' = Row(k) /\ Rejected(k)' = Rejected(k)
                                /\ Unmodified(k)' = Unmodified(k)
  BY <1>4 DEF Row, Rejected, Unmodified
<1>s. /\ server' \in [Creation -> [Attempt -> Outcome]]
      /\ \A j \in Creation, k \in Attempt :
            server'[j][k] = IF j = i /\ k = n THEN reply ELSE server[j][k]
      /\ \A j \in Creation : j # i => server'[j] = server[j]
  BY <1>t, <1>p, <1>2
<1>6. SdkTyped'
  BY <1>4, <1>p, <1>s, SdkAssumption DEF SdkInv, SdkTyped
<1>7. KnownRows' /\ TriesInOrder'
  BY <1>4, <1>p DEF SdkInv, KnownRows, TriesInOrder
<1>8. Unsent'
  BY <1>p, <1>s DEF SdkInv, Unsent
<1>9. /\ Made(i)' = Made(i) \union {last} /\ last \notin Made(i)
      /\ \A j : j # i => Made(j)' = Made(j)
  BY <1>4, <1>1 DEF Made, Row
<1>10. Cardinality(Made(i)') = Cardinality(Made(i)) + 1
  <2>1. Cardinality(Made(i) \union {last}) = Cardinality(Made(i)) + 1
    BY <1>9, <1>t, SdkFinite, FS_AddElement
  <2>2. QED
    BY Zenon, <1>9, <2>1
<1>11. Cardinality(Running(i)') = Cardinality(Running(i)) - 1
  BY <1>2, <1>p, <1>t, RunningMoves
<1>12. /\ Replied(i)' = IF client[i].attempt = n THEN reply ELSE Replied(i)
       /\ Answerable(i)' = Answerable(i)
  <2>1. Replied(i)' = IF client[i].attempt = n THEN reply ELSE Replied(i)
    BY <1>p, <1>t DEF Replied
  <2>2. client[i].attempt = n => Replied(i) = "running"
    BY <1>p DEF Replied
  <2>3. QED
    BY <2>1, <2>2, <1>p, <1>3 DEF Answerable, Answering
<1>m. ASSUME NEW j \in Creation, j # i
      PROVE  /\ Running(j)' = Running(j) /\ Made(j)' = Made(j)
             /\ Answerable(j)' = Answerable(j) /\ Replied(j)' = Replied(j)
  BY <1>m, <1>p, <1>s, <1>9 DEF Running, Answerable, Answering, Replied
<1>13. AttemptsMake'
  <2> SUFFICES ASSUME NEW j \in Creation
               PROVE  Cardinality(Made(j)') + Cardinality(Running(j)') <= client'[j].unheard + Answerable(j)'
    BY DEF AttemptsMake
  <2>0. Cardinality(Made(j)) + Cardinality(Running(j)) <= client[j].unheard + Answerable(j)
    BY DEF SdkInv, AttemptsMake
  <2>1. CASE j = i
    BY <2>0, <2>1, <1>t, <1>p, <1>10, <1>11, <1>12, SdkFinite
  <2>2. CASE j # i
    BY <2>0, <2>2, <1>m, <1>p
  <2>3. QED
    BY <2>1, <2>2
<1>14. AnsweredMade'
  <2>1. Made(i)' # {}
    BY <1>9
  <2>2. ASSUME NEW j \in Creation, j # i,
               client[j].phase = "ConsentRecord" \/ (client[j].phase = "waiting" /\ Replied(j)' = "created")
        PROVE  Made(j)' # {}
    BY <2>2, <1>m DEF SdkInv, AnsweredMade
  <2>3. QED
    BY <2>1, <2>2, <1>p DEF AnsweredMade
<1>k. \A j \in SdkCall : /\ client[j].chosen # 0 => client[j].chosen \in DOMAIN consents
                         /\ \A p \in client[j].page : p.row \in DOMAIN consents
  BY <1>4 DEF SdkInv, KnownRows
<1>15. PageTrue'
  BY <1>k, <1>5, <1>p DEF SdkInv, PageTrue, SdkCall
<1>16. ChosenTrue'
  BY <1>k, <1>5, <1>p DEF SdkInv, ChosenTrue, SdkCall
<1>17. EndedSeen'
  <2>1. \A j \in Acting : client[j].chosen # 0
    BY DEF SdkInv, ChosenTrue, Acting
  <2>2. QED
    BY <2>1, <1>k, <1>5, <1>p DEF SdkInv, EndedSeen, Acting, SdkCall
<1>18. QED
  BY <1>6, <1>7, <1>8, <1>13, <1>14, <1>15, <1>16, <1>17 DEF SdkInv

(* A consent is changed in place: who made it stays. *)
LEMMA RowChanges ==
  ASSUME SdkInv, NEW n \in DOMAIN consents, NEW newRow \in ConsentRow, newRow.by = Row(n).by,
         consents' = [consents EXCEPT ![n] = newRow], UNCHANGED <<server, sdkDay>>,
         client' \in [SdkCall -> CallRecord],
         \A j \in SdkCall :
            /\ client'[j].attempt = client[j].attempt /\ client'[j].unheard = client[j].unheard
            /\ client'[j].chosen = client[j].chosen
            /\ client'[j].page = client[j].page
            /\ client'[j].modified \subseteq client[j].modified \union {n}
            /\ client[j].phase \in {"idle", "sleeping", "waiting", "ConsentRecord"}
                  \/ client'[j].phase \in {"idle", "sleeping", "waiting", "ConsentRecord"}
                  => client'[j].phase = client[j].phase
  PROVE  /\ SdkTyped' /\ KnownRows' /\ TriesInOrder' /\ Unsent' /\ AttemptsMake' /\ AnsweredMade'
         /\ \A k \in DOMAIN consents : Row(k)' = IF k = n THEN newRow ELSE Row(k)
<1>t. /\ client \in [SdkCall -> CallRecord] /\ consents \in Seq(ConsentRow)
  BY DEF SdkInv, SdkTyped
<1>4. /\ consents' \in Seq(ConsentRow) /\ Len(consents') = Len(consents) /\ DOMAIN consents' = DOMAIN consents
      /\ \A k \in DOMAIN consents : consents'[k] = IF k = n THEN newRow ELSE consents[k]
  BY <1>t
<1>5. \A k \in DOMAIN consents : Row(k)' = IF k = n THEN newRow ELSE Row(k)
  BY <1>4 DEF Row
<1>6. SdkTyped'
  BY <1>4 DEF SdkInv, SdkTyped
<1>7. KnownRows'
  BY <1>4 DEF SdkInv, KnownRows
<1>8. TriesInOrder'
  BY DEF SdkInv, TriesInOrder
<1>9. Unsent'
  BY DEF SdkInv, Unsent, SdkCall
<1>m. ASSUME NEW j \in Creation
      PROVE  /\ Made(j)' = Made(j) /\ Running(j)' = Running(j) /\ Replied(j)' = Replied(j)
             /\ Answerable(j)' = Answerable(j) /\ client'[j].unheard = client[j].unheard
             /\ client'[j].phase \in {"waiting", "ConsentRecord"} => client'[j].phase = client[j].phase
  <2>1. j \in SdkCall
    BY DEF SdkCall
  <2>2. Made(j)' = Made(j)
    BY <1>4 DEF Made, Row
  <2>3. Running(j)' = Running(j) /\ Replied(j)' = Replied(j)
    BY <2>1 DEF Running, Replied
  <2>4. QED
    BY <2>1, <2>2, <2>3 DEF Answerable, Answering
<1>10. AttemptsMake'
  BY <1>m DEF SdkInv, AttemptsMake
<1>11. AnsweredMade'
  BY <1>m DEF SdkInv, AnsweredMade
<1>12. QED
  BY <1>5, <1>6, <1>7, <1>8, <1>9, <1>10, <1>11

(* A consent is withdrawn or marked as expired. *)
LEMMA RowEnds ==
  ASSUME SdkInv, NEW n \in DOMAIN consents, NEW status \in {"REVOKED", "EXPIRED"},
         consents' = [consents EXCEPT ![n].status = status], UNCHANGED <<server, sdkDay>>,
         NEW i \in SdkCall, NEW phase \in {client[i].phase, "PermissionError"},
         phase = client[i].phase \/ client[i].phase = "chosen",
         client' = [AfterEnded(n) EXCEPT ![i].phase = phase]
  PROVE  SdkInv'
<1>t. /\ client \in [SdkCall -> CallRecord] /\ consents \in Seq(ConsentRow)
  BY DEF SdkInv, SdkTyped
<1> DEFINE newRow == [consents[n] EXCEPT !.status = status]
<1>1. consents[n] \in ConsentRow
  BY <1>t
<1>2. newRow \in ConsentRow /\ newRow.by = Row(n).by /\ newRow.status = status
      /\ newRow.covers = Row(n).covers /\ newRow.expires = Row(n).expires
  BY <1>1 DEF ConsentRow, Row
<1>3. consents' = [consents EXCEPT ![n] = newRow]
  OBVIOUS
<1> HIDE DEF newRow
<1>e. ASSUME NEW j \in SdkCall
      PROVE  [client[j] EXCEPT !.ended = TRUE] \in CallRecord
  BY <1>t DEF CallRecord
<1>4. /\ AfterEnded(n) \in [SdkCall -> CallRecord]
      /\ \A j \in SdkCall : AfterEnded(n)[j] =
            IF j \in Acting /\ client[j].chosen = n THEN [client[j] EXCEPT !.ended = TRUE] ELSE client[j]
  BY <1>t, <1>e DEF AfterEnded
<1>p. phase \in SdkPhases
  BY <1>t DEF CallRecord, SdkPhases
<1>5. client' \in [SdkCall -> CallRecord]
  <2>1. [AfterEnded(n)[i] EXCEPT !.phase = phase] \in CallRecord
    BY <1>4, <1>p DEF CallRecord
  <2>2. QED
    BY <1>4, <2>1
<1>6. ASSUME NEW j \in SdkCall
      PROVE  /\ client'[j].phase = IF j = i THEN phase ELSE client[j].phase
             /\ client'[j].attempt = client[j].attempt /\ client'[j].unheard = client[j].unheard
             /\ client'[j].chosen = client[j].chosen /\ client'[j].asked = client[j].asked
             /\ client'[j].page = client[j].page /\ client'[j].modified = client[j].modified
             /\ j \in Acting /\ client[j].chosen = n => client'[j].ended
             /\ client[j].ended => client'[j].ended
  <2>1. client[j] \in CallRecord
    BY <1>t
  <2>2. CASE j \in Acting /\ client[j].chosen = n
    <3> DEFINE known == [client[j] EXCEPT !.ended = TRUE]
    <3>1. AfterEnded(n)[j] = known /\ known \in CallRecord
      BY <1>4, <1>e, <2>2
    <3>2. /\ known.phase = client[j].phase
          /\ known.attempt = client[j].attempt /\ known.unheard = client[j].unheard
          /\ known.chosen = client[j].chosen /\ known.asked = client[j].asked
          /\ known.page = client[j].page /\ known.modified = client[j].modified
      BY <2>1 DEF CallRecord
    <3>3. known.ended = TRUE
      BY <2>1 DEF CallRecord
    <3> HIDE DEF known
    <3>4. client'[j] = IF j = i THEN [known EXCEPT !.phase = phase] ELSE known
      BY <1>4, <3>1
    <3>5. /\ client'[j].phase = IF j = i THEN phase ELSE known.phase
          /\ client'[j].attempt = known.attempt /\ client'[j].unheard = known.unheard
          /\ client'[j].chosen = known.chosen /\ client'[j].asked = known.asked
          /\ client'[j].page = known.page /\ client'[j].modified = known.modified
          /\ client'[j].ended = known.ended
      BY <3>1, <3>4 DEF CallRecord
    <3>6. QED
      BY <3>2, <3>3, <3>5
  <2>3. CASE ~(j \in Acting /\ client[j].chosen = n)
    <3>1. AfterEnded(n)[j] = client[j]
      BY <1>4, <2>3
    <3>2. client'[j] = IF j = i THEN [client[j] EXCEPT !.phase = phase] ELSE client[j]
      BY <1>4, <3>1
    <3>3. QED
      BY <2>1, <2>3, <3>2 DEF CallRecord
  <2>4. QED
    BY <2>2, <2>3
<1>7. /\ SdkTyped' /\ KnownRows' /\ TriesInOrder' /\ Unsent' /\ AttemptsMake' /\ AnsweredMade'
      /\ \A k \in DOMAIN consents : Row(k)' = IF k = n THEN newRow ELSE Row(k)
  <2>1. \A j \in SdkCall :
            /\ client'[j].attempt = client[j].attempt /\ client'[j].unheard = client[j].unheard
            /\ client'[j].chosen = client[j].chosen
            /\ client'[j].page = client[j].page
            /\ client'[j].modified \subseteq client[j].modified \union {n}
            /\ client[j].phase \in {"idle", "sleeping", "waiting", "ConsentRecord"}
                  \/ client'[j].phase \in {"idle", "sleeping", "waiting", "ConsentRecord"}
                  => client'[j].phase = client[j].phase
    BY <1>6
  <2>2. newRow \in ConsentRow /\ newRow.by = Row(n).by
    BY <1>2
  <2>3. UNCHANGED <<server, sdkDay>>
    OBVIOUS
  <2>4. QED
    BY <1>3, <1>5, <2>1, <2>2, <2>3, RowChanges
<1>k. \A j \in Check : /\ j \in SdkCall
                       /\ client[j].chosen # 0 => client[j].chosen \in DOMAIN consents
                       /\ \A p \in client[j].page : p.row \in DOMAIN consents
  BY <1>t DEF SdkInv, KnownRows, SdkCall
<1>8. PageTrue'
  BY <1>2, <1>6, <1>7, <1>k DEF SdkInv, PageTrue
<1>9. ChosenTrue'
  BY <1>2, <1>6, <1>7, <1>k DEF SdkInv, ChosenTrue, Unmodified
<1>10. EndedSeen'
  <2> SUFFICES ASSUME NEW j \in Acting', Rejected(client[j].chosen)'
               PROVE  client'[j].ended
    BY DEF EndedSeen
  <2>1. j \in Acting /\ j \in Check /\ j \in SdkCall
    BY <1>6, <1>k DEF Acting
  <2>2. client[j].chosen \in DOMAIN consents
    BY <2>1, <1>k DEF SdkInv, ChosenTrue, Acting
  <2>3. CASE client[j].chosen = n
    BY <1>6, <2>1, <2>3
  <2>4. CASE client[j].chosen # n
    <3>1. Rejected(client[j].chosen)
      BY <1>6, <1>7, <2>1, <2>2, <2>4 DEF Rejected, Row
    <3>2. QED
      BY <3>1, <2>1, <1>6 DEF SdkInv, EndedSeen
  <2>5. QED
    BY <2>3, <2>4
<1>11. QED
  BY <1>7, <1>8, <1>9, <1>10 DEF SdkInv

LEMMA RowModified ==
  ASSUME SdkInv, NEW n \in DOMAIN consents, NEW covers \in BOOLEAN, NEW expires \in Ends,
         Modify(n, covers, expires)
  PROVE  SdkInv'
<1>t. /\ client \in [SdkCall -> CallRecord] /\ consents \in Seq(ConsentRow)
      /\ DOMAIN consents = 1 .. Len(consents)
  BY DEF SdkInv, SdkTyped
<1> DEFINE newRow == [consents[n] EXCEPT !.status = "MODIFIED", !.covers = covers, !.expires = expires]
<1>1. consents[n] \in ConsentRow
  BY <1>t
<1>2. newRow \in ConsentRow /\ newRow.by = Row(n).by /\ newRow.status = "MODIFIED"
  BY <1>1 DEF ConsentRow, Row
<1>3. consents' = [consents EXCEPT ![n] = newRow] /\ UNCHANGED <<server, sdkDay>> /\ client' = AfterModified(n)
  BY DEF Modify
<1> HIDE DEF newRow
<1>e. ASSUME NEW j \in SdkCall
      PROVE  [client[j] EXCEPT !.modified = client[j].modified \union {n}] \in CallRecord
  <2>1. client[j] \in CallRecord /\ n \in Nat
    BY <1>t
  <2>2. QED
    BY <2>1 DEF CallRecord
<1>4. /\ client' \in [SdkCall -> CallRecord]
      /\ \A j \in SdkCall : client'[j] =
            IF j \in Looking(n) THEN [client[j] EXCEPT !.modified = client[j].modified \union {n}] ELSE client[j]
  BY <1>t, <1>3, <1>e DEF AfterModified
<1>6. ASSUME NEW j \in SdkCall
      PROVE  /\ client'[j].phase = client[j].phase
             /\ client'[j].attempt = client[j].attempt /\ client'[j].unheard = client[j].unheard
             /\ client'[j].chosen = client[j].chosen /\ client'[j].asked = client[j].asked
             /\ client'[j].page = client[j].page /\ client'[j].ended = client[j].ended
             /\ client'[j].modified = client[j].modified \union (IF j \in Looking(n) THEN {n} ELSE {})
  <2>1. client[j] \in CallRecord
    BY <1>t
  <2>2. CASE j \in Looking(n)
    BY <1>4, <2>1, <2>2 DEF CallRecord
  <2>3. CASE j \notin Looking(n)
    BY <1>4, <2>1, <2>3 DEF CallRecord
  <2>4. QED
    BY <2>2, <2>3
<1>7. /\ SdkTyped' /\ KnownRows' /\ TriesInOrder' /\ Unsent' /\ AttemptsMake' /\ AnsweredMade'
      /\ \A k \in DOMAIN consents : Row(k)' = IF k = n THEN newRow ELSE Row(k)
  <2>1. \A j \in SdkCall :
            /\ client'[j].attempt = client[j].attempt /\ client'[j].unheard = client[j].unheard
            /\ client'[j].chosen = client[j].chosen
            /\ client'[j].page = client[j].page
            /\ client'[j].modified \subseteq client[j].modified \union {n}
            /\ client[j].phase \in {"idle", "sleeping", "waiting", "ConsentRecord"}
                  \/ client'[j].phase \in {"idle", "sleeping", "waiting", "ConsentRecord"}
                  => client'[j].phase = client[j].phase
    BY <1>6
  <2>2. QED
    BY <1>2, <1>3, <1>4, <1>6, <2>1, RowChanges
<1>k. \A j \in Check : /\ j \in SdkCall
                       /\ client[j].chosen # 0 => client[j].chosen \in DOMAIN consents
                       /\ \A p \in client[j].page : p.row \in DOMAIN consents
  BY <1>t DEF SdkInv, KnownRows, SdkCall
<1>8. PageTrue'
  BY <1>6, <1>7, <1>k DEF SdkInv, PageTrue, Looking
<1>9. ChosenTrue'
  BY <1>6, <1>7, <1>k DEF SdkInv, ChosenTrue, Unmodified, Looking
<1>10. EndedSeen'
  <2> SUFFICES ASSUME NEW j \in Acting', Rejected(client[j].chosen)'
               PROVE  client'[j].ended
    BY DEF EndedSeen
  <2>1. j \in Acting /\ j \in Check /\ j \in SdkCall
    BY <1>6, <1>k DEF Acting
  <2>2. client[j].chosen \in DOMAIN consents
    BY <2>1, <1>k DEF SdkInv, ChosenTrue, Acting
  <2>3. Rejected(client[j].chosen)
    BY <1>2, <1>6, <1>7, <2>1, <2>2 DEF Rejected, Row
  <2>4. QED
    BY <2>1, <2>3, <1>6 DEF SdkInv, EndedSeen
<1>11. QED
  BY <1>7, <1>8, <1>9, <1>10 DEF SdkInv

LEMMA CheckQueries == ASSUME SdkInv, NEW i \in Check, Query(i) PROVE SdkInv'
<1>t. /\ i \in SdkCall /\ client \in [SdkCall -> CallRecord] /\ client[i] \in CallRecord
      /\ consents \in Seq(ConsentRow) /\ DOMAIN consents = 1 .. Len(consents)
  BY DEF SdkCall, SdkInv, SdkTyped
<1> DEFINE page == {ShownRow(n) : n \in Newest(GrantedRows)}
<1> DEFINE later == [client[i] EXCEPT !.phase = "queried", !.page = page]
<1>1. ASSUME NEW p \in page
      PROVE  /\ p \in Listing /\ p.row \in DOMAIN consents
             /\ Row(p.row).status # "MODIFIED" /\ Row(p.row).covers = p.covers
  <2>1. PICK n \in Newest(GrantedRows) : p = ShownRow(n)
    OBVIOUS
  <2>2. n \in DOMAIN consents /\ Row(n).status = "GRANTED" /\ n \in Nat
    BY <1>t DEF Newest, GrantedRows
  <2>3. Row(n) \in ConsentRow
    BY <1>t, <2>2 DEF Row
  <2>4. p.row = n /\ p.covers = Row(n).covers /\ p.expires = Row(n).expires
    BY <2>1 DEF ShownRow
  <2>5. p \in Listing
    BY <2>1, <2>2, <2>3 DEF ShownRow, Listing, ConsentRow
  <2>6. QED
    BY <2>2, <2>4, <2>5
<1>2. page \in SUBSET Listing
  BY <1>1
<1>3. client' = [client EXCEPT ![i] = later] /\ UNCHANGED <<consents, server, sdkDay>> /\ client[i].phase = "idle"
  BY <1>t DEF Query, CallRecord
<1> HIDE DEF page
<1>4. /\ later \in CallRecord /\ later.phase = "queried" /\ later.page = page
      /\ later.attempt = client[i].attempt /\ later.unheard = client[i].unheard
      /\ later.chosen = client[i].chosen /\ later.modified = client[i].modified
  BY <1>t, <1>2 DEF CallRecord, SdkPhases
<1>5. later.chosen \in 0 .. Len(consents) /\ later.modified \subseteq DOMAIN consents
  BY <1>t, <1>4 DEF SdkInv, KnownRows
<1> HIDE DEF later
<1>6. QED
  BY <1>1, <1>3, <1>4, <1>5, CheckMoves

LEMMA CheckChooses == ASSUME SdkInv, NEW i \in Check, Choose(i) PROVE SdkInv'
<1>t. /\ i \in SdkCall /\ client \in [SdkCall -> CallRecord] /\ client[i] \in CallRecord
      /\ consents \in Seq(ConsentRow) /\ DOMAIN consents = 1 .. Len(consents)
  BY DEF SdkCall, SdkInv, SdkTyped
<1>k. /\ client[i].chosen \in 0 .. Len(consents) /\ client[i].modified \subseteq DOMAIN consents
      /\ \A p \in client[i].page : p.row \in DOMAIN consents
      /\ client[i].phase = "queried" /\ UNCHANGED <<consents, server, sdkDay>>
  BY <1>t DEF SdkInv, KnownRows, Choose
<1>1. CASE client' = [client EXCEPT ![i].phase = "PermissionError", ![i].page = {}]
  <2> DEFINE later == [client[i] EXCEPT !.phase = "PermissionError", !.page = {}]
  <2>1. /\ later \in CallRecord /\ later.phase = "PermissionError" /\ later.page = {}
        /\ later.attempt = client[i].attempt /\ later.unheard = client[i].unheard
        /\ later.chosen = client[i].chosen /\ later.modified = client[i].modified
    BY <1>t DEF CallRecord, SdkPhases
  <2>2. client' = [client EXCEPT ![i] = later]
    BY <1>1, <1>t DEF CallRecord
  <2> HIDE DEF later
  <2>3. QED
    BY <1>k, <2>1, <2>2, CheckMoves
<1>2. ASSUME NEW first \in client[i].page, Fits(first),
             client' = [client EXCEPT ![i].phase = "chosen", ![i].page = {},
                                      ![i].chosen = first.row,
                                      ![i].modified = client[i].modified \intersect {first.row}]
      PROVE  SdkInv'
  <2> DEFINE n == first.row
  <2> DEFINE stillModified == client[i].modified \intersect {n}
  <2> DEFINE later == [client[i] EXCEPT !.phase = "chosen", !.page = {}, !.chosen = n, !.modified = stillModified]
  <2>1. n \in 1 .. Len(consents) /\ n \in Nat /\ n # 0
    BY <1>t, <1>k
  <2>2. stillModified \subseteq DOMAIN consents /\ stillModified \subseteq Nat
    BY <1>t, <1>k
  <2>3. client' = [client EXCEPT ![i] = later]
    BY <1>2, <1>t DEF CallRecord
  <2>4. n \notin stillModified => Row(n).status # "MODIFIED" /\ Row(n).covers = first.covers
    BY DEF SdkInv, PageTrue
  <2>5. first.covers
    BY <1>2 DEF Fits
  <2>6. n \notin stillModified => Unmodified(n)
    BY <2>4, <2>5 DEF Unmodified
  <2> HIDE DEF n, stillModified
  <2>7. /\ later \in CallRecord /\ later.phase = "chosen" /\ later.page = {}
        /\ later.attempt = client[i].attempt /\ later.unheard = client[i].unheard
        /\ later.chosen = n /\ later.modified = stillModified
    BY <1>t, <2>1, <2>2 DEF CallRecord, SdkPhases
  <2>8. n \in 0 .. Len(consents)
    BY <2>1
  <2> HIDE DEF later
  <2>9. QED
    BY <1>k, <2>1, <2>2, <2>3, <2>6, <2>7, <2>8, CheckMoves
<1>3. QED
  BY <1>1, <1>2 DEF Choose

LEMMA CheckVerifies == ASSUME SdkInv, NEW i \in Check, Verify(i) PROVE SdkInv'
<1>t. /\ i \in SdkCall /\ client \in [SdkCall -> CallRecord] /\ client[i] \in CallRecord
      /\ consents \in Seq(ConsentRow) /\ DOMAIN consents = 1 .. Len(consents) /\ sdkDay \in Nat
  BY SdkAssumption DEF SdkCall, SdkInv, SdkTyped
<1>k. /\ client[i].chosen \in 0 .. Len(consents) /\ client[i].modified \subseteq DOMAIN consents
      /\ \A p \in client[i].page : p.row \in DOMAIN consents
      /\ \A p \in client[i].page : p.row \notin client[i].modified =>
            Row(p.row).status # "MODIFIED" /\ Row(p.row).covers = p.covers
      /\ client[i].phase = "chosen" /\ UNCHANGED <<consents, server, sdkDay>>
  BY <1>t DEF SdkInv, KnownRows, PageTrue, Verify
<1>1. CASE Rejected(client[i].chosen) /\ To(i, "PermissionError")
  <2> DEFINE later == [client[i] EXCEPT !.phase = "PermissionError"]
  <2>1. /\ later \in CallRecord /\ later.phase = "PermissionError" /\ later.page = client[i].page
        /\ later.attempt = client[i].attempt /\ later.unheard = client[i].unheard
        /\ later.chosen = client[i].chosen /\ later.modified = client[i].modified
    BY <1>t DEF CallRecord, SdkPhases
  <2>2. client' = [client EXCEPT ![i] = later]
    BY <1>1, <1>t DEF To, CallRecord
  <2> HIDE DEF later
  <2>3. QED
    BY <1>k, <2>1, <2>2, CheckMoves
<1>2. CASE /\ ~Rejected(client[i].chosen) /\ ~Past(client[i].chosen)
           /\ client' = [client EXCEPT ![i].phase = "valid", ![i].asked = sdkDay]
  <2> DEFINE later == [client[i] EXCEPT !.phase = "valid", !.asked = sdkDay]
  <2>1. /\ later \in CallRecord /\ later.phase = "valid" /\ later.page = client[i].page
        /\ later.attempt = client[i].attempt /\ later.unheard = client[i].unheard
        /\ later.chosen = client[i].chosen /\ later.modified = client[i].modified
        /\ later.asked = sdkDay
    BY <1>t DEF CallRecord, SdkPhases
  <2>2. client' = [client EXCEPT ![i] = later]
    BY <1>2, <1>t DEF CallRecord
  <2>3. client[i].chosen # 0 /\ (client[i].chosen \notin client[i].modified => Unmodified(client[i].chosen))
    BY <1>k DEF SdkInv, ChosenTrue
  <2>4. Row(client[i].chosen) \in ConsentRow /\ Row(client[i].chosen).expires \in Nat
    <3>1. Row(client[i].chosen) \in ConsentRow
      BY <1>t, <1>k, <2>3 DEF Row
    <3>2. Ends \subseteq Nat
      BY SdkAssumption DEF Ends
    <3>3. QED
      BY <3>1, <3>2 DEF ConsentRow
  <2>5. Row(client[i].chosen).expires >= sdkDay
    BY <1>2, <1>t, <2>4 DEF Past
  <2> HIDE DEF later
  <2>6. later.chosen # 0 /\ (later.chosen \notin later.modified =>
            Unmodified(later.chosen) /\ Row(later.chosen).expires >= later.asked)
    BY <2>1, <2>3, <2>5
  <2>7. ~Rejected(later.chosen)
    BY <1>2, <2>1
  <2>8. QED
    BY <1>k, <2>1, <2>2, <2>6, <2>7, CheckMoves
<1>3. QED
  BY <1>1, <1>2 DEF Verify

LEMMA CheckEnds == ASSUME SdkInv, NEW i \in Check, CheckFails(i) \/ Act(i) PROVE SdkInv'
<1>t. /\ i \in SdkCall /\ client \in [SdkCall -> CallRecord] /\ client[i] \in CallRecord
  BY DEF SdkCall, SdkInv, SdkTyped
<1>k. /\ client[i].chosen \in 0 .. Len(consents) /\ client[i].modified \subseteq DOMAIN consents
      /\ \A p \in client[i].page : p.row \in DOMAIN consents
      /\ \A p \in client[i].page : p.row \notin client[i].modified =>
            Row(p.row).status # "MODIFIED" /\ Row(p.row).covers = p.covers
      /\ UNCHANGED <<consents, server, sdkDay>>
  BY <1>t DEF SdkInv, KnownRows, PageTrue, CheckFails, Act
<1>1. CASE CheckFails(i)
  <2>1. PICK raised \in {"ValueError", "PermissionError", "ConnectionError"} :
            client' = [client EXCEPT ![i].phase = raised, ![i].page = {}]
    BY <1>1 DEF CheckFails
  <2> DEFINE later == [client[i] EXCEPT !.phase = raised, !.page = {}]
  <2>2. /\ later \in CallRecord /\ later.phase = raised /\ later.page = {}
        /\ later.attempt = client[i].attempt /\ later.unheard = client[i].unheard
        /\ later.chosen = client[i].chosen /\ later.modified = client[i].modified
    BY <1>t DEF CallRecord, SdkPhases
  <2>3. client' = [client EXCEPT ![i] = later]
    BY <2>1, <1>t DEF CallRecord
  <2>4. client[i].phase \in {"idle", "queried", "chosen", "valid"}
    BY <1>1 DEF CheckFails
  <2> HIDE DEF later
  <2>5. QED
    BY <1>k, <2>2, <2>3, <2>4, CheckMoves
<1>2. CASE Act(i)
  <2> DEFINE later == [client[i] EXCEPT !.phase = "executed"]
  <2>1. /\ later \in CallRecord /\ later.phase = "executed" /\ later.page = client[i].page
        /\ later.attempt = client[i].attempt /\ later.unheard = client[i].unheard
        /\ later.chosen = client[i].chosen /\ later.modified = client[i].modified
        /\ later.asked = client[i].asked
    BY <1>t DEF CallRecord, SdkPhases
  <2>e. later.ended = client[i].ended
    BY <1>t DEF CallRecord
  <2>2. client' = [client EXCEPT ![i] = later] /\ client[i].phase = "valid"
    BY <1>2, <1>t DEF Act, To, CallRecord
  <2>3. /\ client[i].chosen # 0
        /\ client[i].chosen \notin client[i].modified =>
              Unmodified(client[i].chosen) /\ Row(client[i].chosen).expires >= client[i].asked
        /\ Rejected(client[i].chosen) => client[i].ended
    BY <2>2 DEF SdkInv, ChosenTrue, EndedSeen, Acting
  <2> HIDE DEF later
  <2>4. /\ later.chosen # 0
        /\ later.chosen \notin later.modified =>
              Unmodified(later.chosen) /\ Row(later.chosen).expires >= later.asked
        /\ Rejected(later.chosen) => later.ended
    BY <2>1, <2>e, <2>3
  <2>5. QED
    BY <1>k, <2>1, <2>2, <2>4, CheckMoves
<1>3. QED
  BY <1>1, <1>2

LEMMA CheckMarks ==
  ASSUME SdkInv, NEW i \in Check, NEW phase, VerifyMarks(i, phase)
  PROVE  SdkInv'
<1>1. i \in SdkCall /\ client[i].phase = "chosen" /\ phase \in {client[i].phase, "PermissionError"}
  BY DEF SdkCall, VerifyMarks
<1>2. client[i].chosen \in DOMAIN consents
  <2>1. client[i].chosen \in 0 .. Len(consents) /\ client[i].chosen # 0 /\ DOMAIN consents = 1 .. Len(consents)
    BY <1>1 DEF SdkInv, KnownRows, ChosenTrue, SdkTyped
  <2>2. QED
    BY <2>1
<1>3. /\ consents' = [consents EXCEPT ![client[i].chosen].status = "EXPIRED"] /\ UNCHANGED <<server, sdkDay>>
      /\ client' = [AfterEnded(client[i].chosen) EXCEPT ![i].phase = phase]
  BY DEF VerifyMarks
<1>4. QED
  BY <1>1, <1>2, <1>3, RowEnds

LEMMA RowWithdrawn ==
  ASSUME SdkInv, NEW n \in DOMAIN consents, Revoke(n) \/ ExpireGranted(n)
  PROVE  SdkInv'
<1>1. PICK status \in {"REVOKED", "EXPIRED"} :
          consents' = [consents EXCEPT ![n].status = status]
  BY DEF Revoke, ExpireGranted
<1>2. client' = AfterEnded(n) /\ UNCHANGED <<server, sdkDay>>
  BY DEF Revoke, ExpireGranted
<1>3. PICK i : i \in SdkCall
  <2>1. consents[n] \in ConsentRow
    BY DEF SdkInv, SdkTyped
  <2>2. consents[n].by \in SdkCall
    BY <2>1 DEF ConsentRow, SdkCall
  <2>3. QED
    BY <2>2
<1>4. client' = [AfterEnded(n) EXCEPT ![i].phase = client[i].phase]
  <2>1. AfterEnded(n) = [j \in SdkCall |-> AfterEnded(n)[j]] /\ AfterEnded(n)[i] =
           IF i \in Acting /\ client[i].chosen = n THEN [client[i] EXCEPT !.ended = TRUE] ELSE client[i]
    BY <1>3 DEF AfterEnded
  <2>2. client[i] \in CallRecord
    BY <1>3 DEF SdkInv, SdkTyped
  <2>3. AfterEnded(n)[i] \in CallRecord /\ AfterEnded(n)[i].phase = client[i].phase
    <3>1. [client[i] EXCEPT !.ended = TRUE] \in CallRecord
      BY <2>2 DEF CallRecord
    <3>2. [client[i] EXCEPT !.ended = TRUE].phase = client[i].phase
      BY <2>2 DEF CallRecord
    <3>3. QED
      BY <2>1, <2>2, <3>1, <3>2
  <2>4. [AfterEnded(n)[i] EXCEPT !.phase = client[i].phase] = AfterEnded(n)[i]
    BY <2>3 DEF CallRecord
  <2>5. QED
    BY <1>2, <1>3, <2>1, <2>4
<1>5. QED
  BY <1>1, <1>2, <1>3, <1>4, RowEnds

LEMMA SdkTicks == ASSUME SdkInv, SdkTick \/ UNCHANGED sdkVars PROVE SdkInv'
<1>1. /\ consents' = consents /\ server' = server /\ client' = client
      /\ sdkDay' = sdkDay \/ (sdkDay < MaxSdkDay /\ sdkDay' = sdkDay + 1)
  BY DEF SdkTick, sdkVars
<1>2. SdkTyped'
  BY <1>1, SdkAssumption DEF SdkInv, SdkTyped
<1>3. KnownRows' /\ TriesInOrder' /\ Unsent'
  BY <1>1 DEF SdkInv, KnownRows, TriesInOrder, Unsent
<1>4. AttemptsMake' /\ AnsweredMade'
  BY <1>1 DEF SdkInv, AttemptsMake, AnsweredMade, Made, Row, Running, Answerable, Answering, Replied
<1>5. PageTrue' /\ ChosenTrue' /\ EndedSeen'
  BY <1>1 DEF SdkInv, PageTrue, ChosenTrue, EndedSeen, Acting, Unmodified, Rejected, Row
<1>6. QED
  BY <1>2, <1>3, <1>4, <1>5 DEF SdkInv

LEMMA SdkStep == SdkInv /\ [SdkNext]_sdkVars => SdkInv'
<1> SUFFICES ASSUME SdkInv, [SdkNext]_sdkVars PROVE SdkInv'
  OBVIOUS
<1>1. ASSUME NEW i \in Check,
             \/ Query(i) \/ Choose(i) \/ Verify(i) \/ CheckFails(i) \/ Act(i)
             \/ \E phase \in SdkPhases : VerifyMarks(i, phase)
      PROVE  SdkInv'
  BY <1>1, CheckQueries, CheckChooses, CheckVerifies, CheckEnds, CheckMarks
<1>2. ASSUME NEW i \in Creation, SendRequest(i) \/ Receive(i) \/ Unanswered(i) PROVE SdkInv'
  BY <1>2, RequestSent, ReplyReceived, RequestUnanswered
<1>3. ASSUME NEW i \in Creation, NEW n \in Attempt,
             \/ \E covers \in BOOLEAN, expires \in Ends : CreateRecord(i, n, covers, expires)
             \/ \E answer \in Outcome : CreateRecordFails(i, n, answer)
      PROVE  SdkInv'
  BY <1>3, RecordMade, RequestRefused
<1>4. ASSUME NEW n \in DOMAIN consents,
             \/ Revoke(n) \/ ExpireGranted(n)
             \/ \E covers \in BOOLEAN, expires \in Ends : Modify(n, covers, expires)
      PROVE  SdkInv'
  BY <1>4, RowWithdrawn, RowModified
<1>5. CASE SdkTick \/ UNCHANGED sdkVars
  BY <1>5, SdkTicks
<1>6. QED
  BY <1>1, <1>2, <1>3, <1>4, <1>5 DEF SdkNext

LEMMA SdkInvImplies == SdkInv => SdkSafe
<1> SUFFICES ASSUME SdkInv PROVE SdkSafe
  OBVIOUS
<1>t. client \in [SdkCall -> CallRecord] /\ SdkTyped
  BY DEF SdkInv, SdkTyped
<1>1. SdkTypeOK
  <2>1. \A i \in SdkCall :
          /\ client[i].phase \in SdkPhases
          /\ client[i].attempt \in 0 .. RetryCount
          /\ client[i].unheard \in 0 .. client[i].attempt
          /\ client[i].chosen \in 0 .. Len(consents)
          /\ client[i].modified \subseteq DOMAIN consents
    BY <1>t DEF SdkInv, KnownRows, TriesInOrder, CallRecord
  <2>2. QED
    BY <1>t, <2>1 DEF SdkTyped, SdkTypeOK, ConsentRow
<1>2. NoSilentDuplicate
  <2> SUFFICES ASSUME NEW i \in Creation
               PROVE  /\ Cardinality(Made(i)) <= client[i].unheard
                            + (IF client[i].phase \in {"waiting", "ConsentRecord"} THEN 1 ELSE 0)
                      /\ client[i].phase = "ConsentRecord" => Made(i) # {}
    BY DEF NoSilentDuplicate
  <2>1. Answerable(i) <= IF client[i].phase \in {"waiting", "ConsentRecord"} THEN 1 ELSE 0
    BY DEF Answerable, Answering
  <2>2. client[i].unheard \in Nat /\ Answerable(i) \in Nat
    BY <1>t DEF SdkCall, CallRecord, Answerable
  <2>3. Cardinality(Made(i)) + Cardinality(Running(i)) <= client[i].unheard + Answerable(i)
    BY DEF SdkInv, AttemptsMake
  <2>4. Cardinality(Made(i)) \in Nat /\ Cardinality(Running(i)) \in Nat
    BY <1>t, SdkFinite
  <2>5. client[i].phase = "ConsentRecord" => Made(i) # {}
    BY DEF SdkInv, AnsweredMade
  <2>6. QED
    BY <2>1, <2>2, <2>3, <2>4, <2>5
<1>3. ActsOnConsent
  BY DEF SdkInv, ChosenTrue, EndedSeen, Unmodified, Rejected, Acting, ActsOnConsent
<1>4. QED
  BY <1>1, <1>2, <1>3 DEF SdkSafe

(***************************************************************************)
(* The schema.  Each downgrade finds and drops everything that its upgrade *)
(* created, in an order that the references allow, and nothing of the      *)
(* earlier ones: so it is done, and leaves their schema.  An upgrade that  *)
(* is done adds its objects to a schema of the revision before.            *)
(***************************************************************************)
(* What a drop removes, and what would keep it from being done. *)
Removes(statement, o) ==
    IF statement.object.kind = "table" THEN o.of = statement.object.name
    ELSE o.kind = statement.object.kind /\ o.name = statement.object.name
Refers(o, statement) ==
    statement.object.kind = "table" /\ o.of # statement.object.name /\ statement.object.name \in o.refs
IsOf(o, statement) == o.kind = statement.object.kind /\ o.name = statement.object.name

Clears(down, up) == \A i \in 1 .. Len(up) : \E j \in 1 .. Len(down) : Removes(down[j], up[i])
Finds(down, up) ==
    \A j \in 1 .. Len(down) : \E i \in 1 .. Len(up) :
        /\ IsOf(up[i], down[j])
        /\ \A l \in 1 .. j - 1 : ~ Removes(down[l], up[i])
InOrder(down, up) ==
    \A i \in 1 .. Len(up), j \in 1 .. Len(down) :
        Refers(up[i], down[j]) => \E l \in 1 .. j - 1 : Removes(down[l], up[i])
Spares(down, up) ==
    \A i \in 1 .. Len(up), j \in 1 .. Len(down) : ~ Removes(down[j], up[i]) /\ ~ Refers(up[i], down[j])

(* What a downgrade drops, and what has nothing to do with it. *)
Drops(down, tables, others) ==
    \A j \in 1 .. Len(down) :
        \/ down[j].object.kind = "table" /\ down[j].object.name \in tables
        \/ down[j].object.kind # "table" /\ down[j].object.name \in others
Apart(up, tables, others) ==
    \A i \in 1 .. Len(up) : up[i].of \notin tables /\ up[i].refs \intersect tables = {}
                               /\ (up[i].kind # "table" => up[i].name \notin others)

(* A downgrade leaves alone what its names have nothing to do with.        *)
LEMMA ApartSpares ==
  ASSUME NEW down, NEW up, NEW tables, NEW others, Drops(down, tables, others), Apart(up, tables, others)
  PROVE  Spares(down, up)
BY DEF Drops, Apart, Spares, Removes, Refers

Subscriptions == <<Table("webhook_subscriptions", {})>>

(* A downgrade finds and drops everything of its own upgrade, in an order  *)
(* that the references allow, and nothing else.                            *)
Undoing(down, up) ==
    /\ Len(up) \in Nat \ {0} /\ DOMAIN up = 1 .. Len(up)
    /\ \A i \in 1 .. Len(up) : up[i].kind \in {"table", "index", "column"}
    /\ Len(down) \in Nat /\ \A j \in 1 .. Len(down) : down[j].do = "drop"
    /\ Clears(down, up) /\ Finds(down, up) /\ InOrder(down, up)
Undoes(r) ==
    /\ Undoing(Downgrades[r], Upgrades[r])
    /\ \A q \in 1 .. r - 1 : Spares(Downgrades[r], Upgrades[q])
    /\ Spares(Downgrades[r], Subscriptions)

(* Revision by revision, from the statements.                              *)
LEMMA Undoes1 == Undoes(1)
<1> USE DEF Drop, TableDrop, IndexDrop, ColumnDrop, Table, TextTable, Index, TenantColumn
<1> DEFINE tables == {"compliance_reports", "merkle_roots", "audit_logs", "consent_events",
                      "consent_records", "data_fiduciaries", "data_principals"}
           others == {}
<1>1. Drops(Down1, tables, others)
  BY DEF Drops, Down1
<1>2. Apart(Subscriptions, tables, others)
  BY DEF Apart, Subscriptions
<1>3. Clears(Down1, Up1)
  BY SMTT(60) DEF Clears, Down1, Up1, Removes, IsOf
<1>4. Finds(Down1, Up1)
  <2>1. IsOf(Up1[15], Down1[1])
    BY DEF Down1, Up1, Removes, IsOf
  <2>2. IsOf(Up1[14], Down1[2]) /\ \A l \in 1 .. 1 : ~ Removes(Down1[l], Up1[14])
    BY DEF Down1, Up1, Removes, IsOf
  <2>3. IsOf(Up1[10], Down1[3]) /\ \A l \in 1 .. 2 : ~ Removes(Down1[l], Up1[10])
    BY DEF Down1, Up1, Removes, IsOf
  <2>4. IsOf(Up1[7], Down1[4]) /\ \A l \in 1 .. 3 : ~ Removes(Down1[l], Up1[7])
    BY DEF Down1, Up1, Removes, IsOf
  <2>5. IsOf(Up1[4], Down1[5]) /\ \A l \in 1 .. 4 : ~ Removes(Down1[l], Up1[4])
    BY DEF Down1, Up1, Removes, IsOf
  <2>6. IsOf(Up1[3], Down1[6]) /\ \A l \in 1 .. 5 : ~ Removes(Down1[l], Up1[3])
    BY DEF Down1, Up1, Removes, IsOf
  <2>7. IsOf(Up1[1], Down1[7]) /\ \A l \in 1 .. 6 : ~ Removes(Down1[l], Up1[1])
    BY DEF Down1, Up1, Removes, IsOf
  <2>8. Len(Down1) = 7 /\ Len(Up1) = 15
    BY DEF Down1, Up1
  <2> HIDE DEF tables, others, Drop, TableDrop, IndexDrop, ColumnDrop, Table, TextTable, Index, TenantColumn
  <2>9. ASSUME NEW j \in 1 .. 7
        PROVE  \E i \in 1 .. 15 : IsOf(Up1[i], Down1[j]) /\ \A l \in 1 .. j - 1 : ~ Removes(Down1[l], Up1[i])
    <3>1. CASE j = 1
      BY <2>1, <3>1
    <3>2. CASE j = 2
      BY <2>2, <3>2
    <3>3. CASE j = 3
      BY <2>3, <3>3
    <3>4. CASE j = 4
      BY <2>4, <3>4
    <3>5. CASE j = 5
      BY <2>5, <3>5
    <3>6. CASE j = 6
      BY <2>6, <3>6
    <3>7. CASE j = 7
      BY <2>7, <3>7
    <3>8. QED
      BY <3>1, <3>2, <3>3, <3>4, <3>5, <3>6, <3>7
  <2>10. QED
    BY <2>8, <2>9 DEF Finds
<1>5. InOrder(Down1, Up1)
  BY SMTT(60) DEF InOrder, Down1, Up1, Removes, Refers
<1>6. Len(Up1) \in Nat \ {0} /\ DOMAIN Up1 = 1 .. Len(Up1)
  BY DEF Up1
<1>7. \A i \in 1 .. Len(Up1) : Up1[i].kind \in {"table", "index", "column"}
  BY DEF Up1
<1>8. Len(Down1) \in Nat /\ \A j \in 1 .. Len(Down1) : Down1[j].do = "drop"
  BY DEF Down1
<1> HIDE DEF tables, others, Drop, TableDrop, IndexDrop, ColumnDrop, Table, TextTable, Index, TenantColumn
<1>9. Undoing(Down1, Up1)
  BY ONLY <1>3, <1>4, <1>5, <1>6, <1>7, <1>8 DEF Undoing
<1>10. Spares(Down1, Subscriptions)
  BY <1>1, <1>2, ApartSpares
<1>11. Upgrades[1] = Up1
  BY DEF Upgrades
<1>12. Downgrades[1] = Down1
  BY DEF Downgrades
<1>13. \A q \in 1 .. 1 - 1 : FALSE
  OBVIOUS
<1>14. QED
  BY <1>9, <1>10, <1>11, <1>12, <1>13 DEF Undoes

LEMMA Undoes2 == Undoes(2)
<1> USE DEF Drop, TableDrop, IndexDrop, ColumnDrop, Table, TextTable, Index, TenantColumn
<1> DEFINE tables == {"guardian_audit", "guardians",
                      "grievance_communications", "grievances"}
           others == {}
<1>1. Drops(Down2, tables, others)
  BY DEF Drops, Down2
<1>2. Apart(Up1, tables, others)
  BY DEF Apart, Up1
<1>3. Apart(Subscriptions, tables, others)
  BY DEF Apart, Subscriptions
<1>4. Clears(Down2, Up2)
  BY SMTT(60) DEF Clears, Down2, Up2, Removes, IsOf
<1>5. Finds(Down2, Up2)
  BY SMTT(60) DEF Finds, Down2, Up2, Removes, IsOf
<1>6. InOrder(Down2, Up2)
  BY SMTT(60) DEF InOrder, Down2, Up2, Removes, Refers
<1>7. Len(Up2) \in Nat \ {0} /\ DOMAIN Up2 = 1 .. Len(Up2)
  BY DEF Up2
<1>8. \A i \in 1 .. Len(Up2) : Up2[i].kind \in {"table", "index", "column"}
  BY DEF Up2
<1>9. Len(Down2) \in Nat /\ \A j \in 1 .. Len(Down2) : Down2[j].do = "drop"
  BY DEF Down2
<1> HIDE DEF tables, others, Drop, TableDrop, IndexDrop, ColumnDrop, Table, TextTable, Index, TenantColumn
<1>10. Undoing(Down2, Up2)
  BY ONLY <1>4, <1>5, <1>6, <1>7, <1>8, <1>9 DEF Undoing
<1>11. Spares(Down2, Up1)
  BY <1>1, <1>2, ApartSpares
<1>12. Spares(Down2, Subscriptions)
  BY <1>1, <1>3, ApartSpares
<1>13. Upgrades[1] = Up1 /\ Upgrades[2] = Up2
  BY DEF Upgrades
<1>14. Downgrades[2] = Down2
  BY DEF Downgrades
<1>15. \A q \in 1 .. 2 - 1 : q = 1
  OBVIOUS
<1>16. QED
  BY <1>10, <1>11, <1>12, <1>13, <1>14, <1>15 DEF Undoes

(* What the third downgrade drops.                                         *)
Tables3 == {"notifications", "consent_templates", "deletion_requests"}
Indexes3 == {"ix_event_type_created", "ix_event_consent_created",
        "ix_consent_fiduciary_created", "ix_consent_expires_status",
        "ix_consent_principal_status", "ix_consent_fiduciary_status",
        "ix_notification_principal_read", "ix_notifications_created_at",
        "ix_notifications_read", "ix_notifications_type", "ix_notifications_principal_id",
        "ix_consent_templates_active", "ix_consent_templates_category",
        "ix_consent_templates_name", "ix_deletion_fiduciary_status", "ix_deletion_principal_status"}

LEMMA Drops3 == Drops(Down3, Tables3, Indexes3)
<1>1. \A j \in {12, 16, 19} : Down3[j].object.kind = "table" /\ Down3[j].object.name \in Tables3
  BY DEF Down3, Tables3, TableDrop, IndexDrop, Drop
<1>2. \A j \in 1 .. 11 : Down3[j].object.kind # "table" /\ Down3[j].object.name \in Indexes3
  BY DEF Down3, Indexes3, TableDrop, IndexDrop, Drop
<1>3. \A j \in 13 .. 18 : j # 16 => Down3[j].object.kind # "table" /\ Down3[j].object.name \in Indexes3
  BY DEF Down3, Indexes3, TableDrop, IndexDrop, Drop
<1>4. Len(Down3) = 19
  BY DEF Down3
<1>5. QED
  BY <1>1, <1>2, <1>3, <1>4 DEF Drops

LEMMA Apart13 == Apart(Up1, Tables3, Indexes3)
BY SMTT(60) DEF Apart, Up1, Tables3, Indexes3, Table, Index

LEMMA Apart23 == Apart(Up2, Tables3, Indexes3)
BY SMTT(60) DEF Apart, Up2, Tables3, Indexes3, Table, Index

(* The third downgrade goes through its upgrade backwards. *)
LEMMA Reverse3 == /\ Len(Up3) = 19 /\ Len(Down3) = 19
                  /\ \A j \in 1 .. 19 : IsOf(Up3[20 - j], Down3[j]) /\ Down3[j].object.name = Up3[20 - j].name
<1>1. Len(Up3) = 19 /\ Len(Down3) = 19
  BY DEF Up3, Down3
<1>2. ASSUME NEW j \in 1 .. 19 PROVE IsOf(Up3[20 - j], Down3[j])
  BY SMTT(60) DEF Up3, Down3, TableDrop, IndexDrop, Drop, Table, Index, IsOf
<1>3. QED
  BY <1>1, <1>2 DEF IsOf

LEMMA Names3 == \A a, b \in 1 .. 19 : a # b => Up3[a].name # Up3[b].name
<1>1. \A a \in 1 .. 19, b \in 1 .. 4 : a # b => Up3[a].name # Up3[b].name
  BY SMTT(30) DEF Up3, Table, Index
<1>2. \A a \in 5 .. 19, b \in 5 .. 8 : a # b => Up3[a].name # Up3[b].name
  BY SMTT(30) DEF Up3, Table, Index
<1>3. \A a \in 9 .. 19, b \in 9 .. 12 : a # b => Up3[a].name # Up3[b].name
  BY SMTT(30) DEF Up3, Table, Index
<1>4. \A a \in 13 .. 19, b \in 13 .. 19 : a # b => Up3[a].name # Up3[b].name
  BY SMTT(30) DEF Up3, Table, Index
<1>5. QED
  BY <1>1, <1>2, <1>3, <1>4

LEMMA Finds3 == Finds(Down3, Up3)
<1>1. ASSUME NEW j \in 1 .. 19, NEW l \in 1 .. j - 1 PROVE ~ Removes(Down3[l], Up3[20 - j])
  <2>1. 20 - j \in 1 .. 19 /\ l \in 1 .. 19 /\ 20 - l \in 1 .. 19 /\ 20 - j # 20 - l
    OBVIOUS
  <2>2. CASE l \in {12, 16}
    <3>1. Down3[12].object.name = "notifications" /\ Down3[16].object.name = "consent_templates"
      BY DEF Down3, TableDrop, IndexDrop, Drop
    <3>2. \A i \in 1 .. 7 : Up3[i].of # "notifications"
      BY DEF Up3, Table, Index
    <3>3. \A i \in 1 .. 3 : Up3[i].of # "consent_templates"
      BY DEF Up3, Table, Index
    <3>4. Down3[l].object.kind = "table"
      BY <2>2 DEF Down3, TableDrop, IndexDrop, Drop
    <3>5. (l = 12 => 20 - j \in 1 .. 7) /\ (l = 16 => 20 - j \in 1 .. 3)
      OBVIOUS
    <3>6. QED
      BY <2>2, <3>1, <3>2, <3>3, <3>4, <3>5 DEF Removes
  <2>3. CASE l \notin {12, 16}
    <3>1. \A k \in 1 .. 18 : k # 12 /\ k # 16 => Down3[k].object.kind # "table"
      BY DEF Down3, TableDrop, IndexDrop, Drop
    <3>2. Down3[l].object.kind # "table"
      BY <2>3, <3>1
    <3>3. Down3[l].object.name = Up3[20 - l].name
      BY <2>1, Reverse3
    <3>4. QED
      BY <2>1, <3>2, <3>3, Names3 DEF Removes
  <2>4. QED
    BY <2>2, <2>3
<1>2. \A j \in 1 .. 19 : 20 - j \in 1 .. 19
  OBVIOUS
<1>3. QED
  BY <1>1, <1>2, Reverse3 DEF Finds

LEMMA Clears3 == Clears(Down3, Up3)
<1>1. ASSUME NEW i \in 1 .. 19 PROVE Removes(Down3[20 - i], Up3[i])
  <2>1. 20 - i \in 1 .. 19 /\ 20 - (20 - i) = i
    OBVIOUS
  <2>2. IsOf(Up3[i], Down3[20 - i])
    BY <2>1, Reverse3
  <2>3. Up3[i].kind = "table" => Up3[i].of = Up3[i].name
    BY DEF Up3, Table, Index
  <2>4. QED
    BY <2>2, <2>3 DEF IsOf, Removes
<1>2. \A i \in 1 .. 19 : 20 - i \in 1 .. 19
  OBVIOUS
<1>3. QED
  BY <1>1, <1>2, Reverse3 DEF Clears

LEMMA InOrder3 == InOrder(Down3, Up3)
<1>1. \A i \in 1 .. 19 : Up3[i].refs \intersect Tables3 = {}
  BY DEF Up3, Tables3, Table, Index
<1>2. QED
  BY <1>1, Drops3, Reverse3 DEF InOrder, Drops, Refers

LEMMA Undoes3 == Undoes(3)
<1> USE DEF Drop, TableDrop, IndexDrop, ColumnDrop, Table, TextTable, Index, TenantColumn
<1> DEFINE tables == Tables3
           others == Indexes3
<1>1. Drops(Down3, tables, others)
  BY Drops3
<1>2. Apart(Up1, tables, others)
  BY Apart13
<1>3. Apart(Up2, tables, others)
  BY Apart23
<1>4. Apart(Subscriptions, tables, others)
  BY DEF Apart, Subscriptions, Tables3, Indexes3
<1>5. Clears(Down3, Up3) /\ Finds(Down3, Up3) /\ InOrder(Down3, Up3)
  BY Clears3, Finds3, InOrder3
<1>6. Len(Up3) \in Nat \ {0} /\ DOMAIN Up3 = 1 .. Len(Up3)
  BY DEF Up3
<1>7. \A i \in 1 .. Len(Up3) : Up3[i].kind \in {"table", "index", "column"}
  BY DEF Up3
<1>8. Len(Down3) \in Nat /\ \A j \in 1 .. Len(Down3) : Down3[j].do = "drop"
  BY DEF Down3
<1> HIDE DEF tables, others, Drop, TableDrop, IndexDrop, ColumnDrop, Table, TextTable, Index, TenantColumn
<1>9. Undoing(Down3, Up3)
  BY ONLY <1>5, <1>6, <1>7, <1>8 DEF Undoing
<1>10. Spares(Down3, Up1)
  BY <1>1, <1>2, ApartSpares
<1>11. Spares(Down3, Up2)
  BY <1>1, <1>3, ApartSpares
<1>12. Spares(Down3, Subscriptions)
  BY <1>1, <1>4, ApartSpares
<1>13. Upgrades[1] = Up1 /\ Upgrades[2] = Up2 /\ Upgrades[3] = Up3
  BY DEF Upgrades
<1>14. Downgrades[3] = Down3
  BY DEF Downgrades
<1>15. \A q \in 1 .. 3 - 1 : q = 1 \/ q = 2
  OBVIOUS
<1>16. QED
  BY <1>9, <1>10, <1>11, <1>12, <1>13, <1>14, <1>15 DEF Undoes

LEMMA Undoes4 == Undoes(4)
<1> USE DEF Drop, TableDrop, IndexDrop, ColumnDrop, Table, TextTable, Index, TenantColumn
<1> DEFINE tables == {"billing_events", "usage_records", "tenant_members", "tenants"}
           others == {"ix_data_fiduciaries_tenant_id", "tenant_id"}
<1>1. Drops(Down4, tables, others)
  BY DEF Drops, Down4
<1>2. Apart(Up1, tables, others)
  BY DEF Apart, Up1
<1>3. Apart(Up2, tables, others)
  BY DEF Apart, Up2
<1>4. Apart(Up3, tables, others)
  BY DEF Apart, Up3
<1>5. Apart(Subscriptions, tables, others)
  BY DEF Apart, Subscriptions
<1>6. Clears(Down4, Up4)
  <2>1. \A i \in 1 .. 15 : Up4[i].of \in tables
    BY DEF Up4
  <2>2. \A t \in tables : \E j \in 1 .. 6 : Down4[j].object.kind = "table" /\ Down4[j].object.name = t
    BY DEF Down4
  <2>3. Removes(Down4[1], Up4[17]) /\ Removes(Down4[2], Up4[16])
    BY DEF Down4, Up4, Removes
  <2>4. Len(Down4) = 6 /\ Len(Up4) = 17
    BY DEF Down4, Up4
  <2> HIDE DEF tables, others, Drop, TableDrop, IndexDrop, ColumnDrop, Table, TextTable, Index, TenantColumn
  <2>5. ASSUME NEW i \in 1 .. 17 PROVE \E j \in 1 .. 6 : Removes(Down4[j], Up4[i])
    <3>1. CASE i \in 1 .. 15
      BY <2>1, <2>2, <3>1 DEF Removes
    <3>2. CASE i = 16 \/ i = 17
      BY <2>3, <3>2
    <3>3. QED
      BY <3>1, <3>2
  <2>6. QED
    BY <2>4, <2>5 DEF Clears
<1>7. Finds(Down4, Up4)
  <2>1. IsOf(Up4[17], Down4[1])
    BY DEF Down4, Up4, Removes, IsOf
  <2>2. IsOf(Up4[16], Down4[2]) /\ \A l \in 1 .. 1 : ~ Removes(Down4[l], Up4[16])
    BY DEF Down4, Up4, Removes, IsOf
  <2>3. IsOf(Up4[13], Down4[3]) /\ \A l \in 1 .. 2 : ~ Removes(Down4[l], Up4[13])
    BY DEF Down4, Up4, Removes, IsOf
  <2>4. IsOf(Up4[9], Down4[4]) /\ \A l \in 1 .. 3 : ~ Removes(Down4[l], Up4[9])
    BY DEF Down4, Up4, Removes, IsOf
  <2>5. IsOf(Up4[5], Down4[5]) /\ \A l \in 1 .. 4 : ~ Removes(Down4[l], Up4[5])
    BY DEF Down4, Up4, Removes, IsOf
  <2>6. IsOf(Up4[1], Down4[6]) /\ \A l \in 1 .. 5 : ~ Removes(Down4[l], Up4[1])
    BY DEF Down4, Up4, Removes, IsOf
  <2>7. Len(Down4) = 6 /\ Len(Up4) = 17
    BY DEF Down4, Up4
  <2> HIDE DEF tables, others, Drop, TableDrop, IndexDrop, ColumnDrop, Table, TextTable, Index, TenantColumn
  <2>8. ASSUME NEW j \in 1 .. 6
        PROVE  \E i \in 1 .. 17 : IsOf(Up4[i], Down4[j]) /\ \A l \in 1 .. j - 1 : ~ Removes(Down4[l], Up4[i])
    <3>1. CASE j = 1
      BY <2>1, <3>1
    <3>2. CASE j = 2
      BY <2>2, <3>2
    <3>3. CASE j = 3
      BY <2>3, <3>3
    <3>4. CASE j = 4
      BY <2>4, <3>4
    <3>5. CASE j = 5
      BY <2>5, <3>5
    <3>6. CASE j = 6
      BY <2>6, <3>6
    <3>7. QED
      BY <3>1, <3>2, <3>3, <3>4, <3>5, <3>6
  <2>9. QED
    BY <2>7, <2>8 DEF Finds
<1>8. InOrder(Down4, Up4)
  BY SMTT(60) DEF InOrder, Down4, Up4, Removes, Refers
<1>9. Len(Up4) \in Nat \ {0} /\ DOMAIN Up4 = 1 .. Len(Up4)
  BY DEF Up4
<1>10. \A i \in 1 .. Len(Up4) : Up4[i].kind \in {"table", "index", "column"}
  BY DEF Up4
<1>11. Len(Down4) \in Nat /\ \A j \in 1 .. Len(Down4) : Down4[j].do = "drop"
  BY DEF Down4
<1> HIDE DEF tables, others, Drop, TableDrop, IndexDrop, ColumnDrop, Table, TextTable, Index, TenantColumn
<1>12. Undoing(Down4, Up4)
  BY ONLY <1>6, <1>7, <1>8, <1>9, <1>10, <1>11 DEF Undoing
<1>13. Spares(Down4, Up1)
  BY <1>1, <1>2, ApartSpares
<1>14. Spares(Down4, Up2)
  BY <1>1, <1>3, ApartSpares
<1>15. Spares(Down4, Up3)
  BY <1>1, <1>4, ApartSpares
<1>16. Spares(Down4, Subscriptions)
  BY <1>1, <1>5, ApartSpares
<1>17. Upgrades[1] = Up1 /\ Upgrades[2] = Up2 /\ Upgrades[3] = Up3 /\ Upgrades[4] = Up4
  BY DEF Upgrades
<1>18. Downgrades[4] = Down4
  BY DEF Downgrades
<1>19. \A q \in 1 .. 4 - 1 : q = 1 \/ q = 2 \/ q = 3
  OBVIOUS
<1>20. QED
  BY <1>12, <1>13, <1>14, <1>15, <1>16, <1>17, <1>18, <1>19 DEF Undoes

LEMMA Undoes5 == Undoes(5)
<1> USE DEF Drop, TableDrop, IndexDrop, ColumnDrop, Table, TextTable, Index, TenantColumn
<1> DEFINE tables == {"cross_border_transfers"}
           others == {"ix_audit_fiduciary_action", "ix_deletion_status_created", "ix_grievance_status_resdate",
                      "ix_webhook_sub_fid_active_events", "ix_fiduciary_api_key_hash"}
<1>1. Drops(Down5, tables, others)
  BY DEF Drops, Down5
<1>2. Apart(Up1, tables, others)
  BY DEF Apart, Up1
<1>3. Apart(Up2, tables, others)
  BY DEF Apart, Up2
<1>4. Apart(Up3, tables, others)
  BY DEF Apart, Up3
<1>5. Apart(Up4, tables, others)
  BY DEF Apart, Up4
<1>6. Apart(Subscriptions, tables, others)
  BY DEF Apart, Subscriptions
<1>7. Clears(Down5, Up5)
  BY SMTT(60) DEF Clears, Down5, Up5, Removes, IsOf
<1>8. Finds(Down5, Up5)
  <2>1. IsOf(Up5[8], Down5[1])
    BY DEF Down5, Up5, Removes, IsOf
  <2>2. IsOf(Up5[7], Down5[2]) /\ \A l \in 1 .. 1 : ~ Removes(Down5[l], Up5[7])
    BY DEF Down5, Up5, Removes, IsOf
  <2>3. IsOf(Up5[6], Down5[3]) /\ \A l \in 1 .. 2 : ~ Removes(Down5[l], Up5[6])
    BY DEF Down5, Up5, Removes, IsOf
  <2>4. IsOf(Up5[5], Down5[4]) /\ \A l \in 1 .. 3 : ~ Removes(Down5[l], Up5[5])
    BY DEF Down5, Up5, Removes, IsOf
  <2>5. IsOf(Up5[4], Down5[5]) /\ \A l \in 1 .. 4 : ~ Removes(Down5[l], Up5[4])
    BY DEF Down5, Up5, Removes, IsOf
  <2>6. IsOf(Up5[1], Down5[6]) /\ \A l \in 1 .. 5 : ~ Removes(Down5[l], Up5[1])
    BY DEF Down5, Up5, Removes, IsOf
  <2>7. Len(Down5) = 6 /\ Len(Up5) = 8
    BY DEF Down5, Up5
  <2> HIDE DEF tables, others, Drop, TableDrop, IndexDrop, ColumnDrop, Table, TextTable, Index, TenantColumn
  <2>8. ASSUME NEW j \in 1 .. 6
        PROVE  \E i \in 1 .. 8 : IsOf(Up5[i], Down5[j]) /\ \A l \in 1 .. j - 1 : ~ Removes(Down5[l], Up5[i])
    <3>1. CASE j = 1
      BY <2>1, <3>1
    <3>2. CASE j = 2
      BY <2>2, <3>2
    <3>3. CASE j = 3
      BY <2>3, <3>3
    <3>4. CASE j = 4
      BY <2>4, <3>4
    <3>5. CASE j = 5
      BY <2>5, <3>5
    <3>6. CASE j = 6
      BY <2>6, <3>6
    <3>7. QED
      BY <3>1, <3>2, <3>3, <3>4, <3>5, <3>6
  <2>9. QED
    BY <2>7, <2>8 DEF Finds
<1>9. InOrder(Down5, Up5)
  BY SMTT(60) DEF InOrder, Down5, Up5, Removes, Refers
<1>10. Len(Up5) \in Nat \ {0} /\ DOMAIN Up5 = 1 .. Len(Up5)
  BY DEF Up5
<1>11. \A i \in 1 .. Len(Up5) : Up5[i].kind \in {"table", "index", "column"}
  BY DEF Up5
<1>12. Len(Down5) \in Nat /\ \A j \in 1 .. Len(Down5) : Down5[j].do = "drop"
  BY DEF Down5
<1> HIDE DEF tables, others, Drop, TableDrop, IndexDrop, ColumnDrop, Table, TextTable, Index, TenantColumn
<1>13. Undoing(Down5, Up5)
  BY ONLY <1>7, <1>8, <1>9, <1>10, <1>11, <1>12 DEF Undoing
<1>14. Spares(Down5, Up1)
  BY <1>1, <1>2, ApartSpares
<1>15. Spares(Down5, Up2)
  BY <1>1, <1>3, ApartSpares
<1>16. Spares(Down5, Up3)
  BY <1>1, <1>4, ApartSpares
<1>17. Spares(Down5, Up4)
  BY <1>1, <1>5, ApartSpares
<1>18. Spares(Down5, Subscriptions)
  BY <1>1, <1>6, ApartSpares
<1>19. /\ Upgrades[1] = Up1 /\ Upgrades[2] = Up2 /\ Upgrades[3] = Up3 /\ Upgrades[4] = Up4
       /\ Upgrades[5] = Up5
  BY DEF Upgrades
<1>20. Downgrades[5] = Down5
  BY DEF Downgrades
<1>21. \A q \in 1 .. 5 - 1 : q = 1 \/ q = 2 \/ q = 3 \/ q = 4
  OBVIOUS
<1>22. QED
  BY <1>13, <1>14, <1>15, <1>16, <1>17, <1>18, <1>19, <1>20, <1>21 DEF Undoes

LEMMA Undoes6 == Undoes(6)
<1> USE DEF Drop, TableDrop, IndexDrop, ColumnDrop, Table, TextTable, Index, TenantColumn
<1> DEFINE tables == {"blockchain_operations"}
           others == {}
<1>1. Drops(Downgrades[6], tables, others)
  BY DEF Drops, Downgrades
<1>2. Apart(Up1, tables, others)
  BY DEF Apart, Up1
<1>3. Apart(Up2, tables, others)
  BY DEF Apart, Up2
<1>4. Apart(Up3, tables, others)
  BY DEF Apart, Up3
<1>5. Apart(Up4, tables, others)
  BY DEF Apart, Up4
<1>6. Apart(Up5, tables, others)
  BY DEF Apart, Up5
<1>7. Apart(Subscriptions, tables, others)
  BY DEF Apart, Subscriptions
<1>8. Clears(Downgrades[6], Up6)
  BY DEF Clears, Downgrades, Up6, Removes, IsOf
<1>9. Finds(Downgrades[6], Up6)
  BY DEF Finds, Downgrades, Up6, Removes, IsOf
<1>10. InOrder(Downgrades[6], Up6)
  BY DEF InOrder, Downgrades, Up6, Removes, Refers
<1>11. Len(Up6) \in Nat \ {0} /\ DOMAIN Up6 = 1 .. Len(Up6)
  BY DEF Up6
<1>12. \A i \in 1 .. Len(Up6) : Up6[i].kind \in {"table", "index", "column"}
  BY DEF Up6
<1>13. Len(Downgrades[6]) \in Nat /\ \A j \in 1 .. Len(Downgrades[6]) : Downgrades[6][j].do = "drop"
  BY DEF Downgrades
<1> HIDE DEF tables, others, Drop, TableDrop, IndexDrop, ColumnDrop, Table, TextTable, Index, TenantColumn
<1>14. Undoing(Downgrades[6], Up6)
  BY ONLY <1>8, <1>9, <1>10, <1>11, <1>12, <1>13 DEF Undoing
<1>15. Spares(Downgrades[6], Up1)
  BY <1>1, <1>2, ApartSpares
<1>16. Spares(Downgrades[6], Up2)
  BY <1>1, <1>3, ApartSpares
<1>17. Spares(Downgrades[6], Up3)
  BY <1>1, <1>4, ApartSpares
<1>18. Spares(Downgrades[6], Up4)
  BY <1>1, <1>5, ApartSpares
<1>19. Spares(Downgrades[6], Up5)
  BY <1>1, <1>6, ApartSpares
<1>20. Spares(Downgrades[6], Subscriptions)
  BY <1>1, <1>7, ApartSpares
<1>21. /\ Upgrades[1] = Up1 /\ Upgrades[2] = Up2 /\ Upgrades[3] = Up3 /\ Upgrades[4] = Up4
       /\ Upgrades[5] = Up5 /\ Upgrades[6] = Up6
  BY DEF Upgrades
<1>22. \A q \in 1 .. 6 - 1 : q = 1 \/ q = 2 \/ q = 3 \/ q = 4 \/ q = 5
  OBVIOUS
<1>23. QED
  BY <1>14, <1>15, <1>16, <1>17, <1>18, <1>19, <1>20, <1>21, <1>22 DEF Undoes

LEMMA Undoes7 == Undoes(7)
<1> USE DEF Drop, TableDrop, IndexDrop, ColumnDrop, Table, TextTable, Index, TenantColumn
<1> DEFINE tables == {"token_blacklist"}
           others == {}
<1>1. Drops(Downgrades[7], tables, others)
  BY DEF Drops, Downgrades
<1>2. Apart(Up1, tables, others)
  BY DEF Apart, Up1
<1>3. Apart(Up2, tables, others)
  BY DEF Apart, Up2
<1>4. Apart(Up3, tables, others)
  BY DEF Apart, Up3
<1>5. Apart(Up4, tables, others)
  BY DEF Apart, Up4
<1>6. Apart(Up5, tables, others)
  BY DEF Apart, Up5
<1>7. Apart(Up6, tables, others)
  BY DEF Apart, Up6
<1>8. Apart(Subscriptions, tables, others)
  BY DEF Apart, Subscriptions
<1>9. Clears(Downgrades[7], Up7)
  BY DEF Clears, Downgrades, Up7, Removes, IsOf
<1>10. Finds(Downgrades[7], Up7)
  BY DEF Finds, Downgrades, Up7, Removes, IsOf
<1>11. InOrder(Downgrades[7], Up7)
  BY DEF InOrder, Downgrades, Up7, Removes, Refers
<1>12. Len(Up7) \in Nat \ {0} /\ DOMAIN Up7 = 1 .. Len(Up7)
  BY DEF Up7
<1>13. \A i \in 1 .. Len(Up7) : Up7[i].kind \in {"table", "index", "column"}
  BY DEF Up7
<1>14. Len(Downgrades[7]) \in Nat /\ \A j \in 1 .. Len(Downgrades[7]) : Downgrades[7][j].do = "drop"
  BY DEF Downgrades
<1> HIDE DEF tables, others, Drop, TableDrop, IndexDrop, ColumnDrop, Table, TextTable, Index, TenantColumn
<1>15. Undoing(Downgrades[7], Up7)
  BY ONLY <1>9, <1>10, <1>11, <1>12, <1>13, <1>14 DEF Undoing
<1>16. Spares(Downgrades[7], Up1)
  BY <1>1, <1>2, ApartSpares
<1>17. Spares(Downgrades[7], Up2)
  BY <1>1, <1>3, ApartSpares
<1>18. Spares(Downgrades[7], Up3)
  BY <1>1, <1>4, ApartSpares
<1>19. Spares(Downgrades[7], Up4)
  BY <1>1, <1>5, ApartSpares
<1>20. Spares(Downgrades[7], Up5)
  BY <1>1, <1>6, ApartSpares
<1>21. Spares(Downgrades[7], Up6)
  BY <1>1, <1>7, ApartSpares
<1>22. Spares(Downgrades[7], Subscriptions)
  BY <1>1, <1>8, ApartSpares
<1>23. /\ Upgrades[1] = Up1 /\ Upgrades[2] = Up2 /\ Upgrades[3] = Up3 /\ Upgrades[4] = Up4
       /\ Upgrades[5] = Up5 /\ Upgrades[6] = Up6 /\ Upgrades[7] = Up7
  BY DEF Upgrades
<1>24. \A q \in 1 .. 7 - 1 : q = 1 \/ q = 2 \/ q = 3 \/ q = 4 \/ q = 5 \/ q = 6
  OBVIOUS
<1>25. QED
  BY <1>15, <1>16, <1>17, <1>18, <1>19, <1>20, <1>21, <1>22, <1>23, <1>24 DEF Undoes

LEMMA Undoes8 == Undoes(8)
<1> USE DEF Drop, TableDrop, IndexDrop, ColumnDrop, Table, TextTable, Index, TenantColumn
<1> DEFINE tables == {"webauthn_credentials"}
           others == {}
<1>1. Drops(Downgrades[8], tables, others)
  BY DEF Drops, Downgrades
<1>2. Apart(Up1, tables, others)
  BY DEF Apart, Up1
<1>3. Apart(Up2, tables, others)
  BY DEF Apart, Up2
<1>4. Apart(Up3, tables, others)
  BY DEF Apart, Up3
<1>5. Apart(Up4, tables, others)
  BY DEF Apart, Up4
<1>6. Apart(Up5, tables, others)
  BY DEF Apart, Up5
<1>7. Apart(Up6, tables, others)
  BY DEF Apart, Up6
<1>8. Apart(Up7, tables, others)
  BY DEF Apart, Up7
<1>9. Apart(Subscriptions, tables, others)
  BY DEF Apart, Subscriptions
<1>10. Clears(Downgrades[8], Up8)
  BY DEF Clears, Downgrades, Up8, Removes, IsOf
<1>11. Finds(Downgrades[8], Up8)
  BY DEF Finds, Downgrades, Up8, Removes, IsOf
<1>12. InOrder(Downgrades[8], Up8)
  BY DEF InOrder, Downgrades, Up8, Removes, Refers
<1>13. Len(Up8) \in Nat \ {0} /\ DOMAIN Up8 = 1 .. Len(Up8)
  BY DEF Up8
<1>14. \A i \in 1 .. Len(Up8) : Up8[i].kind \in {"table", "index", "column"}
  BY DEF Up8
<1>15. Len(Downgrades[8]) \in Nat /\ \A j \in 1 .. Len(Downgrades[8]) : Downgrades[8][j].do = "drop"
  BY DEF Downgrades
<1> HIDE DEF tables, others, Drop, TableDrop, IndexDrop, ColumnDrop, Table, TextTable, Index, TenantColumn
<1>16. Undoing(Downgrades[8], Up8)
  BY ONLY <1>10, <1>11, <1>12, <1>13, <1>14, <1>15 DEF Undoing
<1>17. Spares(Downgrades[8], Up1)
  BY <1>1, <1>2, ApartSpares
<1>18. Spares(Downgrades[8], Up2)
  BY <1>1, <1>3, ApartSpares
<1>19. Spares(Downgrades[8], Up3)
  BY <1>1, <1>4, ApartSpares
<1>20. Spares(Downgrades[8], Up4)
  BY <1>1, <1>5, ApartSpares
<1>21. Spares(Downgrades[8], Up5)
  BY <1>1, <1>6, ApartSpares
<1>22. Spares(Downgrades[8], Up6)
  BY <1>1, <1>7, ApartSpares
<1>23. Spares(Downgrades[8], Up7)
  BY <1>1, <1>8, ApartSpares
<1>24. Spares(Downgrades[8], Subscriptions)
  BY <1>1, <1>9, ApartSpares
<1>25. /\ Upgrades[1] = Up1 /\ Upgrades[2] = Up2 /\ Upgrades[3] = Up3 /\ Upgrades[4] = Up4
       /\ Upgrades[5] = Up5 /\ Upgrades[6] = Up6 /\ Upgrades[7] = Up7 /\ Upgrades[8] = Up8
  BY DEF Upgrades
<1>26. \A q \in 1 .. 8 - 1 : q = 1 \/ q = 2 \/ q = 3 \/ q = 4 \/ q = 5 \/ q = 6 \/ q = 7
  OBVIOUS
<1>27. QED
  BY <1>16, <1>17, <1>18, <1>19, <1>20, <1>21, <1>22, <1>23, <1>24, <1>25,
     <1>26 DEF Undoes

LEMMA Undoes9 == Undoes(9)
<1> USE DEF Drop, TableDrop, IndexDrop, ColumnDrop, Table, TextTable, Index, TenantColumn
<1> DEFINE tables == {"mobile_devices"}
           others == {}
<1>1. Drops(Downgrades[9], tables, others)
  BY DEF Drops, Downgrades
<1>2. Apart(Up1, tables, others)
  BY DEF Apart, Up1
<1>3. Apart(Up2, tables, others)
  BY DEF Apart, Up2
<1>4. Apart(Up3, tables, others)
  BY DEF Apart, Up3
<1>5. Apart(Up4, tables, others)
  BY DEF Apart, Up4
<1>6. Apart(Up5, tables, others)
  BY DEF Apart, Up5
<1>7. Apart(Up6, tables, others)
  BY DEF Apart, Up6
<1>8. Apart(Up7, tables, others)
  BY DEF Apart, Up7
<1>9. Apart(Up8, tables, others)
  BY DEF Apart, Up8
<1>10. Apart(Subscriptions, tables, others)
  BY DEF Apart, Subscriptions
<1>11. Clears(Downgrades[9], Up9)
  BY DEF Clears, Downgrades, Up9, Removes, IsOf
<1>12. Finds(Downgrades[9], Up9)
  BY DEF Finds, Downgrades, Up9, Removes, IsOf
<1>13. InOrder(Downgrades[9], Up9)
  BY DEF InOrder, Downgrades, Up9, Removes, Refers
<1>14. Len(Up9) \in Nat \ {0} /\ DOMAIN Up9 = 1 .. Len(Up9)
  BY DEF Up9
<1>15. \A i \in 1 .. Len(Up9) : Up9[i].kind \in {"table", "index", "column"}
  BY DEF Up9
<1>16. Len(Downgrades[9]) \in Nat /\ \A j \in 1 .. Len(Downgrades[9]) : Downgrades[9][j].do = "drop"
  BY DEF Downgrades
<1> HIDE DEF tables, others, Drop, TableDrop, IndexDrop, ColumnDrop, Table, TextTable, Index, TenantColumn
<1>17. Undoing(Downgrades[9], Up9)
  BY ONLY <1>11, <1>12, <1>13, <1>14, <1>15, <1>16 DEF Undoing
<1>18. Spares(Downgrades[9], Up1)
  BY <1>1, <1>2, ApartSpares
<1>19. Spares(Downgrades[9], Up2)
  BY <1>1, <1>3, ApartSpares
<1>20. Spares(Downgrades[9], Up3)
  BY <1>1, <1>4, ApartSpares
<1>21. Spares(Downgrades[9], Up4)
  BY <1>1, <1>5, ApartSpares
<1>22. Spares(Downgrades[9], Up5)
  BY <1>1, <1>6, ApartSpares
<1>23. Spares(Downgrades[9], Up6)
  BY <1>1, <1>7, ApartSpares
<1>24. Spares(Downgrades[9], Up7)
  BY <1>1, <1>8, ApartSpares
<1>25. Spares(Downgrades[9], Up8)
  BY <1>1, <1>9, ApartSpares
<1>26. Spares(Downgrades[9], Subscriptions)
  BY <1>1, <1>10, ApartSpares
<1>27. /\ Upgrades[1] = Up1 /\ Upgrades[2] = Up2 /\ Upgrades[3] = Up3 /\ Upgrades[4] = Up4
       /\ Upgrades[5] = Up5 /\ Upgrades[6] = Up6 /\ Upgrades[7] = Up7 /\ Upgrades[8] = Up8
       /\ Upgrades[9] = Up9
  BY DEF Upgrades
<1>28. \A q \in 1 .. 9 - 1 : q = 1 \/ q = 2 \/ q = 3 \/ q = 4 \/ q = 5 \/ q = 6 \/ q = 7 \/ q = 8
  OBVIOUS
<1>29. QED
  BY <1>17, <1>18, <1>19, <1>20, <1>21, <1>22, <1>23, <1>24, <1>25, <1>26,
     <1>27, <1>28 DEF Undoes

(* Every downgrade finds and drops everything that its upgrade creates, in *)
(* an order in which no table goes before those that refer to it, and      *)
(* nothing that an earlier upgrade created (api/migrations/versions).      *)
THEOREM DowngradesUndo == \A r \in 1 .. 9 : Undoes(r)
<1>1. \A r \in 1 .. 9 : r = 1 \/ r = 2 \/ r = 3 \/ r = 4 \/ r = 5 \/ r = 6 \/ r = 7 \/ r = 8 \/ r = 9
  OBVIOUS
<1>2. QED
  BY <1>1, Undoes1, Undoes2, Undoes3, Undoes4, Undoes5, Undoes6, Undoes7, Undoes8, Undoes9

(* A transaction, and a command, statement by statement and script by      *)
(* script.                                                                 *)
LEMMA ExecuteFollows ==
  ASSUME NEW run, NEW statements, Len(statements) \in Nat
  PROVE  /\ Execute(run, statements)[0] = run
         /\ \A k \in 0 .. Len(statements) - 1 :
                Execute(run, statements)[k + 1] = Executed(Execute(run, statements)[k], statements[k + 1])
<1> DEFINE n == Len(statements)
           Follows(g, m) == /\ DOMAIN g = 0 .. m /\ g[0] = run
                            /\ \A k \in 0 .. m - 1 : g[k + 1] = Executed(g[k], statements[k + 1])
           S == {m \in Nat : \E g : Follows(g, m)}
<1>1. 0 \in S
  <2>1. Follows([k \in 0 .. 0 |-> run], 0)
    OBVIOUS
  <2>2. QED
    BY <2>1
<1>2. ASSUME NEW m \in Nat, m \in S PROVE m + 1 \in S
  <2>1. PICK g : Follows(g, m)
    BY <1>2
  <2> DEFINE h == [k \in 0 .. m + 1 |-> IF k <= m THEN g[k] ELSE Executed(g[m], statements[m + 1])]
  <2>2. DOMAIN h = 0 .. m + 1 /\ h[0] = run
    BY <2>1
  <2>3. ASSUME NEW k \in 0 .. m PROVE h[k + 1] = Executed(h[k], statements[k + 1])
    <3>1. h[k] = g[k] /\ k + 1 \in 0 .. m + 1
      OBVIOUS
    <3>2. CASE k = m
      BY <3>1, <3>2
    <3>3. CASE k \in 0 .. m - 1
      <4>1. h[k + 1] = g[k + 1]
        BY <3>3
      <4>2. QED
        BY <2>1, <3>1, <3>3, <4>1
    <3>4. QED
      BY <3>2, <3>3
  <2> HIDE DEF h
  <2>4. \A k \in 0 .. (m + 1) - 1 : h[k + 1] = Executed(h[k], statements[k + 1])
    <3>1. \A k \in 0 .. (m + 1) - 1 : k \in 0 .. m
      OBVIOUS
    <3>2. QED
      BY <2>3, <3>1
  <2>5. \E e : Follows(e, m + 1)
    BY <2>2, <2>4
  <2>6. QED
    BY <2>5
<1> HIDE DEF S
<1>3. n \in S
  BY <1>1, <1>2, EveryNatural
<1>4. PICK g : Follows(g, n)
  BY <1>3 DEF S
<1> DEFINE f == [k \in 0 .. n |-> g[k]]
<1>5. f = [k \in 0 .. n |-> IF k = 0 THEN run ELSE Executed(f[k - 1], statements[k])]
  BY <1>4
<1>6. \E e : e = [k \in 0 .. n |-> IF k = 0 THEN run ELSE Executed(e[k - 1], statements[k])]
  BY <1>5
<1>7. Execute(run, statements) =
         [k \in 0 .. n |-> IF k = 0 THEN run ELSE Executed(Execute(run, statements)[k - 1], statements[k])]
  BY <1>6, Zenon DEF Execute
<1> HIDE DEF f
<1>8. QED
  BY <1>7

LEMMA CommandFollows ==
  ASSUME NEW run, NEW scripts, Len(scripts) \in Nat
  PROVE  /\ Command(run, scripts)[0] = run
         /\ \A k \in 0 .. Len(scripts) - 1 :
                Command(run, scripts)[k + 1] = Finished(Command(run, scripts)[k], scripts[k + 1])
<1> DEFINE n == Len(scripts)
           Follows(g, m) == /\ DOMAIN g = 0 .. m /\ g[0] = run
                            /\ \A k \in 0 .. m - 1 : g[k + 1] = Finished(g[k], scripts[k + 1])
           S == {m \in Nat : \E g : Follows(g, m)}
<1>1. 0 \in S
  <2>1. Follows([k \in 0 .. 0 |-> run], 0)
    OBVIOUS
  <2>2. QED
    BY <2>1
<1>2. ASSUME NEW m \in Nat, m \in S PROVE m + 1 \in S
  <2>1. PICK g : Follows(g, m)
    BY <1>2
  <2> DEFINE h == [k \in 0 .. m + 1 |-> IF k <= m THEN g[k] ELSE Finished(g[m], scripts[m + 1])]
  <2>2. DOMAIN h = 0 .. m + 1 /\ h[0] = run
    BY <2>1
  <2>3. ASSUME NEW k \in 0 .. m PROVE h[k + 1] = Finished(h[k], scripts[k + 1])
    <3>1. h[k] = g[k] /\ k + 1 \in 0 .. m + 1
      OBVIOUS
    <3>2. CASE k = m
      BY <3>1, <3>2
    <3>3. CASE k \in 0 .. m - 1
      <4>1. h[k + 1] = g[k + 1]
        BY <3>3
      <4>2. QED
        BY <2>1, <3>1, <3>3, <4>1
    <3>4. QED
      BY <3>2, <3>3
  <2> HIDE DEF h
  <2>4. \A k \in 0 .. (m + 1) - 1 : h[k + 1] = Finished(h[k], scripts[k + 1])
    <3>1. \A k \in 0 .. (m + 1) - 1 : k \in 0 .. m
      OBVIOUS
    <3>2. QED
      BY <2>3, <3>1
  <2>5. \E e : Follows(e, m + 1)
    BY <2>2, <2>4
  <2>6. QED
    BY <2>5
<1> HIDE DEF S
<1>3. n \in S
  BY <1>1, <1>2, EveryNatural
<1>4. PICK g : Follows(g, n)
  BY <1>3 DEF S
<1> DEFINE f == [k \in 0 .. n |-> g[k]]
<1>5. f = [k \in 0 .. n |-> IF k = 0 THEN run ELSE Finished(f[k - 1], scripts[k])]
  BY <1>4
<1>6. \E e : e = [k \in 0 .. n |-> IF k = 0 THEN run ELSE Finished(e[k - 1], scripts[k])]
  BY <1>5
<1>7. Command(run, scripts) =
         [k \in 0 .. n |-> IF k = 0 THEN run ELSE Finished(Command(run, scripts)[k - 1], scripts[k])]
  BY <1>6, Zenon DEF Command
<1> HIDE DEF f
<1>8. QED
  BY <1>7

(* A statement is done if it is possible, and else fails.                  *)
LEMMA ExecutedOpen ==
  ASSUME NEW run, NEW statement
  PROVE  /\ run.state = "open" /\ Possible(run.objects, statement) =>
                Executed(run, statement) = Start(Done(run.objects, statement))
         /\ ~ (run.state = "open" /\ Possible(run.objects, statement)) =>
                Executed(run, statement).state = "failed"
<1>1. CASE run.state = "open" /\ Possible(run.objects, statement)
  BY <1>1, Zenon DEF Executed
<1>2. CASE ~ (run.state = "open" /\ Possible(run.objects, statement))
  <2>1. Executed(run, statement) = [state |-> "failed", objects |-> run.objects]
    BY <1>2, Zenon DEF Executed
  <2>2. QED
    BY <1>2, <2>1
<1>3. QED
  BY <1>1, <1>2

(* A transaction that ends open was open after each of its statements.     *)
LEMMA OpenSoFar ==
  ASSUME NEW run, NEW statements, Len(statements) \in Nat,
         Execute(run, statements)[Len(statements)].state = "open"
  PROVE  \A k \in 0 .. Len(statements) : Execute(run, statements)[k].state = "open"
<1> DEFINE n == Len(statements)
           after == Execute(run, statements)
           U(k) == {j \in 0 .. n : j >= k => after[j].state # "open"}
<1>1. \A j \in 0 .. n - 1 : after[j + 1] = Executed(after[j], statements[j + 1])
  BY ExecuteFollows
<1>2. n \in Nat /\ n \in 0 .. n /\ after[n].state = "open"
  OBVIOUS
<1> HIDE DEF n, after
<1>3. ASSUME NEW k \in 0 .. n, after[k].state # "open" PROVE FALSE
  <2>1. 0 \in U(k)
    BY <1>2, <1>3
  <2>2. ASSUME NEW j \in 0 .. n - 1, j \in U(k) PROVE j + 1 \in U(k)
    <3>1. j + 1 \in 0 .. n /\ j \in 0 .. n
      BY <1>2
    <3>2. CASE j + 1 <= k
      BY <1>3, <3>1, <3>2
    <3>3. CASE j >= k
      <4>1. after[j].state # "open"
        BY <2>2, <3>3
      <4>2. after[j + 1].state = "failed"
        BY <1>1, <4>1, ExecutedOpen
      <4>3. QED
        BY <3>1, <4>2
    <3>4. QED
      BY <3>1, <3>2, <3>3
  <2> HIDE DEF U
  <2>3. n \in U(k)
    BY <1>2, <2>1, <2>2, EveryUpTo
  <2>4. QED
    BY <1>2, <1>3, <2>3 DEF U
<1>4. QED
  BY <1>3 DEF n, after

(* An upgrade that ends open has added its objects, and found the first of *)
(* them missing.                                                           *)
LEMMA CreationsAdd ==
  ASSUME NEW run, NEW objects, Len(objects) \in Nat \ {0}, DOMAIN objects = 1 .. Len(objects),
         Execute(run, CreateEach(objects))[Len(CreateEach(objects))].state = "open"
  PROVE  /\ Execute(run, CreateEach(objects))[Len(CreateEach(objects))].objects
                = run.objects \union Range(objects)
         /\ Named(run.objects, objects[1].kind, objects[1].name) = {}
<1> DEFINE n == Len(objects)
           creates == CreateEach(objects)
           after == Execute(run, creates)
           U == {j \in 0 .. n : after[j].objects = run.objects \union {objects[i] : i \in 1 .. j}}
<1>1. Len(creates) = n /\ n \in Nat /\ n \in 0 .. n /\ 0 \in 0 .. n - 1 /\ 0 + 1 = 1
  BY DEF CreateEach
<1>2. \A j \in 0 .. n - 1 : creates[j + 1].do = "create" /\ creates[j + 1].object = objects[j + 1]
  BY DEF CreateEach, Create
<1>3. Range(objects) = {objects[i] : i \in 1 .. n}
  BY DEF Range
<1>0. after[n].state = "open"
  BY <1>1
<1> HIDE DEF n, creates
<1>4. after[0] = run /\ \A j \in 0 .. n - 1 : after[j + 1] = Executed(after[j], creates[j + 1])
  BY <1>1, ExecuteFollows
<1>5. \A j \in 0 .. n : after[j].state = "open"
  BY <1>0, <1>1, OpenSoFar
<1> HIDE DEF after
<1>6. ASSUME NEW j \in 0 .. n - 1
      PROVE  /\ Possible(after[j].objects, creates[j + 1])
             /\ after[j + 1].objects = after[j].objects \union {objects[j + 1]}
  <2>1. j + 1 \in 0 .. n /\ after[j + 1].state = "open"
    BY <1>1, <1>5
  <2>2. Possible(after[j].objects, creates[j + 1])
    <3>1. after[j + 1] = Executed(after[j], creates[j + 1])
      BY <1>4
    <3>2. QED
      BY <2>1, <3>1, ExecutedOpen
  <2>3. after[j + 1].objects = Done(after[j].objects, creates[j + 1])
    <3>1. after[j].state = "open" /\ after[j + 1] = Executed(after[j], creates[j + 1])
      BY <1>1, <1>4, <1>5
    <3>2. after[j + 1] = Start(Done(after[j].objects, creates[j + 1]))
      BY <2>2, <3>1, ExecutedOpen
    <3>3. QED
      BY <3>2 DEF Start
  <2>4. QED
    <3>1. creates[j + 1].do = "create" /\ creates[j + 1].object = objects[j + 1]
      BY <1>2
    <3>2. Done(after[j].objects, creates[j + 1]) = after[j].objects \union {objects[j + 1]}
      BY <3>1, Zenon DEF Done
    <3>3. QED
      BY <2>2, <2>3, <3>2
<1>7. 0 \in U
  BY <1>1, <1>4
<1>8. ASSUME NEW j \in 0 .. n - 1, j \in U PROVE j + 1 \in U
  <2>1. after[j + 1].objects = (run.objects \union {objects[i] : i \in 1 .. j}) \union {objects[j + 1]}
    BY <1>6, <1>8
  <2>2. 1 .. j + 1 = (1 .. j) \union {j + 1} /\ j + 1 \in 0 .. n
    BY <1>1
  <2>3. QED
    BY <2>1, <2>2
<1> HIDE DEF U
<1>9. n \in U
  BY <1>1, <1>7, <1>8, EveryUpTo
<1>10. after[n].objects = run.objects \union Range(objects)
  BY <1>3, <1>9 DEF U
<1>11. Named(run.objects, objects[1].kind, objects[1].name) = {}
  <2>1. Possible(run.objects, creates[1]) /\ creates[1].do = "create" /\ creates[1].object = objects[1]
    BY <1>1, <1>2, <1>4, <1>6
  <2>2. QED
    BY <2>1 DEF Possible
<1>12. QED
  BY <1>1, <1>10, <1>11 DEF after, creates

(* A downgrade whose every statement finds its object, and drops no table  *)
(* that something still there refers to, is done to its end.               *)
LEMMA DropsTake ==
  ASSUME NEW objects, NEW down, Len(down) \in Nat,
         \A j \in 1 .. Len(down) :
             /\ down[j].do = "drop"
             /\ \E o \in objects : IsOf(o, down[j]) /\ \A l \in 1 .. j - 1 : ~ Removes(down[l], o)
             /\ \A o \in objects : Refers(o, down[j]) => \E l \in 1 .. j - 1 : Removes(down[l], o)
  PROVE  Execute(Start(objects), down)[Len(down)] =
             Start({o \in objects : \A l \in 1 .. Len(down) : ~ Removes(down[l], o)})
<1> DEFINE n == Len(down)
           after == Execute(Start(objects), down)
           Left(k) == {o \in objects : \A l \in 1 .. k : ~ Removes(down[l], o)}
           U == {j \in 0 .. n : after[j] = Start(Left(j))}
<1>1. n \in Nat /\ n \in 0 .. n
  OBVIOUS
<1>2. after[0] = Start(objects) /\ \A j \in 0 .. n - 1 : after[j + 1] = Executed(after[j], down[j + 1])
  BY ExecuteFollows
<1> HIDE DEF after
<1>3. 0 \in U
  <2>1. Left(0) = objects /\ 0 \in 0 .. n
    BY <1>1
  <2>2. QED
    BY <1>2, <2>1
<1>4. ASSUME NEW j \in 0 .. n - 1, j \in U PROVE j + 1 \in U
  <2> DEFINE s == down[j + 1]
  <2>1. j + 1 \in 1 .. n /\ (j + 1) - 1 = j /\ j + 1 \in 0 .. n
    BY <1>1
  <2>2. /\ s.do = "drop"
        /\ \E o \in objects : IsOf(o, s) /\ \A l \in 1 .. j : ~ Removes(down[l], o)
        /\ \A o \in objects : Refers(o, s) => \E l \in 1 .. j : Removes(down[l], o)
    BY <2>1
  <2>3. Left(j + 1) = {o \in Left(j) : ~ Removes(s, o)}
    <3>1. 1 .. j + 1 = (1 .. j) \union {j + 1}
      BY <1>1
    <3>2. QED
      BY <3>1
  <2>4. /\ \E o \in Left(j) : IsOf(o, s)
        /\ \A o \in Left(j) : ~ Refers(o, s)
    BY <2>2
  <2>5. after[j] = Start(Left(j)) /\ after[j + 1] = Executed(after[j], s)
    BY <1>2, <1>4
  <2> HIDE DEF s, Left, n
  <2>6. Possible(Left(j), s)
    BY <2>2, <2>4 DEF Possible, Named, IsOf, Refers
  <2>7. Done(Left(j), s) = {o \in Left(j) : ~ Removes(s, o)}
    BY <2>2 DEF Done, Named, Removes
  <2>8. after[j + 1] = Start(Left(j + 1))
    <3>1. Start(Left(j)).state = "open" /\ Start(Left(j)).objects = Left(j)
      BY DEF Start
    <3>2. Executed(Start(Left(j)), s) = Start(Done(Left(j), s))
      BY <2>6, <3>1, ExecutedOpen
    <3>3. QED
      BY <2>3, <2>5, <2>7, <3>2
  <2>9. QED
    BY <2>1, <2>8 DEF n
<1> HIDE DEF U, n, Left
<1>5. n \in U
  BY <1>1, <1>3, <1>4, EveryUpTo
<1>6. QED
  BY <1>5 DEF U, n, after, Left

(* What is created, revision by revision.                                  *)
LEMMA CreatedGrows ==
  ASSUME NEW r \in 1 .. 9
  PROVE  Created(r) = Created(r - 1) \union Range(Upgrades[r])
<1>1. 1 .. r = (1 .. r - 1) \union {r}
  OBVIOUS
<1>2. {Range(Upgrades[i]) : i \in 1 .. r} =
          {Range(Upgrades[i]) : i \in 1 .. r - 1} \union {Range(Upgrades[r])}
  BY <1>1
<1>3. QED
  BY <1>2, Zenon DEF Created

LEMMA CreatedNone == Created(0) = {}
<1>1. 1 .. 0 = {}
  OBVIOUS
<1>2. QED
  BY <1>1 DEF Created

(* The objects of an upgrade, by their positions.                          *)
LEMMA InUpgrade ==
  ASSUME NEW r \in 1 .. 9
  PROVE  Range(Upgrades[r]) = {Upgrades[r][i] : i \in 1 .. Len(Upgrades[r])}
BY DowngradesUndo DEF Undoes, Undoing, Range

LEMMA CreatedKinds ==
  ASSUME NEW r \in 0 .. 9
  PROVE  \A o \in Created(r) : o.kind \in {"table", "index", "column"}
<1>1. ASSUME NEW o \in Created(r) PROVE o.kind \in {"table", "index", "column"}
  <2>1. PICK q \in 1 .. r : o \in Range(Upgrades[q])
    BY <1>1 DEF Created
  <2>2. q \in 1 .. 9
    OBVIOUS
  <2>3. PICK i \in 1 .. Len(Upgrades[q]) : o = Upgrades[q][i]
    BY <2>1, <2>2, InUpgrade
  <2>4. QED
    BY <2>2, <2>3, DowngradesUndo DEF Undoes, Undoing
<1>2. QED
  BY <1>1

(* A downgrade of a schema that has what the upgrades created is done, and *)
(* leaves what the earlier upgrades created.                               *)
LEMMA DowngradeOne ==
  ASSUME NEW r \in 1 .. 9, NEW objects, objects \ Foreign = Created(r)
  PROVE  \E left : /\ Execute(Start(objects), Downgrades[r])[Len(Downgrades[r])] = Start(left)
                   /\ left \ Foreign = Created(r - 1)
<1> DEFINE down == Downgrades[r]
           up == Upgrades[r]
           n == Len(down)
           left == {o \in objects : \A l \in 1 .. n : ~ Removes(down[l], o)}
<1>1. /\ Undoing(down, up) /\ Spares(down, Subscriptions)
      /\ \A q \in 1 .. r - 1 : Spares(down, Upgrades[q])
  BY DowngradesUndo DEF Undoes
<1>2. Range(up) = {up[i] : i \in 1 .. Len(up)}
  BY InUpgrade
<1>3. Foreign = {Subscriptions[1]} /\ Len(Subscriptions) = 1
  BY DEF Foreign, Subscriptions
<1>4. Created(r) = Created(r - 1) \union Range(up)
  BY CreatedGrows
<1> HIDE DEF down, up, n
<1>5. n = Len(down) /\ n \in Nat /\ \A j \in 1 .. n : down[j].do = "drop"
  BY <1>1 DEF Undoing, n
(* What the earlier upgrades created, and what is foreign, is left alone. *)
<1>6. ASSUME NEW o \in Created(r - 1) \union Foreign, NEW j \in 1 .. n
      PROVE  ~ Removes(down[j], o) /\ ~ Refers(o, down[j])
  <2>1. CASE o \in Created(r - 1)
    <3>1. PICK q \in 1 .. r - 1 : o \in Range(Upgrades[q])
      BY <2>1 DEF Created
    <3>2. q \in 1 .. 9 /\ Spares(down, Upgrades[q])
      BY <1>1
    <3>3. PICK i \in 1 .. Len(Upgrades[q]) : o = Upgrades[q][i]
      BY <3>1, <3>2, InUpgrade
    <3>4. QED
      BY <1>5, <3>2, <3>3 DEF Spares
  <2>2. CASE o \in Foreign
    <3>1. o = Subscriptions[1] /\ 1 \in 1 .. Len(Subscriptions)
      BY <1>3, <2>2
    <3>2. QED
      BY <1>1, <1>5, <3>1 DEF Spares
  <2>3. QED
    BY <2>1, <2>2
<1>7. \A i \in 1 .. Len(up) : up[i] \in objects /\ up[i] \notin Foreign
  BY <1>2, <1>4
<1>8. ASSUME NEW j \in 1 .. n
      PROVE  \E o \in objects : IsOf(o, down[j]) /\ \A l \in 1 .. j - 1 : ~ Removes(down[l], o)
  <2>1. Finds(down, up)
    BY <1>1 DEF Undoing
  <2>2. PICK i \in 1 .. Len(up) : IsOf(up[i], down[j]) /\ \A l \in 1 .. j - 1 : ~ Removes(down[l], up[i])
    BY <1>5, <2>1 DEF Finds
  <2>3. QED
    BY <1>7, <2>2
<1>9. ASSUME NEW j \in 1 .. n, NEW o \in objects, Refers(o, down[j])
      PROVE  \E l \in 1 .. j - 1 : Removes(down[l], o)
  <2>1. o \in Created(r - 1) \union Foreign \/ o \in Range(up)
    BY <1>4
  <2>2. PICK i \in 1 .. Len(up) : o = up[i]
    BY <1>2, <1>6, <1>9, <2>1
  <2>3. InOrder(down, up)
    BY <1>1 DEF Undoing
  <2>4. QED
    BY <1>5, <1>9, <2>2, <2>3 DEF InOrder
<1>10. \A j \in 1 .. Len(down) :
          /\ down[j].do = "drop"
          /\ \E o \in objects : IsOf(o, down[j]) /\ \A l \in 1 .. j - 1 : ~ Removes(down[l], o)
          /\ \A o \in objects : Refers(o, down[j]) => \E l \in 1 .. j - 1 : Removes(down[l], o)
  BY <1>5, <1>8, <1>9
<1>11. Execute(Start(objects), down)[Len(down)] = Start(left)
  <2>1. Len(down) \in Nat
    BY <1>5
  <2>2. Execute(Start(objects), down)[Len(down)] =
            Start({o \in objects : \A l \in 1 .. Len(down) : ~ Removes(down[l], o)})
    BY <1>10, <2>1, DropsTake
  <2>3. QED
    BY <1>5, <2>2
<1>12. left \ Foreign = Created(r - 1)
  <2>1. ASSUME NEW o \in Range(up) PROVE \E l \in 1 .. n : Removes(down[l], o)
    <3>1. Clears(down, up)
      BY <1>1 DEF Undoing
    <3>2. QED
      BY <1>2, <1>5, <3>1 DEF Clears
  <2>2. \A o \in Created(r - 1) : o \in objects /\ o \notin Foreign
    BY <1>4
  <2>3. QED
    BY <1>4, <1>6, <2>1, <2>2
<1> HIDE DEF left
<1>13. QED
  BY <1>11, <1>12 DEF down

(* So is a command that downgrades, and what is left is of its revision.   *)
LEMMA Downgraded ==
  ASSUME NEW from \in 0 .. 9, NEW to \in 0 .. from - 1, NEW objects, objects \ Foreign = Created(from)
  PROVE  LET scripts == Scripts(from, to) IN
         \E left : /\ Command(Start(objects), scripts)[Len(scripts)] = Start(left)
                   /\ left \ Foreign = Created(to)
<1> DEFINE scripts == Scripts(from, to)
           n == from - to
           after == Command(Start(objects), scripts)
           Reaches(j) == \E left : after[j] = Start(left) /\ left \ Foreign = Created(from - j)
           U == {j \in 0 .. n : Reaches(j)}
<1>1. n \in Nat /\ Len(scripts) = n /\ \A j \in 0 .. n - 1 : scripts[j + 1] = Downgrades[from - j]
  <2>1. scripts = [i \in 1 .. n |-> Downgrades[from + 1 - i]] /\ n \in Nat
    BY DEF Scripts
  <2>2. \A j \in 0 .. n - 1 : j + 1 \in 1 .. n /\ from + 1 - (j + 1) = from - j
    OBVIOUS
  <2> HIDE DEF scripts
  <2>3. QED
    BY <2>1, <2>2
<1> HIDE DEF scripts
<1>2. after[0] = Start(objects) /\ \A j \in 0 .. n - 1 : after[j + 1] = Finished(after[j], scripts[j + 1])
  BY <1>1, CommandFollows
<1> HIDE DEF after
<1>3. 0 \in U
  <2>1. 0 \in 0 .. n /\ from - 0 = from
    BY <1>1
  <2>2. Reaches(0)
    BY <1>2, <2>1
  <2> HIDE DEF Reaches
  <2>3. QED
    BY <2>1, <2>2
<1>4. ASSUME NEW j \in 0 .. n - 1, j \in U PROVE j + 1 \in U
  <2>1. PICK here : after[j] = Start(here) /\ here \ Foreign = Created(from - j)
    BY <1>4
  <2>2. from - j \in 1 .. 9 /\ (from - j) - 1 = from - (j + 1) /\ j + 1 \in 0 .. n
    OBVIOUS
  <2>3. PICK left : /\ Execute(Start(here), Downgrades[from - j])[Len(Downgrades[from - j])] = Start(left)
                    /\ left \ Foreign = Created((from - j) - 1)
    BY <2>1, <2>2, DowngradeOne
  <2>4. after[j + 1] = Start(left)
    <3>1. after[j + 1] = Finished(Start(here), Downgrades[from - j])
      BY <1>1, <1>2, <2>1
    <3>2. Start(here).state = "open"
      BY DEF Start
    <3>3. QED
      BY <2>3, <3>1, <3>2 DEF Finished
  <2>5. QED
    BY <2>2, <2>3, <2>4
<1> HIDE DEF U
<1>5. n \in U
  BY <1>1, <1>3, <1>4, EveryUpTo
<1>6. Reaches(n) /\ from - n = to
  BY <1>5 DEF U
<1>7. QED
  BY <1>1, <1>6 DEF after, scripts

(* A command that ends open was open after each of its scripts.            *)
LEMMA CommandOpenSoFar ==
  ASSUME NEW run, NEW scripts, Len(scripts) \in Nat,
         Command(run, scripts)[Len(scripts)].state = "open"
  PROVE  \A k \in 0 .. Len(scripts) : Command(run, scripts)[k].state = "open"
<1> DEFINE n == Len(scripts)
           after == Command(run, scripts)
           U(k) == {j \in 0 .. n : j >= k => after[j].state # "open"}
<1>1. \A j \in 0 .. n - 1 : after[j + 1] = Finished(after[j], scripts[j + 1])
  BY CommandFollows
<1>2. n \in Nat /\ n \in 0 .. n /\ after[n].state = "open"
  OBVIOUS
<1> HIDE DEF n, after
<1>3. ASSUME NEW k \in 0 .. n, after[k].state # "open" PROVE FALSE
  <2>1. 0 \in U(k)
    BY <1>2, <1>3
  <2>2. ASSUME NEW j \in 0 .. n - 1, j \in U(k) PROVE j + 1 \in U(k)
    <3>1. j + 1 \in 0 .. n /\ j \in 0 .. n
      BY <1>2
    <3>2. CASE j + 1 <= k
      BY <1>3, <3>1, <3>2
    <3>3. CASE j >= k
      <4>1. after[j].state # "open"
        BY <2>2, <3>3
      <4>2. after[j + 1] = after[j]
        BY <1>1, <4>1 DEF Finished
      <4>3. QED
        BY <3>1, <4>1, <4>2
    <3>4. QED
      BY <3>1, <3>2, <3>3
  <2> HIDE DEF U
  <2>3. n \in U(k)
    BY <1>2, <2>1, <2>2, EveryUpTo
  <2>4. QED
    BY <1>2, <1>3, <2>3 DEF U
<1>4. QED
  BY <1>3 DEF n, after

(* The table that the upgrades do not create is not among what they do.    *)
LEMMA CreatedHere ==
  ASSUME NEW r \in 1 .. 9
  PROVE  Range(Upgrades[r]) \intersect Foreign = {}
<1> DEFINE down == Downgrades[r]
           up == Upgrades[r]
<1>1. Undoing(down, up) /\ Spares(down, Subscriptions)
  BY DowngradesUndo DEF Undoes
<1>2. Range(up) = {up[i] : i \in 1 .. Len(up)}
  BY InUpgrade
<1>3. Foreign = {Subscriptions[1]} /\ 1 \in 1 .. Len(Subscriptions)
  BY DEF Foreign, Subscriptions
<1> HIDE DEF down, up
<1>4. ASSUME NEW i \in 1 .. Len(up), up[i] \in Foreign PROVE FALSE
  <2>1. PICK j \in 1 .. Len(down) : Removes(down[j], up[i])
    BY <1>1 DEF Undoing, Clears
  <2>2. ~ Removes(down[j], Subscriptions[1])
    BY <1>1, <1>3 DEF Spares
  <2>3. QED
    BY <1>3, <1>4, <2>1, <2>2
<1>5. QED
  BY <1>2, <1>4 DEF up

(* A command that upgrades and is done finds nothing of the next upgrade,  *)
(* and leaves the schema of its revision.                                  *)
LEMMA Upgraded ==
  ASSUME NEW from \in 0 .. 8, NEW to \in from + 1 .. 9, NEW objects,
         Command(Start(objects), Scripts(from, to))[Len(Scripts(from, to))].state = "open"
  PROVE  /\ objects \ Foreign = Created(from) =>
                Command(Start(objects), Scripts(from, to))[Len(Scripts(from, to))].objects \ Foreign
                    = Created(to)
         /\ Named(objects, Upgrades[from + 1][1].kind, Upgrades[from + 1][1].name) = {}
<1> DEFINE scripts == Scripts(from, to)
           n == to - from
           after == Command(Start(objects), scripts)
           U == {j \in 0 .. n : objects \ Foreign = Created(from) =>
                                    after[j].objects \ Foreign = Created(from + j)}
<1>1. /\ n \in Nat \ {0} /\ n \in 0 .. n /\ from + n = to /\ Len(scripts) = n
      /\ \A j \in 0 .. n - 1 : scripts[j + 1] = CreateEach(Upgrades[from + (j + 1)])
  <2>1. scripts = [i \in 1 .. n |-> CreateEach(Upgrades[from + i])] /\ n \in Nat \ {0} /\ from + n = to
    BY DEF Scripts
  <2>2. \A j \in 0 .. n - 1 : j + 1 \in 1 .. n
    OBVIOUS
  <2> HIDE DEF scripts
  <2>3. QED
    BY <2>1, <2>2
<1>0. after[n].state = "open"
  BY <1>1
<1> HIDE DEF scripts
<1>2. after[0] = Start(objects) /\ \A j \in 0 .. n - 1 : after[j + 1] = Finished(after[j], scripts[j + 1])
  BY <1>1, CommandFollows
<1>3. \A j \in 0 .. n : after[j].state = "open"
  BY <1>0, <1>1, CommandOpenSoFar
<1> HIDE DEF after
<1>4. ASSUME NEW j \in 0 .. n - 1
      PROVE  LET up == Upgrades[from + (j + 1)] IN
             /\ after[j + 1].objects = after[j].objects \union Range(up)
             /\ Named(after[j].objects, up[1].kind, up[1].name) = {}
  <2> DEFINE up == Upgrades[from + (j + 1)]
  <2>1. from + (j + 1) \in 1 .. 9 /\ j \in 0 .. n /\ j + 1 \in 0 .. n
    <3>1. n \in Nat /\ n = to - from
      BY <1>1
    <3> HIDE DEF n
    <3>2. QED
      BY ONLY <3>1, from \in 0 .. 8, to \in from + 1 .. 9, j \in 0 .. n - 1
  <2>2. Len(up) \in Nat \ {0} /\ DOMAIN up = 1 .. Len(up)
    BY <2>1, DowngradesUndo DEF Undoes, Undoing
  <2>3. /\ after[j + 1] = Finished(after[j], CreateEach(up))
        /\ after[j].state = "open" /\ after[j + 1].state = "open"
    BY <1>1, <1>2, <1>3, <2>1
  <2> HIDE DEF up
  <2>4. after[j + 1] = Execute(after[j], CreateEach(up))[Len(CreateEach(up))]
    BY <2>3 DEF Finished
  <2>5. QED
    BY <2>2, <2>3, <2>4, CreationsAdd DEF up
<1>5. 0 \in U
  BY <1>1, <1>2 DEF Start
<1>6. ASSUME NEW j \in 0 .. n - 1, j \in U PROVE j + 1 \in U
  <2>1. from + (j + 1) \in 1 .. 9 /\ (from + (j + 1)) - 1 = from + j /\ j + 1 \in 0 .. n
    BY <1>1
  <2>2. Created(from + (j + 1)) = Created(from + j) \union Range(Upgrades[from + (j + 1)])
    BY <2>1, CreatedGrows
  <2>3. Range(Upgrades[from + (j + 1)]) \intersect Foreign = {}
    BY <2>1, CreatedHere
  <2>4. after[j + 1].objects = after[j].objects \union Range(Upgrades[from + (j + 1)])
    BY <1>4
  <2>5. QED
    BY <1>6, <2>1, <2>2, <2>3, <2>4
<1> HIDE DEF U
<1>7. n \in U
  BY <1>1, <1>5, <1>6, EveryUpTo
<1>8. Named(objects, Upgrades[from + 1][1].kind, Upgrades[from + 1][1].name) = {}
  <2>1. 0 \in 0 .. n - 1 /\ from + (0 + 1) = from + 1
    BY <1>1
  <2>2. after[0].objects = objects
    BY <1>2 DEF Start
  <2>3. QED
    BY <1>4, <2>1, <2>2
<1>9. QED
  BY <1>1, <1>7, <1>8 DEF U, after, scripts

(* A process that starts finds all of create_all's tables missing, or none. *)
SchemaInv ==
    /\ SchemaTypeOK /\ SchemaOfRevision /\ outcome # "downgrade refused"
    /\ \A a \in App : missing[a] \in {{}, Models}

LEMMA LatestRevision == Latest = 9
BY DEF Latest, Upgrades

LEMMA ModelsCreated == Models \subseteq Created(1)
<1>1. 1 \in 1 .. 1 /\ Upgrades[1] = Up1
  BY DEF Upgrades
<1>2. {Up1[i] : i \in 1 .. 15} \subseteq Created(1)
  <2>1. Range(Up1) = {Up1[i] : i \in 1 .. 15}
    BY DEF Range, Up1
  <2>2. QED
    BY <1>1, <2>1 DEF Created
<1>3. /\ Up1[1] = Table("data_principals", {}) /\ Up1[3] = Table("data_fiduciaries", {})
      /\ Up1[4] = Table("consent_records", {"data_principals", "data_fiduciaries"})
      /\ Up1[7] = Table("consent_events", {"consent_records"})
      /\ Up1[10] = Table("audit_logs", {"data_principals", "data_fiduciaries"})
      /\ Up1[14] = Table("merkle_roots", {})
      /\ Up1[15] = Table("compliance_reports", {"data_fiduciaries"})
  BY DEF Up1
<1>4. \A t \in Models : \E i \in 1 .. 15 : t = Up1[i]
  BY <1>3 DEF Models
<1>5. QED
  BY <1>2, <1>4

(* Any schema above the base has create_all's tables.                      *)
LEMMA ModelsAbove ==
  ASSUME NEW r \in 1 .. 9
  PROVE  Models \subseteq Created(r)
<1>1. Created(1) \subseteq Created(r)
  BY DEF Created
<1>2. QED
  BY <1>1, ModelsCreated

(* The tables of create_all, the one nothing creates, and their names.     *)
LEMMA ModelTables ==
  /\ \A o \in Models \union ModelIndexes : o \notin Foreign /\ o.kind \in {"table", "index", "column"}
  /\ \A t \in Models : t.kind = "table" /\ t.name # "webhook_subscriptions"
  /\ \A o \in Foreign : o.kind = "table" /\ o.name = "webhook_subscriptions"
  /\ \E t \in Models : t.name = "data_principals"
  /\ \A i \in ModelIndexes : i.of = "data_principals"
BY DEF Models, ModelIndexes, Foreign, Table, Index

(* The first object of the first upgrade is a table of create_all's.       *)
LEMMA FirstObject == Upgrades[1][1] \in Models
<1>1. Upgrades[1] = Up1
  BY DEF Upgrades
<1>2. Up1[1] = Table("data_principals", {})
  BY DEF Up1
<1>3. QED
  BY <1>1, <1>2 DEF Models

LEMMA SchemaKinds ==
  ASSUME NEW objects, NEW r \in 0 .. 9, objects \ Foreign = Created(r)
  PROVE  \A o \in objects : o.kind \in {"table", "index", "column"}
<1>1. \A o \in objects : o \in Created(r) \/ o \in Foreign
  OBVIOUS
<1>2. QED
  BY <1>1, CreatedKinds, ModelTables

(* The two parts of the invariant by the revision.                         *)
LEMMA SchemaHere ==
  ASSUME SchemaInv
  PROVE  /\ revision \in 0 .. 9 /\ (revision = 0 \/ revision \in 1 .. 9)
         /\ revision \in 1 .. 9 => schema \ Foreign = Created(revision)
         /\ revision = 0 => schema \ Foreign = {} \/ schema \ Foreign = Models \union ModelIndexes
<1>1. revision \in 0 .. Latest /\ SchemaOfRevision
  BY DEF SchemaInv, SchemaTypeOK
<1>2. revision \in 0 .. 9 /\ (revision = 0 \/ revision \in 1 .. 9)
  BY <1>1, LatestRevision
<1>3. QED
  BY <1>1, <1>2 DEF SchemaOfRevision

LEMMA SchemaInitially == SchemaInit => SchemaInv
<1> SUFFICES ASSUME SchemaInit PROVE SchemaInv
  OBVIOUS
<1>1. \A o \in schema : o.kind \in {"table", "index", "column"}
  BY ModelTables DEF SchemaInit
<1>2. SchemaTypeOK
  BY <1>1, LatestRevision DEF SchemaInit, SchemaTypeOK
<1>3. SchemaOfRevision
  BY DEF SchemaInit, SchemaOfRevision
<1>4. QED
  BY <1>2, <1>3 DEF SchemaInit, SchemaInv

(* An upgrade that is done started at what its revision created, not at    *)
(* the tables that create_all made.                                        *)
LEMMA MigrateUpSafe ==
  ASSUME SchemaInv, NEW to \in 0 .. Latest, to > revision, Migrate(to)
  PROVE  SchemaInv'
<1> DEFINE scripts == Scripts(revision, to)
           run == Command(Start(schema), scripts)[Len(scripts)]
<1>1. revision \in 0 .. 8 /\ to \in revision + 1 .. 9 /\ to \in 0 .. Latest /\ to > 0
  BY LatestRevision, SchemaHere
<1>2. /\ \/ run.state = "open" /\ schema' = run.objects /\ revision' = to /\ outcome' = "upgraded"
         \/ UNCHANGED <<schema, revision>> /\ outcome' = "upgrade refused"
      /\ UNCHANGED <<app, missing>>
  BY <1>1 DEF Migrate
<1>3. CASE run.state = "open"
  <2>1. /\ schema \ Foreign = Created(revision) => run.objects \ Foreign = Created(to)
        /\ Named(schema, Upgrades[revision + 1][1].kind, Upgrades[revision + 1][1].name) = {}
    BY <1>1, <1>3, Upgraded
  <2>2. schema \ Foreign = Created(revision)
    <3>1. CASE revision \in 1 .. 9
      BY <3>1, SchemaHere
    <3>2. CASE revision = 0
      <4>1. Upgrades[1][1] \notin schema
        <5>1. Named(schema, Upgrades[1][1].kind, Upgrades[1][1].name) = {}
          BY <2>1, <3>2
        <5>2. QED
          BY <5>1 DEF Named
      <4>2. schema \ Foreign = {}
        BY <3>2, <4>1, FirstObject, SchemaHere
      <4>3. QED
        BY <3>2, <4>2, CreatedNone
    <3>3. QED
      BY <3>1, <3>2, SchemaHere
  <2>3. run.objects \ Foreign = Created(to)
    BY <2>1, <2>2
  <2> HIDE DEF run
  <2>4. \A o \in run.objects : o.kind \in {"table", "index", "column"}
    <3>1. to \in 0 .. 9
      BY <1>1
    <3>2. QED
      BY <2>3, <3>1, SchemaKinds
  <2>5. SchemaTypeOK' /\ outcome' # "downgrade refused" /\ \A a \in App : missing'[a] \in {{}, Models}
    BY <1>1, <1>2, <2>4 DEF SchemaInv, SchemaTypeOK
  <2>6. SchemaOfRevision'
    BY <1>1, <1>2, <2>3 DEF SchemaInv, SchemaOfRevision
  <2>7. QED
    BY <2>5, <2>6 DEF SchemaInv
<1>4. CASE run.state # "open"
  <2> HIDE DEF run
  <2>1. SchemaTypeOK' /\ outcome' # "downgrade refused" /\ \A a \in App : missing'[a] \in {{}, Models}
    BY <1>2, <1>4 DEF SchemaInv, SchemaTypeOK
  <2>2. SchemaOfRevision'
    BY <1>2, <1>4 DEF SchemaInv, SchemaOfRevision
  <2>3. QED
    BY <2>1, <2>2 DEF SchemaInv
<1>5. QED
  BY <1>3, <1>4

(* A downgrade is always done.                                             *)
LEMMA MigrateDownSafe ==
  ASSUME SchemaInv, NEW to \in 0 .. Latest, to < revision, Migrate(to)
  PROVE  SchemaInv'
<1> DEFINE scripts == Scripts(revision, to)
           run == Command(Start(schema), scripts)[Len(scripts)]
<1>1. /\ revision \in 0 .. 9 /\ revision \in 1 .. 9 /\ to \in 0 .. revision - 1 /\ to \in 0 .. 9
      /\ to \in 0 .. Latest /\ ~ (to > revision)
  BY LatestRevision, SchemaHere
<1>2. /\ \/ schema' = run.objects /\ revision' = to /\ outcome' = "downgraded"
         \/ run.state = "failed"
      /\ UNCHANGED <<app, missing>>
  BY <1>1 DEF Migrate
<1>3. schema \ Foreign = Created(revision)
  BY <1>1, SchemaHere
<1>4. PICK left : run = Start(left) /\ left \ Foreign = Created(to)
  BY <1>1, <1>3, Downgraded
<1> HIDE DEF run
<1>5. schema' = left /\ revision' = to /\ outcome' = "downgraded"
  <2>1. run.state = "open" /\ run.objects = left
    BY <1>4 DEF Start
  <2>2. QED
    BY <1>2, <2>1
<1>6. \A o \in left : o.kind \in {"table", "index", "column"}
  BY <1>1, <1>4, SchemaKinds
<1>7. SchemaTypeOK' /\ outcome' # "downgrade refused" /\ \A a \in App : missing'[a] \in {{}, Models}
  BY <1>2, <1>5, <1>6 DEF SchemaInv, SchemaTypeOK
<1>8. SchemaOfRevision'
  BY <1>1, <1>4, <1>5, CreatedNone DEF SchemaOfRevision
<1>9. QED
  BY <1>7, <1>8 DEF SchemaInv

(* What a start finds missing is all of the tables or none.                *)
LEMMA StartCheckSafe ==
  ASSUME SchemaInv, NEW a \in App, StartCheck(a)
  PROVE  SchemaInv'
<1> DEFINE found == {t \in Models : Named(schema, "table", t.name) = {}}
<1>1. missing' = [missing EXCEPT ![a] = found] /\ app' = [app EXCEPT ![a] = "starting"]
      /\ UNCHANGED <<schema, revision, outcome>>
  BY DEF StartCheck
<1>2. Models \subseteq schema => found = {}
  BY ModelTables DEF Named
<1>3. schema \ Foreign = {} => found = Models
  BY ModelTables DEF Named
<1>4. found \in {{}, Models}
  <2>1. CASE revision \in 1 .. 9
    <3>1. Models \subseteq schema
      BY <2>1, ModelsAbove, SchemaHere
    <3>2. QED
      BY <1>2, <3>1
  <2>2. CASE schema \ Foreign = {}
    BY <1>3, <2>2
  <2>3. CASE schema \ Foreign = Models \union ModelIndexes
    <3>1. Models \subseteq schema
      BY <2>3
    <3>2. QED
      BY <1>2, <3>1
  <2> HIDE DEF found
  <2>4. QED
    BY <2>1, <2>2, <2>3, SchemaHere
<1>5. found \subseteq Models
  OBVIOUS
<1> HIDE DEF found
<1>6. SchemaTypeOK' /\ outcome' # "downgrade refused"
  BY <1>1, <1>5 DEF SchemaInv, SchemaTypeOK
<1>7. \A b \in App : missing'[b] \in {{}, Models}
  BY <1>1, <1>4 DEF SchemaInv, SchemaTypeOK
<1>8. SchemaOfRevision'
  BY <1>1 DEF SchemaInv, SchemaOfRevision
<1>9. QED
  BY <1>6, <1>7, <1>8 DEF SchemaInv

(* Tables are made only where none of them is, and that is at the base.    *)
LEMMA StartCreateSafe ==
  ASSUME SchemaInv, NEW a \in App, StartCreate(a)
  PROVE  SchemaInv'
<1>1. /\ \A o \in Missed(a) : Named(schema, o.kind, o.name) = {}
      /\ schema' = schema \union Missed(a) /\ UNCHANGED <<revision, outcome>>
      /\ app' = [app EXCEPT ![a] = "up"] /\ missing' = [missing EXCEPT ![a] = {}]
  BY DEF StartCreate
<1>2. missing[a] \in {{}, Models}
  BY DEF SchemaInv
<1>3. missing[a] = {} => Missed(a) = {}
  BY DEF Missed
<1>4. missing[a] = Models => Missed(a) = Models \union ModelIndexes
  BY ModelTables DEF Missed
<1>5. \A o \in schema' : o.kind \in {"table", "index", "column"}
  BY <1>1, <1>2, <1>3, <1>4, ModelTables DEF SchemaInv, SchemaTypeOK
<1>6. SchemaTypeOK' /\ outcome' # "downgrade refused"
  BY <1>1, <1>5 DEF SchemaInv, SchemaTypeOK
<1>7. \A b \in App : missing'[b] \in {{}, Models}
  BY <1>1 DEF SchemaInv, SchemaTypeOK
<1>8. SchemaOfRevision'
  <2>1. CASE missing[a] = {}
    <3>1. schema' = schema /\ revision' = revision
      BY <1>1, <1>3, <2>1
    <3>2. QED
      BY <3>1 DEF SchemaInv, SchemaOfRevision
  <2>2. CASE missing[a] = Models
    <3>1. Missed(a) = Models \union ModelIndexes
      BY <1>4, <2>2
    <3>2. ASSUME Models \subseteq schema PROVE FALSE
      <4>1. PICK t \in Models : t.name = "data_principals"
        BY ModelTables
      <4>2. t \in schema /\ t \in Missed(a)
        BY <3>1, <3>2
      <4>3. t \in Named(schema, t.kind, t.name)
        BY <4>2 DEF Named
      <4>4. QED
        BY <1>1, <4>2, <4>3
    <3>3. revision = 0
      BY <3>2, ModelsAbove, SchemaHere
    <3>4. schema \ Foreign = {}
      BY <3>2, <3>3, SchemaHere
    <3>5. schema' \ Foreign = Models \union ModelIndexes
      BY <1>1, <3>1, <3>4, ModelTables
    <3>6. QED
      BY <1>1, <3>3, <3>5 DEF SchemaOfRevision
  <2>3. QED
    BY <1>2, <2>1, <2>2
<1>9. QED
  BY <1>6, <1>7, <1>8 DEF SchemaInv

LEMMA SchemaStep == SchemaInv /\ [SchemaNext]_schemaVars => SchemaInv'
<1> SUFFICES ASSUME SchemaInv, [SchemaNext]_schemaVars PROVE SchemaInv'
  OBVIOUS
<1>1. ASSUME NEW to \in 0 .. Latest, Migrate(to) PROVE SchemaInv'
  <2>1. to > revision \/ to < revision
    <3>1. to # revision
      BY <1>1, Zenon DEF Migrate
    <3>2. to \in 0 .. 9 /\ revision \in 0 .. 9
      BY LatestRevision, SchemaHere
    <3>3. QED
      BY <3>1, <3>2
  <2>2. QED
    BY <1>1, <2>1, MigrateUpSafe, MigrateDownSafe
<1>2. ASSUME NEW a \in App, StartFails(a) \/ Stop(a) PROVE SchemaInv'
  <2>1. /\ app' = [app EXCEPT ![a] = "down"] /\ UNCHANGED <<schema, revision, outcome>>
        /\ missing' = [missing EXCEPT ![a] = {}] \/ missing' = missing
    BY <1>2 DEF StartFails, Stop
  <2>2. SchemaTypeOK' /\ \A b \in App : missing'[b] \in {{}, Models}
    BY <2>1 DEF SchemaInv, SchemaTypeOK
  <2>3. SchemaOfRevision' /\ outcome' # "downgrade refused"
    BY <2>1 DEF SchemaInv, SchemaOfRevision
  <2>4. QED
    BY <2>2, <2>3 DEF SchemaInv
<1>3. CASE UNCHANGED schemaVars
  <2>1. SchemaTypeOK' /\ \A b \in App : missing'[b] \in {{}, Models}
    BY <1>3 DEF SchemaInv, SchemaTypeOK, schemaVars
  <2>2. SchemaOfRevision' /\ outcome' # "downgrade refused"
    BY <1>3 DEF SchemaInv, SchemaOfRevision, schemaVars
  <2>3. QED
    BY <2>1, <2>2 DEF SchemaInv
<1>4. QED
  BY <1>1, <1>2, <1>3, StartCheckSafe, StartCreateSafe DEF SchemaNext

LEMMA SchemaInvImplies == SchemaInv => SchemaSafe
BY DEF SchemaInv, SchemaSafe

(***************************************************************************)
(* The parts together: a step of MCDuties is a step of one of them, or     *)
(* leaves it as it is.                                                     *)
(***************************************************************************)
CaseworkInv == BreachInv /\ GrievanceInv /\ GuardianInv /\ ChildTypeOK

DeliveryInv == WebhookInv /\ CacheInv /\ ChannelInv /\ PushInv /\ BusInv

RecordsInv == ChainInv /\ LedgerInv /\ ReportsInv /\ BatchInv /\ SdkInv

LEMMA CaseworkInvariance == Spec => []CaseworkInv
<1>1. Init => CaseworkInv
  BY BreachInitially, GrievanceInitially, GuardianInitially, ChildInitially DEF Init, CaseworkInv
<1>2. CaseworkInv /\ [Next]_vars => CaseworkInv'
  <2>1. [Next]_vars => /\ [BreachNext]_breachVars /\ [GrievanceNext]_grievanceVars
                       /\ [GuardianNext]_guardianVars /\ [ChildNext]_childVars
    BY DEF Next, vars, caseworkVars
  <2>2. QED
    BY <2>1, BreachStep, GrievanceStep, GuardianStep, ChildStep DEF CaseworkInv
<1>3. QED
  BY <1>1, <1>2, PTL DEF Spec

LEMMA DeliveryInvariance == Spec => []DeliveryInv
<1>1. Init => DeliveryInv
  BY WebhookInitially, CacheInitially, ChannelInitially, PushInitially, BusInitially
     DEF Init, DeliveryInv
<1>2. DeliveryInv /\ [Next]_vars => DeliveryInv'
  <2>1. [Next]_vars => /\ [WebhookNext]_webhookVars /\ [CacheNext]_cacheVars
                       /\ [ChannelNext]_channelVars /\ [PushNext]_pushVars /\ [BusNext]_busVars
    BY DEF Next, vars, deliveryVars
  <2>2. QED
    BY <2>1, WebhookStep, CacheStep, ChannelStep, PushStep, BusStep DEF DeliveryInv
<1>3. QED
  BY <1>1, <1>2, PTL DEF Spec

LEMMA SchemaInvariance == Spec => []SchemaInv
<1>1. Init => SchemaInv
  BY SchemaInitially DEF Init
<1>2. SchemaInv /\ [Next]_vars => SchemaInv'
  <2>1. [Next]_vars => [SchemaNext]_schemaVars
    BY DEF Next, vars, recordsVars
  <2>2. QED
    BY <2>1, SchemaStep
<1>3. QED
  BY <1>1, <1>2, PTL DEF Spec

LEMMA RecordsInvariance == Spec => []RecordsInv
<1>1. Init => RecordsInv
  BY ChainInitially, LedgerInitially, ReportsInitially, BatchInitially, SdkInitially DEF Init, RecordsInv
<1>2. RecordsInv /\ [Next]_vars => RecordsInv'
  <2>1. [Next]_vars => /\ [ChainNext]_chainVars /\ [LedgerNext]_ledgerVars
                       /\ [ReportsNext]_reportVars /\ [BatchNext]_batchVars /\ [SdkNext]_sdkVars
    BY DEF Next, vars, recordsVars
  <2>2. QED
    BY <2>1, ChainStep, LedgerStep, ReportsStep, BatchStep, SdkStep DEF RecordsInv
<1>3. QED
  BY <1>1, <1>2, PTL DEF Spec

(* While nobody sets a breach's status by hand and no call commits over    *)
(* another, the deadline checks report exactly the missed deadlines; a     *)
(* guardian's audit trail ends with its status, a revoked one may not act  *)
(* and one who may act is in the main log (api/breach, api/grievance,      *)
(* api/guardian, api/routes/children.py).                                  *)
THEOREM CaseworkIsSafe == Spec => []CaseworkSafe
<1>1. CaseworkInv => CaseworkSafe
  BY BreachImplies, GrievanceImplies, GuardianImplies DEF CaseworkInv, CaseworkSafe
<1>2. QED
  BY <1>1, CaseworkInvariance, PTL

(* After an invalidation the consent and its verification are shown as     *)
(* committed, unless a fill had computed before the write, or a deletion   *)
(* failed (api/cache).                                                     *)
THEOREM CacheIsFresh == Spec => []FreshAfterInvalidate
<1>1. DeliveryInv => FreshAfterInvalidate
  BY CacheImplies DEF DeliveryInv
<1>2. QED
  BY <1>1, DeliveryInvariance, PTL

(* A failed delivery is kept where it is looked for, through crashes of    *)
(* replays and replays at the same time; a socket and a device get what    *)
(* was for them; every subscriber of an event is called and counted; and   *)
(* an invalidated entry of the cache is not served again (api/webhooks,    *)
(* api/websocket, api/mobile, api/events, api/cache).                      *)
THEOREM DeliveryIsSafe == Spec => []DeliverySafe
<1>1. DeliveryInv => DeliverySafe
  BY WebhookImplies, CacheImplies, ChannelImplies, BusImplies
     DEF DeliveryInv, DeliverySafe, PushInv, PushSafe
<1>2. QED
  BY <1>1, DeliveryInvariance, PTL

(* A call of the chain that returned took effect, each transaction at most *)
(* once; a row about a Merkle root is about a batch that was anchored, and *)
(* the contract's links lead back to it; a report has the logs and events  *)
(* of what it lists; a batch reports what it created; and a client acts on *)
(* no consent withdrawn before it was verified (contracts/client.py,       *)
(* contracts_v2/audit_trail.py, api/services.py, api/main.py, api/regulator*)
(* api/portability, sdk/client.py).                                        *)
THEOREM RecordsAreSafe == Spec => []RecordsSafe
<1>1. RecordsInv => RecordsSafe
  BY ChainInvImplies, LedgerInvImplies, ReportsInvImplies, SdkInvImplies
     DEF RecordsInv, RecordsSafe, LedgerSafe, BatchInv, BatchSafe
<1>2. QED
  BY <1>1, RecordsInvariance, PTL

(* Whatever upgrades and downgrades are run, and whenever processes start  *)
(* and create missing tables: above the base the schema is exactly what    *)
(* the upgrades to its revision create, and no downgrade is ever refused.  *)
(* The proof of an event of a recorded batch is accepted under the root of *)
(* its row, unless a node on its way up has no sibling, and is accepted    *)
(* for no other event (api/migrations/versions, api/main.py, api/services, *)
(* api/database.py, core/crypto.py).                                       *)
THEOREM StructuresAreSafe == Spec => []StructuresSafe
<1>1. SchemaInv /\ RecordsInv => StructuresSafe
  BY SchemaInvImplies, LedgerProofs DEF RecordsInv, StructuresSafe
<1>2. QED
  BY <1>1, SchemaInvariance, RecordsInvariance, PTL
=============================================================================

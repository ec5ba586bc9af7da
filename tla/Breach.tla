------------------------------- MODULE Breach -------------------------------
(***************************************************************************)
(* BreachNotificationService of api/breach/__init__.py: one breach, and    *)
(* callers with a session each.  Which deadline is watched is decided by   *)
(* the status alone; the stamps beside it are never compared with it.      *)
(*                                                                         *)
(* External: the breach_records table, which the code imports and no       *)
(* schema defines; an UPDATE and its commit are one step.  Hours are kept  *)
(* as the bands that the deadlines cut.                                    *)
(***************************************************************************)
EXTENDS Naturals, FiniteSets

CONSTANTS Officer,     \* concurrent callers
          Victim,      \* principals to notify
          Info         \* additional_info, each given once

VARIABLES breach,      \* the row, or NoBreach
          hours,       \* the band of the hours since detected_at
          officer,     \* officer[o]: a call between its awaits
          infos,       \* history: additional_info answered with success
          byHand,      \* history: update_breach_status was used
          reversed,    \* history: principals were notified first
          overwritten  \* history: a description was written over another's

breachVars == <<breach, hours, officer, infos, byHand, reversed, overwritten>>

Unnotified == {"DETECTED", "INVESTIGATING", "CONTAINED"}
BreachStatus == Unnotified \union {"NOTIFIED_AUTHORITY", "NOTIFIED_PRINCIPALS", "RESOLVED", "CLOSED"}
NoBreach == [status |-> "NONE", authority |-> FALSE, principals |-> FALSE, description |-> {}]

(* Up to 60 hours, up to 72, up to 168, and more. *)
InTime == 0
Approaching == 1
PastAuthority == 2
PastPrincipals == 3

Away == [pc |-> "idle", left |-> {}, status |-> "NONE", info |-> {}, read |-> {}]

BreachTypeOK ==
    /\ breach \in [status : BreachStatus, authority : BOOLEAN, principals : BOOLEAN,
                   description : SUBSET Info] \union {NoBreach}
    /\ hours \in InTime..PastPrincipals
    /\ officer \in [Officer -> [pc : {"idle", "notifying", "describing"}, left : SUBSET Victim,
                                status : BreachStatus \union {"NONE"},
                                info : SUBSET Info, read : SUBSET Info]]
    /\ infos \subseteq Info
    /\ {byHand, reversed, overwritten} \subseteq BOOLEAN

BreachInit ==
    /\ breach = NoBreach /\ hours = InTime /\ infos = {}
    /\ officer = [o \in Officer |-> Away]
    /\ byHand = FALSE /\ reversed = FALSE /\ overwritten = FALSE

Recorded == breach # NoBreach
Free(o) == officer[o].pc = "idle"

(* detected_at is the caller's and may be long past. *)
CreateBreach ==
    /\ ~Recorded
    /\ breach' = [NoBreach EXCEPT !.status = "DETECTED"]
    /\ hours' \in InTime..PastPrincipals
    /\ UNCHANGED <<officer, infos, byHand, reversed, overwritten>>

HoursPass ==
    /\ Recorded /\ hours < PastPrincipals
    /\ hours' = hours + 1
    /\ UNCHANGED <<breach, officer, infos, byHand, reversed, overwritten>>

(* Whatever the status is, and without sending anything. *)
NotifyAuthority(o) ==
    /\ Recorded /\ Free(o)
    /\ breach' = [breach EXCEPT !.status = "NOTIFIED_AUTHORITY", !.authority = TRUE]
    /\ reversed' = (reversed \/ breach.principals)
    /\ UNCHANGED <<hours, officer, infos, byHand, overwritten>>

NotifyPrincipals(o, ids) ==
    /\ Recorded /\ Free(o)
    /\ officer' = [officer EXCEPT ![o] = [Away EXCEPT !.pc = "notifying", !.left = ids]]
    /\ UNCHANGED <<breach, hours, infos, byHand, reversed, overwritten>>

(* One principal of the loop: notified, without a row, or lost to an       *)
(* exception, which is only noted in the answer.                           *)
NotifyOne(o, v) ==
    /\ officer[o].pc = "notifying" /\ v \in officer[o].left
    /\ officer' = [officer EXCEPT ![o].left = @ \ {v}]
    /\ UNCHANGED <<breach, hours, infos, byHand, reversed, overwritten>>

(* The status is written over whatever another call has set it to. *)
PrincipalsNotified(o) ==
    /\ officer[o].pc = "notifying" /\ officer[o].left = {}
    /\ breach' = [breach EXCEPT !.status = "NOTIFIED_PRINCIPALS", !.principals = TRUE]
    /\ reversed' = (reversed \/ ~breach.authority)
    /\ officer' = [officer EXCEPT ![o] = Away]
    /\ UNCHANGED <<hours, infos, byHand, overwritten>>

(* The process ends, or the database fails: nothing more of the call. *)
OfficerGone(o) ==
    /\ ~Free(o)
    /\ officer' = [officer EXCEPT ![o] = Away]
    /\ UNCHANGED <<breach, hours, infos, byHand, reversed, overwritten>>

UpdateBreachStatus(o, s) ==
    /\ Recorded /\ Free(o)
    /\ breach' = [breach EXCEPT !.status = s]
    /\ byHand' = TRUE
    /\ UNCHANGED <<hours, officer, infos, reversed, overwritten>>

(* With additional_info the description is read first ... *)
ReadDescription(o, s, i) ==
    /\ Recorded /\ Free(o)
    /\ officer' = [officer EXCEPT ![o] = [pc |-> "describing", left |-> {}, status |-> s,
                                          info |-> {i}, read |-> breach.description]]
    /\ UNCHANGED <<breach, hours, infos, byHand, reversed, overwritten>>

(* Fault: the update replaces the description. *)
DescribedOver(o) == officer[o].info

(* ... and written back with the addition. *)
Described(o) == officer[o].read \union officer[o].info

WriteDescription(o) ==
    /\ officer[o].pc = "describing"
    /\ breach' = [breach EXCEPT !.status = officer[o].status, !.description = Described(o)]
    /\ infos' = infos \union officer[o].info
    /\ overwritten' = (overwritten \/ officer[o].read # breach.description)
    /\ byHand' = TRUE
    /\ officer' = [officer EXCEPT ![o] = Away]
    /\ UNCHANGED <<hours, reversed>>

(* Fault: a breach whose authority was notified is no longer looked at. *)
AlertUnnotifiedOnly ==
    CASE breach.status \notin Unnotified -> "none"
      [] hours >= PastAuthority -> "OVERDUE_AUTHORITY_NOTIFICATION"
      [] hours = Approaching -> "APPROACHING_AUTHORITY_DEADLINE"
      [] OTHER -> "none"

(* What check_notification_deadlines returns for the breach. *)
Alert ==
    CASE breach.status \in Unnotified /\ hours >= PastAuthority -> "OVERDUE_AUTHORITY_NOTIFICATION"
      [] breach.status \in Unnotified /\ hours = Approaching -> "APPROACHING_AUTHORITY_DEADLINE"
      [] breach.status = "NOTIFIED_AUTHORITY" /\ hours = PastPrincipals -> "OVERDUE_PRINCIPAL_NOTIFICATION"
      [] OTHER -> "none"

BreachNext ==
    \/ CreateBreach \/ HoursPass
    \/ \E o \in Officer :
          \/ NotifyAuthority(o) \/ PrincipalsNotified(o) \/ OfficerGone(o) \/ WriteDescription(o)
          \/ \E ids \in SUBSET Victim : NotifyPrincipals(o, ids)
          \/ \E v \in Victim : NotifyOne(o, v)
          \/ \E s \in BreachStatus :
                UpdateBreachStatus(o, s) \/ \E i \in Info \ infos : ReadDescription(o, s, i)
-----------------------------------------------------------------------------
(* While the two notifications are made in their order and nobody sets the *)
(* status by hand, a missed deadline is alerted and no met one is, though  *)
(* the check looks at the status and not at the stamps.                    *)
OverdueAlerted ==
    Recorded /\ ~byHand /\ ~reversed =>
        /\ hours >= PastAuthority /\ ~breach.authority <=> Alert = "OVERDUE_AUTHORITY_NOTIFICATION"
        /\ hours = PastPrincipals /\ breach.authority /\ ~breach.principals
               <=> Alert = "OVERDUE_PRINCIPAL_NOTIFICATION"

(* What an officer added to the description is there, unless another wrote *)
(* the description between the read and the write of one.                  *)
DescriptionKept == ~overwritten => infos \subseteq breach.description
=============================================================================

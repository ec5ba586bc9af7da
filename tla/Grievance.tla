------------------------------ MODULE Grievance ------------------------------
(***************************************************************************)
(* GrievanceService of api/grievance/__init__.py: the grievances of one    *)
(* fiduciary, and calls that load a grievance, assign to its columns and   *)
(* commit.  The unit of work writes the columns that differ from what was  *)
(* loaded and no others, so a call that loaded the status it assigns does  *)
(* not write it.  Nothing checks the status before a call.                 *)
(***************************************************************************)
EXTENDS Naturals

CONSTANTS Case,           \* grievances
          Clerk,          \* concurrent calls
          Resolution,     \* days from acknowledgement to the due date
          MaxDay          \* bound on the clock

ASSUME GrievanceAssumption == Resolution \in Nat /\ MaxDay \in Nat \ {0}

VARIABLES grievance,   \* grievance[g]: its row
          clerk,       \* clerk[k]: a call between its load and its commit
          day,         \* the clock
          escalated,   \* history: grievances escalated
          reopened,    \* history: acknowledged after they were resolved
          crossed      \* history: a call committed over another's commit

grievanceVars == <<grievance, clerk, day, escalated, reopened, crossed>>

GrievanceStatus == {"SUBMITTED", "ACKNOWLEDGED", "RESOLVED", "ESCALATED"}
OpenStatus == {"SUBMITTED", "ACKNOWLEDGED"}
NotSubmitted == [status |-> "NONE", due |-> 0, resolved |-> FALSE]
NoDueDate == 0
NoCall == [call |-> "none"]
GrievanceCall == {"acknowledge", "resolve", "escalate"}

GrievanceTypeOK ==
    /\ grievance \in [Case -> [status : GrievanceStatus, due : 0..MaxDay + Resolution,
                               resolved : BOOLEAN] \union {NotSubmitted}]
    /\ clerk \in [Clerk -> [call : GrievanceCall, of : Case, seen : GrievanceStatus, over : BOOLEAN]
                               \union {NoCall}]
    /\ day \in 1..MaxDay
    /\ escalated \subseteq Case /\ reopened \subseteq Case /\ crossed \subseteq Case

GrievanceInit ==
    /\ grievance = [g \in Case |-> NotSubmitted]
    /\ clerk = [k \in Clerk |-> NoCall]
    /\ day = 1 /\ escalated = {} /\ reopened = {} /\ crossed = {}

SubmitGrievance(g) ==
    /\ grievance[g] = NotSubmitted
    /\ grievance' = [grievance EXCEPT ![g].status = "SUBMITTED"]
    /\ UNCHANGED <<clerk, day, escalated, reopened, crossed>>

LoadGrievance(k, call, g) ==
    /\ clerk[k] = NoCall
    /\ grievance[g] # NotSubmitted
    /\ clerk' = [clerk EXCEPT ![k] = [call |-> call, of |-> g, seen |-> grievance[g].status,
                                      over |-> FALSE]]
    /\ UNCHANGED <<grievance, day, escalated, reopened, crossed>>

Assigns(call) ==
    CASE call = "acknowledge" -> "ACKNOWLEDGED"
      [] call = "resolve" -> "RESOLVED"
      [] call = "escalate" -> "ESCALATED"

(* The call of clerk k ends with its commit; calls that loaded the         *)
(* grievance before it will commit over it.                                *)
Commits(k) ==
    /\ clerk' = [j \in Clerk |->
                    IF j = k THEN NoCall
                    ELSE IF clerk[j] # NoCall /\ clerk[j].of = clerk[k].of
                         THEN [clerk[j] EXCEPT !.over = TRUE] ELSE clerk[j]]
    /\ crossed' = IF clerk[k].over THEN crossed \union {clerk[k].of} ELSE crossed
    /\ UNCHANGED day

StatusAfter(k) ==
    LET status == Assigns(clerk[k].call)
    IN  IF clerk[k].seen = status THEN grievance[clerk[k].of].status ELSE status

AcknowledgeGrievance(k) ==
    /\ clerk[k] # NoCall /\ clerk[k].call = "acknowledge"
    /\ LET g == clerk[k].of IN
       /\ grievance' = [grievance EXCEPT ![g].status = StatusAfter(k), ![g].due = day + Resolution]
       /\ reopened' = IF grievance[g].resolved THEN reopened \union {g} ELSE reopened
    /\ Commits(k)
    /\ UNCHANGED escalated

(* Fault: the resolution is stored and the status left alone. *)
ResolveTextOnly(k) ==
    /\ clerk[k] # NoCall /\ clerk[k].call = "resolve"
    /\ grievance' = [grievance EXCEPT ![clerk[k].of].resolved = TRUE]
    /\ Commits(k)
    /\ UNCHANGED <<escalated, reopened>>

ResolveGrievance(k) ==
    /\ clerk[k] # NoCall /\ clerk[k].call = "resolve"
    /\ grievance' = [grievance EXCEPT ![clerk[k].of].status = StatusAfter(k),
                                      ![clerk[k].of].resolved = TRUE]
    /\ Commits(k)
    /\ UNCHANGED <<escalated, reopened>>

(* The commit of _add_communication writes the status as well. *)
EscalateGrievance(k) ==
    /\ clerk[k] # NoCall /\ clerk[k].call = "escalate"
    /\ grievance' = [grievance EXCEPT ![clerk[k].of].status = StatusAfter(k)]
    /\ escalated' = escalated \union {clerk[k].of}
    /\ Commits(k)
    /\ UNCHANGED reopened

(* The commit fails: nothing of the call remains. *)
CallFails(k) ==
    /\ clerk[k] # NoCall
    /\ clerk' = [clerk EXCEPT ![k] = NoCall]
    /\ UNCHANGED <<grievance, day, escalated, reopened, crossed>>

DayPasses ==
    /\ day < MaxDay /\ day' = day + 1
    /\ UNCHANGED <<grievance, clerk, escalated, reopened, crossed>>

(* check_sla_compliance: a grievance without a due date is never late.     *)
(* The comparison is taken to answer.  The column is declared without a    *)
(* time zone and the clock has one, so a driver that gives dates back as   *)
(* declared makes the check raise instead, which changes no state.         *)
SlaBreaches ==
    {g \in Case : /\ grievance[g].status \in OpenStatus
                  /\ grievance[g].due # NoDueDate /\ day > grievance[g].due}

GrievanceNext ==
    \/ DayPasses
    \/ \E g \in Case : SubmitGrievance(g) \/ \E k \in Clerk, call \in GrievanceCall : LoadGrievance(k, call, g)
    \/ \E k \in Clerk :
          AcknowledgeGrievance(k) \/ ResolveGrievance(k) \/ EscalateGrievance(k) \/ CallFails(k)
-----------------------------------------------------------------------------
Late(g) == grievance[g].due # NoDueDate /\ day > grievance[g].due

(* The SLA check reports every acknowledged grievance past its date that   *)
(* is neither resolved nor escalated, and a resolved one only if it was    *)
(* acknowledged again, provided no call committed over another.            *)
SlaReported ==
    \A g \in Case \ crossed :
        /\ Late(g) /\ ~grievance[g].resolved /\ g \notin escalated => g \in SlaBreaches
        /\ g \in SlaBreaches /\ grievance[g].resolved => g \in reopened
=============================================================================

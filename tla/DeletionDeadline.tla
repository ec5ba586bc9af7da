-------------------------- MODULE DeletionDeadline --------------------------
(***************************************************************************)
(* DeletionDeadlineWorker of api/workers/expiry_worker.py over deletion    *)
(* requests that DataDeletion's calls move on.  APScheduler runs each of   *)
(* its two jobs several times a day, one instance at a time.               *)
(*                                                                         *)
(* External: the deletion_requests table as the worker uses it, with the   *)
(* extra_data it writes and dates that compare with an aware clock: the    *)
(* migration that creates the table has neither, and api/database.py does  *)
(* not define the class that the worker imports.  Time in days.            *)
(***************************************************************************)
EXTENDS Naturals

CONSTANTS Erasure,            \* deletion requests
          DeadlineDays,       \* DELETION_DEADLINE_DAYS
          ReminderDays,       \* REMINDER_DAYS
          MaxDate,            \* bound on the clock
          MaxJobFaults        \* bound on mails and commits that fail

ASSUME DeadlineAssumption ==
    /\ DeadlineDays \in Nat \ {0} /\ ReminderDays \subseteq Nat
    /\ MaxDate \in Nat \ {0} /\ MaxJobFaults \in Nat

VARIABLES erasure,      \* erasure[r]: status, created_at and scheduled_at
          today,        \* the clock
          checked,      \* check_deadlines ran today
          selected,     \* requests process_overdue_requests has loaded
          marked,       \* of those, the ones marked and mailed
          processing,   \* process_overdue_requests has begun
          overdue,      \* requests whose extra_data says overdue
          reminded,     \* history: requests reminded of
          jobFaults     \* history: faults so far

deadlineVars ==
    <<erasure, today, checked, selected, marked, processing, overdue, reminded, jobFaults>>

OpenErasure == {"PENDING", "VERIFICATION_IN_PROGRESS", "IN_PROGRESS"}
ErasureStatus == OpenErasure \union {"COMPLETED", "FAILED"}
NoErasure == [status |-> "NONE", created |-> 0, scheduled |-> 0]

DeadlineTypeOK ==
    /\ erasure \in [Erasure -> [status : ErasureStatus, created : 1..MaxDate,
                                scheduled : 0..MaxDate + 1] \union {NoErasure}]
    /\ today \in 1..MaxDate /\ checked \in BOOLEAN /\ processing \in BOOLEAN
    /\ marked \subseteq selected /\ selected \subseteq Erasure
    /\ overdue \subseteq Erasure /\ reminded \subseteq Erasure
    /\ jobFaults \in 0..MaxJobFaults

DeadlineInit ==
    /\ erasure = [r \in Erasure |-> NoErasure]
    /\ today = 1 /\ checked = FALSE /\ processing = FALSE
    /\ selected = {} /\ marked = {} /\ overdue = {} /\ reminded = {}
    /\ jobFaults = 0

jobVars == <<checked, selected, marked, processing, overdue, reminded, jobFaults>>

CreateErasure(r) ==
    /\ erasure[r] = NoErasure
    /\ erasure' = [erasure EXCEPT ![r] = [status |-> "PENDING", created |-> today, scheduled |-> 0]]
    /\ UNCHANGED <<today, jobVars>>

(* Fault: the status that the worker's queries name. *)
VerifySchedules(r) ==
    /\ erasure[r].status \in OpenErasure \union {"FAILED"}
    /\ erasure' = [erasure EXCEPT ![r].status = "SCHEDULED", ![r].scheduled = today + 1]
    /\ UNCHANGED <<today, jobVars>>

(* Only a verification schedules the request, for the next day. *)
VerifyErasure(r) ==
    /\ erasure[r].status \in OpenErasure \union {"FAILED"}
    /\ erasure' = [erasure EXCEPT ![r].status = "VERIFICATION_IN_PROGRESS", ![r].scheduled = today + 1]
    /\ UNCHANGED <<today, jobVars>>

ExecuteErasure(r, status) ==
    /\ erasure[r].status \in OpenErasure \union {"FAILED"}
    /\ erasure[r].status = "IN_PROGRESS" <=> status # "IN_PROGRESS"
    /\ erasure' = [erasure EXCEPT ![r].status = status]
    /\ UNCHANGED <<today, jobVars>>

(* The hourly job. A request is reminded of when it is scheduled within    *)
(* one of the reminder days; a failed mail loses only its own reminder.    *)
ToRemind ==
    {r \in Erasure :
        /\ erasure[r].status \in {"PENDING", "VERIFICATION_IN_PROGRESS"}
        /\ erasure[r].scheduled > today
        /\ \E days \in ReminderDays : erasure[r].scheduled <= today + days}

CheckDeadlines ==
    /\ reminded' = reminded \union ToRemind
    /\ checked' = TRUE
    /\ UNCHANGED <<erasure, today, selected, marked, processing, overdue, jobFaults>>

(* Fault: a request on its deadline day is overdue already. *)
OverdueNotBefore(r) == today >= erasure[r].created + DeadlineDays

Overdue(r) == today > erasure[r].created + DeadlineDays

(* Fault: only requests with a scheduled date are looked at. *)
OverdueScheduled ==
    {r \in Erasure : erasure[r].status \in OpenErasure /\ erasure[r].scheduled # 0 /\ Overdue(r)}

OverdueNow == {r \in Erasure : erasure[r].status \in OpenErasure /\ Overdue(r)}

(* The other job: the open requests past the deadline are loaded ...       *)
ProcessOverdue ==
    /\ ~processing
    /\ processing' = TRUE
    /\ selected' = OverdueNow
    /\ UNCHANGED <<erasure, today, checked, marked, overdue, reminded, jobFaults>>

(* ... each is marked and mailed to the compliance team ... *)
EscalateToCompliance(r) ==
    /\ processing /\ r \in selected \ marked
    /\ marked' = marked \union {r}
    /\ UNCHANGED <<erasure, today, checked, selected, processing, overdue, reminded, jobFaults>>

(* ... or the mail fails; the mark was assigned before it. *)
EscalationFails(r) ==
    /\ processing /\ r \in selected \ marked
    /\ jobFaults < MaxJobFaults
    /\ jobFaults' = jobFaults + 1
    /\ marked' = marked \union {r}
    /\ UNCHANGED <<erasure, today, checked, selected, processing, overdue, reminded>>

EndProcess(marks) ==
    /\ processing' = FALSE /\ selected' = {} /\ marked' = {}
    /\ overdue' = overdue \union marks
    /\ UNCHANGED <<erasure, today, checked, reminded>>

(* ... and the marks are committed together, completed meanwhile or not.   *)
ProcessCommits ==
    /\ processing /\ marked = selected
    /\ EndProcess(marked)
    /\ UNCHANGED jobFaults

(* The database fails: the marks are lost, and the next run tries again.   *)
ProcessFails ==
    /\ processing /\ jobFaults < MaxJobFaults
    /\ jobFaults' = jobFaults + 1
    /\ EndProcess({})

(* A day has many runs of both jobs. *)
NextDay ==
    /\ today < MaxDate /\ checked
    /\ today' = today + 1 /\ checked' = FALSE
    /\ UNCHANGED <<erasure, selected, marked, processing, overdue, reminded, jobFaults>>

Job == CheckDeadlines \/ ProcessOverdue \/ ProcessCommits \/ \E r \in Erasure : EscalateToCompliance(r)

DeadlineNext ==
    \/ Job \/ ProcessFails \/ NextDay
    \/ \E r \in Erasure :
          \/ CreateErasure(r) \/ VerifyErasure(r) \/ EscalationFails(r)
          \/ \E status \in {"IN_PROGRESS", "COMPLETED", "FAILED"} : ExecuteErasure(r, status)

DeadlineSpec == DeadlineInit /\ [][DeadlineNext]_deadlineVars

-----------------------------------------------------------------------------
(* Only requests that are past their deadline are marked overdue, and a    *)
(* batch marks only what it loaded.                                        *)
DeadlineSafe ==
    /\ DeadlineTypeOK
    /\ \A r \in overdue : erasure[r].created + DeadlineDays < today

(* A request that stays open past its deadline is marked overdue, whatever *)
(* mails and commits fail on the way; a FAILED one is not looked at.       *)
OverdueEscalated ==
    \A r \in Erasure :
        erasure[r].status \in OpenErasure /\ Overdue(r)
            ~> r \in overdue \/ erasure[r].status \notin OpenErasure
=============================================================================

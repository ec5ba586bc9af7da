------------------------------- MODULE Reports -------------------------------
(***************************************************************************)
(* What is read of the consents of one fiduciary: the export of            *)
(* api/portability, the audit trail of api/regulator, the dashboard and    *)
(* the consent audit of api/routes/dpo.py and the compliance report of     *)
(* api/services.py.  Each is a sequence of queries in one session, every   *)
(* one of which sees what was committed by then (READ COMMITTED), while    *)
(* the service, the expiry worker and the deletion commit their changes.   *)
(* A report's period is taken to cover all rows: one that ended earlier    *)
(* lists a consent by its present status without the later events.         *)
(***************************************************************************)
EXTENDS Naturals, Sequences, FiniteSets

CONSTANTS Record,           \* consents of the fiduciary
          Pairs,            \* the consents of each principal with it
          MaxLogs,          \* audit logs of one consent
          MaxCrossed        \* commits while a report is made

ASSUME ReportAssumption ==
    IsFiniteSet(Record) /\ Pairs \subseteq SUBSET Record /\ MaxLogs \in Nat

VARIABLES stored,        \* status, statuses of the events, number of audit logs
          erasing,       \* the deletion's transaction
          stripped,      \* history: rows whose audit logs a deletion took
          report         \* the report being made

reportVars == <<stored, erasing, stripped, report>>

Statuses == {"GRANTED", "MODIFIED", "REVOKED", "EXPIRED"}

(* Fault: the audit logs are read before the consents.                     *)
QueriesLogsFirst ==
    [trail |-> <<"logs", "consents", "events", "chain">>, export |-> <<"logs", "consents">>,
     report |-> <<"logs", "consents", "commit">>, audit |-> <<"consents">>,
     dashboard |-> <<"total", "GRANTED", "REVOKED", "EXPIRED">>]

(* The queries of each kind of report, in their order.                     *)
Queries ==
    [trail |-> <<"consents", "events", "logs", "chain">>, export |-> <<"consents", "logs">>,
     report |-> <<"consents", "logs", "commit">>, audit |-> <<"consents">>,
     dashboard |-> <<"total", "GRANTED", "REVOKED", "EXPIRED">>]
NoRow == [status |-> "none", events |-> {}, logs |-> 0]
Unasked == [kind |-> "none", step |-> 0, listed |-> [r \in Record |-> "none"],
         events |-> [r \in Record |-> {}], logs |-> [r \in Record |-> 0],
         count |-> [total |-> 0, GRANTED |-> 0, REVOKED |-> 0, EXPIRED |-> 0],
         crossed |-> 0, erased |-> {}]

NotErasing == [step |-> "none", pair |-> {}, rows |-> {}, taken |-> [r \in Record |-> 0]]

ReportsInit ==
    /\ stored = [r \in Record |-> NoRow] /\ report = Unasked
    /\ erasing = NotErasing /\ stripped = {}

There(r) == stored[r].status # "none"
Reading == report.kind # "none"

(* A commit that changes a consent, seen from the report being made.       *)
Crossing == IF Reading THEN [report EXCEPT !.crossed = @ + 1] ELSE report
Crosses == Reading => report.crossed < MaxCrossed

(* A row that the deletion's DELETE has taken is locked; what waits for it *)
(* finds no row.                                                           *)
Commit(r, new) ==
    /\ Crosses /\ r \notin erasing.rows
    /\ stored' = [stored EXCEPT ![r] = new]
    /\ UNCHANGED <<erasing, stripped>>

(* create_consent, modify_consent and revoke_consent commit the record,    *)
(* its event and its audit log together.  The status they checked may be   *)
(* an older one (module ConsentService), so any status may be changed.     *)
Change(r, to) ==
    /\ to = "GRANTED" <=> ~There(r)
    /\ stored[r].logs < MaxLogs
    /\ Commit(r, [status |-> to, events |-> stored[r].events \union {to},
                  logs |-> stored[r].logs + 1])
    /\ report' = Crossing

(* verify_consent expires a record without an event, and the worker with   *)
(* one, unless building it failed; neither writes an audit log.            *)
Expire(r, event) ==
    /\ There(r) /\ stored[r].status # "EXPIRED"
    /\ Commit(r, [stored[r] EXCEPT !.status = "EXPIRED",
                                !.events = IF event THEN @ \union {"EXPIRED"} ELSE @])
    /\ report' = Crossing

(* The deletion of a principal's data, one at a time: it deletes the rows  *)
(* that it sees, with their events, then every audit log of the principal  *)
(* and the fiduciary that it sees by then, and commits.  A consent that    *)
(* was committed between the two statements keeps its row and its events   *)
(* and loses its logs.                                                     *)
EraseRecords(pair) ==
    /\ erasing.step = "none"
    /\ erasing' = [NotErasing EXCEPT !.step = "records", !.pair = pair, !.rows = {r \in pair : There(r)}]
    /\ UNCHANGED <<stored, stripped, report>>

EraseLogs ==
    /\ erasing.step = "records"
    /\ erasing' = [erasing EXCEPT !.step = "logs",
            !.taken = [r \in Record |-> IF r \in erasing.pair THEN stored[r].logs ELSE 0]]
    /\ UNCHANGED <<stored, stripped, report>>

EraseCommits ==
    /\ erasing.step = "logs" /\ Crosses
    /\ stored' = [r \in Record |-> IF r \in erasing.rows THEN NoRow
                                  ELSE [stored[r] EXCEPT !.logs = @ - erasing.taken[r]]]
    /\ stripped' = (stripped \union {r \in Record : erasing.taken[r] > 0}) \ erasing.rows
    /\ report' = [Crossing EXCEPT !.erased = IF Reading THEN @ \union erasing.rows ELSE @]
    /\ erasing' = NotErasing

(* A foreign key or the database fails: the transaction is rolled back.    *)
EraseFails ==
    /\ erasing.step # "none"
    /\ erasing' = NotErasing
    /\ UNCHANGED <<stored, stripped, report>>

Ask(kind) ==
    /\ ~Reading
    /\ report' = [Unasked EXCEPT !.kind = kind, !.step = 1]
    /\ UNCHANGED <<stored, erasing, stripped>>

(* The next query of the report, and its answer.                           *)
At(query) == /\ Reading /\ report.step <= Len(Queries[report.kind])
             /\ Queries[report.kind][report.step] = query
Answer(new) == report' = [new EXCEPT !.step = @ + 1] /\ UNCHANGED <<stored, erasing, stripped>>

QueryConsents ==
    /\ At("consents")
    /\ Answer([report EXCEPT !.listed = [r \in Record |-> stored[r].status]])

(* The trail joins the events with their consents.                         *)
QueryEvents ==
    /\ At("events")
    /\ Answer([report EXCEPT !.events = [r \in Record |-> stored[r].events]])

QueryLogs ==
    /\ At("logs")
    /\ Answer([report EXCEPT !.logs = [r \in Record |-> stored[r].logs]])

(* verify_on_chain_integrity queries the consents again, those with a      *)
(* transaction: all of them, for create_consent commits none without.      *)
QueryOnChain ==
    /\ At("chain")
    /\ Answer([report EXCEPT !.count.total = Cardinality({r \in Record : There(r)})])

CountTotal ==
    /\ At("total")
    /\ Answer([report EXCEPT !.count.total = Cardinality({r \in Record : There(r)})])

CountStatus(status) ==
    /\ At(status)
    /\ Answer([report EXCEPT !.count[status] =
                   Cardinality({r \in Record : stored[r].status = status})])

(* The compliance report is committed, or its commit fails.                *)
CommitReport == At("commit") /\ Answer(report)
ReportFails == At("commit") /\ report' = Unasked /\ UNCHANGED <<stored, erasing, stripped>>

Answered == Reading /\ report.step > Len(Queries[report.kind])
Deliver == Answered /\ report' = Unasked /\ UNCHANGED <<stored, erasing, stripped>>

ReportsNext ==
    \/ \E r \in Record : \/ \E to \in Statuses \ {"EXPIRED"} : Change(r, to)
                         \/ \E event \in BOOLEAN : Expire(r, event)
    \/ \E pair \in Pairs : EraseRecords(pair)
    \/ EraseLogs \/ EraseCommits \/ EraseFails
    \/ \E kind \in DOMAIN Queries : Ask(kind)
    \/ QueryConsents \/ QueryEvents \/ QueryLogs \/ QueryOnChain
    \/ \E status \in {"GRANTED", "REVOKED", "EXPIRED"} : CountStatus(status)
    \/ CountTotal \/ CommitReport \/ ReportFails \/ Deliver
-----------------------------------------------------------------------------
ReportsTypeOK ==
    /\ stored \in [Record -> [status : Statuses \union {"none"}, events : SUBSET Statuses,
                           logs : 0 .. MaxLogs]]
    /\ erasing \in [step : {"none", "records", "logs"}, pair : SUBSET Record, rows : SUBSET Record,
                    taken : [Record -> 0 .. MaxLogs]]
    /\ stripped \subseteq Record
    /\ report.kind \in DOMAIN Queries \union {"none"}
    /\ report.step \in 0 .. 5

Listed == {r \in Record : report.listed[r] # "none"} \ report.erased

(* Every consent of an export, a trail or a compliance report has its      *)
(* audit logs there, whatever was committed between the queries, but for   *)
(* what was erased then and for what was granted while a deletion of its   *)
(* principal's data ran; so the ten points _calculate_compliance_score     *)
(* takes for too few logs are taken for nothing else.                      *)
ListedAreLogged == Answered /\ report.kind \in {"export", "trail", "report"} =>
    \A r \in Listed \ stripped : report.logs[r] > 0

(* The trail has an event that explains the status of each consent, except *)
(* of one that was expired without an event.                               *)
StatusExplained == Answered /\ report.kind = "trail" =>
    \A r \in Listed : report.listed[r] \in report.events[r] \union {"EXPIRED"}

(* The counts of the dashboard fit together, and its score is at most 100, *)
(* unless something was committed while it was made.                       *)
CountsFit == Answered /\ report.kind = "dashboard" /\ report.crossed = 0 =>
    report.count.GRANTED + report.count.REVOKED + report.count.EXPIRED <= report.count.total

ReportsSafe == ReportsTypeOK /\ ListedAreLogged /\ StatusExplained /\ CountsFit
=============================================================================

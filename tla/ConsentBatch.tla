---------------------------- MODULE ConsentBatch ----------------------------
(***************************************************************************)
(* batch_create_consents of api/main.py: create_consent of api/services.py *)
(* for one item after the other, all in one session, each item's exception *)
(* caught and reported.  A flush or commit that failed leaves the session  *)
(* unusable, for nobody calls rollback; what later items ask of it raises. *)
(***************************************************************************)
EXTENDS Naturals, Sequences

CONSTANT Items              \* length of the batch

VARIABLES stage,        \* of the item being created, or of the whole batch
          batchSession, \* whether a flush or a commit of it has failed
          results,      \* outcomes of the items so far
          created,      \* items with a committed record, event and audit log
          onChain,      \* items registered on the chain
          lateRaise     \* history: items whose call raised after its effect

batchVars == <<stage, batchSession, results, created, onChain, lateRaise>>

ASSUME ItemsAssumption == Items \in Nat \ {0}

Item == Len(results) + 1    \* the item being created

BatchInit ==
    /\ stage = "item" /\ batchSession = "usable"
    /\ results = << >>
    /\ created = {} /\ onChain = {} /\ lateRaise = {}

(* The item's outcome is appended, and the next item begins.               *)
Reported(outcome) ==
    /\ results' = Append(results, outcome)
    /\ stage' = IF Item < Items THEN "item" ELSE "answered"

(* The purpose or the duration is refused, before the session is used.     *)
Refused ==
    /\ stage = "item"
    /\ Reported("error")
    /\ UNCHANGED <<batchSession, created, onChain, lateRaise>>

(* Fault: the principal was looked up before, so the session is not used.  *)
PrincipalCached ==
    /\ stage = "item"
    /\ stage' = "fiduciary"
    /\ UNCHANGED <<batchSession, results, created, onChain, lateRaise>>

(* The principal of the wallet is found.                                   *)
PrincipalFound ==
    /\ stage = "item" /\ batchSession = "usable"
    /\ stage' = "fiduciary"
    /\ UNCHANGED <<batchSession, results, created, onChain, lateRaise>>

(* It is not, and the new row has no email_hash, which may not be null, so *)
(* its flush fails; or the session is broken already.                      *)
PrincipalFails ==
    /\ stage = "item"
    /\ batchSession' = "broken"
    /\ Reported("error")
    /\ UNCHANGED <<created, onChain, lateRaise>>

(* An unknown fiduciary is an error that leaves the session as it was.     *)
Fiduciary ==
    /\ stage = "fiduciary"
    /\ \/ stage' = "chain" /\ UNCHANGED results
       \/ Reported("error")
    /\ UNCHANGED <<batchSession, created, onChain, lateRaise>>

(* register_consent returns, or raises before or after it took effect.     *)
Register ==
    /\ stage = "chain"
    /\ \/ /\ onChain' = onChain \union {Item}
          /\ stage' = "commit" /\ UNCHANGED <<results, lateRaise>>
       \/ /\ onChain' = onChain \union {Item} /\ lateRaise' = lateRaise \union {Item}
          /\ Reported("error")
       \/ UNCHANGED <<onChain, lateRaise>> /\ Reported("error")
    /\ UNCHANGED <<batchSession, created>>

(* The record, its event and its audit log.                                *)
CommitItem ==
    /\ stage = "commit"
    /\ created' = created \union {Item}
    /\ Reported("created")
    /\ UNCHANGED <<batchSession, onChain, lateRaise>>

CommitItemFails ==
    /\ stage = "commit"
    /\ batchSession' = "broken"
    /\ Reported("error")
    /\ UNCHANGED <<created, onChain, lateRaise>>

(* The process ends in the middle, and what was committed stays.           *)
BatchCrash ==
    /\ stage \notin {"answered", "crashed"}
    /\ stage' = "crashed"
    /\ UNCHANGED <<batchSession, results, created, onChain, lateRaise>>

BatchNext == \/ Refused \/ PrincipalFound \/ PrincipalFails \/ Fiduciary
             \/ Register \/ CommitItem \/ CommitItemFails \/ BatchCrash
-----------------------------------------------------------------------------
BatchTypeOK ==
    /\ stage \in {"item", "fiduciary", "chain", "commit", "answered", "crashed"}
    /\ batchSession \in {"usable", "broken"}
    /\ results \in Seq({"created", "error"}) /\ Len(results) \in 0 .. Items

(* An item is reported as created exactly when it is, and what is created  *)
(* is on the chain, however the items before it ended.                     *)
ReportedAsCreated ==
    /\ created = {i \in DOMAIN results : results[i] = "created"}
    /\ created \subseteq onChain

(* A batch leaves at most one item on the chain without its record, but    *)
(* for calls that raised after their effect: after a failed commit no item *)
(* gets that far.                                                          *)
OneOrphan == \A i, j \in onChain \ (created \union lateRaise) : i = j

BatchSafe == BatchTypeOK /\ ReportedAsCreated /\ OneOrphan

BatchSpec == BatchInit /\ [][BatchNext]_batchVars
=============================================================================

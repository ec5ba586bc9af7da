--------------------------- MODULE ConsentRegistry ---------------------------
(***************************************************************************)
(* The algopy contract contracts_v2/consent_registry.py: one box per       *)
(* consent hash and three uint64 counters.  A method call is one           *)
(* transaction, so one action; a failed assert, or uint64 arithmetic that  *)
(* leaves its range, rejects the transaction and changes nothing, so it is *)
(* a guard.  The purpose, the fiduciary, the data hash and the two         *)
(* timestamps of a box are written and never read by the contract and are  *)
(* left out.                                                               *)
(***************************************************************************)
EXTENDS Naturals, FiniteSets

CONSTANTS Hash,         \* consent hashes, the keys of the boxes
          Account,      \* addresses that send transactions
          Admin,        \* the creator of the application
          MaxRound,     \* bound: the rounds a run lives through
          MaxUint       \* the largest value of a counter (2^64 - 1 on chain)

ASSUME RegistryAssumption ==
    /\ IsFiniteSet(Hash)
    /\ Admin \in Account
    /\ MaxRound \in Nat
    /\ MaxUint \in Nat

VARIABLES box,          \* box[h]: the stored ConsentData, or a record with status NONE
          total,        \* total_consents
          active,       \* active_consents
          revoked,      \* revoked_consents
          round         \* Global.round

vars == <<box, total, active, revoked, round>>

Status == {"GRANTED", "REVOKED", "EXPIRED", "MODIFIED"}
Round == 0..MaxRound
ConsentData == [status : Status \union {"NONE"}, principal : Account, expires : Round]

TypeOK ==
    /\ box \in [Hash -> ConsentData]
    /\ total \in 0..MaxUint
    /\ active \in 0..MaxUint
    /\ revoked \in 0..MaxUint
    /\ round \in Round

(* The hashes whose box is in status s. *)
InStatus(s) == {h \in Hash : box[h].status = s}

Init ==
    /\ box = [h \in Hash |-> [status |-> "NONE", principal |-> Admin, expires |-> 0]]
    /\ total = 0
    /\ active = 0
    /\ revoked = 0
    /\ round = 0

(* Fault: a counter that is incremented without the AVM's overflow check. *)
RegisterUnchecked(h, sender, principal, expires) ==
    /\ sender \in {Admin, principal}
    /\ total <= MaxUint /\ active < MaxUint
    /\ box' = [box EXCEPT ![h] = [status |-> "GRANTED", principal |-> principal,
                                  expires |-> expires]]
    /\ total' = total + 1
    /\ active' = active + 1
    /\ UNCHANGED <<revoked, round>>

(* register_consent: the only check is on the sender; a box that exists,   *)
(* whatever its status, is replaced and counted again.                     *)
Register(h, sender, principal, expires) ==
    /\ sender \in {Admin, principal}
    /\ total < MaxUint
    /\ active < MaxUint
    /\ box' = [box EXCEPT ![h] = [status |-> "GRANTED", principal |-> principal,
                                  expires |-> expires]]
    /\ total' = total + 1
    /\ active' = active + 1
    /\ UNCHANGED <<revoked, round>>

(* Fault: "Consent not active" is asserted of unknown consents only. *)
RevokeTwiceAccepted(h, sender) ==
    /\ box[h].status # "NONE"
    /\ sender = box[h].principal
    /\ active > 0
    /\ revoked < MaxUint

(* The checks of revoke_consent, the arithmetic of the counters included. *)
RevokeAccepted(h, sender) ==
    /\ box[h].status = "GRANTED"
    /\ sender = box[h].principal
    /\ active > 0
    /\ revoked < MaxUint

(* Fault: a withdrawal that leaves active_consents alone. *)
RevokeKeepsActive(h, sender) ==
    /\ RevokeAccepted(h, sender)
    /\ box' = [box EXCEPT ![h].status = "REVOKED"]
    /\ revoked' = revoked + 1
    /\ UNCHANGED <<total, active, round>>

Revoke(h, sender) ==
    /\ RevokeAccepted(h, sender)
    /\ box' = [box EXCEPT ![h].status = "REVOKED"]
    /\ active' = active - 1
    /\ revoked' = revoked + 1
    /\ UNCHANGED <<total, round>>

(* Fault: a modified consent counts as granted again. *)
ModifyGrants(h, sender, expires) ==
    /\ box[h].status \notin {"NONE", "REVOKED"}
    /\ sender = box[h].principal
    /\ box' = [box EXCEPT ![h].status = "GRANTED",
                          ![h].expires = IF expires > 0 THEN expires ELSE @]
    /\ UNCHANGED <<total, active, revoked, round>>

(* modify_consent accepts every status but REVOKED, EXPIRED too, and       *)
(* leaves the counters alone; a new_expires_at of 0 keeps the old one.     *)
Modify(h, sender, expires) ==
    /\ box[h].status \notin {"NONE", "REVOKED"}
    /\ sender = box[h].principal
    /\ box' = [box EXCEPT ![h].status = "MODIFIED",
                          ![h].expires = IF expires > 0 THEN expires ELSE @]
    /\ UNCHANGED <<total, active, revoked, round>>

(* The checks of expire_consent, which anyone may call; unlike             *)
(* verify_consent it does not read an expires_at of 0 as "never".          *)
ExpireAccepted(h) ==
    /\ box[h].status = "GRANTED"
    /\ round > box[h].expires
    /\ active > 0

Expire(h) ==
    /\ ExpireAccepted(h)
    /\ box' = [box EXCEPT ![h].status = "EXPIRED"]
    /\ active' = active - 1
    /\ UNCHANGED <<total, revoked, round>>

(* verify_consent, a read-only method. *)
Verify(h) ==
    /\ box[h].status = "GRANTED"
    /\ ~(box[h].expires > 0 /\ round > box[h].expires)

NextRound ==
    /\ round < MaxRound
    /\ round' = round + 1
    /\ UNCHANGED <<box, total, active, revoked>>

Next ==
    \/ \E h \in Hash, sender \in Account, principal \in Account, expires \in Round :
          Register(h, sender, principal, expires)
    \/ \E h \in Hash, sender \in Account : Revoke(h, sender)
    \/ \E h \in Hash, sender \in Account, expires \in Round : Modify(h, sender, expires)
    \/ \E h \in Hash : Expire(h)
    \/ NextRound

Spec == Init /\ [][Next]_vars
-----------------------------------------------------------------------------
(* active_consents never falls below the number of boxes in status         *)
(* GRANTED, whatever was overwritten, modified or expired: so the uint64   *)
(* subtraction in revoke_consent and expire_consent never underflows, and  *)
(* no principal's withdrawal is rejected because of the counter.           *)
ActiveCoversGranted == Cardinality(InStatus("GRANTED")) <= active

(* The statistics get_stats returns are consistent with each other and     *)
(* with the boxes: nothing is counted active and revoked at once, and      *)
(* every box in status REVOKED has been counted as revoked.                *)
StatsConsistent ==
    /\ active + revoked <= total
    /\ Cardinality(InStatus("REVOKED")) <= revoked

(* The registry keeps the promise of ConsentLifecycle: what verify_consent *)
(* answers True for was registered, and after a withdrawal, a change, an   *)
(* expiry or its deadline it verifies again only by a new, counted,        *)
(* registration.                                                           *)
Lifecycle == INSTANCE ConsentLifecycle
    WITH inForce <- {h \in Hash : Verify(h)}, registrations <- total

ImplementsLifecycle == Lifecycle!Spec
=============================================================================

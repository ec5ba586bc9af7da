-------------------------- MODULE ConsentLifecycle --------------------------
(***************************************************************************)
(* What an on-chain consent registry promises to whoever verifies a        *)
(* consent, without boxes, senders, clocks or counters: a consent comes    *)
(* into force only through a registration, which is counted; everything    *)
(* else that happens to it can only end it.                                *)
(***************************************************************************)
EXTENDS Naturals

CONSTANT Hash           \* the consent hashes

VARIABLES inForce,      \* the hashes a verifier is told are valid
          registrations \* how many registrations were accepted

vars == <<inForce, registrations>>

TypeOK == /\ inForce \subseteq Hash
          /\ registrations \in Nat

Init == /\ inForce = {}
        /\ registrations = 0

(* A registration decides anew about one hash: it is in force, unless its  *)
(* deadline has already passed when it is registered.                      *)
Register(h) ==
    /\ inForce' \in {inForce \union {h}, inForce \ {h}}
    /\ registrations' = registrations + 1

(* Withdrawal, change, expiry, the passing of time: consents end. *)
Lapse ==
    /\ inForce' \in SUBSET inForce
    /\ UNCHANGED registrations

Next == Lapse \/ \E h \in Hash : Register(h)

Spec == Init /\ [][Next]_vars
=============================================================================

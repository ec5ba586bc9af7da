----------------------- MODULE ConsentRegistry_proofs -----------------------
(***************************************************************************)
(* Proofs about ConsentRegistry, for every finite set of hashes, every set *)
(* of accounts and every bound: the counters cover the boxes, and the      *)
(* registry implements ConsentLifecycle.                                   *)
(***************************************************************************)
EXTENDS ConsentRegistry, FiniteSetTheorems, TLAPS

(* The inductive invariant.  ActiveCoversGranted and StatsConsistent need  *)
(* each other's cardinalities to be numbers, so TypeOK; nothing else.      *)
IInv == TypeOK /\ ActiveCoversGranted /\ StatsConsistent

(* Setting one box to a status moves at most that hash in or out of the    *)
(* set of hashes in a status: the cardinalities change by at most one.     *)
LEMMA InStatusCardinality ==
    ASSUME NEW S \in SUBSET Hash, NEW T \in SUBSET Hash, NEW h \in Hash
    PROVE  /\ Cardinality(S) \in Nat
           /\ Cardinality(T) \in Nat
           /\ T \subseteq S => Cardinality(T) <= Cardinality(S)
           /\ T \subseteq S \union {h} => Cardinality(T) <= Cardinality(S) + 1
           /\ h \in S /\ T \subseteq S \ {h} => Cardinality(T) <= Cardinality(S) - 1
<1>1. IsFiniteSet(S) /\ IsFiniteSet(T)
  BY FS_Subset, RegistryAssumption
<1>2. Cardinality(S) \in Nat /\ Cardinality(T) \in Nat
  BY <1>1, FS_CardinalityType
<1>3. T \subseteq S => Cardinality(T) <= Cardinality(S)
  BY <1>1, FS_Subset
<1>4. ASSUME T \subseteq S \union {h}
      PROVE  Cardinality(T) <= Cardinality(S) + 1
  <2>1. /\ IsFiniteSet(S \union {h})
        /\ Cardinality(S \union {h}) \in {Cardinality(S), Cardinality(S) + 1}
    BY <1>1, FS_AddElement
  <2>2. Cardinality(T) <= Cardinality(S \union {h})
    BY <1>4, <2>1, FS_Subset
  <2> QED BY <1>2, <2>1, <2>2
<1>5. ASSUME h \in S, T \subseteq S \ {h}
      PROVE  Cardinality(T) <= Cardinality(S) - 1
  <2>1. /\ IsFiniteSet(S \ {h})
        /\ Cardinality(S \ {h}) = Cardinality(S) - 1
    BY <1>1, <1>5, FS_RemoveElement
  <2> QED BY <1>5, <2>1, FS_Subset
<1> QED BY <1>2, <1>3, <1>4, <1>5

LEMMA InitIInv == Init => IInv
<1> SUFFICES ASSUME Init PROVE IInv
  OBVIOUS
<1>1. TypeOK
  BY RegistryAssumption DEF Init, TypeOK, ConsentData, Round, Status
<1>2. InStatus("GRANTED") = {} /\ InStatus("REVOKED") = {}
  BY DEF Init, InStatus
<1> QED
  BY <1>1, <1>2, FS_EmptySet DEF Init, IInv, ActiveCoversGranted, StatsConsistent

LEMMA NextIInv == IInv /\ [Next]_vars => IInv'
<1> SUFFICES ASSUME IInv, [Next]_vars PROVE IInv'
  OBVIOUS
<1> USE RegistryAssumption DEF IInv
<1> DEFINE G == InStatus("GRANTED")
           R == InStatus("REVOKED")
<1>s. /\ G \in SUBSET Hash /\ R \in SUBSET Hash
      /\ G' \in SUBSET Hash /\ R' \in SUBSET Hash
  BY DEF InStatus
<1>n. Cardinality(G) \in Nat /\ Cardinality(R) \in Nat
  BY <1>s, FS_Subset, FS_CardinalityType
<1>1. ASSUME NEW h \in Hash, NEW sender \in Account, NEW principal \in Account,
             NEW expires \in Round, Register(h, sender, principal, expires)
      PROVE  IInv'
  <2>1. TypeOK'
    BY <1>1 DEF Register, TypeOK, ConsentData, Status
  <2>2. G' \subseteq G \union {h} /\ R' \subseteq R
    BY <1>1 DEF Register, InStatus, TypeOK
  <2>3. Cardinality(G') <= Cardinality(G) + 1 /\ Cardinality(R') <= Cardinality(R)
    BY <1>s, <2>2, InStatusCardinality
  <2>4. Cardinality(G') \in Nat /\ Cardinality(R') \in Nat
    BY <1>s, InStatusCardinality
  <2> QED
    BY <1>1, <1>n, <2>1, <2>3, <2>4
    DEF Register, ActiveCoversGranted, StatsConsistent, TypeOK
<1>2. ASSUME NEW h \in Hash, NEW sender \in Account, Revoke(h, sender)
      PROVE  IInv'
  <2>1. TypeOK'
    BY <1>2 DEF Revoke, RevokeAccepted, TypeOK, ConsentData, Status
  <2>2. h \in G /\ G' \subseteq G \ {h} /\ R' \subseteq R \union {h}
    BY <1>2 DEF Revoke, RevokeAccepted, InStatus, TypeOK
  <2>3. Cardinality(G') <= Cardinality(G) - 1 /\ Cardinality(R') <= Cardinality(R) + 1
    BY <1>s, <2>2, InStatusCardinality
  <2>4. Cardinality(G') \in Nat /\ Cardinality(R') \in Nat
    BY <1>s, InStatusCardinality
  <2> QED
    BY <1>2, <1>n, <2>1, <2>3, <2>4
    DEF Revoke, RevokeAccepted, ActiveCoversGranted, StatsConsistent, TypeOK
<1>3. ASSUME NEW h \in Hash, NEW sender \in Account, NEW expires \in Round,
             Modify(h, sender, expires)
      PROVE  IInv'
  <2>1. TypeOK'
    BY <1>3 DEF Modify, TypeOK, ConsentData, Status
  <2>2. G' \subseteq G /\ R' \subseteq R
    BY <1>3 DEF Modify, InStatus, TypeOK
  <2>3. Cardinality(G') <= Cardinality(G) /\ Cardinality(R') <= Cardinality(R)
    BY <1>s, <2>2, InStatusCardinality, <1>3
  <2>4. Cardinality(G') \in Nat /\ Cardinality(R') \in Nat
    BY <1>s, InStatusCardinality, <1>3
  <2> QED
    BY <1>3, <1>n, <2>1, <2>3, <2>4
    DEF Modify, ActiveCoversGranted, StatsConsistent, TypeOK
<1>4. ASSUME NEW h \in Hash, Expire(h)
      PROVE  IInv'
  <2>1. TypeOK'
    BY <1>4 DEF Expire, ExpireAccepted, TypeOK, ConsentData, Status
  <2>2. h \in G /\ G' \subseteq G \ {h} /\ R' \subseteq R
    BY <1>4 DEF Expire, ExpireAccepted, InStatus, TypeOK
  <2>3. Cardinality(G') <= Cardinality(G) - 1 /\ Cardinality(R') <= Cardinality(R)
    BY <1>s, <2>2, InStatusCardinality
  <2>4. Cardinality(G') \in Nat /\ Cardinality(R') \in Nat
    BY <1>s, InStatusCardinality
  <2> QED
    BY <1>4, <1>n, <2>1, <2>3, <2>4
    DEF Expire, ExpireAccepted, ActiveCoversGranted, StatsConsistent, TypeOK
<1>5. CASE NextRound
  BY <1>5 DEF NextRound, TypeOK, Round, ActiveCoversGranted, StatsConsistent, InStatus
<1>6. CASE UNCHANGED vars
  BY <1>6 DEF vars, TypeOK, ActiveCoversGranted, StatsConsistent, InStatus
<1> QED
  BY <1>1, <1>2, <1>3, <1>4, <1>5, <1>6 DEF Next

LEMMA Invariance == Spec => []IInv
BY InitIInv, NextIInv, PTL DEF Spec

(* The boxes, the counters and the round keep their types: no counter      *)
(* leaves the range of a uint64.                                           *)
THEOREM TypeCorrect == Spec => []TypeOK
<1>1. IInv => TypeOK
  BY DEF IInv
<1> QED BY Invariance, <1>1, PTL

(* An accepted withdrawal or expiry (contracts_v2/consent_registry.py:78   *)
(* and :152) never takes active_consents below zero: it covers the boxes   *)
(* in status GRANTED in every reachable state.                             *)
THEOREM ActiveNeverUnderflows == Spec => []ActiveCoversGranted
<1>1. IInv => ActiveCoversGranted
  BY DEF IInv
<1> QED BY Invariance, <1>1, PTL

(* What get_stats returns is consistent in every reachable state.          *)
THEOREM StatsAreConsistent == Spec => []StatsConsistent
<1>1. IInv => StatsConsistent
  BY DEF IInv
<1> QED BY Invariance, <1>1, PTL

(* The registry implements ConsentLifecycle: a hash verifies again only    *)
(* through a registration.  Only the types are needed of the invariant.    *)
THEOREM RegistryImplementsLifecycle == Spec => ImplementsLifecycle
<1> USE RegistryAssumption
<1> DEFINE F == {h \in Hash : Verify(h)}
<1>1. Init => Lifecycle!Init
  BY DEF Init, Lifecycle!Init, Verify
<1>2. IInv /\ [Next]_vars => [Lifecycle!Next]_(Lifecycle!vars)
  <2> SUFFICES ASSUME IInv, [Next]_vars
               PROVE  [Lifecycle!Next]_(Lifecycle!vars)
    OBVIOUS
  <2>t. TypeOK
    BY DEF IInv
  <2>1. ASSUME NEW h \in Hash, NEW sender \in Account, NEW principal \in Account,
               NEW expires \in Round, Register(h, sender, principal, expires)
        PROVE  Lifecycle!Next
    <3>1. \A g \in Hash \ {h} : Verify(g)' <=> Verify(g)
      BY <2>1, <2>t DEF Register, Verify, TypeOK
    <3>2. F' = F \union {h} \/ F' = F \ {h}
      BY <3>1
    <3>3. total' = total + 1
      BY <2>1 DEF Register
    <3> QED BY <3>2, <3>3 DEF Lifecycle!Next, Lifecycle!Register
  <2>2. ASSUME NEW h \in Hash, NEW sender \in Account, Revoke(h, sender)
        PROVE  Lifecycle!Next
    <3>1. F' \subseteq F /\ total' = total
      BY <2>2, <2>t DEF Revoke, RevokeAccepted, Verify, TypeOK
    <3> QED BY <3>1 DEF Lifecycle!Next, Lifecycle!Lapse
  <2>3. ASSUME NEW h \in Hash, NEW sender \in Account, NEW expires \in Round,
               Modify(h, sender, expires)
        PROVE  Lifecycle!Next
    <3>1. \A g \in Hash : Verify(g)' => Verify(g)
      BY <2>3, <2>t DEF Modify, Verify, TypeOK
    <3>2. F' \subseteq F /\ total' = total
      BY <2>3, <3>1 DEF Modify
    <3> QED BY <3>2 DEF Lifecycle!Next, Lifecycle!Lapse
  <2>4. ASSUME NEW h \in Hash, Expire(h)
        PROVE  Lifecycle!Next
    <3>1. F' \subseteq F /\ total' = total
      BY <2>4, <2>t DEF Expire, ExpireAccepted, Verify, TypeOK
    <3> QED BY <3>1 DEF Lifecycle!Next, Lifecycle!Lapse
  <2>5. CASE NextRound
    <3>1. \A g \in Hash : Verify(g)' => Verify(g)
      BY <2>5, <2>t DEF NextRound, Verify, TypeOK, ConsentData, Round
    <3>2. F' \subseteq F /\ total' = total
      BY <2>5, <3>1 DEF NextRound
    <3> QED BY <3>2 DEF Lifecycle!Next, Lifecycle!Lapse
  <2>6. CASE UNCHANGED vars
    BY <2>6 DEF vars, Verify, Lifecycle!vars
  <2> QED BY <2>1, <2>2, <2>3, <2>4, <2>5, <2>6 DEF Next
<1> QED
  BY Invariance, <1>1, <1>2, PTL DEF Spec, ImplementsLifecycle, Lifecycle!Spec
=============================================================================

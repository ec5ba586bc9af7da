------------------------ MODULE BlockchainQueue_proofs ------------------------
(***************************************************************************)
(* The safety of BlockchainQueue for any number of processors, operations  *)
(* and faults.  The inductive invariant says what a processor still knows  *)
(* of the entry it read, however long ago: that no older one is queued,    *)
(* and what has been recorded of it by the time it is deleted; and that    *)
(* every processor past its SET answers for the lock or for an overrun.    *)
(***************************************************************************)
EXTENDS BlockchainQueue, FiniteSetTheorems, SequenceTheorems, TLAPS

(* A processor's entry is no younger than anything in the stream. *)
Ordered == \A p \in Processor : msg[p] # 0 => \A o \in stream : msg[p] <= o

(* What a processor has recorded before it deletes its entry. *)
Recorded ==
    \A p \in Processor :
        /\ pc[p] \in {"complete", "bury", "drop"} => msg[p] \in attempted
        /\ pc[p] = "complete" => msg[p] \in effect
        /\ pc[p] = "drop" => msg[p] \in DeadLetters \union forgotten

(* One processor is past its SET for the lock, and one for each overrun: a *)
(* lock that is free admits another.                                       *)
Holders == {p \in Processor : Holds(p)}

Locked == Cardinality(Holders) <= overruns + (IF lock = 0 THEN 0 ELSE 1)

IInv == TypeOK /\ Ordered /\ Recorded /\ NothingVanishes /\ Locked

(* The type invariant holds initially and is kept by every step.           *)
LEMMA InitIInv == Init => IInv
<1> SUFFICES ASSUME Init PROVE IInv
  OBVIOUS
<1>1. TypeOK /\ Ordered /\ Recorded /\ NothingVanishes
  BY QueueAssumption DEF Init, TypeOK, Ordered, Recorded, NothingVanishes, DeadLetters, Holding
<1>2. Holders = {}
  BY DEF Init, Holders, Holds, Holding
<1>3. QED
  BY <1>1, <1>2, FS_EmptySet DEF Init, IInv, Locked

(* A sequence over a set is one over every larger set.                     *)
LEMMA SeqOfMore ==
  ASSUME NEW S, NEW T, S \subseteq T, NEW s \in Seq(S)
  PROVE  s \in Seq(T)
  OBVIOUS

(* What the XADD to the dead letters keeps and what it drops.              *)
LEMMA DeadLetterAdded ==
  ASSUME NEW o \in attempted, dead \in Seq(attempted), forgotten \subseteq attempted,
         AddDeadLetter(o)
  PROVE  /\ dead' \in Seq(attempted)
         /\ forgotten' \subseteq attempted
         /\ DeadLetters' \union forgotten' = DeadLetters \union forgotten \union {o}
         /\ (forgotten # {} => Len(dead) >= MaxDead) => (forgotten' # {} => Len(dead') >= MaxDead)
<1> DEFINE longer == Append(dead, o)
<1>1. PICK k \in 0..Len(dead) :
         /\ dead' = SubSeq(longer, k + 1, Len(dead) + 1)
         /\ k > 0 => Len(dead) + 1 - k >= MaxDead
         /\ forgotten' = forgotten \union {dead[i] : i \in 1..k}
  BY DEF AddDeadLetter
<1>2. /\ longer \in Seq(attempted) /\ Len(longer) = Len(dead) + 1
      /\ \A i \in 1..Len(dead) : longer[i] = dead[i]
      /\ longer[Len(dead) + 1] = o
  BY AppendProperties
<1> HIDE DEF longer
<1>3. \A i \in (k + 1)..(Len(dead) + 1) : longer[i] \in attempted
  BY <1>2
<1>4. Len(dead) \in Nat /\ k \in Nat /\ k <= Len(dead)
  OBVIOUS
<1>5. /\ dead' \in Seq(attempted) /\ Len(dead') = Len(dead) + 1 - k
      /\ \A i \in 1..(Len(dead) + 1 - k) : dead'[i] = longer[k + i]
  <2>1. k + 1 \in Int /\ Len(dead) + 1 \in Int
    BY <1>4
  <2> DEFINE m == k + 1
             n == Len(dead) + 1
  <2>2. /\ m \in Int /\ n \in Int
        /\ \A i \in m..n : longer[i] \in attempted
    BY <2>1, <1>3
  <2>3. dead' = SubSeq(longer, m, n)
    BY <1>1
  <2> HIDE DEF m, n
  <2>4. /\ SubSeq(longer, m, n) \in Seq(attempted)
        /\ Len(SubSeq(longer, m, n)) = IF m <= n THEN n - m + 1 ELSE 0
        /\ \A i \in 1..(n - m + 1) : SubSeq(longer, m, n)[i] = longer[m + i - 1]
    BY <2>2, SubSeqProperties
  <2> USE DEF m, n
  <2>5. n - m + 1 = Len(dead) + 1 - k /\ m <= n
    BY <1>4
  <2>6. \A i \in 1..(Len(dead) + 1 - k) : m + i - 1 = k + i
    BY <1>4
  <2> HIDE DEF m, n
  <2>7. QED
    BY <2>3, <2>4, <2>5, <2>6
<1>6. forgotten' \subseteq attempted
  <2>1. \A i \in 1..k : dead[i] \in attempted
    BY <1>4
  <2>2. QED
    BY <1>1, <2>1
<1>7. DeadLetters' \union forgotten' = DeadLetters \union forgotten \union {o}
  <2>1. DeadLetters' = {dead'[i] : i \in 1..(Len(dead) + 1 - k)}
    BY <1>5 DEF DeadLetters
  <2>2. ASSUME NEW d \in DeadLetters' PROVE d \in DeadLetters \union {o}
    <3>1. PICK i \in 1..(Len(dead) + 1 - k) : d = longer[k + i]
      BY <2>1, <1>5
    <3>2. k + i \in 1..Len(dead) \/ k + i = Len(dead) + 1
      BY <1>4
    <3>3. QED
      BY <3>1, <3>2, <1>2 DEF DeadLetters
  <2>3. ASSUME NEW i \in 1..Len(dead) PROVE dead[i] \in DeadLetters' \union forgotten'
    <3>1. CASE i <= k
      <4>1. i \in 1..k
        BY <3>1, <1>4
      <4>2. dead[i] \in {dead[j] : j \in 1..k}
        BY <4>1
      <4>3. QED
        BY <4>2, <1>1
    <3>2. CASE i > k
      <4>1. i - k \in 1..(Len(dead) + 1 - k) /\ k + (i - k) = i
        BY <3>2, <1>4
      <4>2. dead'[i - k] = dead[i]
        BY <4>1, <1>2, <1>5
      <4>3. QED
        BY <4>1, <4>2, <2>1
    <3>3. QED
      BY <3>1, <3>2, <1>4
  <2>4. o \in DeadLetters'
    <3>1. Len(dead) + 1 - k \in 1..(Len(dead) + 1 - k) /\ k + (Len(dead) + 1 - k) = Len(dead) + 1
      BY <1>4
    <3>2. dead'[Len(dead) + 1 - k] = o
      BY <3>1, <1>2, <1>5
    <3>3. QED
      BY <3>1, <3>2, <2>1
  <2>5. forgotten \subseteq forgotten' /\ forgotten' \subseteq forgotten \union DeadLetters
    <3>1. \A i \in 1..k : i \in 1..Len(dead)
      BY <1>4
    <3>2. {dead[i] : i \in 1..k} \subseteq DeadLetters
      BY <3>1 DEF DeadLetters
    <3>3. QED
      BY <1>1, <3>2
  <2>6. DeadLetters \subseteq DeadLetters' \union forgotten'
    BY <2>3 DEF DeadLetters
  <2>7. QED
    BY <2>2, <2>4, <2>5, <2>6
<1>8. (forgotten # {} => Len(dead) >= MaxDead) => (forgotten' # {} => Len(dead') >= MaxDead)
  <2>1. CASE k = 0
    <3>1. forgotten' = forgotten
      <4>1. \A i \in 1..k : FALSE
        BY <2>1
      <4>2. {dead[i] : i \in 1..k} = {}
        BY <4>1
      <4>3. QED
        BY <1>1, <4>2
    <3>2. QED
      BY <3>1, <2>1, <1>4, <1>5, QueueAssumption
  <2>2. CASE k > 0
    BY <2>2, <1>1, <1>5
  <2>3. QED
    BY <2>1, <2>2, <1>4
<1>9. QED
  BY <1>5, <1>6, <1>7, <1>8

(* The holders of the lock are as many as the processors past their SET.   *)
LEMMA HoldersChange ==
  ASSUME NEW p \in Processor, TypeOK,
         \A q \in Processor \ {p} : pc'[q] = pc[q]
  PROVE  /\ Cardinality(Holders) \in Nat
         /\ Cardinality(Holders)' \in Nat
         /\ Holds(p)' /\ ~Holds(p) => Cardinality(Holders)' = Cardinality(Holders) + 1
         /\ ~Holds(p)' /\ Holds(p) => Cardinality(Holders)' = Cardinality(Holders) - 1
         /\ (Holds(p)' <=> Holds(p)) => Cardinality(Holders)' = Cardinality(Holders)
<1>1. IsFiniteSet(Holders)
  BY QueueAssumption, FS_Subset DEF Holders
<1>2. Holds(p)' => Holders' = Holders \union {p}
  BY DEF Holders, Holds
<1>3. ~Holds(p)' => Holders' = Holders \ {p}
  BY DEF Holders, Holds
<1>4. p \in Holders <=> Holds(p)
  BY DEF Holders
<1>5. Cardinality(Holders) \in Nat
  BY <1>1, FS_CardinalityType
<1>6. Holds(p)' => Cardinality(Holders)' =
                      IF p \in Holders THEN Cardinality(Holders) ELSE Cardinality(Holders) + 1
  BY <1>1, <1>2, FS_AddElement
<1>7. ~Holds(p)' => Cardinality(Holders)' =
                      IF p \in Holders THEN Cardinality(Holders) - 1 ELSE Cardinality(Holders)
  BY <1>1, <1>3, FS_RemoveElement
<1>8. IsFiniteSet(Holders')
  BY QueueAssumption, FS_Subset DEF Holders
<1>9. Cardinality(Holders)' \in Nat
  BY <1>8, FS_CardinalityType
<1>10. QED
  BY <1>4, <1>5, <1>6, <1>7, <1>9

LEMMA NextIInv == IInv /\ [Next]_vars => IInv'
<1> SUFFICES ASSUME IInv, [Next]_vars PROVE IInv'
  OBVIOUS
<1> USE QueueAssumption DEF IInv
<1>1. TypeOK'
  <2>1. CASE Enqueue
    BY <2>1 DEF Enqueue, TypeOK, Holding
  <2>2. ASSUME NEW k \in 1..queued, EnqueueAndTrim(k) PROVE TypeOK'
    <3>1. /\ queued' = queued + 1
          /\ queued' \in 0..MaxOps
      BY <2>2 DEF EnqueueAndTrim, TypeOK
    <3>2. stream' \subseteq stream \union {queued + 1}
      BY <2>2 DEF EnqueueAndTrim
    <3>4. trimmed' \subseteq trimmed \union stream
      BY <2>2 DEF EnqueueAndTrim
    <3>5. /\ stream' \subseteq 1..queued' /\ trimmed' \subseteq 1..queued'
          /\ 0..queued \subseteq 0..queued' /\ attempted \subseteq 1..queued'
      BY <3>1, <3>2, <3>4 DEF TypeOK
    <3>3. QED
      BY <2>2, <3>1, <3>5 DEF EnqueueAndTrim, TypeOK
  <2>3. ASSUME NEW p \in Processor, Step(p) PROVE TypeOK'
    <3>0. pc[p] # "read" => msg[p] \in 1..queued
      BY DEF TypeOK
    <3>1. CASE Read(p)
      BY <3>1 DEF Read, GoTo, TypeOK, Holding
    <3>2. CASE Acquire(p)
      BY <3>2 DEF Acquire, GoTo, TypeOK, Holding
    <3>3. CASE NotAcquired(p)
      BY <3>3 DEF NotAcquired, GoTo, Restart, TypeOK, Holding
    <3>4. CASE Run(p)
      <4>1. attempted \subseteq attempted'
        BY <3>4 DEF Run
      <4>2. dead \in Seq(attempted')
        BY <4>1, SeqOfMore DEF TypeOK
      <4>3. QED
        BY <3>0, <3>4, <4>2 DEF Run, GoTo, TypeOK, Holding
    <3>5. CASE RunFails(p)
      <4>1. attempted \subseteq attempted'
        BY <3>5 DEF RunFails
      <4>2. dead \in Seq(attempted')
        BY <4>1, SeqOfMore DEF TypeOK
      <4>3. QED
        BY <3>0, <3>5, <4>2 DEF RunFails, GoTo, TypeOK, Holding
    <3>6. CASE Complete(p)
      BY <3>6 DEF Complete, GoTo, TypeOK, Holding
    <3>7. CASE Bury(p)
      <4>1. dead' \in Seq(attempted) /\ forgotten' \subseteq attempted
        BY <3>7, DeadLetterAdded DEF Bury, TypeOK, Recorded
      <4>2. QED
        BY <3>7, <4>1 DEF Bury, GoTo, TypeOK, Holding
    <3>8. CASE Drop(p)
      BY <3>8 DEF Drop, GoTo, TypeOK, Holding
    <3>9. CASE Release(p)
      BY <3>9 DEF Release, GoTo, Restart, TypeOK, Holding
    <3>10. QED
      BY <2>3, <3>1, <3>2, <3>3, <3>4, <3>5, <3>6, <3>7, <3>8, <3>9 DEF Step
  <2>4. ASSUME NEW p \in Processor, Failure(p) PROVE TypeOK'
    <3>0. pc[p] # "read" => msg[p] \in 1..queued
      BY DEF TypeOK
    <3>1. CASE AcquireFails(p)
      BY <3>1 DEF AcquireFails, GoTo, Restart, Fault, TypeOK, Holding
    <3>2. CASE CompleteFails(p)
      BY <3>2 DEF CompleteFails, GoTo, Fault, TypeOK, Holding
    <3>3. CASE Abandon(p)
      <4>1. /\ stream' \subseteq stream
            /\ attempted \subseteq attempted' /\ attempted' \subseteq 1..queued
            /\ effect' \subseteq attempted'
        BY <3>0, <3>3 DEF Abandon, TypeOK, Recorded
      <4>2. dead' \in Seq(attempted') /\ forgotten' \subseteq attempted'
        <5>1. CASE pc[p] = "bury"
          BY <3>3, <5>1, DeadLetterAdded DEF Abandon, TypeOK, Recorded
        <5>2. CASE pc[p] # "bury"
          BY <3>3, <4>1, <5>2, SeqOfMore DEF Abandon, TypeOK
        <5>3. QED
          BY <5>1, <5>2
      <4>3. QED
        BY <3>3, <4>1, <4>2 DEF Abandon, GoTo, Fault, TypeOK, Holding
    <3>4. CASE ReleaseFails(p)
      BY <3>4 DEF ReleaseFails, GoTo, Restart, Fault, TypeOK, Holding
    <3>5. CASE Crash(p)
      <4>1. /\ attempted \subseteq attempted' /\ attempted' \subseteq 1..queued
            /\ effect' \subseteq attempted'
        BY <3>0, <3>5 DEF Crash, TypeOK
      <4>2. dead \in Seq(attempted')
        BY <4>1, SeqOfMore DEF TypeOK
      <4>3. QED
        BY <3>5, <4>1, <4>2 DEF Crash, GoTo, Restart, Fault, TypeOK, Holding
    <3>6. QED
      BY <2>4, <3>1, <3>2, <3>3, <3>4, <3>5 DEF Failure
  <2>5. CASE Expire \/ Overrun
    <3>1. lock' \in 0..queued /\ overruns' \in 0..MaxOverruns
      BY <2>5 DEF Expire, Overrun, TypeOK
    <3>2. UNCHANGED <<queued, stream, trimmed, pc, msg, attempted, effect, dead, forgotten, faults>>
      BY <2>5 DEF Expire, Overrun
    <3>3. QED
      BY <3>1, <3>2 DEF TypeOK
  <2>6. CASE UNCHANGED vars
    BY <2>6 DEF vars, TypeOK
  <2>7. QED
    BY <2>1, <2>2, <2>3, <2>4, <2>5, <2>6 DEF Next
<1>2. Ordered'
  <2>1. CASE Enqueue
    BY <2>1 DEF Enqueue, TypeOK, Ordered
  <2>2. ASSUME NEW k \in 1..queued, EnqueueAndTrim(k) PROVE Ordered'
    BY <2>2 DEF EnqueueAndTrim, TypeOK, Ordered
  <2>3. ASSUME NEW p \in Processor, Step(p) PROVE Ordered'
    BY <2>3 DEF Step, Read, Acquire, NotAcquired, Run, RunFails, Complete, Bury, Drop, Release,
       GoTo, Restart, TypeOK, Ordered
  <2>4. ASSUME NEW p \in Processor, Failure(p) PROVE Ordered'
    BY <2>4 DEF Failure, AcquireFails, CompleteFails, Abandon, ReleaseFails, Crash,
       GoTo, Restart, TypeOK, Ordered
  <2>5. CASE Expire \/ Overrun
    BY <2>5 DEF Expire, Overrun, Ordered
  <2>6. CASE UNCHANGED vars
    BY <2>6 DEF vars, Ordered
  <2>7. QED
    BY <2>1, <2>2, <2>3, <2>4, <2>5, <2>6 DEF Next
<1>3. Recorded'
  <2>1. CASE Enqueue
    BY <2>1 DEF Enqueue, Recorded, DeadLetters
  <2>2. ASSUME NEW k \in 1..queued, EnqueueAndTrim(k) PROVE Recorded'
    BY <2>2 DEF EnqueueAndTrim, Recorded, DeadLetters
  <2>3. ASSUME NEW p \in Processor, Step(p) PROVE Recorded'
    <3>1. CASE Bury(p)
      <4>1. DeadLetters' \union forgotten' = DeadLetters \union forgotten \union {msg[p]}
        BY <3>1, DeadLetterAdded DEF Bury, TypeOK, Recorded
      <4>2. QED
        BY <3>1, <4>1 DEF Bury, GoTo, TypeOK, Recorded
    <3>2. CASE ~Bury(p)
      <4>1. UNCHANGED <<dead, forgotten>>
        BY <2>3, <3>2 DEF Step, Read, Acquire, NotAcquired, Run, RunFails, Complete, Drop, Release
      <4>2. DeadLetters' = DeadLetters
        BY <4>1 DEF DeadLetters
      <4>3. QED
        BY <2>3, <3>2, <4>1, <4>2 DEF Step, Read, Acquire, NotAcquired, Run, RunFails, Complete, Drop,
           Release, GoTo, Restart, TypeOK, Recorded
    <3>3. QED
      BY <3>1, <3>2
  <2>4. ASSUME NEW p \in Processor, Failure(p) PROVE Recorded'
    <3>1. DeadLetters \union forgotten \subseteq DeadLetters' \union forgotten'
      <4>1. CASE UNCHANGED <<dead, forgotten>>
        BY <4>1 DEF DeadLetters
      <4>2. CASE Abandon(p) /\ pc[p] = "bury" /\ AddDeadLetter(msg[p])
        BY <4>2, DeadLetterAdded DEF TypeOK, Recorded
      <4>3. UNCHANGED <<dead, forgotten>> \/ (Abandon(p) /\ pc[p] = "bury" /\ AddDeadLetter(msg[p]))
        BY <2>4 DEF Failure, AcquireFails, CompleteFails, Abandon, ReleaseFails, Crash
      <4>4. QED
        BY <4>1, <4>2, <4>3
    <3>2. QED
      BY <2>4, <3>1 DEF Failure, AcquireFails, CompleteFails, Abandon, ReleaseFails, Crash,
         GoTo, Restart, TypeOK, Recorded
  <2>5. CASE Expire \/ Overrun
    BY <2>5 DEF Expire, Overrun, Recorded, DeadLetters
  <2>6. CASE UNCHANGED vars
    BY <2>6 DEF vars, Recorded, DeadLetters
  <2>7. QED
    BY <2>1, <2>2, <2>3, <2>4, <2>5, <2>6 DEF Next
<1>4. NothingVanishes'
  <2>1. CASE Enqueue
    BY <2>1 DEF Enqueue, TypeOK, NothingVanishes, DeadLetters
  <2>2. ASSUME NEW k \in 1..queued, EnqueueAndTrim(k) PROVE NothingVanishes'
    <3>1. DeadLetters' = DeadLetters
      BY <2>2 DEF EnqueueAndTrim, DeadLetters
    <3>2. 1..queued' = stream' \union effect \union DeadLetters \union trimmed' \union forgotten
      <4>1. /\ queued' = queued + 1
            /\ stream' \subseteq stream \union {queued + 1}
            /\ queued + 1 \in stream'
            /\ trimmed' = trimmed \union (stream \ stream')
        BY <2>2 DEF EnqueueAndTrim, TypeOK
      <4>2. 1..(queued + 1) = (1..queued) \union {queued + 1}
        BY DEF TypeOK
      <4>3. QED
        BY <4>1, <4>2 DEF NothingVanishes
    <3>3. QED
      BY <2>2, <3>1, <3>2 DEF EnqueueAndTrim, NothingVanishes
  <2>3. ASSUME NEW p \in Processor, pc[p] = "bury", AddDeadLetter(msg[p]),
               UNCHANGED <<queued, stream, effect, trimmed>>
        PROVE  NothingVanishes'
    <3>1. msg[p] \in attempted /\ attempted \subseteq 1..queued
      BY <2>3 DEF TypeOK, Recorded
    <3>2. /\ DeadLetters' \union forgotten' = DeadLetters \union forgotten \union {msg[p]}
          /\ forgotten' # {} => Len(dead') >= MaxDead
      BY <2>3, <3>1, DeadLetterAdded DEF TypeOK, NothingVanishes
    <3>3. QED
      BY <2>3, <3>1, <3>2 DEF NothingVanishes
  <2>4. ASSUME NEW p \in Processor, pc[p] \in {"complete", "drop"},
               stream' \in {stream, stream \ {msg[p]}},
               UNCHANGED <<queued, effect, dead, forgotten, trimmed>>
        PROVE  NothingVanishes'
    <3>1. msg[p] \in effect \union DeadLetters \union forgotten
      BY <2>4 DEF Recorded
    <3>2. QED
      BY <2>4, <3>1 DEF NothingVanishes, DeadLetters
  <2>5. ASSUME NEW p \in Processor, msg[p] \in 1..queued,
               effect' \in {effect, effect \union {msg[p]}},
               UNCHANGED <<queued, stream, dead, forgotten, trimmed>>
        PROVE  NothingVanishes'
    BY <2>5 DEF NothingVanishes, DeadLetters
  <2>6. CASE UNCHANGED <<queued, stream, effect, dead, forgotten, trimmed>>
    BY <2>6 DEF NothingVanishes, DeadLetters
  <2>7. ASSUME NEW p \in Processor, Step(p) PROVE NothingVanishes'
    <3>1. pc[p] = "run" => msg[p] \in 1..queued
      BY DEF TypeOK
    <3>2. CASE Run(p) \/ RunFails(p)
      BY <2>5, <3>1, <3>2 DEF Run, RunFails
    <3>3. CASE Complete(p) \/ Drop(p)
      BY <2>4, <3>3 DEF Complete, Drop
    <3>4. CASE Bury(p)
      BY <2>3, <3>4 DEF Bury
    <3>5. CASE Read(p) \/ Acquire(p) \/ NotAcquired(p) \/ Release(p)
      BY <2>6, <3>5 DEF Read, Acquire, NotAcquired, Release
    <3>6. QED
      BY <2>7, <3>2, <3>3, <3>4, <3>5 DEF Step
  <2>8. ASSUME NEW p \in Processor, Failure(p) PROVE NothingVanishes'
    <3>1. pc[p] # "read" => msg[p] \in 1..queued
      BY DEF TypeOK
    <3>2. CASE Abandon(p)
      <4>1. CASE pc[p] = "run"
        BY <2>5, <3>1, <3>2, <4>1 DEF Abandon
      <4>2. CASE pc[p] = "bury"
        BY <2>3, <2>6, <3>2, <4>2 DEF Abandon
      <4>3. CASE pc[p] \in {"complete", "drop"}
        BY <2>4, <3>2, <4>3 DEF Abandon
      <4>4. QED
        BY <3>2, <4>1, <4>2, <4>3 DEF Abandon
    <3>3. CASE CompleteFails(p)
      BY <2>4, <3>3 DEF CompleteFails
    <3>4. CASE Crash(p)
      BY <2>5, <3>1, <3>4 DEF Crash
    <3>5. CASE AcquireFails(p) \/ ReleaseFails(p)
      BY <2>6, <3>5 DEF AcquireFails, ReleaseFails
    <3>6. QED
      BY <2>8, <3>2, <3>3, <3>4, <3>5 DEF Failure
  <2>9. CASE Expire \/ Overrun \/ UNCHANGED vars
    BY <2>6, <2>9 DEF Expire, Overrun, vars
  <2>10. QED
    BY <2>1, <2>2, <2>7, <2>8, <2>9 DEF Next
<1>5. Locked'
  <2>0. Cardinality(Holders) \in Nat
    BY QueueAssumption, FS_Subset, FS_CardinalityType DEF Holders
  <2>1. CASE UNCHANGED <<pc, lock, overruns>>
    BY <2>1 DEF Locked, Holders, Holds
  <2>2. CASE Expire
    <3>1. Holders = {} /\ Holders' = {}
      BY <2>2 DEF Expire, Holders, Holds
    <3>2. QED
      BY <2>2, <3>1, FS_EmptySet DEF Expire, Locked, TypeOK
  <2>3. CASE Overrun
    <3>1. Holders' = Holders
      BY <2>3 DEF Overrun, Holders, Holds
    <3>2. QED
      BY <2>0, <2>3, <3>1 DEF Overrun, Locked, TypeOK
  <2>4. ASSUME NEW p \in Processor, Step(p) \/ Failure(p) PROVE Locked'
    <3>0. lock' \in Nat /\ lock \in Nat /\ overruns' = overruns /\ overruns \in Nat
      <4>1. overruns' = overruns
        BY <2>4 DEF Step, Failure, Fault, Read, Acquire, NotAcquired, Run, RunFails, Complete, Bury, Drop,
           Release, AcquireFails, CompleteFails, Abandon, ReleaseFails, Crash
      <4>2. QED
        BY <1>1, <4>1 DEF TypeOK
    <3>1. /\ \A q \in Processor \ {p} : pc'[q] = pc[q]
          /\ Acquire(p) \/ pc'[p] = "read" \/ (Holds(p)' <=> Holds(p))
      BY <2>4 DEF TypeOK, Holds, Holding, Step, Failure, GoTo, Restart, Read, Acquire, NotAcquired,
         Run, RunFails, Complete, Bury, Drop, Release, AcquireFails, CompleteFails, Abandon,
         ReleaseFails, Crash
    <3>2. CASE Acquire(p)
      <4>1. lock = 0 /\ lock' # 0 /\ Holds(p)' /\ ~Holds(p)
        BY <3>2 DEF Acquire, GoTo, Holds, Holding, TypeOK
      <4>2. QED
        BY <3>0, <3>1, <4>1, HoldersChange DEF Locked
    <3>3. CASE Release(p)
      <4>1. lock' = 0 /\ ~Holds(p)' /\ Holds(p)
        BY <3>3 DEF Release, GoTo, Restart, Holds, Holding, TypeOK
      <4>2. QED
        BY <3>0, <3>1, <4>1, HoldersChange DEF Locked
    <3>4. CASE ~Acquire(p) /\ ~Release(p)
      <4>1. lock' = lock \/ (lock = 0 /\ AcquireFails(p))
        BY <2>4, <3>4 DEF Step, Failure, Read, NotAcquired, Run, RunFails, Complete, Bury, Drop,
           AcquireFails, CompleteFails, Abandon, ReleaseFails, Crash
      <4>2. (Holds(p)' <=> Holds(p)) \/ (~Holds(p)' /\ Holds(p))
        BY <3>1, <3>4 DEF Holds, Holding
      <4>3. QED
        BY <3>0, <3>1, <4>1, <4>2, HoldersChange DEF Locked
    <3>5. QED
      BY <3>2, <3>3, <3>4
  <2>5. ASSUME NEW k \in 1..queued, EnqueueAndTrim(k) PROVE Locked'
    BY <2>1, <2>5 DEF EnqueueAndTrim
  <2>6. CASE Enqueue \/ UNCHANGED vars
    BY <2>1, <2>6 DEF Enqueue, vars
  <2>7. QED
    BY <2>2, <2>3, <2>4, <2>5, <2>6 DEF Next
<1>6. QED
  BY <1>1, <1>2, <1>3, <1>4, <1>5

LEMMA Invariance == Spec => []IInv
  BY InitIInv, NextIInv, PTL DEF Spec

(* No operation vanishes from the queue, whatever fails and for any number *)
(* of processors, but by the two MAXLENs: NothingVanishes.                 *)
THEOREM OperationsAccounted == Spec => [](TypeOK /\ NothingVanishes)
<1>1. IInv => TypeOK /\ NothingVanishes
  BY DEF IInv
<1>2. QED
  BY <1>1, Invariance, PTL

(* However many processors, faults and operations: only a lock that expires *)
(* under its processor admits another, and only one (HoldersBounded).       *)
THEOREM OverrunsAdmitOne == Spec => []HoldersBounded
<1>1. IInv => HoldersBounded
  <2> SUFFICES ASSUME IInv PROVE HoldersBounded
    OBVIOUS
  <2>1. Cardinality(Holders) \in Nat
    BY QueueAssumption, FS_Subset, FS_CardinalityType DEF Holders
  <2>2. QED
    BY <2>1 DEF IInv, Locked, HoldersBounded, Holders, TypeOK
<1>2. QED
  BY <1>1, Invariance, PTL

(* As long as no operation outlives its lock, the lock excludes, whatever  *)
(* crashes, is cancelled or fails: OneAtATime.                             *)
THEOREM LockExcludes == Spec => [](overruns = 0 => OneAtATime)
<1>1. IInv => (overruns = 0 => OneAtATime)
  <2> SUFFICES ASSUME IInv, overruns = 0, NEW p \in Processor, NEW q \in Processor,
                      Holds(p), Holds(q), p # q
               PROVE  FALSE
    BY DEF OneAtATime
  <2>1. IsFiniteSet(Holders) /\ {p} \union {q} \in SUBSET Holders
    BY QueueAssumption, FS_Subset DEF Holders
  <2>2. Cardinality({p} \union {q}) = 2
    <3>1. IsFiniteSet({p}) /\ Cardinality({p}) = 1 /\ q \notin {p}
      BY FS_Singleton
    <3>2. Cardinality({p} \union {q}) = Cardinality({p}) + 1
      BY <3>1, FS_AddElement
    <3>3. QED
      BY <3>1, <3>2
  <2>3. 2 <= Cardinality(Holders) /\ Cardinality(Holders) \in Nat
    BY <2>1, <2>2, FS_Subset, FS_CardinalityType
  <2>4. QED
    BY <2>3 DEF IInv, Locked
<1>2. QED
  BY <1>1, Invariance, PTL
-----------------------------------------------------------------------------
(* Every step of the queue is a step of OrderedQueue or changes nothing    *)
(* that OrderedQueue sees.                                                 *)
LEMMA StepImplements == IInv /\ [Next]_vars => [Queue!Next]_Queue!vars
<1> SUFFICES ASSUME IInv, [Next]_vars PROVE [Queue!Next]_Queue!vars
  OBVIOUS
<1> USE DEF IInv, Queue!vars
<1>1. CASE Enqueue
  BY <1>1 DEF Enqueue, Queue!Next, Queue!Enqueue
<1>2. ASSUME NEW k \in 1..queued, EnqueueAndTrim(k) PROVE Queue!Next
  <2>1. Queue!EnqueueAndTrim(k)
    BY <1>2 DEF EnqueueAndTrim, Queue!EnqueueAndTrim, Cardinality, Queue!Cardinality
  <2>2. QED
    BY <2>1 DEF Queue!Next
<1>3. ASSUME NEW p \in Processor, pc[p] # "read",
             UNCHANGED <<queued, stream>>,
             attempted' \in {attempted, attempted \union {msg[p]}}
      PROVE  [Queue!Next]_Queue!vars
  <2>1. msg[p] \in 1..queued
    BY <1>3 DEF TypeOK
  <2>2. CASE attempted' = attempted
    BY <1>3, <2>2
  <2>3. CASE attempted' = attempted \union {msg[p]}
    <3>1. Queue!Attempt(msg[p])
      BY <1>3, <2>1, <2>3 DEF Queue!Attempt, Ordered, TypeOK
    <3>2. QED
      BY <2>1, <3>1 DEF Queue!Next
  <2>4. QED
    BY <1>3, <2>2, <2>3
<1>4. ASSUME NEW p \in Processor, pc[p] \in {"complete", "drop"},
             UNCHANGED <<queued, attempted>>,
             stream' \in {stream, stream \ {msg[p]}}
      PROVE  [Queue!Next]_Queue!vars
  <2>1. msg[p] \in 1..queued /\ msg[p] \in attempted
    BY <1>4 DEF TypeOK, Recorded
  <2>2. CASE stream' = stream
    BY <1>4, <2>2
  <2>3. CASE stream' = stream \ {msg[p]} /\ msg[p] \in stream
    <3>1. Queue!Retire(msg[p])
      BY <1>4, <2>1, <2>3 DEF Queue!Retire, Ordered, TypeOK
    <3>2. QED
      BY <2>1, <3>1 DEF Queue!Next
  <2>4. CASE stream' = stream \ {msg[p]} /\ msg[p] \notin stream
    BY <1>4, <2>4
  <2>5. QED
    BY <1>4, <2>2, <2>3, <2>4
<1>5. ASSUME NEW p \in Processor, Step(p) PROVE [Queue!Next]_Queue!vars
  <2>1. CASE Run(p) \/ RunFails(p)
    BY <1>3, <2>1 DEF Run, RunFails
  <2>2. CASE Complete(p) \/ Drop(p)
    BY <1>4, <2>2 DEF Complete, Drop
  <2>3. CASE Read(p) \/ Acquire(p) \/ NotAcquired(p) \/ Bury(p) \/ Release(p)
    BY <2>3 DEF Read, Acquire, NotAcquired, Bury, Release
  <2>4. QED
    BY <1>5, <2>1, <2>2, <2>3 DEF Step
<1>6. ASSUME NEW p \in Processor, Failure(p) PROVE [Queue!Next]_Queue!vars
  <2>1. CASE Abandon(p)
    <3>1. CASE pc[p] \in {"run", "bury"}
      BY <1>3, <2>1, <3>1 DEF Abandon
    <3>2. CASE pc[p] \in {"complete", "drop"}
      BY <1>4, <2>1, <3>2 DEF Abandon
    <3>3. QED
      BY <2>1, <3>1, <3>2 DEF Abandon
  <2>2. CASE CompleteFails(p)
    BY <1>4, <2>2 DEF CompleteFails
  <2>3. CASE Crash(p)
    BY <1>3, <2>3 DEF Crash
  <2>4. CASE AcquireFails(p) \/ ReleaseFails(p)
    BY <2>4 DEF AcquireFails, ReleaseFails
  <2>5. QED
    BY <1>6, <2>1, <2>2, <2>3, <2>4 DEF Failure
<1>7. CASE Expire \/ Overrun
  BY <1>7 DEF Expire, Overrun
<1>8. CASE UNCHANGED vars
  BY <1>8 DEF vars
<1>9. QED
  BY <1>1, <1>2, <1>5, <1>6, <1>7, <1>8 DEF Next

(* Whatever the number of processors and whatever fails, operations are    *)
(* first attempted in the order they were queued and none is deleted       *)
(* before: the queue implements OrderedQueue (ImplementsQueue).            *)
THEOREM QueueImplementsOrder == Spec => ImplementsQueue
<1>1. Init => Queue!Init
  BY DEF Init, Queue!Init
<1>2. QED
  BY <1>1, Invariance, StepImplements, PTL DEF Spec, ImplementsQueue, Queue!Spec

(* Whatever fails, what was tried, took effect or was buried had been      *)
(* queued, and a processor without a message is at its XREAD.              *)
THEOREM QueueTypeCorrect == Spec => []TypeOK
<1>1. IInv => TypeOK
  BY DEF IInv
<1> QED BY <1>1, Invariance, PTL

(* What follows of OrderedQueue: when an operation has been attempted,     *)
(* every older one that is still queued has been too.                      *)
FirstInOrder ==
    \A o \in attempted : \A older \in stream : older < o => older \in attempted

LEMMA OrderOfQueue == Queue!Spec => []FirstInOrder
<1> DEFINE OInv == /\ queued \in Nat /\ stream \subseteq 1..queued /\ attempted \subseteq 1..queued
                   /\ FirstInOrder
<1>1. Queue!Init => OInv
  BY DEF Queue!Init, FirstInOrder
<1>2. OInv /\ [Queue!Next]_Queue!vars => OInv'
  <2> SUFFICES ASSUME OInv, [Queue!Next]_Queue!vars PROVE OInv'
    OBVIOUS
  <2>1. CASE Queue!Enqueue
    BY <2>1 DEF Queue!Enqueue, FirstInOrder
  <2>2. ASSUME NEW k \in 1..queued, Queue!EnqueueAndTrim(k) PROVE OInv'
    <3>1. /\ queued' = queued + 1 /\ attempted' = attempted
          /\ stream' = {o \in stream \union {queued + 1} : o > k}
      BY <2>2 DEF Queue!EnqueueAndTrim
    <3>2. queued' \in Nat /\ stream' \subseteq 1..queued' /\ attempted' \subseteq 1..queued'
      <4>1. stream' \subseteq stream \union {queued + 1}
        BY <3>1
      <4>2. queued + 1 \in Nat /\ 1..queued \subseteq 1..(queued + 1) /\ queued + 1 \in 1..(queued + 1)
        OBVIOUS
      <4>3. QED
        BY <3>1, <4>1, <4>2
    <3>3. FirstInOrder'
      BY <3>1 DEF FirstInOrder
    <3>4. QED
      BY <3>2, <3>3
  <2>3. ASSUME NEW o \in 1..queued, Queue!Attempt(o) PROVE OInv'
    BY <2>3 DEF Queue!Attempt, FirstInOrder
  <2>4. ASSUME NEW o \in 1..queued, Queue!Retire(o) PROVE OInv'
    BY <2>4 DEF Queue!Retire, FirstInOrder
  <2>5. CASE UNCHANGED Queue!vars
    BY <2>5 DEF Queue!vars, FirstInOrder
  <2>6. QED
    BY <2>1, <2>2, <2>3, <2>4, <2>5 DEF Queue!Next
<1>3. OInv => FirstInOrder
  OBVIOUS
<1>4. QED
  BY <1>1, <1>2, <1>3, PTL DEF Queue!Spec

(* By the refinement the processors keep that order, however many they are *)
(* and whatever fails (api/blockchain_queue.py, start_processor).          *)
THEOREM AttemptsInOrder == Spec => []FirstInOrder
  BY QueueImplementsOrder, OrderOfQueue, PTL DEF ImplementsQueue
-----------------------------------------------------------------------------
(* What a processor is about to take the lock for has not been deleted by  *)
(* another: only an overflow removes it meanwhile.                         *)
ReadIsQueued ==
    \A p \in Processor : pc[p] = "lock" => msg[p] \in stream \union trimmed

LEMMA OneInstanceReads ==
  ASSUME \A p, q \in Processor : p = q
  PROVE  TypeOK /\ ReadIsQueued /\ [Next]_vars => ReadIsQueued'
<1> SUFFICES ASSUME TypeOK, ReadIsQueued, [Next]_vars PROVE ReadIsQueued'
  OBVIOUS
<1>1. CASE Enqueue \/ Expire \/ Overrun \/ UNCHANGED vars
  BY <1>1 DEF Enqueue, Expire, Overrun, vars, ReadIsQueued
<1>2. ASSUME NEW k \in 1..queued, EnqueueAndTrim(k) PROVE ReadIsQueued'
  BY <1>2 DEF EnqueueAndTrim, ReadIsQueued
<1>3. ASSUME NEW p \in Processor, Read(p) PROVE ReadIsQueued'
  BY <1>3 DEF Read, GoTo, TypeOK, ReadIsQueued
<1>4. ASSUME NEW p \in Processor, pc' = [pc EXCEPT ![p] = pc'[p]], pc'[p] # "lock" PROVE ReadIsQueued'
  BY <1>4 DEF TypeOK, ReadIsQueued
<1>5. ASSUME NEW p \in Processor, Step(p) \/ Failure(p), ~Read(p) PROVE ReadIsQueued'
  <2>1. pc' = [pc EXCEPT ![p] = pc'[p]] /\ pc'[p] # "lock"
    BY <1>5 DEF TypeOK, Step, Failure, GoTo, Restart, Acquire, NotAcquired, Run, RunFails, Complete,
       Bury, Drop, Release, AcquireFails, CompleteFails, Abandon, ReleaseFails, Crash
  <2>2. QED
    BY <2>1, <1>4
<1>6. QED
  BY <1>1, <1>2, <1>3, <1>5 DEF Next

(* It takes a second instance to execute again what was completed, or an   *)
(* overflow of the stream: one processor alone, with any number of faults  *)
(* and restarts, takes the lock only for what is still queued              *)
(* (CompletedOnce, which two instances violate).                           *)
THEOREM OneInstanceCompletesOnce ==
  ASSUME \A p, q \in Processor : p = q
  PROVE  Spec /\ [](trimmed = {}) => CompletedOnce
<1>1. Init => ReadIsQueued
  BY DEF Init, ReadIsQueued
<1>2. TypeOK /\ ReadIsQueued /\ trimmed = {} /\ [Next]_vars =>
         [\A p \in Processor : Holds(p)' /\ ~Holds(p) => msg[p] \in stream]_vars
  <2> SUFFICES ASSUME TypeOK, ReadIsQueued, trimmed = {}, [Next]_vars,
                      NEW p \in Processor, Holds(p)', ~Holds(p)
               PROVE  msg[p] \in stream
    OBVIOUS
  <2>1. pc[p] # pc'[p]
    BY DEF Holds
  <2>2. PICK q \in Processor : Step(q) \/ Failure(q)
    BY <2>1 DEF Next, vars, Enqueue, EnqueueAndTrim, Expire, Overrun
  <2>3. q = p
    OBVIOUS
  <2>4. pc[p] = "lock"
    BY <2>2, <2>3 DEF TypeOK, Holds, Holding, Step, Failure, GoTo, Restart, Read, Acquire, NotAcquired,
       Run, RunFails, Complete, Bury, Drop, Release, AcquireFails, CompleteFails, Abandon, ReleaseFails, Crash
  <2>5. QED
    BY <2>4 DEF ReadIsQueued
<1>3. Spec => []TypeOK
  BY QueueTypeCorrect
<1>4. QED
  BY <1>1, <1>2, <1>3, OneInstanceReads, PTL DEF Spec, CompletedOnce
=============================================================================

--------------------------- MODULE BlockchainQueue ---------------------------
(***************************************************************************)
(* api/blockchain_queue.py: producers add operations to a Redis stream,    *)
(* and the processors of several API instances each read its oldest entry, *)
(* take one lock (SET NX EX 60), execute it, delete it from the stream (or *)
(* move it to the dead letters) and delete the lock.  Every command to     *)
(* Redis is an await: a processor advances by one command per step, and a  *)
(* processor works with what it read, however old that is.                 *)
(*                                                                         *)
(* A stream entry is its number; Redis keeps a stream in that order.       *)
(* External: Redis itself (streams, SET NX, expiry) and process_fn.        *)
(***************************************************************************)
EXTENDS Naturals, FiniteSets, Sequences

CONSTANTS Processor,    \* the processors of all API instances
          MaxLen,       \* maxlen of the stream
          MaxDead,      \* maxlen of the dead letters
          MaxOps,       \* bound: operations queued in a run
          MaxFaults,    \* bound: crashes, cancellations and failed commands
          MaxOverruns   \* bound: locks that expire under a processor that works on

ASSUME QueueAssumption ==
    /\ IsFiniteSet(Processor)
    /\ MaxLen \in Nat
    /\ MaxDead \in Nat
    /\ MaxOps \in Nat
    /\ MaxFaults \in Nat
    /\ MaxOverruns \in Nat

VARIABLES queued,       \* how many operations were queued
          stream,       \* the stream blockchain:operations
          trimmed,      \* the operations MAXLEN has dropped
          lock,         \* blockchain:processing: the entry it names, or 0
          pc,           \* where each processor is
          msg,          \* the entry each processor has read, or 0
          attempted,    \* the operations process_fn was called with
          effect,       \* those that took effect on the chain
          dead,         \* the stream blockchain:operations:dead_letter
          forgotten,    \* the operations whose dead letter MAXLEN has dropped
          faults,
          overruns      \* how often the lock expired under a processor

vars == <<queued, stream, trimmed, lock, pc, msg, attempted, effect, dead, forgotten,
          faults, overruns>>

Op == 1..MaxOps
Holding == {"run", "complete", "bury", "drop", "release"}

TypeOK ==
    /\ queued \in 0..MaxOps
    /\ stream \subseteq 1..queued
    /\ trimmed \subseteq 1..queued
    /\ lock \in 0..queued
    /\ pc \in [Processor -> {"read", "lock"} \union Holding]
    /\ msg \in [Processor -> 0..queued]
    /\ attempted \subseteq 1..queued
    /\ effect \subseteq attempted
    /\ dead \in Seq(attempted)
    /\ forgotten \subseteq attempted
    /\ faults \in 0..MaxFaults
    /\ overruns \in 0..MaxOverruns
    /\ \A p \in Processor : msg[p] = 0 <=> pc[p] = "read"

Init ==
    /\ queued = 0
    /\ stream = {}
    /\ trimmed = {}
    /\ lock = 0
    /\ pc = [p \in Processor |-> "read"]
    /\ msg = [p \in Processor |-> 0]
    /\ attempted = {}
    /\ effect = {}
    /\ dead = <<>>
    /\ forgotten = {}
    /\ faults = 0
    /\ overruns = 0

Holds(p) == pc[p] \in Holding

(* A failed command, a crash or a cancellation. *)
Fault == faults < MaxFaults /\ faults' = faults + 1 /\ UNCHANGED overruns

GoTo(p, label) == pc' = [pc EXCEPT ![p] = label]

Restart(p) == GoTo(p, "read") /\ msg' = [msg EXCEPT ![p] = 0]

(* enqueue_operation: XADD with MAXLEN ~, which may trim nothing, or the   *)
(* oldest entries while no fewer than MaxLen remain.                       *)
Enqueue ==
    /\ queued < MaxOps
    /\ queued' = queued + 1
    /\ stream' = stream \union {queued + 1}
    /\ UNCHANGED <<trimmed, lock, pc, msg, attempted, effect, dead, forgotten, faults,
                   overruns>>

EnqueueAndTrim(k) ==
    /\ queued < MaxOps
    /\ queued' = queued + 1
    /\ stream' = {o \in stream \union {queued + 1} : o > k}
    /\ Cardinality(stream') >= MaxLen
    /\ trimmed' = trimmed \union (stream \ stream')
    /\ UNCHANGED <<lock, pc, msg, attempted, effect, dead, forgotten, faults, overruns>>

(* Fault: XREAD for new entries only skips the backlog. *)
ReadNewest(p) ==
    /\ pc[p] = "read"
    /\ \E o \in stream :
          /\ \A other \in stream : other <= o
          /\ msg' = [msg EXCEPT ![p] = o]
    /\ GoTo(p, "lock")
    /\ UNCHANGED <<queued, stream, trimmed, lock, attempted, effect, dead, forgotten,
                   faults, overruns>>

(* XREAD from "0", COUNT 1: the oldest entry; a read that finds nothing,   *)
(* or fails, is tried again.                                               *)
Read(p) ==
    /\ pc[p] = "read"
    /\ \E o \in stream :
          /\ \A other \in stream : o <= other
          /\ msg' = [msg EXCEPT ![p] = o]
    /\ GoTo(p, "lock")
    /\ UNCHANGED <<queued, stream, trimmed, lock, attempted, effect, dead, forgotten,
                   faults, overruns>>

(* Fault: SET without NX. *)
AcquireAlways(p) ==
    /\ pc[p] = "lock"
    /\ lock' = msg[p]
    /\ GoTo(p, "run")
    /\ UNCHANGED <<queued, stream, trimmed, msg, attempted, effect, dead, forgotten,
                   faults, overruns>>

(* SET NX EX 60 and the lock was free. *)
Acquire(p) ==
    /\ pc[p] = "lock"
    /\ lock = 0
    /\ lock' = msg[p]
    /\ GoTo(p, "run")
    /\ UNCHANGED <<queued, stream, trimmed, msg, attempted, effect, dead, forgotten,
                   faults, overruns>>

(* Fault: a processor that does not get the lock keeps its entry. *)
NotAcquiredKeepsEntry(p) ==
    /\ pc[p] = "lock"
    /\ lock # 0
    /\ GoTo(p, "read")
    /\ UNCHANGED <<queued, stream, trimmed, lock, msg, attempted, effect, dead,
                   forgotten, faults, overruns>>

(* It was not: "continue  # Another instance is processing". *)
NotAcquired(p) ==
    /\ pc[p] = "lock"
    /\ lock # 0
    /\ Restart(p)
    /\ UNCHANGED <<queued, stream, trimmed, lock, attempted, effect, dead, forgotten,
                   faults, overruns>>

(* SET fails, after or before Redis executed it. *)
AcquireFails(p) ==
    /\ pc[p] = "lock"
    /\ Fault
    /\ lock' \in {lock} \union (IF lock = 0 THEN {msg[p]} ELSE {})
    /\ Restart(p)
    /\ UNCHANGED <<queued, stream, trimmed, attempted, effect, dead, forgotten>>

(* process_fn returns ... *)
Run(p) ==
    /\ pc[p] = "run"
    /\ attempted' = attempted \union {msg[p]}
    /\ effect' = effect \union {msg[p]}
    /\ GoTo(p, "complete")
    /\ UNCHANGED <<queued, stream, trimmed, lock, msg, dead, forgotten, faults, overruns>>

(* Fault: an operation that raises is not sent to the dead letters. *)
RunFailsQuietly(p) ==
    /\ pc[p] = "run"
    /\ attempted' = attempted \union {msg[p]}
    /\ GoTo(p, "drop")
    /\ UNCHANGED <<queued, stream, trimmed, lock, msg, effect, dead, forgotten, faults,
                   overruns>>

(* ... or raises, before or after the operation took effect. *)
RunFails(p) ==
    /\ pc[p] = "run"
    /\ attempted' = attempted \union {msg[p]}
    /\ effect' \in {effect, effect \union {msg[p]}}
    /\ GoTo(p, "bury")
    /\ UNCHANGED <<queued, stream, trimmed, lock, msg, dead, forgotten, faults, overruns>>

(* XDEL of a completed operation. *)
Complete(p) ==
    /\ pc[p] = "complete"
    /\ stream' = stream \ {msg[p]}
    /\ GoTo(p, "release")
    /\ UNCHANGED <<queued, trimmed, lock, msg, attempted, effect, dead, forgotten,
                   faults, overruns>>

(* XDEL fails: the handler of process_fn's own failures takes over.        *)
CompleteFails(p) ==
    /\ pc[p] = "complete"
    /\ Fault
    /\ stream' \in {stream, stream \ {msg[p]}}
    /\ GoTo(p, "bury")
    /\ UNCHANGED <<queued, trimmed, lock, msg, attempted, effect, dead, forgotten>>

(* XADD to the dead letters, whose MAXLEN ~ too may drop the oldest ones   *)
(* while no fewer than MaxDead remain ...                                  *)
AddDeadLetter(o) ==
    \E k \in 0..Len(dead) :
        /\ dead' = SubSeq(Append(dead, o), k + 1, Len(dead) + 1)
        /\ k > 0 => Len(dead) + 1 - k >= MaxDead
        /\ forgotten' = forgotten \union {dead[i] : i \in 1..k}

Bury(p) ==
    /\ pc[p] = "bury"
    /\ AddDeadLetter(msg[p])
    /\ GoTo(p, "drop")
    /\ UNCHANGED <<queued, stream, trimmed, lock, msg, attempted, effect, faults, overruns>>

(* ... then XDEL. *)
Drop(p) ==
    /\ pc[p] = "drop"
    /\ stream' = stream \ {msg[p]}
    /\ GoTo(p, "release")
    /\ UNCHANGED <<queued, trimmed, lock, msg, attempted, effect, dead, forgotten,
                   faults, overruns>>

(* One of these two fails, or the task is cancelled while it holds the     *)
(* lock: the finally clause runs, the operation may still be queued.       *)
Abandon(p) ==
    /\ pc[p] \in Holding \ {"release"}
    /\ Fault
    /\ \/ /\ pc[p] = "run"
          /\ attempted' = attempted \union {msg[p]}
          /\ effect' \in {effect, effect \union {msg[p]}}
          /\ UNCHANGED <<stream, dead, forgotten>>
       \/ /\ pc[p] = "bury"
          /\ AddDeadLetter(msg[p]) \/ UNCHANGED <<dead, forgotten>>
          /\ UNCHANGED <<stream, attempted, effect>>
       \/ /\ pc[p] \in {"complete", "drop"}
          /\ stream' \in {stream, stream \ {msg[p]}}
          /\ UNCHANGED <<attempted, effect, dead, forgotten>>
    /\ GoTo(p, "release")
    /\ UNCHANGED <<queued, trimmed, lock, msg>>

(* DEL of the lock, whoever holds it by now. *)
Release(p) ==
    /\ pc[p] = "release"
    /\ lock' = 0
    /\ Restart(p)
    /\ UNCHANGED <<queued, stream, trimmed, attempted, effect, dead, forgotten, faults,
                   overruns>>

ReleaseFails(p) ==
    /\ pc[p] = "release"
    /\ Fault
    /\ Restart(p)
    /\ UNCHANGED <<queued, stream, trimmed, lock, attempted, effect, dead, forgotten>>

(* The API instance dies and is started again. *)
Crash(p) ==
    /\ pc[p] # "read"
    /\ Fault
    /\ \/ /\ pc[p] = "run"
          /\ attempted' = attempted \union {msg[p]}
          /\ effect' \in {effect, effect \union {msg[p]}}
       \/ UNCHANGED <<attempted, effect>>
    /\ Restart(p)
    /\ UNCHANGED <<queued, stream, trimmed, lock, dead, forgotten>>

(* Fault: the lock is set without its 60 seconds. *)
ExpireNever == FALSE /\ UNCHANGED vars

(* The 60 seconds of a lock nobody holds any more are over. *)
Expire ==
    /\ lock # 0
    /\ \A p \in Processor : ~Holds(p)
    /\ lock' = 0
    /\ UNCHANGED <<queued, stream, trimmed, pc, msg, attempted, effect, dead, forgotten,
                   faults, overruns>>

(* They are over while a processor works on: process_fn has no timeout and *)
(* nothing extends the lock.                                               *)
Overrun ==
    /\ lock # 0
    /\ \E p \in Processor : Holds(p)
    /\ overruns < MaxOverruns
    /\ overruns' = overruns + 1
    /\ lock' = 0
    /\ UNCHANGED <<queued, stream, trimmed, pc, msg, attempted, effect, dead,
                   forgotten, faults>>

Step(p) ==
    \/ Read(p) \/ Acquire(p) \/ NotAcquired(p)
    \/ Run(p) \/ RunFails(p) \/ Complete(p) \/ Bury(p) \/ Drop(p) \/ Release(p)

Failure(p) ==
    AcquireFails(p) \/ CompleteFails(p) \/ Abandon(p) \/ ReleaseFails(p) \/ Crash(p)

Next ==
    \/ Enqueue
    \/ \E k \in 1..queued : EnqueueAndTrim(k)
    \/ \E p \in Processor : Step(p) \/ Failure(p)
    \/ Expire \/ Overrun

Spec == Init /\ [][Next]_vars

(* The processors keep looping, process_fn ends, and Redis expires keys.   *)
Fairness ==
    /\ \A p \in Processor : WF_vars(Step(p))
    /\ WF_vars(Expire)

FairSpec == Spec /\ Fairness
-----------------------------------------------------------------------------
(* A lock that expires under its processor admits one more, and nothing    *)
(* else does: crashes, cancellations and failed commands leave stale locks *)
(* behind, and the DEL of a processor that overran may be of the lock of   *)
(* another, but never are more processors between their SET and their DEL  *)
(* than one and the locks that have expired so.                            *)
HoldersBounded == Cardinality({p \in Processor : Holds(p)}) <= 1 + overruns

DeadLetters == {dead[i] : i \in 1..Len(dead)}

(* No operation vanishes, whatever command failed where: it is queued,     *)
(* took effect, lies in the dead letters, or was dropped by one of the two *)
(* MAXLENs, the one of the dead letters only once MaxDead of them lie      *)
(* there (blockchain_queue.py:127-131).                                    *)
NothingVanishes ==
    /\ 1..queued = stream \union effect \union DeadLetters \union trimmed \union forgotten
    /\ forgotten # {} => Len(dead) >= MaxDead

(* First attempts are in the order of the queue and precede removal: the   *)
(* promise of OrderedQueue.                                                *)
Queue == INSTANCE OrderedQueue WITH pending <- stream, Capacity <- MaxLen

ImplementsQueue == Queue!Spec

(* The queue drains: no crash, stale lock or failing operation stops it,   *)
(* and no operation at its head blocks the others.                         *)
Drains == \A o \in Op : o \in stream ~> o \notin stream
-----------------------------------------------------------------------------
(* IMPLEMENTATION_SUMMARY.md:350, "Safe horizontal scaling, multiple API   *)
(* instances can share queue processing": an operation that one instance   *)
(* completed and deleted is not executed by another.  It is, by one that   *)
(* had read it before.                                                     *)
CompletedOnce ==
    [][\A p \in Processor : Holds(p)' /\ ~Holds(p) => msg[p] \in stream]_vars

(* IMPLEMENTATION_SUMMARY.md:345, "Distributed locking via Redis", and the *)
(* comment blockchain_queue.py:104, "Another instance is processing": at   *)
(* most one processor is between its SET and its DEL.  Two are when an     *)
(* operation outlives the 60 seconds of the lock, so this is an invariant  *)
(* only while overruns is 0 (LockExcludes).                                *)
OneAtATime == \A p, q \in Processor : Holds(p) /\ Holds(q) => p = q
=============================================================================

----------------------------- MODULE ChainClient -----------------------------
(***************************************************************************)
(* contracts/client.py: what a call of the chain does.  Every method asks  *)
(* the node for suggested parameters, builds and signs a transaction of    *)
(* them, sends it and waits for its confirmation for a number of rounds,   *)
(* while the transaction stays valid for many more.  The node is external: *)
(* it refuses a transaction it already has, by its id, which is a hash of  *)
(* the sender, the arguments and the parameters, and keeps one that it     *)
(* took until it is confirmed or expires, or the call that waits for it is *)
(* told that it was rejected.                                              *)
(*                                                                         *)
(* The promise that ConsentService and AuditLedger build on is that a call *)
(* that returns has taken effect once, and that one that raises may have   *)
(* taken effect, or may still.                                             *)
(***************************************************************************)
EXTENDS Naturals, FiniteSets

CONSTANTS Caller,           \* threads that call the client
          MaxRound,         \* rounds of the chain
          MaxCalls          \* calls of one caller

VARIABLES round,            \* last round of the chain
          pool,             \* transactions sent and not confirmed
          confirmed,        \* transactions of the ledger, with their round
          call              \* call of a caller

chainVars == <<round, pool, confirmed, call>>

Long == 2                   \* wait_for_transaction's rounds, 10 in the code
Short == 1                  \* fund_account's, 4 in the code
Validity == 3               \* suggested parameters' rounds, 1000 on the chain
ASSUME ChainAssumption ==
    /\ Long < Validity /\ Short < Validity
    /\ MaxRound \in Nat /\ MaxCalls \in Nat

(* What is sent: fund_account and verify_consent treat the answer in ways  *)
(* of their own; the others (deploy_*, register_consent, revoke_consent,   *)
(* log_event, batch_log_events) wait, and return or raise.                 *)
Method == {"fund_account", "revoke_consent", "verify_consent"}
Patience(method) == IF method = "fund_account" THEN Short ELSE Long

Tx(method, first) == [method |-> method, first |-> first]
Phases == {"idle", "built", "waiting", "returned", "raised", "false"}
Uncalled == [phase |-> "idle", tx |-> Tx("revoke_consent", 0), sent |-> 0, number |-> 0]

InLedger(tx) == \E e \in confirmed : e.tx = tx

ChainInit ==
    /\ round = 0
    /\ pool = {} /\ confirmed = {}
    /\ call = [c \in Caller |-> Uncalled]

Ended(c) == call[c].phase \in {"idle", "returned", "raised", "false"}

(* get_transaction_params, and the transaction built of them.              *)
Build(c, method) ==
    /\ Ended(c) /\ call[c].number < MaxCalls
    /\ call' = [call EXCEPT ![c] = [phase |-> "built", tx |-> Tx(method, round),
                                    sent |-> round, number |-> @.number + 1]]
    /\ UNCHANGED <<round, pool, confirmed>>

(* The exception of a call, which verify_consent turns into an answer.     *)
Raise(c) == call' = [call EXCEPT ![c].phase =
    IF call[c].tx.method = "verify_consent" THEN "false" ELSE "raised"]

Expired(tx) == round >= tx.first + Validity

(* Fault: the answer of the node is not looked at, so that a refused       *)
(* transaction is waited for like one that was taken.                      *)
SendUnchecked(c) ==
    /\ call[c].phase = "built"
    /\ pool' = IF InLedger(call[c].tx) \/ Expired(call[c].tx) THEN pool
               ELSE pool \union {call[c].tx}
    /\ call' = [call EXCEPT ![c].phase = "waiting", ![c].sent = round]
    /\ UNCHANGED <<round, confirmed>>

(* send_transaction: the node refuses what it has and what is too old.     *)
Send(c) ==
    /\ call[c].phase = "built"
    /\ \/ /\ call[c].tx \notin pool /\ ~InLedger(call[c].tx) /\ ~Expired(call[c].tx)
          /\ pool' = pool \union {call[c].tx}
          /\ call' = [call EXCEPT ![c].phase = "waiting", ![c].sent = round]
       \/ /\ call[c].tx \in pool \/ InLedger(call[c].tx) \/ Expired(call[c].tx)
          /\ Raise(c) /\ UNCHANGED pool
    /\ UNCHANGED <<round, confirmed>>

(* The program rejects it, or the node cannot be reached, before or after  *)
(* it took the transaction.                                                *)
SendFails(c) ==
    /\ call[c].phase = "built"
    /\ \/ UNCHANGED pool
       \/ /\ ~InLedger(call[c].tx) /\ ~Expired(call[c].tx)
          /\ pool' = pool \union {call[c].tx}
    /\ Raise(c)
    /\ UNCHANGED <<round, confirmed>>

(* wait_for_confirmation finds the transaction in a block.                 *)
Return(c) ==
    /\ call[c].phase = "waiting" /\ InLedger(call[c].tx)
    /\ round <= call[c].sent + Patience(call[c].tx.method)
    /\ call' = [call EXCEPT ![c].phase = "returned"]
    /\ UNCHANGED <<round, pool, confirmed>>

(* It looks at the rounds before it asks once more, so it may give up on a *)
(* transaction that was confirmed in the last one.                         *)
GiveUp(c) ==
    /\ call[c].phase = "waiting"
    /\ round >= call[c].sent + Patience(call[c].tx.method)
    /\ Raise(c)
    /\ UNCHANGED <<round, pool, confirmed>>

(* Before that the node may fail to answer, or answer that its pool has    *)
(* rejected the transaction: wait_for_confirmation raises.                 *)
WaitFails(c) ==
    /\ call[c].phase = "waiting"
    /\ pool' \in {pool, pool \ {call[c].tx}}
    /\ Raise(c)
    /\ UNCHANGED <<round, confirmed>>

(* A block: any part of the pool, and what has expired leaves the pool.    *)
Block(txs) ==
    /\ round < MaxRound
    /\ txs \subseteq {tx \in pool : ~Expired(tx)}
    /\ round' = round + 1
    /\ confirmed' = confirmed \union {[tx |-> tx, round |-> round + 1] : tx \in txs}
    /\ pool' = {tx \in pool \ txs : round + 1 < tx.first + Validity}
    /\ UNCHANGED call

ChainNext ==
    \/ \E c \in Caller : \/ \E method \in Method : Build(c, method)
                         \/ Send(c) \/ SendFails(c) \/ Return(c) \/ GiveUp(c) \/ WaitFails(c)
    \/ \E txs \in SUBSET pool : Block(txs)
-----------------------------------------------------------------------------
ChainTypeOK ==
    /\ round \in 0 .. MaxRound
    /\ pool \subseteq [method : Method, first : 0 .. MaxRound]
    /\ confirmed \subseteq [tx : [method : Method, first : 0 .. MaxRound], round : 1 .. MaxRound]
    /\ call \in [Caller -> [phase : Phases, tx : [method : Method, first : 0 .. MaxRound],
                            sent : 0 .. MaxRound, number : 0 .. MaxCalls]]

(* A transaction takes effect once, within its validity, and a call that   *)
(* returned is about one that took effect after the call began.            *)
TakesEffectOnce ==
    /\ \A e, f \in confirmed : e.tx = f.tx => e = f
    /\ \A e \in confirmed : e.round \in e.tx.first + 1 .. e.tx.first + Validity
    /\ \A c \in Caller : call[c].phase = "returned" =>
          \E e \in confirmed : e.tx = call[c].tx /\ e.round > call[c].tx.first

(* Two callers that returned stand for two effects, even when both asked   *)
(* for the same thing in the same round.                                   *)
OwnEffect == \A c, d \in Caller :
    c # d /\ call[c].phase = "returned" /\ call[d].phase = "returned" => call[c].tx # call[d].tx

(* A call that waits has its transaction pending, confirmed, or expired.   *)
WaitedFor == \A c \in Caller : call[c].phase = "waiting" =>
    call[c].tx \in pool \/ InLedger(call[c].tx) \/ Expired(call[c].tx)

ChainClientSafe == ChainTypeOK /\ TakesEffectOnce /\ OwnEffect /\ WaitedFor
=============================================================================

----------------------------- MODULE AuditLedger -----------------------------
(***************************************************************************)
(* The audit trail: the contract of contracts_v2/audit_trail.py, the hash  *)
(* trees of core/crypto.py, and AuditService.generate_merkle_root of       *)
(* api/services.py, which anchors the tree of a list of events on the      *)
(* chain and then commits a row about it.  A hash is the tuple of what was *)
(* hashed: a leaf <<e>>, a node <<left, right>>.                           *)
(***************************************************************************)
EXTENDS Integers, Sequences, FiniteSets, SequencesExt

CONSTANTS Event,            \* ids of the rows of consent_events: 1 .. n
          Size,             \* numbers of events that requests ask for
          Generator,        \* requests that generate a root
          LogEntry          \* hashes that log_event is called with

VARIABLES boxes,        \* contract: link of an event's box, by its hash
          counter,      \* contract: event_counter
          lastHash,     \* contract: last_event_hash
          merkleRoot,   \* contract: merkle_root
          rows,         \* merkle_roots: events and root
          generator,    \* request: phase and its events
          logged,       \* history: hashes logged since the last batch
          anchored      \* history: the batches anchored, in order

ledgerVars == <<boxes, counter, lastHash, merkleRoot, rows, generator, logged, anchored>>

ASSUME EventAssumption ==
    IsFiniteSet(Event) /\ Event = 1 .. Cardinality(Event) /\ Size \subseteq Nat
-----------------------------------------------------------------------------
Hash(left, right) == <<left, right>>
Leaf(e) == <<e>>

(* The next level: an element without a right neighbour is paired with     *)
(* itself.                                                                 *)
NextLevel(level) == [i \in 1 .. (Len(level) + 1) \div 2 |->
    Hash(level[2 * i - 1], IF 2 * i <= Len(level) THEN level[2 * i] ELSE level[2 * i - 1])]

(* The levels that _build_tree may append, one on the other.               *)
Levels(leaves) ==
    LET level[k \in 0 .. Len(leaves)] == IF k = 0 THEN leaves ELSE NextLevel(level[k - 1])
    IN  level

(* It stops with the first that has a single element, the root.            *)
Height(leaves) ==
    CHOOSE h \in 0 .. Len(leaves) :
        /\ Len(Levels(leaves)[h]) = 1
        /\ \A k \in 0 .. h - 1 : Len(Levels(leaves)[k]) # 1

Tree(leaves) == [k \in 1 .. Height(leaves) + 1 |-> Levels(leaves)[k - 1]]
Root(leaves) == Levels(leaves)[Height(leaves)][1]

(* Positions count from 0 as in the code, where the sibling is index ^ 1;  *)
(* Path[k] is the position of a leaf's ancestor on the k-th level.         *)
Path(tree, leaf) ==
    LET index[k \in 0 .. Len(tree)] == IF k = 0 THEN leaf ELSE index[k - 1] \div 2
    IN  index
Sibling(i) == IF i % 2 = 0 THEN i + 1 ELSE i - 1

(* get_proof: the steps for the levels below the root; the code leaves out *)
(* that of a level where the sibling is missing.                           *)
NoStep == [position |-> "none"]
Step(level, i) ==
    IF Sibling(i) >= Len(level) THEN NoStep
    ELSE [position |-> IF Sibling(i) < i THEN "left" ELSE "right", hash |-> level[Sibling(i) + 1]]
GetProof(tree, leaf) == [k \in 1 .. Len(tree) - 1 |-> Step(tree[k], Path(tree, leaf)[k - 1])]

Climbed(hash, step) ==
    CASE step.position = "left" -> Hash(step.hash, hash)
      [] step.position = "right" -> Hash(hash, step.hash)
      [] OTHER -> hash
Climb(leaf, proof) ==
    LET hash[k \in 0 .. Len(proof)] == IF k = 0 THEN leaf ELSE Climbed(hash[k - 1], proof[k])
    IN  hash
VerifyProof(leaf, proof, root) == root = Climb(leaf, proof)[Len(proof)]

(* A node on the way from a leaf to the root without a sibling.            *)
Alone(tree, leaf) ==
    \E k \in 1 .. Len(tree) - 1 : Sibling(Path(tree, leaf)[k - 1]) >= Len(tree[k])
-----------------------------------------------------------------------------
NoHash == <<0>>
NoLink == [known |-> FALSE, previous |-> NoHash]

LedgerInit ==
    /\ boxes = [h \in LogEntry |-> NoLink]
    /\ counter = 0 /\ lastHash = NoHash /\ merkleRoot = NoHash
    /\ rows = {}
    /\ generator = [g \in Generator |-> [phase |-> "idle", ids |-> << >>, events |-> << >>]]
    /\ logged = << >> /\ anchored = << >>

(* log_event: the box of the hash is written over if it is there.          *)
LogEvent(h) ==
    /\ Len(logged) < Cardinality(LogEntry)
    /\ boxes' = [boxes EXCEPT ![h] = [known |-> TRUE, previous |-> lastHash]]
    /\ lastHash' = <<h>>
    /\ counter' = counter + 1
    /\ logged' = Append(logged, h)
    /\ UNCHANGED <<merkleRoot, rows, generator, anchored>>

(* What a request asks for: the first n events, and unknown ids beyond.    *)
Asked == {[k \in 1 .. n |-> k] : n \in Size}

(* The events of those ids, in their order; the unknown ids come last.     *)
EventsOf(ids) == [k \in {i \in DOMAIN ids : ids[i] \in Event} |-> ids[k]]

(* generate_merkle_root gets the events, leaving out unknown ids; without  *)
(* any the tree has no root and the request fails.                         *)
Collect(g, ids) ==
    /\ generator[g].phase = "idle"
    /\ generator' = [generator EXCEPT ![g] =
           [phase |-> IF EventsOf(ids) = << >> THEN "failed" ELSE "collected",
            ids |-> ids, events |-> EventsOf(ids)]]
    /\ UNCHANGED <<boxes, counter, lastHash, merkleRoot, rows, logged, anchored>>

Leaves(events) == [i \in 1 .. Len(events) |-> Leaf(events[i])]

(* batch_log_events of the contract.                                       *)
BatchLogEvents(events) ==
    /\ merkleRoot' = Root(Leaves(events))
    /\ counter' = counter + Len(events)
    /\ lastHash' = Leaf(Last(events))
    /\ logged' = << >>
    /\ anchored' = Append(anchored, events)
    /\ UNCHANGED <<boxes, rows>>

(* The call of the chain returns, or raises after it took effect.          *)
Anchor(g) ==
    /\ generator[g].phase = "collected"
    /\ BatchLogEvents(generator[g].events)
    /\ \E phase \in {"anchored", "failed"} :
          generator' = [generator EXCEPT ![g].phase = phase]

(* It raises and takes no effect.                                          *)
AnchorFails(g) ==
    /\ generator[g].phase = "collected"
    /\ generator' = [generator EXCEPT ![g].phase = "failed"]
    /\ UNCHANGED <<boxes, counter, lastHash, merkleRoot, rows, logged, anchored>>

(* Fault: the row is committed before the chain is called.                 *)
CommitRootFirst(g) ==
    /\ generator[g].phase \in {"collected", "anchored"}
    /\ \A r \in rows : r.root # Root(Leaves(generator[g].events))
    /\ rows' = rows \union {[ids |-> generator[g].ids, events |-> generator[g].events,
                             root |-> Root(Leaves(generator[g].events))]}
    /\ generator' = [generator EXCEPT ![g].phase = "done"]
    /\ UNCHANGED <<boxes, counter, lastHash, merkleRoot, logged, anchored>>

(* The row of the root, with the number of events found and the first and  *)
(* the last id asked for.                                                  *)
CommitRoot(g) ==
    /\ generator[g].phase = "anchored"
    /\ \A r \in rows : r.root # Root(Leaves(generator[g].events))
    /\ rows' = rows \union {[ids |-> generator[g].ids, events |-> generator[g].events,
                             root |-> Root(Leaves(generator[g].events))]}
    /\ generator' = [generator EXCEPT ![g].phase = "done"]
    /\ UNCHANGED <<boxes, counter, lastHash, merkleRoot, logged, anchored>>

(* root_hash is unique; or the database fails, or the process ends.        *)
CommitRootFails(g) ==
    /\ generator[g].phase = "anchored"
    /\ generator' = [generator EXCEPT ![g].phase = "failed"]
    /\ UNCHANGED <<boxes, counter, lastHash, merkleRoot, rows, logged, anchored>>

LedgerNext ==
    \/ \E h \in LogEntry : LogEvent(h)
    \/ \E g \in Generator : \/ \E ids \in Asked : Collect(g, ids)
                            \/ Anchor(g) \/ AnchorFails(g)
                            \/ CommitRoot(g) \/ CommitRootFails(g)
-----------------------------------------------------------------------------
LedgerTypeOK ==
    /\ boxes \in [LogEntry -> [known : BOOLEAN, previous : {NoHash} \union
                               {<<h>> : h \in LogEntry} \union {Leaf(e) : e \in Event}]]
    /\ counter \in Nat
    /\ \A g \in Generator : generator[g].phase \in
          {"idle", "collected", "anchored", "done", "failed"}

(* Every row was anchored, also when requests raced and failed; and what   *)
(* the contract last anchored has its row, is about to, or its request     *)
(* failed after the anchor.                                                *)
RowsAnchored ==
    /\ \A r \in rows : \E i \in DOMAIN anchored : anchored[i] = r.events
    /\ anchored # << >> =>
          /\ merkleRoot = Root(Leaves(Last(anchored)))
          /\ \/ \E r \in rows : r.root = merkleRoot
             \/ \E g \in Generator : /\ generator[g].phase \in {"anchored", "failed"}
                                     /\ generator[g].events = Last(anchored)

(* The proof of an event of a row verifies against its root, unless a node *)
(* on the way up has no sibling; and it proves no other event.             *)
ProofsOfRows ==
    \A r \in rows : \A tree \in {Tree(Leaves(r.events))} :
        \A i \in DOMAIN r.events : \A e \in Event :
            VerifyProof(Leaf(e), GetProof(tree, i - 1), r.root)
                <=> e = r.events[i] /\ ~Alone(tree, i - 1)

(* Hashes that were logged once each since the last batch: from the last   *)
(* hash the links lead through all of them, back to the batch.             *)
LinksLeadBack ==
    IsInjective(logged) =>
        \A i \in DOMAIN logged :
            boxes[logged[i]] = [known |-> TRUE, previous |->
                IF i > 1 THEN <<logged[i - 1]>>
                ELSE IF anchored = << >> THEN NoHash ELSE Leaf(Last(Last(anchored)))]

LedgerSafe == LedgerTypeOK /\ RowsAnchored /\ LinksLeadBack
=============================================================================

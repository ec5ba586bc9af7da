---------------------------- MODULE ConsentCache ----------------------------
(***************************************************************************)
(* CacheService and the cached decorator of api/cache/__init__.py, for the *)
(* entries that show one consent: the consent, its verification and a page *)
(* of its principal's consents.  A fill awaits between reading the cache,  *)
(* computing the value and storing it; invalidate_consent deletes by three *)
(* patterns, each a KEYS and a DEL on Redis.                               *)
(*                                                                         *)
(* External: Redis, whose commands are atomic, and the callers: readers    *)
(* through cached, and a writer that invalidates after its commit.         *)
(***************************************************************************)
EXTENDS Naturals

CONSTANTS Reader,       \* concurrent calls of cached functions
          MaxVersion    \* bound on the writes to the consent

ASSUME CacheAssumption == MaxVersion \in Nat \ {0}

VARIABLES redis,      \* _connected: Redis, or the local dictionary
          version,    \* the committed version of the consent
          cached,     \* cached[k]: the version an entry shows, or NoEntry
          reader,     \* reader[f]: a fill between its awaits
          writer,     \* the invalidation: patterns left and keys listed
          late,       \* history: entries stored by a fill that an
                      \*    invalidation has overtaken
          kept        \* history: entries an invalidation failed to delete

cacheVars == <<redis, version, cached, reader, writer, late, kept>>

Key == {"consent", "verification", "principal_consents"}
NoEntry == 0
Version == 1..MaxVersion
NoFill == [pc |-> "idle", key |-> "none", value |-> NoEntry, over |-> FALSE]
NoWriter == [pc |-> "idle", left |-> {}, listed |-> {}]

CacheTypeOK ==
    /\ redis \in BOOLEAN /\ version \in Version
    /\ cached \in [Key -> Version \union {NoEntry}]
    /\ reader \in [Reader -> [pc : {"idle", "missed", "computed"}, key : Key \union {"none"},
                              value : Version \union {NoEntry}, over : BOOLEAN]]
    /\ writer \in [pc : {"idle", "invalidating"}, left : SUBSET Key, listed : {{}}]
                    \union [pc : {"listed"}, left : SUBSET Key, listed : SUBSET Key]
    /\ late \subseteq Key /\ kept \subseteq Key

CacheInit ==
    /\ redis \in BOOLEAN /\ version = 1
    /\ cached = [k \in Key |-> NoEntry]
    /\ reader = [f \in Reader |-> NoFill]
    /\ writer = NoWriter /\ late = {} /\ kept = {}

(* A hit answers and changes nothing; a miss, or a get that fails, goes on. *)
Miss(f, k) ==
    /\ reader[f].pc = "idle"
    /\ reader' = [reader EXCEPT ![f] = [NoFill EXCEPT !.pc = "missed", !.key = k]]
    /\ UNCHANGED <<redis, version, cached, writer, late, kept>>

Compute(f) ==
    /\ reader[f].pc = "missed"
    /\ reader' = [reader EXCEPT ![f].pc = "computed", ![f].value = version]
    /\ UNCHANGED <<redis, version, cached, writer, late, kept>>

Store(f) ==
    /\ reader[f].pc = "computed"
    /\ cached' = [cached EXCEPT ![reader[f].key] = reader[f].value]
    /\ late' = IF reader[f].over THEN late \union {reader[f].key} ELSE late \ {reader[f].key}
    /\ kept' = kept \ {reader[f].key}
    /\ reader' = [reader EXCEPT ![f] = NoFill]
    /\ UNCHANGED <<redis, version, writer>>

(* The function raises, or SETEX does, which is only logged. *)
NotStored(f) ==
    /\ reader[f].pc # "idle"
    /\ reader' = [reader EXCEPT ![f] = NoFill]
    /\ UNCHANGED <<redis, version, cached, writer, late, kept>>

Expires(k) ==
    /\ cached[k] # NoEntry
    /\ cached' = [cached EXCEPT ![k] = NoEntry]
    /\ late' = late \ {k} /\ kept' = kept \ {k}
    /\ UNCHANGED <<redis, version, reader, writer>>

(* The writer commits; every fill that has computed is overtaken.          *)
Write ==
    /\ writer = NoWriter /\ version < MaxVersion
    /\ version' = version + 1
    /\ writer' = [NoWriter EXCEPT !.pc = "invalidating", !.left = Key]
    /\ reader' = [f \in Reader |-> [reader[f] EXCEPT !.over = @ \/ reader[f].pc = "computed"]]
    /\ UNCHANGED <<redis, cached, late, kept>>

(* Fault: the pattern of the verification is forgotten. *)
MatchesConsentOnly(k) == {"consent"} \intersect {k}

(* What the pattern of a key matches: principal:*:consents:* does not      *)
(* match consent:principal:*, the key that principal_consents builds.      *)
Matches(k) == {"consent", "verification"} \intersect {k}

Present(keys) == {k \in keys : cached[k] # NoEntry}

Emptied(keys) == [k \in Key |-> IF k \in keys THEN NoEntry ELSE cached[k]]

(* The local dictionary is searched and emptied without an await. *)
DeletePatternLocal(k) ==
    /\ ~redis /\ writer.pc = "invalidating" /\ k \in writer.left
    /\ cached' = Emptied(Matches(k))
    /\ late' = late \ Matches(k)
    /\ writer' = [writer EXCEPT !.left = @ \ {k}]
    /\ UNCHANGED <<redis, version, reader, kept>>

ListKeys(k) ==
    /\ redis /\ writer.pc = "invalidating" /\ k \in writer.left
    /\ writer' = [pc |-> "listed", left |-> writer.left \ {k}, listed |-> Present(Matches(k))]
    /\ UNCHANGED <<redis, version, cached, reader, late, kept>>

DeleteListed ==
    /\ writer.pc = "listed"
    /\ cached' = Emptied(writer.listed)
    /\ late' = late \ writer.listed /\ kept' = kept \ writer.listed
    /\ writer' = [writer EXCEPT !.pc = "invalidating", !.listed = {}]
    /\ UNCHANGED <<redis, version, reader>>

(* Fault: the keys of the failed pattern are still listed for the next. *)
DeletePatternFailsKeeps ==
    /\ writer.pc = "listed"
    /\ kept' = kept \union writer.listed
    /\ writer' = [writer EXCEPT !.pc = "invalidating"]
    /\ UNCHANGED <<redis, version, cached, reader, late>>

(* A Redis error ends the pattern, is logged and counted, and nothing      *)
(* tries again.                                                            *)
DeletePatternFails ==
    /\ writer.pc = "listed"
    /\ kept' = kept \union writer.listed
    /\ writer' = [writer EXCEPT !.pc = "invalidating", !.listed = {}]
    /\ UNCHANGED <<redis, version, cached, reader, late>>

Invalidated ==
    /\ writer.pc = "invalidating" /\ writer.left = {}
    /\ writer' = NoWriter
    /\ UNCHANGED <<redis, version, cached, reader, late, kept>>

CacheNext ==
    \/ Write \/ DeleteListed \/ DeletePatternFails \/ Invalidated
    \/ \E k \in Key : Expires(k) \/ DeletePatternLocal(k) \/ ListKeys(k)
    \/ \E f \in Reader : Compute(f) \/ Store(f) \/ NotStored(f) \/ \E k \in Key : Miss(f, k)

-----------------------------------------------------------------------------
Stale(k) == cached[k] \notin {NoEntry, version}

(* Once invalidate_consent has returned, the consent and its verification  *)
(* are not shown as they were, except by a fill that had computed before   *)
(* the write, or when a DEL failed.                                        *)
FreshAfterInvalidate ==
    writer = NoWriter => \A k \in {"consent", "verification"} \ (late \union kept) : ~Stale(k)
=============================================================================

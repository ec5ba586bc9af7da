------------------------------ MODULE WebAuthn ------------------------------
(***************************************************************************)
(* WebAuthnService of api/webauthn/__init__.py behind the handlers of      *)
(* api/features.py.  No handler awaits, so each is one step; what makes it *)
(* hard is that a user has one pending challenge for registering and for   *)
(* signing in alike, and that users and credentials point to shared        *)
(* WebAuthnUser objects: a registration replaces the user's object, and    *)
(* two registrations may end in one object.                                *)
(***************************************************************************)
EXTENDS Naturals, FiniteSets

CONSTANTS User, Credential,
          MaxObject,    \* bound: WebAuthnUser objects referred to at once
          MaxChallenge, \* bound: challenges issued, numbered in that order
          MaxCount      \* bound: what an authenticator's counter reaches

ASSUME WebAuthnAssumption == MaxObject \in Nat /\ MaxChallenge \in Nat /\ MaxCount \in Nat

VARIABLES challenges,   \* _challenges: the pending challenge of a user
          users,        \* _users: the object of a user
          credentials,  \* _credentials: the object of a credential
          object,       \* object[o]: user, credential_id and sign_count
          issued,       \* challenges so far
          accepted,     \* history: times a challenge was accepted
          lastCount,    \* history: last counter accepted of a credential
          rewound,      \* history: credentials accepted with an old counter
          shared        \* history: credentials whose object had another one

webauthnVars ==
    <<challenges, users, credentials, object, issued, accepted, lastCount, rewound, shared>>

Object == 1..MaxObject
None == 0
NoUser == "no user"
NoCredential == "no credential"
Pending == [value : 1..MaxChallenge, fresh : BOOLEAN]
NoChallenge == [value |-> None, fresh |-> FALSE]
Blank == [user |-> NoUser, credential |-> NoCredential, count |-> 0]

WebAuthnTypeOK ==
    /\ challenges \in [User -> Pending \union {NoChallenge}]
    /\ users \in [User -> Object \union {None}]
    /\ credentials \in [Credential -> Object \union {None}]
    /\ object \in [Object -> [user : User \union {NoUser}, count : 0..MaxCount,
                              credential : Credential \union {NoCredential}]]
    /\ issued \in 0..MaxChallenge
    /\ accepted \in [1..MaxChallenge -> 0..2]
    /\ lastCount \in [Credential -> 0..MaxCount]
    /\ rewound \subseteq Credential /\ shared \subseteq Credential

WebAuthnInit ==
    /\ challenges = [u \in User |-> NoChallenge]
    /\ users = [u \in User |-> None]
    /\ credentials = [c \in Credential |-> None]
    /\ object = [o \in Object |-> Blank]
    /\ issued = 0
    /\ accepted = [n \in 1..MaxChallenge |-> 0]
    /\ lastCount = [c \in Credential |-> 0]
    /\ rewound = {} /\ shared = {}

CredentialsOf(o) == {c \in Credential : credentials[c] = o}
Unreferenced == {o \in Object : CredentialsOf(o) = {} /\ \A u \in User : users[u] # o}

(* generate_challenge and store_challenge: over what the user had pending. *)
StoreChallenge(u) ==
    /\ issued < MaxChallenge
    /\ issued' = issued + 1
    /\ challenges' = [challenges EXCEPT ![u] = [value |-> issued', fresh |-> TRUE]]

CreateRegistrationOptions(u) == StoreChallenge(u)
CreateAuthenticationOptions(u) == StoreChallenge(u)

(* Five minutes pass. *)
ChallengeExpires(u) ==
    /\ challenges[u].fresh
    /\ challenges' = [challenges EXCEPT ![u].fresh = FALSE]
    /\ UNCHANGED <<users, credentials, object, issued, accepted, lastCount, rewound, shared>>

(* register/start: register_user with a new object, then the options. *)
RegisterStart(u) ==
    /\ \E o \in Unreferenced :
          /\ \A p \in Unreferenced : o <= p
          /\ users' = [users EXCEPT ![u] = o]
          /\ object' = [object EXCEPT ![o] = [Blank EXCEPT !.user = u]]
    /\ CreateRegistrationOptions(u)
    /\ UNCHANGED <<credentials, accepted, lastCount, rewound, shared>>

(* authenticate/start for a user, registered or not. *)
AuthenticateStart(u) ==
    /\ CreateAuthenticationOptions(u)
    /\ UNCHANGED <<users, credentials, object, accepted, lastCount, rewound, shared>>

(* verify_challenge: whether it accepts, and what it leaves. *)
Accepts(u, n) == challenges[u] = [value |-> n, fresh |-> TRUE]

(* Fault: an accepted challenge stays. *)
AfterVerifyKept(u, n) ==
    IF ~challenges[u].fresh THEN [challenges EXCEPT ![u] = NoChallenge] ELSE challenges

AfterVerify(u, n) ==
    IF challenges[u].value = n \/ ~challenges[u].fresh
    THEN [challenges EXCEPT ![u] = NoChallenge] ELSE challenges

VerifyChallenge(u, n) ==
    /\ challenges[u] # NoChallenge
    /\ challenges' = AfterVerify(u, n)
    /\ accepted' = [accepted EXCEPT ![n] = IF Accepts(u, n) /\ @ < 2 THEN @ + 1 ELSE @]

(* register/finish.  With the challenge gone, the rest may be incomplete,  *)
(* and the success of a user that never started registering stores nothing. *)
RegisterFinish(u, n, c, complete) ==
    LET o == users[u]
        sharing == {d \in CredentialsOf(o) : d # c}
    IN
    /\ VerifyChallenge(u, n)
    /\ IF Accepts(u, n) /\ complete /\ o # None
       THEN /\ object' = [object EXCEPT ![o].credential = c, ![o].count = 0]
            /\ credentials' = [credentials EXCEPT ![c] = o]
            /\ lastCount' = [lastCount EXCEPT ![c] = 0]
            /\ shared' = IF sharing = {} THEN shared \ {c} ELSE shared \union sharing \union {c}
            /\ rewound' = rewound \ {c}
       ELSE UNCHANGED <<object, credentials, lastCount, shared, rewound>>
    /\ UNCHANGED <<users, issued>>

Cloned(o, count) == count <= object[o].count /\ object[o].count # 0

(* authenticate/finish. *)
AuthenticateFinish(c, n, count, complete) ==
    LET o == credentials[c] IN
    /\ o # None
    /\ VerifyChallenge(object[o].user, n)
    /\ IF Accepts(object[o].user, n) /\ complete /\ ~Cloned(o, count)
       THEN /\ object' = [object EXCEPT ![o].count = count]
            /\ lastCount' = [lastCount EXCEPT ![c] = count]
            /\ rewound' = IF lastCount[c] # 0 /\ count <= lastCount[c] THEN rewound \union {c}
                          ELSE rewound
       ELSE UNCHANGED <<object, lastCount, rewound>>
    /\ UNCHANGED <<users, credentials, issued, shared>>

(* remove_credential clears the object, whichever credential it names. *)
RemoveCredential(c) ==
    LET o == credentials[c] IN
    /\ o # None
    /\ object' = [object EXCEPT ![o].credential = NoCredential, ![o].count = 0]
    /\ credentials' = [credentials EXCEPT ![c] = None]
    /\ UNCHANGED <<challenges, users, issued, accepted, lastCount, rewound, shared>>

WebAuthnNext ==
    \/ \E u \in User : ChallengeExpires(u) \/ RegisterStart(u) \/ AuthenticateStart(u)
    \/ \E u \in User, n \in 1..issued, c \in Credential, complete \in BOOLEAN :
          RegisterFinish(u, n, c, complete)
    \/ \E c \in Credential, n \in 1..issued, count \in 0..MaxCount, complete \in BOOLEAN :
          AuthenticateFinish(c, n, count, complete)
    \/ \E c \in Credential : RemoveCredential(c)

WebAuthnSpec == WebAuthnInit /\ [][WebAuthnNext]_webauthnVars
-----------------------------------------------------------------------------
(* A challenge lets one call through, whether registering or signing in,   *)
(* and is then pending for nobody.                                         *)
ChallengeOnce ==
    \A n \in 1..MaxChallenge :
        /\ accepted[n] <= 1
        /\ accepted[n] = 1 => \A u \in User : challenges[u].value # n

(* The counters accepted of a credential only grow once they are not zero, *)
(* so a cloned authenticator is found, unless its object ever carried a    *)
(* second credential: registering or removing that one sets the counter of *)
(* both back.                                                              *)
CloneFound == rewound \subseteq shared

(* Signing in with credentials, together. *)
CredentialSafe == WebAuthnTypeOK /\ ChallengeOnce /\ CloneFound
=============================================================================

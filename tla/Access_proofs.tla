---------------------------- MODULE Access_proofs ----------------------------
(***************************************************************************)
(* Who may do what, for any number of users, tenants, events and requests: *)
(* signing in, credentials, billing, and what lets a tenant's requests     *)
(* through.  Each part has an inductive invariant of its own; together     *)
(* they hold of MCAccess, whose steps are steps of one part each.          *)
(***************************************************************************)
EXTENDS MCAccess, FiniteSetTheorems, TLAPS

(***************************************************************************)
(* Signing in and linking.  A link that passed its first lookup, or both,  *)
(* relies on what it saw: that is still so when it inserts, as long as no  *)
(* other link was being checked.                                           *)
(***************************************************************************)
(* What the lookups of a link established; and no other is being checked.  *)
CheckedAlone ==
    \A w \in Worker : Checking(w) =>
        /\ \A v \in Worker \ {w} : ~Checking(v)
        /\ request[w].step \in {"principal", "insert"} => LinksTo(request[w].account) = {}
        /\ request[w].step = "insert" =>
              LinksOf(request[w].principal, ProviderOf[request[w].account]) = {}

LinksUnique ==
    \A r, q \in links :
        r # q => /\ r.account # q.account
                 /\ ~(r.principal = q.principal /\ ProviderOf[r.account] = ProviderOf[q.account])

Alone == overlapped \/ (CheckedAlone /\ LinksUnique)

OAuthInv == OAuthTypeOK /\ StateUsedOnce /\ OnlyWalletsLink /\ Alone

LEMMA OAuthInitially == OAuthInit => OAuthInv
<1> SUFFICES ASSUME OAuthInit PROVE OAuthInv
  OBVIOUS
<1>1. overlapped \in BOOLEAN
  BY Zenon DEF OAuthInit
<1>2. OAuthTypeOK
  BY <1>1 DEF OAuthInit, OAuthTypeOK, Principal
<1>3. StateUsedOnce /\ OnlyWalletsLink
  BY DEF OAuthInit, StateUsedOnce, OnlyWalletsLink
<1>4. Alone
  BY DEF OAuthInit, Alone, CheckedAlone, LinksUnique, Checking, Ready
<1>5. QED
  BY <1>2, <1>3, <1>4 DEF OAuthInv

(* What a request holds at each of its steps. *)
LEMMA RequestShape ==
  ASSUME OAuthTypeOK, NEW w \in Worker
  PROVE  /\ request[w].step = "fetch" => request[w] \in Fetching
         /\ request[w].step = "save" => request[w] \in Saving
         /\ request[w].step \in {"account", "principal", "insert"} => request[w] \in Linking
         /\ request[w].step \in {"count", "delete"} => request[w] \in Unlinking
  BY DEF OAuthTypeOK, Fetching, Saving, Linking, Unlinking, Ready

AnyRequest == Fetching \union Saving \union Linking \union Unlinking \union {Ready}

(* A request moves to a step that looks at no links. *)
LEMMA RequestStep ==
  ASSUME OAuthInv, NEW w \in Worker, NEW next \in AnyRequest,
         next.step \notin {"account", "principal", "insert"},
         Go(w, next), UNCHANGED <<links, overlapped>>
  PROVE  /\ request' \in [Worker -> AnyRequest]
         /\ overlapped' \in BOOLEAN /\ links' \subseteq Link
         /\ OnlyWalletsLink' /\ Alone'
<1>1. request' \in [Worker -> AnyRequest] /\ request' = [request EXCEPT ![w] = next]
  BY DEF OAuthInv, OAuthTypeOK, Go, AnyRequest
<1>2. overlapped' \in BOOLEAN /\ links' \subseteq Link
  BY Zenon DEF OAuthInv, OAuthTypeOK
<1>3. OnlyWalletsLink'
  BY DEF OAuthInv, OnlyWalletsLink
<1>4. \A v \in Worker : Checking(v)' => v # w /\ Checking(v) /\ request'[v] = request[v]
  BY <1>1 DEF Checking, OAuthInv, OAuthTypeOK
<1>5. \A p, a : LinksTo(a)' = LinksTo(a) /\ LinksOf(p, a)' = LinksOf(p, a)
  BY DEF LinksTo, LinksOf, LinkedAccounts
<1>6. CheckedAlone => CheckedAlone'
  BY <1>4, <1>5 DEF CheckedAlone
<1>7. Alone'
  BY <1>6 DEF OAuthInv, Alone, LinksUnique
<1>8. QED
  BY <1>1, <1>2, <1>3, <1>7

(* exchange_code: the state is gone before another callback can see it. *)
LEMMA ExchangeStep ==
  ASSUME OAuthInv, NEW w \in Worker, NEW s \in State, NEW next \in Fetching,
         ExchangeCode(w, s, next), UNCHANGED <<principals, tokens, links, overlapped>>
  PROVE  OAuthInv'
<1>1. /\ states' = [states EXCEPT ![s] = "gone"] /\ states[s] \in {"live", "stale"}
      /\ exchanged' \in [State -> 0..2]
      /\ \A q \in State \ {s} : exchanged'[q] = exchanged[q]
      /\ exchanged'[s] <= 1
  <2>1. exchanged[s] = 0
    BY DEF OAuthInv, OAuthTypeOK, StateUsedOnce, ExchangeCode
  <2>2. QED
    BY <2>1 DEF OAuthInv, OAuthTypeOK, ExchangeCode
<1>2. StateUsedOnce'
  BY <1>1 DEF OAuthInv, OAuthTypeOK, StateUsedOnce
<1>3. next \in AnyRequest /\ next.step = "fetch"
  BY DEF AnyRequest, Fetching
<1>4. /\ request' \in [Worker -> AnyRequest] /\ overlapped' \in BOOLEAN /\ links' \subseteq Link
      /\ OnlyWalletsLink' /\ Alone'
  <2>1. CASE states[s] = "live"
    BY <1>3, <2>1, RequestStep DEF ExchangeCode
  <2>2. CASE states[s] # "live"
    BY <2>2 DEF ExchangeCode, OAuthInv, OAuthTypeOK, AnyRequest, OnlyWalletsLink, Alone,
       CheckedAlone, LinksUnique, Checking, LinksTo, LinksOf, LinkedAccounts
  <2>3. QED
    BY <2>1, <2>2
<1>5. OAuthTypeOK'
  BY <1>1, <1>4, Zenon DEF OAuthInv, OAuthTypeOK, AnyRequest
<1>6. QED
  BY <1>2, <1>4, <1>5 DEF OAuthInv

(* A request that looks at no links is answered, or goes on that way. *)
LEMMA QuietStep ==
  ASSUME OAuthInv, NEW w \in Worker, NEW next \in AnyRequest,
         next.step \notin {"account", "principal", "insert"},
         Go(w, next), tokens' \subseteq principals', principals' \subseteq Principal,
         UNCHANGED <<states, links, exchanged, overlapped>>
  PROVE  OAuthInv'
<1>1. /\ request' \in [Worker -> AnyRequest] /\ overlapped' \in BOOLEAN /\ links' \subseteq Link
      /\ OnlyWalletsLink' /\ Alone'
  BY RequestStep
<1>2. OAuthTypeOK'
  BY <1>1 DEF OAuthInv, OAuthTypeOK, AnyRequest
<1>3. StateUsedOnce'
  BY DEF OAuthInv, StateUsedOnce
<1>4. QED
  BY <1>1, <1>2, <1>3 DEF OAuthInv

LEMMA FetchedStep ==
  ASSUME OAuthInv, NEW w \in Worker, NEW a \in Account, Fetched(w, a)
  PROVE  OAuthInv'
<1>1. request[w] \in Fetching
  BY RequestShape DEF Fetched, OAuthInv
<1>2. CASE request[w].op = "link"
  <2> DEFINE next == [step |-> "account", principal |-> request[w].principal, account |-> a]
  <2>1. next \in Linking
    BY <1>1, <1>2 DEF Fetching, Linking
  <2>2. request' = [request EXCEPT ![w] = next]
    BY <1>2 DEF Fetched, Go
  <2>3. OAuthTypeOK'
    <3>1. request' \in [Worker -> AnyRequest]
      BY <2>1, <2>2 DEF OAuthInv, OAuthTypeOK, AnyRequest
    <3>2. overlapped' \in BOOLEAN
      BY Zenon DEF Fetched
    <3>3. QED
      BY <3>1, <3>2 DEF Fetched, OAuthInv, OAuthTypeOK, AnyRequest
  <2>4. StateUsedOnce' /\ OnlyWalletsLink'
    BY DEF Fetched, OAuthInv, StateUsedOnce, OnlyWalletsLink
  <2>5. overlapped' <=> (overlapped \/ \E v \in Worker \ {w} : Checking(v))
    BY <1>2, Zenon DEF Fetched
  <2>6. ASSUME ~overlapped' PROVE CheckedAlone' /\ LinksUnique'
    <3>1. /\ \A v \in Worker \ {w} : ~Checking(v)
          /\ LinksUnique
      BY <2>5, <2>6 DEF OAuthInv, Alone
    <3>2. \A v \in Worker : Checking(v)' => v = w
      BY <2>2, <3>1 DEF Checking, OAuthInv, OAuthTypeOK
    <3>3. request'[w].step = "account"
      BY <2>2 DEF OAuthInv, OAuthTypeOK
    <3>4. QED
      BY <3>1, <3>2, <3>3 DEF CheckedAlone, LinksUnique, Fetched
  <2>7. QED
    BY <2>3, <2>4, <2>6 DEF OAuthInv, Alone
<1>3. CASE request[w].op # "link"
  <2> DEFINE next == [step |-> "save", op |-> request[w].op, account |-> a]
  <2>1. next \in AnyRequest /\ next.step = "save"
    BY <1>1, <1>3 DEF Fetching, AnyRequest, Saving
  <2>2. Go(w, next) /\ UNCHANGED <<states, principals, tokens, links, exchanged>>
    BY <1>3 DEF Fetched, Go
  <2>3. overlapped' = overlapped
    BY <1>3, Zenon DEF Fetched, OAuthInv, OAuthTypeOK
  <2>4. tokens' \subseteq principals' /\ principals' \subseteq Principal
    BY <2>2 DEF OAuthInv, OAuthTypeOK
  <2> HIDE DEF next
  <2>5. QED
    BY <2>1, <2>2, <2>3, <2>4, QuietStep
<1>4. QED
  BY <1>2, <1>3

(* The two lookups of link: what they find stays so, if nobody else links. *)
LEMMA LookupStep ==
  ASSUME OAuthInv, NEW w \in Worker, CheckAccount(w) \/ CheckPrincipal(w)
  PROVE  OAuthInv'
<1>1. /\ Checking(w) /\ request[w] \in Linking
      /\ UNCHANGED <<states, principals, tokens, links, exchanged, overlapped>>
  BY RequestShape DEF CheckAccount, CheckPrincipal, Checking, OAuthInv
<1>2. CASE Answer(w)
  <2>1. Go(w, Ready) /\ Ready \in AnyRequest /\ Ready.step = "none"
    BY <1>2 DEF Go, Answer, Ready, AnyRequest
  <2>2. tokens' \subseteq principals' /\ principals' \subseteq Principal
    BY <1>1 DEF OAuthInv, OAuthTypeOK
  <2>3. QED
    BY <1>1, <2>1, <2>2, QuietStep
<1>3. CASE ~Answer(w)
  <2>1. PICK step \in {"principal", "insert"} :
           /\ request' = [request EXCEPT ![w] = [request[w] EXCEPT !.step = step]]
           /\ step = "principal" => LinksTo(request[w].account) = {}
           /\ step = "insert" =>
                 /\ request[w].step = "principal"
                 /\ LinksOf(request[w].principal, ProviderOf[request[w].account]) = {}
    BY <1>3 DEF CheckAccount, CheckPrincipal, Go
  <2>2. [request[w] EXCEPT !.step = step] \in Linking
    BY <1>1, <2>1 DEF Linking
  <2>3. OAuthTypeOK'
    BY <1>1, <2>1, <2>2 DEF OAuthInv, OAuthTypeOK
  <2>4. StateUsedOnce' /\ OnlyWalletsLink'
    BY <1>1 DEF OAuthInv, StateUsedOnce, OnlyWalletsLink
  <2>5. ASSUME CheckedAlone PROVE CheckedAlone'
    <3>1. \A v \in Worker \ {w} : ~Checking(v)'
      BY <1>1, <2>1, <2>5 DEF CheckedAlone, Checking, OAuthInv, OAuthTypeOK
    <3>2. /\ request'[w].step = step /\ request'[w].account = request[w].account
          /\ request'[w].principal = request[w].principal
      BY <1>1, <2>1 DEF OAuthInv, OAuthTypeOK, Linking
    <3>3. \A p, a : LinksTo(a)' = LinksTo(a) /\ LinksOf(p, a)' = LinksOf(p, a)
      BY <1>1 DEF LinksTo, LinksOf, LinkedAccounts
    <3>4. LinksTo(request[w].account) = {}
      BY <1>1, <2>1, <2>5 DEF CheckedAlone
    <3>5. QED
      BY <2>1, <3>1, <3>2, <3>3, <3>4 DEF CheckedAlone
  <2>6. QED
    BY <1>1, <2>3, <2>4, <2>5 DEF OAuthInv, Alone, LinksUnique
<1>4. QED
  BY <1>2, <1>3

LEMMA InsertLinkStep ==
  ASSUME OAuthInv, NEW w \in Worker, InsertLink(w)
  PROVE  OAuthInv'
<1>1. request[w] \in Linking /\ request[w].step = "insert" /\ Checking(w)
  BY RequestShape DEF InsertLink, OAuthInv, Checking
<1>2. PICK n \in 1..MaxRow :
         links' = links \union {[row |-> n, principal |-> request[w].principal,
                                 account |-> request[w].account]}
  BY DEF InsertLink
<1> DEFINE new == [row |-> n, principal |-> request[w].principal, account |-> request[w].account]
<1>3. new \in Link /\ new.principal \in Wallet
  BY <1>1 DEF Link, Linking, Principal
<1>4. request' = [request EXCEPT ![w] = Ready]
      /\ UNCHANGED <<states, principals, tokens, exchanged, overlapped>>
  BY DEF InsertLink, Answer
<1>5. OAuthTypeOK'
  BY <1>2, <1>3, <1>4 DEF OAuthInv, OAuthTypeOK
<1>6. StateUsedOnce' /\ OnlyWalletsLink'
  BY <1>2, <1>3, <1>4 DEF OAuthInv, StateUsedOnce, OnlyWalletsLink
<1>7. ASSUME CheckedAlone, LinksUnique PROVE CheckedAlone' /\ LinksUnique'
  <2>1. \A v \in Worker : ~Checking(v)'
    BY <1>1, <1>4, <1>7 DEF CheckedAlone, Checking, OAuthInv, OAuthTypeOK, Ready
  <2>2. /\ LinksTo(request[w].account) = {}
        /\ LinksOf(request[w].principal, ProviderOf[request[w].account]) = {}
    BY <1>1, <1>7 DEF CheckedAlone
  <2>3. \A r \in links :
           /\ r.account # new.account
           /\ ~(r.principal = new.principal /\ ProviderOf[r.account] = ProviderOf[new.account])
    BY <2>2 DEF LinksTo, LinksOf, LinkedAccounts
  <2> HIDE DEF new
  <2>4. links' = links \union {new}
    BY <1>2 DEF new
  <2>5. QED
    BY <1>7, <2>1, <2>3, <2>4 DEF CheckedAlone, LinksUnique
<1>8. QED
  BY <1>4, <1>5, <1>6, <1>7 DEF OAuthInv, Alone

LEMMA UnlinkDeleteStep ==
  ASSUME OAuthInv, NEW w \in Worker, UnlinkDelete(w)
  PROVE  OAuthInv'
<1>1. /\ links' \subseteq links /\ request' = [request EXCEPT ![w] = Ready]
      /\ UNCHANGED <<states, principals, tokens, exchanged, overlapped>>
  BY DEF UnlinkDelete, Answer
<1>2. OAuthTypeOK'
  BY <1>1 DEF OAuthInv, OAuthTypeOK
<1>3. StateUsedOnce' /\ OnlyWalletsLink'
  BY <1>1 DEF OAuthInv, StateUsedOnce, OnlyWalletsLink
<1>4. \A v \in Worker : Checking(v)' => Checking(v) /\ request'[v] = request[v]
  BY <1>1 DEF Checking, OAuthInv, OAuthTypeOK, Ready
<1>5. \A p, a : LinksTo(a)' \subseteq LinksTo(a) /\ LinksOf(p, a)' \subseteq LinksOf(p, a)
  BY <1>1 DEF LinksTo, LinksOf, LinkedAccounts
<1>6. CheckedAlone /\ LinksUnique => CheckedAlone' /\ LinksUnique'
  BY <1>1, <1>4, <1>5 DEF CheckedAlone, LinksUnique
<1>7. QED
  BY <1>1, <1>2, <1>3, <1>6 DEF OAuthInv, Alone

LEMMA OAuthStep == OAuthInv /\ [OAuthNext]_oauthVars => OAuthInv'
<1> SUFFICES ASSUME OAuthInv, [OAuthNext]_oauthVars PROVE OAuthInv'
  OBVIOUS
<1> Ready \in AnyRequest /\ Ready.step = "none"
  BY DEF Ready, AnyRequest
<1>1. ASSUME NEW provider \in Provider, NEW s \in State, Authorize(provider, s) PROVE OAuthInv'
  <2>1. /\ states' = [states EXCEPT ![s] = "live"] /\ states[s] = "none"
        /\ UNCHANGED <<principals, tokens, links, request, exchanged, overlapped>>
    BY <1>1 DEF Authorize, AuthorizationUrl
  <2>2. QED
    BY <2>1 DEF OAuthInv, OAuthTypeOK, StateUsedOnce, OnlyWalletsLink, Alone, CheckedAlone,
       LinksUnique, Checking, LinksTo, LinksOf, LinkedAccounts
<1>2. ASSUME NEW s \in State, StateAges(s) PROVE OAuthInv'
  BY <1>2 DEF StateAges, OAuthInv, OAuthTypeOK, StateUsedOnce, OnlyWalletsLink, Alone, CheckedAlone,
     LinksUnique, Checking, LinksTo, LinksOf, LinkedAccounts
<1>3. ASSUME NEW w \in Worker, NEW s \in State, Callback(w, s) \/ CallbackBrowser(w, s)
      PROVE  OAuthInv'
  <2>1. PICK next \in Fetching : ExchangeCode(w, s, next)
    BY <1>3 DEF Callback, CallbackBrowser, Fetching
  <2>2. QED
    BY <1>3, <2>1, ExchangeStep DEF Callback, CallbackBrowser
<1>4. ASSUME NEW w \in Worker, NEW s \in State, NEW p \in Principal, LinkAccount(w, s, p)
      PROVE  OAuthInv'
  <2>1. PICK next \in Fetching : ExchangeCode(w, s, next)
    BY <1>4 DEF LinkAccount, Fetching, OwnsWallet
  <2>2. QED
    BY <1>4, <2>1, ExchangeStep DEF LinkAccount
<1>5. ASSUME NEW w \in Worker, FetchFails(w) PROVE OAuthInv'
  BY <1>5, QuietStep DEF FetchFails, Answer, Go, OAuthInv, OAuthTypeOK
<1>6. ASSUME NEW w \in Worker, CallbackSave(w) \/ BrowserSave(w) PROVE OAuthInv'
  <2>1. /\ Go(w, Ready) /\ UNCHANGED <<states, links, exchanged, overlapped>>
        /\ request[w].step = "save"
    BY <1>6 DEF CallbackSave, BrowserSave, SavePrincipal, Answer, Go
  <2>2. request[w] \in Saving
    BY <2>1, RequestShape DEF OAuthInv
  <2>3. request[w].account \in Account
    BY <2>2 DEF Saving
  <2>4. tokens' \subseteq principals' /\ principals' \subseteq Principal
    BY <1>6, <2>3 DEF CallbackSave, BrowserSave, SavePrincipal, TokensWith, OAuthInv, OAuthTypeOK,
       Principal
  <2>5. QED
    BY <2>1, <2>4, QuietStep
<1>7. ASSUME NEW w \in Worker, UnlinkCount(w) PROVE OAuthInv'
  <2>1. request[w] \in Unlinking
    BY <1>7, RequestShape DEF UnlinkCount, OAuthInv
  <2>2. PICK next \in AnyRequest : Go(w, next) /\ next.step \in {"none", "delete"}
    <3>1. CASE Answer(w)
      BY <3>1 DEF Answer, Go
    <3>2. CASE ~Answer(w)
      <4>1. [request[w] EXCEPT !.step = "delete"] \in Unlinking
        BY <2>1 DEF Unlinking
      <4>2. [request[w] EXCEPT !.step = "delete"].step = "delete"
        BY <2>1 DEF Unlinking
      <4>3. Go(w, [request[w] EXCEPT !.step = "delete"])
        BY <1>7, <3>2, Zenon DEF UnlinkCount
      <4>4. QED
        BY <4>1, <4>2, <4>3 DEF AnyRequest
    <3>3. QED
      BY <3>1, <3>2
  <2>3. UNCHANGED <<states, principals, tokens, links, exchanged, overlapped>>
    BY <1>7, Zenon DEF UnlinkCount
  <2>4. QED
    BY <2>2, <2>3, QuietStep DEF OAuthInv, OAuthTypeOK
<1>8. ASSUME NEW w \in Worker, NEW p \in Principal, NEW provider \in Provider,
             UnlinkAccount(w, p, provider)
      PROVE  OAuthInv'
  <2>1. PICK r \in LinksOf(p, provider) : Go(w, [step |-> "count", link |-> r])
    BY <1>8, Zenon DEF UnlinkAccount
  <2> DEFINE next == [step |-> "count", link |-> r]
  <2>2. next \in Unlinking /\ next.step = "count"
    BY DEF Unlinking, LinksOf, LinkedAccounts, OAuthInv, OAuthTypeOK
  <2>3. Go(w, next) /\ next \in AnyRequest /\ next.step = "count"
    BY <2>1, <2>2 DEF AnyRequest
  <2>4. UNCHANGED <<states, principals, tokens, links, exchanged, overlapped>>
    BY <1>8, Zenon DEF UnlinkAccount
  <2>5. tokens' \subseteq principals' /\ principals' \subseteq Principal
    BY <2>4 DEF OAuthInv, OAuthTypeOK
  <2> HIDE DEF next
  <2>6. QED
    BY <2>3, <2>4, <2>5, QuietStep
<1>9. CASE UNCHANGED oauthVars
  BY <1>9 DEF oauthVars, OAuthInv, OAuthTypeOK, StateUsedOnce, OnlyWalletsLink, Alone, CheckedAlone,
     LinksUnique, Checking, LinksTo, LinksOf, LinkedAccounts
<1>10. QED
  BY <1>1, <1>2, <1>3, <1>4, <1>5, <1>6, <1>7, <1>8, <1>9, FetchedStep, LookupStep, InsertLinkStep,
     UnlinkDeleteStep
  DEF OAuthNext

(* For any number of requests, states, providers and accounts: a state is  *)
(* exchanged at most once, only wallets link, and until two links are      *)
(* checked at the same time no account has two principals and no principal *)
(* two accounts of one provider.                                           *)
THEOREM SignInIsSafe == OAuthSpec => []OAuthSafe
<1>1. OAuthInv => OAuthSafe
  BY DEF OAuthInv, OAuthSafe, Alone, LinksUnique, LinksUniqueAlone
<1>2. QED
  BY <1>1, OAuthInitially, OAuthStep, PTL DEF OAuthSpec

-----------------------------------------------------------------------------
(***************************************************************************)
(* Credentials.  Pending challenges are distinct and none was accepted;    *)
(* the object of a credential remembers its last counter, and where two    *)
(* credentials have one object, both are known to share it.                *)
(***************************************************************************)
ChallengesDistinct ==
    /\ \A u \in User : challenges[u].value <= issued
    /\ \A u, v \in User :
          u # v /\ challenges[u].value = challenges[v].value => challenges[u].value = None

AcceptedOnce ==
    /\ \A n \in 1..MaxChallenge : n > issued => accepted[n] = 0
    /\ ChallengeOnce

(* An object belongs to the user that refers to it or to its credential. *)
Owned ==
    /\ \A u \in User : users[u] # None => object[users[u]].user = u
    /\ \A c \in Credential : credentials[c] # None => object[credentials[c]].user \in User

SharedKnown ==
    \A c, d \in Credential :
        c # d /\ credentials[c] = credentials[d] /\ credentials[c] # None => c \in shared

CountKept ==
    \A c \in Credential \ shared :
        credentials[c] # None => lastCount[c] = object[credentials[c]].count

WebAuthnInv ==
    /\ WebAuthnTypeOK /\ ChallengesDistinct /\ AcceptedOnce
    /\ Owned /\ SharedKnown /\ CountKept /\ CloneFound

LEMMA WebAuthnInitially == WebAuthnInit => WebAuthnInv
  BY WebAuthnAssumption DEF WebAuthnInit, WebAuthnInv, WebAuthnTypeOK, ChallengesDistinct,
     AcceptedOnce, ChallengeOnce, Owned, SharedKnown, CountKept, CloneFound, NoChallenge, None, Blank

(* The parts of the invariant that speak of challenges. *)
Challenged ==
    /\ challenges \in [User -> Pending \union {NoChallenge}]
    /\ issued \in 0..MaxChallenge
    /\ accepted \in [1..MaxChallenge -> 0..2]
    /\ ChallengesDistinct /\ AcceptedOnce

(* ... and those that speak of objects. *)
Objects ==
    /\ users \in [User -> Object \union {None}]
    /\ credentials \in [Credential -> Object \union {None}]
    /\ object \in [Object -> [user : User \union {NoUser}, count : 0..MaxCount,
                              credential : Credential \union {NoCredential}]]
    /\ lastCount \in [Credential -> 0..MaxCount]
    /\ rewound \subseteq Credential /\ shared \subseteq Credential
    /\ Owned /\ SharedKnown /\ CountKept /\ CloneFound

LEMMA WebAuthnParts == WebAuthnInv <=> Challenged /\ Objects
  BY DEF WebAuthnInv, WebAuthnTypeOK, Challenged, Objects

LEMMA StoreChallengeStep ==
  ASSUME Challenged, NEW u \in User, StoreChallenge(u), UNCHANGED accepted
  PROVE  Challenged'
<1> USE WebAuthnAssumption
<1>1. /\ issued' = issued + 1 /\ issued' \in 1..MaxChallenge
      /\ challenges' = [challenges EXCEPT ![u] = [value |-> issued', fresh |-> TRUE]]
  BY DEF Challenged, StoreChallenge
<1>2. /\ challenges' \in [User -> Pending \union {NoChallenge}]
      /\ challenges'[u].value = issued + 1
      /\ \A v \in User \ {u} : challenges'[v] = challenges[v]
  BY <1>1 DEF Challenged, Pending
<1>3. \A v \in User : challenges[v].value \in 0..issued
  BY DEF Challenged, ChallengesDistinct, Pending, NoChallenge, None
<1>4. ChallengesDistinct'
  BY <1>1, <1>2, <1>3 DEF Challenged, ChallengesDistinct, None
<1>5. AcceptedOnce'
  BY <1>1, <1>2, <1>3 DEF Challenged, AcceptedOnce, ChallengeOnce
<1>6. QED
  BY <1>1, <1>2, <1>4, <1>5 DEF Challenged

(* Some pending challenges are dropped or age. *)
LEMMA DropStep ==
  ASSUME Challenged, UNCHANGED <<issued, accepted>>,
         challenges' \in [User -> Pending \union {NoChallenge}],
         \A u \in User : challenges'[u].value \in {challenges[u].value, None}
  PROVE  Challenged'
<1>1. \A u \in User : challenges[u].value \in 0..issued
  BY DEF Challenged, ChallengesDistinct, Pending, NoChallenge, None
<1>2. ChallengesDistinct'
  BY <1>1 DEF Challenged, ChallengesDistinct, None
<1>3. AcceptedOnce'
  BY <1>1 DEF Challenged, AcceptedOnce, ChallengeOnce, None
<1>4. QED
  BY <1>2, <1>3 DEF Challenged

LEMMA VerifyStep ==
  ASSUME Challenged, NEW u \in User, NEW n \in 1..issued, VerifyChallenge(u, n), UNCHANGED issued
  PROVE  Challenged'
<1> USE WebAuthnAssumption
<1>1. /\ challenges' \in [User -> Pending \union {NoChallenge}]
      /\ \A v \in User \ {u} : challenges'[v] = challenges[v]
      /\ challenges'[u].value \in {challenges[u].value, None}
  BY DEF VerifyChallenge, AfterVerify, Challenged, NoChallenge, None
<1>2. CASE Accepts(u, n)
  <2>1. challenges[u].value = n /\ challenges'[u].value = None
    BY <1>2 DEF Accepts, VerifyChallenge, AfterVerify, Challenged, NoChallenge
  <2>2. n \in 1..MaxChallenge /\ accepted[n] = 0
    BY <2>1 DEF Challenged, AcceptedOnce, ChallengeOnce
  <2>3. accepted' = [accepted EXCEPT ![n] = 1]
    BY <1>2, <2>2 DEF VerifyChallenge, Challenged
  <2>4. \A v \in User : challenges[v].value \in 0..issued /\ challenges'[v].value # n
    BY <1>1, <2>1 DEF Challenged, ChallengesDistinct, Pending, NoChallenge, None
  <2>5. ChallengesDistinct'
    BY <1>1, <2>1, <2>4 DEF Challenged, ChallengesDistinct, None
  <2>6. AcceptedOnce'
    BY <1>1, <2>1, <2>2, <2>3, <2>4 DEF Challenged, AcceptedOnce, ChallengeOnce, None
  <2>7. QED
    BY <1>1, <2>2, <2>3, <2>5, <2>6 DEF Challenged
<1>3. CASE ~Accepts(u, n)
  <2>1. accepted' = accepted
    BY <1>3 DEF VerifyChallenge, Challenged
  <2>2. QED
    BY <1>1, <2>1, DropStep
<1>4. QED
  BY <1>2, <1>3

LEMMA RegisterStartStep ==
  ASSUME Objects, NEW u \in User, RegisterStart(u)
  PROVE  Objects'
<1>1. PICK o \in Unreferenced : /\ users' = [users EXCEPT ![u] = o]
                               /\ object' = [object EXCEPT ![o] = [Blank EXCEPT !.user = u]]
  BY DEF RegisterStart
<1>2. /\ o \in Object /\ \A c \in Credential : credentials[c] # o
      /\ \A v \in User : users[v] # o
      /\ UNCHANGED <<credentials, lastCount, rewound, shared>>
  BY DEF Unreferenced, CredentialsOf, RegisterStart
<1>3. [Blank EXCEPT !.user = u] \in [user : User \union {NoUser}, count : 0..MaxCount,
                              credential : Credential \union {NoCredential}]
      /\ [Blank EXCEPT !.user = u].user = u
  BY WebAuthnAssumption DEF Blank
<1>4. /\ users' \in [User -> Object \union {None}]
      /\ object' \in [Object -> [user : User \union {NoUser}, count : 0..MaxCount,
                              credential : Credential \union {NoCredential}]]
  BY <1>1, <1>2, <1>3 DEF Objects
<1>5. /\ \A p \in Object : p # o => object'[p] = object[p]
      /\ object'[o].user = u /\ users'[u] = o /\ \A v \in User : v # u => users'[v] = users[v]
  BY <1>1, <1>2, <1>3 DEF Objects
<1>6. Owned'
  BY <1>2, <1>5 DEF Objects, Owned
<1>7. SharedKnown' /\ CountKept' /\ CloneFound'
  BY <1>2, <1>5 DEF Objects, SharedKnown, CountKept, CloneFound
<1>8. QED
  BY <1>2, <1>4, <1>6, <1>7 DEF Objects

LEMMA RegisterFinishStep ==
  ASSUME Objects, NEW u \in User, NEW n, NEW c \in Credential, NEW complete,
         RegisterFinish(u, n, c, complete)
  PROVE  Objects'
<1> DEFINE o == users[u]
           sharing == {d \in CredentialsOf(o) : d # c}
<1>1. CASE UNCHANGED <<object, credentials, lastCount, shared, rewound>>
  BY <1>1 DEF RegisterFinish, Objects, Owned, SharedKnown, CountKept, CloneFound
<1>2. CASE Accepts(u, n) /\ complete /\ o # None
  <2>1. /\ o \in Object
        /\ object' = [object EXCEPT ![o].credential = c, ![o].count = 0]
        /\ credentials' = [credentials EXCEPT ![c] = o]
        /\ lastCount' = [lastCount EXCEPT ![c] = 0]
        /\ shared' = IF sharing = {} THEN shared \ {c} ELSE shared \union sharing \union {c}
        /\ rewound' = rewound \ {c}
        /\ users' = users
    BY <1>2 DEF RegisterFinish, Objects
  <2>2. /\ object' \in [Object -> [user : User \union {NoUser}, count : 0..MaxCount,
                              credential : Credential \union {NoCredential}]]
        /\ object'[o].count = 0
        /\ \A p \in Object : object'[p].user = object[p].user
        /\ \A p \in Object \ {o} : object'[p] = object[p]
    BY <2>1, WebAuthnAssumption DEF Objects
  <2>3. /\ credentials' \in [Credential -> Object \union {None}]
        /\ credentials'[c] = o /\ lastCount'[c] = 0
        /\ \A d \in Credential \ {c} : credentials'[d] = credentials[d] /\ lastCount'[d] = lastCount[d]
        /\ lastCount' \in [Credential -> 0..MaxCount]
    BY <2>1, WebAuthnAssumption DEF Objects
  <2>4. \A d \in Credential \ {c} : credentials[d] = o => d \in shared' /\ c \in shared'
    BY <2>1 DEF CredentialsOf
  <2>5. /\ shared' \subseteq Credential /\ rewound' \subseteq shared' /\ rewound' \subseteq Credential
        /\ \A d \in Credential \ {c} : d \in shared => d \in shared'
    BY <2>1 DEF Objects, CredentialsOf, CloneFound
  <2>6. Owned'
    BY <2>1, <2>2, <2>3 DEF Objects, Owned
  <2>7. SharedKnown'
    BY <2>3, <2>4, <2>5 DEF Objects, SharedKnown
  <2>8. CountKept'
    BY <2>2, <2>3, <2>4, <2>5 DEF Objects, CountKept
  <2>9. QED
    BY <2>1, <2>2, <2>3, <2>5, <2>6, <2>7, <2>8 DEF Objects, CloneFound
<1>3. QED
  BY <1>1, <1>2 DEF RegisterFinish

LEMMA AuthenticateFinishStep ==
  ASSUME Objects, NEW n, NEW c \in Credential, NEW count \in 0..MaxCount, NEW complete,
         AuthenticateFinish(c, n, count, complete)
  PROVE  Objects'
<1> DEFINE o == credentials[c]
<1>1. CASE UNCHANGED <<object, lastCount, rewound>>
  BY <1>1 DEF AuthenticateFinish, Objects, Owned, SharedKnown, CountKept, CloneFound
<1>2. CASE ~Cloned(o, count) /\ ~UNCHANGED <<object, lastCount, rewound>>
  <2>1. /\ o \in Object /\ o # None
        /\ object' = [object EXCEPT ![o].count = count]
        /\ lastCount' = [lastCount EXCEPT ![c] = count]
        /\ rewound' = IF lastCount[c] # 0 /\ count <= lastCount[c] THEN rewound \union {c}
                      ELSE rewound
        /\ UNCHANGED <<users, credentials, shared>>
    BY <1>2 DEF AuthenticateFinish, Objects
  <2>2. /\ object' \in [Object -> [user : User \union {NoUser}, count : 0..MaxCount,
                              credential : Credential \union {NoCredential}]]
        /\ object'[o].count = count
        /\ \A p \in Object : object'[p].user = object[p].user
        /\ \A p \in Object \ {o} : object'[p] = object[p]
    BY <2>1 DEF Objects
  <2>3. /\ lastCount' \in [Credential -> 0..MaxCount]
        /\ lastCount'[c] = count
        /\ \A d \in Credential \ {c} : lastCount'[d] = lastCount[d]
    BY <2>1 DEF Objects
  <2>4. c \notin shared => rewound' = rewound
    <3>1. lastCount[c] \in Nat /\ object[o].count \in Nat /\ count \in Nat
      BY <2>1 DEF Objects
    <3>2. c \notin shared => lastCount[c] = object[o].count
      BY <2>1 DEF Objects, CountKept
    <3>3. QED
      BY <1>2, <2>1, <3>1, <3>2 DEF Cloned
  <2>5. \A d \in Credential \ {c} : credentials[d] = o => d \in shared
    BY <2>1 DEF Objects, SharedKnown
  <2>6. Owned' /\ SharedKnown'
    BY <2>1, <2>2 DEF Objects, Owned, SharedKnown
  <2>7. CountKept'
    BY <2>1, <2>2, <2>3, <2>5 DEF Objects, CountKept
  <2>8. CloneFound' /\ rewound' \subseteq Credential
    BY <2>1, <2>4 DEF Objects, CloneFound
  <2>9. QED
    BY <2>1, <2>2, <2>3, <2>6, <2>7, <2>8 DEF Objects
<1>3. QED
  BY <1>1, <1>2 DEF AuthenticateFinish

LEMMA RemoveCredentialStep ==
  ASSUME Objects, NEW c \in Credential, RemoveCredential(c)
  PROVE  Objects'
<1> DEFINE o == credentials[c]
<1>1. /\ o \in Object /\ o # None
      /\ object' = [object EXCEPT ![o].credential = NoCredential, ![o].count = 0]
      /\ credentials' = [credentials EXCEPT ![c] = None]
      /\ UNCHANGED <<users, lastCount, rewound, shared>>
  BY DEF RemoveCredential, Objects
<1>2. /\ object' \in [Object -> [user : User \union {NoUser}, count : 0..MaxCount,
                              credential : Credential \union {NoCredential}]]
      /\ \A p \in Object : object'[p].user = object[p].user
      /\ \A p \in Object \ {o} : object'[p] = object[p]
  BY <1>1, WebAuthnAssumption DEF Objects
<1>3. /\ credentials' \in [Credential -> Object \union {None}]
      /\ credentials'[c] = None
      /\ \A d \in Credential \ {c} : credentials'[d] = credentials[d]
  BY <1>1 DEF Objects
<1>4. \A d \in Credential \ {c} : credentials[d] = o => d \in shared
  BY <1>1 DEF Objects, SharedKnown
<1>5. Owned'
  BY <1>1, <1>2, <1>3 DEF Objects, Owned
<1>6. SharedKnown'
  BY <1>1, <1>3 DEF Objects, SharedKnown
<1>7. CountKept' /\ CloneFound'
  BY <1>1, <1>2, <1>3, <1>4 DEF Objects, CountKept, CloneFound
<1>8. QED
  BY <1>1, <1>2, <1>3, <1>5, <1>6, <1>7 DEF Objects

LEMMA WebAuthnStep == WebAuthnInv /\ [WebAuthnNext]_webauthnVars => WebAuthnInv'
<1> SUFFICES ASSUME Challenged, Objects, [WebAuthnNext]_webauthnVars
             PROVE  Challenged' /\ Objects'
  BY WebAuthnParts, PTL
<1>1. ASSUME NEW u \in User, ChallengeExpires(u) PROVE Challenged' /\ Objects'
  <2>1. Challenged'
    <3>1. /\ challenges' = [challenges EXCEPT ![u].fresh = FALSE] /\ UNCHANGED <<issued, accepted>>
      BY <1>1 DEF ChallengeExpires
    <3>2. challenges[u] \in Pending
      BY <1>1 DEF ChallengeExpires, Challenged, NoChallenge
    <3> DEFINE aged == [challenges[u] EXCEPT !.fresh = FALSE]
    <3>3. aged \in Pending /\ aged.value = challenges[u].value
      BY <3>2 DEF Pending
    <3>4. challenges' = [challenges EXCEPT ![u] = aged]
      BY <3>1
    <3> HIDE DEF aged
    <3>5. challenges' \in [User -> Pending \union {NoChallenge}]
      BY <3>3, <3>4 DEF Challenged
    <3>6. \A v \in User : challenges'[v].value = challenges[v].value
      BY <3>3, <3>4 DEF Challenged
    <3>7. QED
      BY <3>1, <3>5, <3>6, DropStep
  <2>2. Objects'
    BY <1>1 DEF ChallengeExpires, Objects, Owned, SharedKnown, CountKept, CloneFound
  <2>3. QED
    BY <2>1, <2>2
<1>2. ASSUME NEW u \in User, RegisterStart(u) PROVE Challenged' /\ Objects'
  BY <1>2, StoreChallengeStep, RegisterStartStep DEF RegisterStart, CreateRegistrationOptions
<1>3. ASSUME NEW u \in User, AuthenticateStart(u) PROVE Challenged' /\ Objects'
  <2>1. Objects'
    BY <1>3 DEF AuthenticateStart, Objects, Owned, SharedKnown, CountKept, CloneFound
  <2>2. QED
    BY <1>3, <2>1, StoreChallengeStep DEF AuthenticateStart, CreateAuthenticationOptions
<1>4. ASSUME NEW u \in User, NEW n \in 1..issued, NEW c \in Credential, NEW complete \in BOOLEAN,
             RegisterFinish(u, n, c, complete)
      PROVE  Challenged' /\ Objects'
  BY <1>4, VerifyStep, RegisterFinishStep DEF RegisterFinish
<1>5. ASSUME NEW c \in Credential, NEW n \in 1..issued, NEW count \in 0..MaxCount,
             NEW complete \in BOOLEAN, AuthenticateFinish(c, n, count, complete)
      PROVE  Challenged' /\ Objects'
  <2>1. object[credentials[c]].user \in User /\ VerifyChallenge(object[credentials[c]].user, n)
        /\ UNCHANGED issued
    BY <1>5 DEF AuthenticateFinish, Objects, Owned
  <2>2. QED
    BY <1>5, <2>1, VerifyStep, AuthenticateFinishStep
<1>6. ASSUME NEW c \in Credential, RemoveCredential(c) PROVE Challenged' /\ Objects'
  <2>1. Challenged'
    BY <1>6 DEF RemoveCredential, Challenged, ChallengesDistinct, AcceptedOnce, ChallengeOnce
  <2>2. QED
    BY <1>6, <2>1, RemoveCredentialStep
<1>7. CASE UNCHANGED webauthnVars
  BY <1>7 DEF webauthnVars, Challenged, ChallengesDistinct, AcceptedOnce, ChallengeOnce,
     Objects, Owned, SharedKnown, CountKept, CloneFound
<1>8. QED
  BY <1>1, <1>2, <1>3, <1>4, <1>5, <1>6, <1>7 DEF WebAuthnNext

(* For any number of users, credentials and challenges: a challenge lets   *)
(* one call through, and a counter that goes back is accepted only of a    *)
(* credential whose object ever had a second one.                          *)
THEOREM CredentialsAreSafe == WebAuthnSpec => []CredentialSafe
<1>1. WebAuthnInv => CredentialSafe
  BY DEF WebAuthnInv, CredentialSafe, AcceptedOnce
<1>2. QED
  BY <1>1, WebAuthnInitially, WebAuthnStep, PTL DEF WebAuthnSpec

-----------------------------------------------------------------------------
(***************************************************************************)
(* Billing.  A request that holds a row or an event may rely on both: rows *)
(* are never deleted, and which handler an event gets does not change.     *)
(***************************************************************************)
Holds(w) == work[w].step \in {"apply", "upgrade", "suspend", "reactivate"}

Working ==
    \A w \in BillingWorker :
        /\ Holds(w) => tenant[work[w].tenant] \in Row
        /\ work[w].step = "handle" => stripe[work[w].event].kind # "other"
        /\ work[w].step = "apply" =>
              stripe[work[w].event].kind \notin {"other", "created_malformed"}

Requests ==
    /\ stripe \in [StripeEvent -> Content]
    /\ tenant \in [Tenant -> Row \union {NoRow}]
    /\ work \in [BillingWorker -> Work]
    /\ Working

Ledger ==
    /\ billing \in [StripeEvent -> {"none", "completed", "error"}]
    /\ acked \subseteq StripeEvent /\ unknown \subseteq StripeEvent
    /\ applied \in [StripeEvent -> 0..2]
    /\ StripeEventOnce /\ AckedAccounted
    /\ \A e \in StripeEvent : billing[e] = "completed" => stripe[e].kind # "created_malformed"

BillingInv == Requests /\ Ledger

LEMMA FlushedRow ==
  ASSUME NEW current \in Row, NEW loaded \in Row, NEW new \in Row
  PROVE  Flushed(current, loaded, new) \in Row
<1>1. DOMAIN current = {"status", "plan", "customer", "subscription"}
  BY DEF Row
<1> DEFINE row == Flushed(current, loaded, new)
<1>2. row = [f \in {"status", "plan", "customer", "subscription"} |->
                IF new[f] = loaded[f] THEN current[f] ELSE new[f]]
  BY <1>1 DEF Flushed
<1>3. row = [status |-> IF new.status = loaded.status THEN current.status ELSE new.status,
             plan |-> IF new.plan = loaded.plan THEN current.plan ELSE new.plan,
             customer |-> IF new.customer = loaded.customer THEN current.customer ELSE new.customer,
             subscription |-> IF new.subscription = loaded.subscription THEN current.subscription
                              ELSE new.subscription]
  BY <1>2
<1> HIDE DEF row
<1>4. row \in Row
  BY <1>3 DEF Row
<1>5. QED
  BY <1>4 DEF row

LEMMA HandledRow ==
  ASSUME NEW row \in Row, NEW c \in EventContent, c.kind \notin {"other", "created_malformed"}
  PROVE  Handled(row, c) \in Row
<1>1. CASE c.kind = "checkout"
  BY <1>1 DEF Handled, HandleCheckoutCompleted, Row, EventContent, Plan
<1>2. CASE c.kind = "created"
  BY <1>2 DEF Handled, HandleSubscriptionCreated, Row, EventContent, Plan
<1>3. CASE c.kind \in {"canceled", "past_due", "active", "trialing"}
  <2> DEFINE status == CASE c.kind = "canceled" -> "CANCELLED"
                         [] c.kind = "past_due" -> "SUSPENDED"
                         [] c.kind = "active" -> "ACTIVE"
                         [] OTHER -> row.status
  <2>1. status \in {"TRIAL", "ACTIVE", "SUSPENDED", "CANCELLED"}
    BY <1>3 DEF Row
  <2>2. Handled(row, c) = [row EXCEPT !.status = status]
    BY <1>3 DEF Handled, HandleSubscriptionUpdated
  <2> HIDE DEF status
  <2>3. QED
    BY <2>1, <2>2 DEF Row
<1>4. CASE c.kind = "deleted"
  BY <1>4 DEF Handled, HandleSubscriptionDeleted, Row, EventContent, Plan
<1>5. CASE c.kind = "paid"
  BY <1>5 DEF Handled, HandleInvoicePaid, Row, EventContent, Plan
<1>6. CASE c.kind \in {"failed", "failed_thrice"}
  BY <1>6 DEF Handled, HandlePaymentFailed, Row, EventContent, Plan
<1>7. CASE c.kind = "customer"
  BY <1>7 DEF Handled, HandleCustomerCreated, Row, EventContent, Plan
<1>8. QED
  BY <1>1, <1>2, <1>3, <1>4, <1>5, <1>6, <1>7 DEF EventContent

LEMMA BillingInitially == BillingInit => BillingInv
  BY DEF BillingInit, BillingInv, Requests, Ledger, Working, Holds, StripeEventOnce, AckedAccounted,
     Work, Idle

(* What a request holds. *)
LEMMA WorkShape ==
  ASSUME Requests, NEW w \in BillingWorker
  PROVE  /\ work[w].step = "insert" => work[w].tenant \in Tenant /\ work[w].plan \in Plan
         /\ work[w].step \in {"handle", "apply"} =>
               work[w].event \in StripeEvent /\ stripe[work[w].event] \in EventContent
         /\ Holds(w) => work[w].tenant \in Tenant /\ work[w].loaded \in Row
         /\ work[w].step = "upgrade" => work[w].plan \in Plan
  BY BillingAssumption DEF Requests, Work, Idle, Holds

(* A request goes on; the tenants that are there stay. *)
LEMMA ProceedStep ==
  ASSUME Requests, NEW w \in BillingWorker, NEW to \in Work, Proceed(w, to), UNCHANGED stripe,
         tenant' \in [Tenant -> Row \union {NoRow}],
         \A t \in Tenant : tenant[t] \in Row => tenant'[t] \in Row,
         to.step \in {"apply", "upgrade", "suspend", "reactivate"} => tenant[to.tenant] \in Row,
         to.step = "handle" => stripe[to.event].kind # "other",
         to.step = "apply" => stripe[to.event].kind \notin {"other", "created_malformed"}
  PROVE  Requests'
<1>1. work' \in [BillingWorker -> Work] /\ work'[w] = to
      /\ \A v \in BillingWorker \ {w} : work'[v] = work[v]
  BY DEF Proceed, Requests
<1>2. to.step \in {"apply", "upgrade", "suspend", "reactivate"} => to.tenant \in Tenant
  BY DEF Work, Idle
<1>3. ASSUME NEW v \in BillingWorker, Holds(v)' PROVE tenant'[work'[v].tenant] \in Row
  <2>1. CASE v = w
    BY <1>1, <1>2, <1>3, <2>1 DEF Holds
  <2>2. CASE v # w
    <3>1. Holds(v) /\ work'[v] = work[v]
      BY <1>1, <1>3, <2>2 DEF Holds
    <3>2. QED
      BY <3>1, WorkShape DEF Requests, Working
  <2>3. QED
    BY <2>1, <2>2
<1>4. Working'
  BY <1>1, <1>3 DEF Requests, Working
<1>5. QED
  BY <1>1, <1>4 DEF Requests

LEMMA LedgerStep ==
  ASSUME Ledger, UNCHANGED <<stripe, billing, applied>>,
         unknown \subseteq unknown', unknown' \subseteq StripeEvent,
         \A e \in acked' \ acked :
            /\ e \in StripeEvent
            /\ billing[e] # "none" \/ e \in unknown' \/ stripe[e].kind \in {"other", "customer"}
  PROVE  Ledger'
  BY DEF Ledger, StripeEventOnce, AckedAccounted

LEMMA CreateTenantStep ==
  ASSUME BillingInv, NEW w \in BillingWorker, NEW t \in Tenant, NEW plan \in Plan,
         CreateTenant(w, t, plan)
  PROVE  BillingInv'
<1> DEFINE to == [step |-> "insert", tenant |-> t, plan |-> plan]
<1>1. to \in Work /\ to.step = "insert"
  BY DEF Work
<1>2. Proceed(w, to) /\ UNCHANGED <<stripe, tenant, billing, acked, applied, unknown>>
  BY DEF CreateTenant
<1> HIDE DEF to
<1>3. Requests'
  BY <1>1, <1>2, ProceedStep DEF BillingInv, Requests
<1>4. Ledger'
  BY <1>2, LedgerStep DEF BillingInv, Ledger
<1>5. QED
  BY <1>3, <1>4 DEF BillingInv

(* The operators' handlers load a row. *)
LEMMA LoadStep ==
  ASSUME BillingInv, NEW w \in BillingWorker, NEW t \in Tenants, NEW to \in Work,
         to.step \in {"upgrade", "suspend", "reactivate"}, to.tenant = t,
         Proceed(w, to), UNCHANGED <<stripe, tenant, billing, acked, applied, unknown>>
  PROVE  BillingInv'
<1>1. tenant[to.tenant] \in Row
  BY DEF BillingInv, Requests, Tenants
<1>2. Requests'
  BY <1>1, ProceedStep DEF BillingInv, Requests
<1>3. Ledger'
  BY LedgerStep DEF BillingInv, Ledger
<1>4. QED
  BY <1>2, <1>3 DEF BillingInv

(* A request that is answered and may have stored a row of its tenant. *)
LEMMA ReplyStep ==
  ASSUME Requests, NEW w \in BillingWorker, Reply(w), UNCHANGED stripe,
         \/ UNCHANGED tenant
         \/ \E t \in Tenant, row \in Row : tenant' = [tenant EXCEPT ![t] = row]
  PROVE  Requests'
<1>1. Idle \in Work /\ Idle.step = "none"
  BY DEF Work, Idle
<1>2. /\ tenant' \in [Tenant -> Row \union {NoRow}]
      /\ \A t \in Tenant : tenant[t] \in Row => tenant'[t] \in Row
  BY DEF Requests
<1>3. QED
  BY <1>1, <1>2, ProceedStep DEF Reply

LEMMA InsertTenantStep ==
  ASSUME BillingInv, NEW w \in BillingWorker, InsertTenant(w)
  PROVE  BillingInv'
<1>1. work[w].tenant \in Tenant /\ work[w].plan \in Plan
  BY WorkShape DEF InsertTenant, BillingInv
<1> DEFINE new == [status |-> "TRIAL", plan |-> work[w].plan,
                   customer |-> NoCustomer, subscription |-> NoCustomer]
<1>2. new \in Row
  BY <1>1 DEF Row
<1>3. \/ UNCHANGED tenant
      \/ tenant' = [tenant EXCEPT ![work[w].tenant] = new]
  BY DEF InsertTenant, BillingInv, Requests
<1> HIDE DEF new
<1>4. Requests'
  BY <1>1, <1>2, <1>3, ReplyStep DEF InsertTenant, BillingInv
<1>5. Ledger'
  BY LedgerStep DEF InsertTenant, BillingInv, Ledger
<1>6. QED
  BY <1>4, <1>5 DEF BillingInv

LEMMA StoreStep ==
  ASSUME BillingInv, NEW w \in BillingWorker, Holds(w), NEW new \in Row, Store(w, new)
  PROVE  BillingInv'
<1>1. work[w].tenant \in Tenant /\ work[w].loaded \in Row /\ tenant[work[w].tenant] \in Row
  BY WorkShape DEF BillingInv, Requests, Working
<1> DEFINE row == Flushed(tenant[work[w].tenant], work[w].loaded, new)
<1>2. row \in Row
  BY <1>1, FlushedRow
<1>3. tenant' = [tenant EXCEPT ![work[w].tenant] = row] /\ Reply(w)
      /\ UNCHANGED <<stripe, billing, acked, applied, unknown>>
  BY DEF Store
<1> HIDE DEF row
<1>4. Requests'
  BY <1>1, <1>2, <1>3, ReplyStep DEF BillingInv
<1>5. Ledger'
  BY <1>3, LedgerStep DEF BillingInv, Ledger
<1>6. QED
  BY <1>4, <1>5 DEF BillingInv

LEMMA StripeWebhookStep ==
  ASSUME BillingInv, NEW w \in BillingWorker, NEW e \in StripeEvent, StripeWebhook(w, e)
  PROVE  BillingInv'
<1>1. UNCHANGED <<stripe, tenant, billing, applied, unknown>>
  BY DEF StripeWebhook
<1>2. CASE billing[e] # "none" \/ stripe[e].kind = "other"
  <2>1. acked' = acked \union {e} /\ UNCHANGED work
    BY <1>2 DEF StripeWebhook
  <2>2. Ledger'
    BY <1>1, <1>2, <2>1, LedgerStep DEF BillingInv, Ledger
  <2>3. QED
    BY <1>1, <2>1, <2>2 DEF BillingInv, Requests, Working, Holds
<1>3. CASE ~(billing[e] # "none" \/ stripe[e].kind = "other")
  <2> DEFINE to == [step |-> "handle", event |-> e]
  <2>1. Proceed(w, to) /\ UNCHANGED acked
    BY <1>3 DEF StripeWebhook
  <2>2. to \in Work /\ to.step = "handle" /\ to.event = e
    BY DEF Work
  <2> HIDE DEF to
  <2>3. Requests'
    BY <1>1, <1>3, <2>1, <2>2, ProceedStep DEF BillingInv, Requests
  <2>4. Ledger'
    BY <1>1, <2>1, LedgerStep DEF BillingInv, Ledger
  <2>5. QED
    BY <2>3, <2>4 DEF BillingInv
<1>4. QED
  BY <1>2, <1>3

LEMMA HandlerLoadsStep ==
  ASSUME BillingInv, NEW w \in BillingWorker, HandlerLoads(w)
  PROVE  BillingInv'
<1> DEFINE e == work[w].event
<1>1. /\ e \in StripeEvent /\ stripe[e].kind \notin {"other", "created_malformed"}
      /\ UNCHANGED <<stripe, tenant, billing, applied>>
  BY WorkShape DEF HandlerLoads, BillingInv, Requests, Working
<1>2. CASE TenantsOf(stripe[e]) = {}
  <2>1. unknown' = unknown \union {e} /\ acked' = acked \union {e} /\ Reply(w)
    BY <1>2 DEF HandlerLoads
  <2>2. Requests'
    BY <1>1, <2>1, ReplyStep DEF BillingInv
  <2>3. Ledger'
    BY <1>1, <2>1, LedgerStep DEF BillingInv, Ledger
  <2>4. QED
    BY <2>2, <2>3 DEF BillingInv
<1>3. CASE TenantsOf(stripe[e]) # {}
  <2>1. PICK t \in TenantsOf(stripe[e]) :
           Proceed(w, [step |-> "apply", event |-> e, tenant |-> t, loaded |-> tenant[t]])
    BY <1>3 DEF HandlerLoads
  <2>2. UNCHANGED <<unknown, acked>>
    BY <1>3 DEF HandlerLoads
  <2>3. t \in Tenant /\ tenant[t] \in Row
    BY DEF TenantsOf, Tenants, BillingInv, Requests
  <2> DEFINE to == [step |-> "apply", event |-> e, tenant |-> t, loaded |-> tenant[t]]
  <2>4. to \in Work /\ to.step = "apply" /\ to.tenant = t /\ to.event = e
    BY <1>1, <2>3 DEF Work
  <2>5. Proceed(w, to)
    BY <2>1
  <2> HIDE DEF to, e
  <2>6. Requests'
    BY <1>1, <2>3, <2>4, <2>5, ProceedStep DEF BillingInv, Requests
  <2>7. Ledger'
    BY <1>1, <2>2, LedgerStep DEF BillingInv, Ledger
  <2>8. QED
    BY <2>6, <2>7 DEF BillingInv
<1>4. QED
  BY <1>2, <1>3

(* An event whose handling raised never was committed. *)
LEMMA HandlerRaisesStep ==
  ASSUME BillingInv, NEW w \in BillingWorker, HandlerRaises(w)
  PROVE  BillingInv'
<1>1. work[w].event \in StripeEvent
  BY WorkShape DEF HandlerRaises, BillingInv
<1>2. Requests'
  BY ReplyStep DEF HandlerRaises, BillingInv
<1>3. Ledger'
  BY <1>1 DEF HandlerRaises, BillingInv, Ledger, StripeEventOnce, AckedAccounted
<1>4. QED
  BY <1>2, <1>3 DEF BillingInv

LEMMA HandlerCommitsStep ==
  ASSUME BillingInv, NEW w \in BillingWorker, HandlerCommits(w)
  PROVE  BillingInv'
<1> DEFINE e == work[w].event
           c == stripe[e]
           t == work[w].tenant
           row == Flushed(tenant[t], work[w].loaded, Handled(work[w].loaded, c))
<1>1. /\ e \in StripeEvent /\ c \in EventContent /\ c.kind \notin {"other", "created_malformed"}
      /\ t \in Tenant /\ work[w].loaded \in Row /\ tenant[t] \in Row
  BY WorkShape DEF HandlerCommits, BillingInv, Requests, Working, Holds
<1>2. row \in Row
  BY <1>1, HandledRow, FlushedRow
<1>3. /\ Unique(e, c)
      /\ tenant' = [tenant EXCEPT ![t] = row]
      /\ billing' = [billing EXCEPT ![e] = IF AddsRow(c) THEN "completed" ELSE @]
      /\ applied' = [applied EXCEPT ![e] = IF AddsRow(c) /\ @ < 2 THEN @ + 1 ELSE @]
      /\ acked' \in {acked, acked \union {e}}
      /\ Reply(w) /\ UNCHANGED <<stripe, unknown>>
  BY DEF HandlerCommits
<1> HIDE DEF row
<1>4. Requests'
  BY <1>1, <1>2, <1>3, ReplyStep DEF BillingInv
<1>5. CASE AddsRow(c)
  <2>1. billing[e] = "none" /\ applied[e] = 0
    BY <1>1, <1>3, <1>5 DEF Unique, BillingInv, Ledger, StripeEventOnce
  <2>2. billing' = [billing EXCEPT ![e] = "completed"] /\ applied' = [applied EXCEPT ![e] = 1]
    BY <1>1, <1>3, <1>5, <2>1 DEF BillingInv, Ledger
  <2>3. QED
    BY <1>1, <1>3, <1>4, <2>1, <2>2 DEF BillingInv, Ledger, StripeEventOnce, AckedAccounted
<1>6. CASE ~AddsRow(c)
  <2>1. billing' = billing /\ applied' = applied /\ c.kind = "customer"
    BY <1>1, <1>3, <1>6 DEF BillingInv, Ledger, AddsRow
  <2>2. QED
    BY <1>1, <1>3, <1>4, <2>1, LedgerStep DEF BillingInv, Ledger
<1>7. QED
  BY <1>5, <1>6

LEMMA BillingStep == BillingInv /\ [BillingNext]_billingVars => BillingInv'
<1> SUFFICES ASSUME BillingInv, [BillingNext]_billingVars PROVE BillingInv'
  OBVIOUS
<1>1. ASSUME NEW w \in BillingWorker, NEW t \in Tenant, NEW plan \in Plan, UpgradeLoad(w, t, plan)
      PROVE  BillingInv'
  <2> DEFINE to == [step |-> "upgrade", tenant |-> t, plan |-> plan, loaded |-> tenant[t]]
  <2>1. t \in Tenants /\ tenant[t] \in Row
    BY <1>1 DEF UpgradeLoad, Tenants, BillingInv, Requests
  <2>2. to \in Work /\ to.step = "upgrade" /\ to.tenant = t
    BY <2>1 DEF Work
  <2>3. Proceed(w, to) /\ UNCHANGED <<stripe, tenant, billing, acked, applied, unknown>>
    BY <1>1 DEF UpgradeLoad
  <2> HIDE DEF to
  <2>4. QED
    BY <2>1, <2>2, <2>3, LoadStep
<1>2. ASSUME NEW w \in BillingWorker, NEW t \in Tenant, NEW step \in {"suspend", "reactivate"},
             OperatorLoad(w, t, step)
      PROVE  BillingInv'
  <2> DEFINE to == [step |-> step, tenant |-> t, loaded |-> tenant[t]]
  <2>1. t \in Tenants /\ tenant[t] \in Row
    BY <1>2 DEF OperatorLoad, Tenants, BillingInv, Requests
  <2>2. to \in Work /\ to.step = step /\ to.tenant = t
    BY <2>1 DEF Work
  <2>3. Proceed(w, to) /\ UNCHANGED <<stripe, tenant, billing, acked, applied, unknown>>
    BY <1>2 DEF OperatorLoad
  <2> HIDE DEF to
  <2>4. QED
    BY <2>1, <2>2, <2>3, LoadStep
<1>3. ASSUME NEW w \in BillingWorker, UpgradePlan(w) \/ SuspendTenant(w) \/ ReactivateTenant(w)
      PROVE  BillingInv'
  <2>1. Holds(w)
    BY <1>3 DEF UpgradePlan, SuspendTenant, ReactivateTenant, Holds
  <2>2. work[w].loaded \in Row /\ (work[w].step = "upgrade" => work[w].plan \in Plan)
    BY <2>1, WorkShape DEF BillingInv
  <2>3. PICK new \in Row : Store(w, new)
    <3>1. CASE UpgradePlan(w)
      <4>1. [work[w].loaded EXCEPT !.plan = work[w].plan, !.status = "ACTIVE"] \in Row
        BY <2>2, <3>1 DEF UpgradePlan, Row
      <4>2. QED
        BY <3>1, <4>1 DEF UpgradePlan
    <3>2. CASE SuspendTenant(w)
      <4>1. [work[w].loaded EXCEPT !.status = "SUSPENDED"] \in Row
        BY <2>2 DEF Row
      <4>2. QED
        BY <3>2, <4>1 DEF SuspendTenant
    <3>3. CASE ReactivateTenant(w)
      <4>1. [work[w].loaded EXCEPT !.status = "ACTIVE"] \in Row
        BY <2>2 DEF Row
      <4>2. QED
        BY <3>3, <4>1 DEF ReactivateTenant
    <3>4. QED
      BY <1>3, <3>1, <3>2, <3>3
  <2>4. QED
    BY <2>1, <2>3, StoreStep
<1>4. ASSUME NEW w \in BillingWorker, CommitFails(w) PROVE BillingInv'
  <2>1. Requests'
    BY <1>4, ReplyStep DEF CommitFails, BillingInv
  <2>2. Ledger'
    BY <1>4, LedgerStep DEF CommitFails, BillingInv, Ledger
  <2>3. QED
    BY <2>1, <2>2 DEF BillingInv
<1>5. CASE UNCHANGED billingVars
  BY <1>5 DEF billingVars, BillingInv, Requests, Ledger, Working, Holds, StripeEventOnce, AckedAccounted
<1>6. QED
  BY <1>1, <1>2, <1>3, <1>4, <1>5, CreateTenantStep, InsertTenantStep, StripeWebhookStep,
     HandlerLoadsStep, HandlerRaisesStep, HandlerCommitsStep
  DEF BillingNext

LEMMA BillingHolds == BillingInv => BillingTypeOK /\ StripeEventOnce /\ AckedAccounted
  BY DEF BillingInv, Requests, Ledger, BillingTypeOK

-----------------------------------------------------------------------------
(***************************************************************************)
(* The members.  Both bounds count the invitations that have passed the    *)
(* look-up on which the bound rests together with the rows: an insertion   *)
(* turns one into the other.                                               *)
(***************************************************************************)
Inserting == {i \in Inviter : invite[i].step = "insert"}
Looked(u) == {i \in Inviter : invite[i].step \in {"count", "insert"} /\ invite[i].user = u}

Numbered ==
    /\ IsFiniteSet(members)
    /\ \A m \in members : m.id <= Cardinality(members)
    /\ \A m, n \in members : m.id = n.id => m = n

(* No invitation holds a limit above the highest so far. *)
AtMostPeak(l) == IF l = Unlimited THEN peak = Unlimited ELSE peak # Unlimited => l <= peak

Peaked == AtMostPeak(limit) /\ \A i \in Inviter : invite[i] # NoInvite => AtMostPeak(invite[i].limit)

RowsBounded ==
    peak # Unlimited =>
        Cardinality(members) + Cardinality(Inserting) <= peak + Cardinality(Inviter) - 1

RowsOnce == \A u \in Member : Cardinality(RowsOf(u)) + Cardinality(Looked(u)) <= Cardinality(Inviter)

MembersInv == MembersTypeOK /\ Numbered /\ Peaked /\ RowsBounded /\ RowsOnce

(* To replace an element of a finite set by a new one keeps its size. *)
LEMMA Replaced ==
  ASSUME NEW S, IsFiniteSet(S), NEW m \in S, NEW n, n \notin S \ {m}
  PROVE  /\ IsFiniteSet((S \ {m}) \union {n})
         /\ Cardinality((S \ {m}) \union {n}) = Cardinality(S)
<1> DEFINE T == S \ {m}
<1>1. IsFiniteSet(T) /\ Cardinality(T) = Cardinality(S) - 1
  BY FS_RemoveElement
<1>2. Cardinality(S) \in Nat
  BY FS_CardinalityType
<1>3. n \notin T
  OBVIOUS
<1> HIDE DEF T
<1>4. IsFiniteSet(T \union {n}) /\ Cardinality(T \union {n}) = Cardinality(T) + 1
  BY <1>1, <1>3, FS_AddElement
<1>5. QED
  BY <1>1, <1>2, <1>4 DEF T

(* All the sets that are counted are finite. *)
LEMMA Counted ==
  ASSUME Numbered
  PROVE  /\ Cardinality(Inviter) \in Nat /\ Cardinality(members) \in Nat
         /\ IsFiniteSet(Inserting) /\ Cardinality(Inserting) \in Nat
         /\ Cardinality(Inserting) <= Cardinality(Inviter)
         /\ \A u : /\ IsFiniteSet(RowsOf(u)) /\ Cardinality(RowsOf(u)) \in Nat
                   /\ IsFiniteSet(Looked(u)) /\ Cardinality(Looked(u)) \in Nat
                   /\ Cardinality(Looked(u)) <= Cardinality(Inviter)
<1>1. IsFiniteSet(Inviter) /\ IsFiniteSet(members)
  BY MembersAssumption DEF Numbered
<1>2. Inserting \in SUBSET Inviter /\ \A u : RowsOf(u) \in SUBSET members /\ Looked(u) \in SUBSET Inviter
  BY DEF Inserting, RowsOf, Looked
<1>3. IsFiniteSet(Inserting) /\ Cardinality(Inserting) <= Cardinality(Inviter)
  BY <1>1, <1>2, FS_Subset
<1>4. \A u : IsFiniteSet(RowsOf(u)) /\ IsFiniteSet(Looked(u)) /\ Cardinality(Looked(u)) <= Cardinality(Inviter)
  BY <1>1, <1>2, FS_Subset
<1>5. QED
  BY <1>1, <1>3, <1>4, FS_CardinalityType

LEMMA MembersInitially == MembersInit => MembersInv
<1> SUFFICES ASSUME MembersInit PROVE MembersInv
  OBVIOUS
<1>1. MembersTypeOK
  BY DEF MembersInit, MembersTypeOK
<1>2. Numbered
  BY FS_EmptySet DEF MembersInit, Numbered
<1>3. Peaked
  BY MembersAssumption DEF MembersInit, Peaked, AtMostPeak, Unlimited
<1>4. Inserting = {} /\ \A u : Looked(u) = {} /\ RowsOf(u) = {}
  BY DEF MembersInit, Inserting, Looked, RowsOf, NoInvite
<1>5. Cardinality(Inviter) \in Nat
  BY FS_CardinalityType, MembersAssumption
<1>6. RowsBounded
  <2>1. Cardinality(members) = 0 /\ Cardinality(Inserting) = 0
    BY <1>4, FS_EmptySet DEF MembersInit
  <2>2. peak # Unlimited => peak \in Nat \ {0}
    BY MembersAssumption DEF MembersInit
  <2>3. QED
    BY <1>5, <2>1, <2>2 DEF RowsBounded
<1>7. RowsOnce
  <2>1. \A u : Cardinality(RowsOf(u)) = 0 /\ Cardinality(Looked(u)) = 0
    BY <1>4, FS_EmptySet
  <2>2. QED
    BY <1>5, <2>1 DEF RowsOnce
<1>8. QED
  BY <1>1, <1>2, <1>3, <1>6, <1>7 DEF MembersInv

LEMMA InviteShape ==
  ASSUME MembersTypeOK, NEW i \in Inviter, invite[i] # NoInvite
  PROVE  /\ invite[i] \in [step : {"find", "count", "insert"}, user : Member,
                           limit : Limits \union {Unlimited}]
         /\ invite[i].limit \in Nat
<1>1. invite[i] \in [step : {"find", "count", "insert"}, user : Member,
                    limit : Limits \union {Unlimited}]
  BY DEF MembersTypeOK
<1>2. invite[i].limit \in Limits \union {Unlimited}
  BY <1>1
<1>3. \A l \in Limits \union {Unlimited} : l \in Nat
  BY MembersAssumption DEF Unlimited
<1>4. QED
  BY <1>1, <1>2, <1>3

LEMMA PlanStep ==
  ASSUME MembersInv, NEW new \in Limits \union {Unlimited}, PlanChanges(new)
  PROVE  MembersInv'
<1> USE MembersAssumption DEF Unlimited
<1>1. /\ limit \in Nat /\ peak \in Nat /\ new \in Nat
      /\ limit' = new /\ peak' \in Limits \union {Unlimited}
      /\ peak' # Unlimited => peak # Unlimited /\ peak <= peak' /\ new # Unlimited /\ new <= peak'
      /\ UNCHANGED <<members, invite>>
  BY DEF MembersInv, MembersTypeOK, PlanChanges
<1>2. MembersTypeOK' /\ Numbered'
  BY <1>1 DEF MembersInv, MembersTypeOK, Numbered
<1>3. Peaked'
  <2>1. AtMostPeak(limit)'
    BY <1>1 DEF AtMostPeak
  <2>2. ASSUME NEW i \in Inviter, invite[i] # NoInvite PROVE AtMostPeak(invite[i].limit)'
    <3>1. invite[i].limit \in Nat /\ AtMostPeak(invite[i].limit)
      BY <2>2, InviteShape DEF MembersInv, Peaked
    <3>2. QED
      BY <1>1, <3>1 DEF AtMostPeak
  <2>3. QED
    BY <1>1, <2>1, <2>2 DEF Peaked
<1>4. RowsBounded' /\ RowsOnce'
  <2>1. Inserting' = Inserting /\ \A u : RowsOf(u)' = RowsOf(u) /\ Looked(u)' = Looked(u)
    BY <1>1 DEF Inserting, RowsOf, Looked
  <2>2. Cardinality(members) \in Nat /\ Cardinality(Inserting) \in Nat /\ Cardinality(Inviter) \in Nat
    BY Counted DEF MembersInv
  <2>3. QED
    BY <1>1, <2>1, <2>2 DEF MembersInv, RowsBounded, RowsOnce
<1>5. QED
  BY <1>2, <1>3, <1>4 DEF MembersInv

(* An invitation moves on without a row. *)
LEMMA InviteStep ==
  ASSUME MembersInv, NEW i \in Inviter,
         NEW next \in {NoInvite} \union [step : {"find", "count", "insert"}, user : Member,
                                         limit : Limits \union {Unlimited}],
         next # NoInvite => AtMostPeak(next.limit),
         next.step \in {"count", "insert"} => i \in Looked(next.user) \/ RowsOf(next.user) = {},
         next.step = "insert" /\ peak # Unlimited => Cardinality(members) < peak,
         invite' = [invite EXCEPT ![i] = next], UNCHANGED <<members, limit, peak>>
  PROVE  MembersInv'
<1> USE MembersAssumption DEF Unlimited
<1>1. /\ invite' \in [Inviter -> {NoInvite} \union [step : {"find", "count", "insert"}, user : Member,
                                                    limit : Limits \union {Unlimited}]]
      /\ invite'[i] = next /\ \A j \in Inviter \ {i} : invite'[j] = invite[j]
  BY DEF MembersInv, MembersTypeOK
<1>2. MembersTypeOK' /\ Numbered'
  BY <1>1 DEF MembersInv, MembersTypeOK, Numbered
<1>3. Peaked'
  BY <1>1 DEF MembersInv, Peaked, AtMostPeak
<1>4. Numbered /\ Numbered'
  BY <1>2 DEF MembersInv
<1>5. RowsBounded'
  <2>1. CASE next.step = "insert"
    <3>1. peak \in Nat /\ Cardinality(members) \in Nat /\ Cardinality(Inviter) \in Nat
      BY <1>4, Counted DEF MembersInv, MembersTypeOK
    <3>2. Cardinality(Inserting') <= Cardinality(Inviter) /\ Cardinality(Inserting') \in Nat
      <4>1. Inserting' \in SUBSET Inviter
        BY DEF Inserting
      <4>2. QED
        BY <4>1, FS_Subset, FS_CardinalityType
    <3>3. QED
      BY <2>1, <3>1, <3>2 DEF RowsBounded
  <2>2. CASE next.step # "insert"
    <3>1. Inserting' \in SUBSET Inserting
      BY <1>1, <2>2 DEF Inserting
    <3>2. Cardinality(Inserting') <= Cardinality(Inserting) /\ Cardinality(Inserting') \in Nat
          /\ Cardinality(Inserting) \in Nat
      BY <1>4, <3>1, Counted, FS_Subset, FS_CardinalityType
    <3>3. peak \in Nat /\ Cardinality(members) \in Nat /\ Cardinality(Inviter) \in Nat
      BY <1>4, Counted DEF MembersInv, MembersTypeOK
    <3>4. QED
      BY <3>2, <3>3 DEF MembersInv, RowsBounded
  <2>3. QED
    BY <2>1, <2>2
<1>6. RowsOnce'
  <2> SUFFICES ASSUME NEW u \in Member
               PROVE  Cardinality(RowsOf(u)) + Cardinality(Looked(u)') <= Cardinality(Inviter)
    BY DEF RowsOnce, RowsOf
  <2>1. Looked(u)' \in SUBSET Inviter
    BY DEF Looked
  <2>2. Cardinality(Looked(u)') \in Nat /\ Cardinality(Looked(u)') <= Cardinality(Inviter)
    BY <2>1, FS_Subset, FS_CardinalityType
  <2>3. CASE RowsOf(u) = {}
    <3>1. Cardinality(RowsOf(u)) = 0
      BY <2>3, FS_EmptySet
    <3>2. Cardinality(Inviter) \in Nat
      BY <1>4, Counted
    <3>3. QED
      BY <2>2, <3>1, <3>2
  <2>4. CASE RowsOf(u) # {}
    <3>1. Looked(u)' \in SUBSET Looked(u)
      BY <1>1, <2>4 DEF Looked
    <3>2. /\ Cardinality(Looked(u)') <= Cardinality(Looked(u))
          /\ Cardinality(Looked(u)) \in Nat /\ Cardinality(RowsOf(u)) \in Nat
          /\ Cardinality(Inviter) \in Nat
      BY <1>4, <3>1, Counted, FS_Subset
    <3>3. QED
      BY <2>2, <3>2 DEF MembersInv, RowsOnce
  <2>5. QED
    BY <2>3, <2>4
<1>7. QED
  BY <1>2, <1>3, <1>5, <1>6 DEF MembersInv

LEMMA FindMemberStep ==
  ASSUME MembersInv, NEW i \in Inviter, FindMember(i)
  PROVE  MembersInv'
<1>1. /\ invite[i] \in [step : {"find", "count", "insert"}, user : Member,
                        limit : Limits \union {Unlimited}]
      /\ AtMostPeak(invite[i].limit) /\ UNCHANGED <<members, limit, peak>>
  BY InviteShape DEF FindMember, MembersInv, Peaked, NoInvite
<1>2. CASE invite' = [invite EXCEPT ![i] = NoInvite]
  BY <1>1, <1>2, InviteStep DEF NoInvite
<1>3. CASE invite' # [invite EXCEPT ![i] = NoInvite]
  <2>1. RowsOf(invite[i].user) = {}
    BY <1>3 DEF FindMember, MembersInv, MembersTypeOK
  <2>2. PICK step \in {"count", "insert"} :
           /\ invite' = [invite EXCEPT ![i] = [invite[i] EXCEPT !.step = step]]
           /\ step = "insert" => invite[i].limit = Unlimited
    BY <2>1 DEF FindMember, MembersInv, MembersTypeOK
  <2> DEFINE next == [invite[i] EXCEPT !.step = step]
  <2>3. /\ next \in [step : {"find", "count", "insert"}, user : Member,
                     limit : Limits \union {Unlimited}]
        /\ next.step = step /\ next.user = invite[i].user /\ next.limit = invite[i].limit
    BY <1>1
  <2>4. step = "insert" => peak = Unlimited
    BY <1>1, <2>2 DEF AtMostPeak
  <2>5. invite' = [invite EXCEPT ![i] = next]
    BY <2>2
  <2> HIDE DEF next
  <2>6. QED
    BY <1>1, <2>1, <2>3, <2>4, <2>5, InviteStep
<1>4. QED
  BY <1>2, <1>3

LEMMA CountMembersStep ==
  ASSUME MembersInv, NEW i \in Inviter, CountMembers(i)
  PROVE  MembersInv'
<1> USE MembersAssumption DEF Unlimited
<1>1. /\ invite[i] \in [step : {"find", "count", "insert"}, user : Member,
                        limit : Limits \union {Unlimited}]
      /\ AtMostPeak(invite[i].limit) /\ UNCHANGED <<members, limit, peak>>
      /\ invite[i].step = "count"
  BY InviteShape DEF CountMembers, MembersInv, Peaked, NoInvite
<1>2. CASE invite' = [invite EXCEPT ![i] = NoInvite]
  BY <1>1, <1>2, InviteStep DEF NoInvite
<1>3. CASE invite' # [invite EXCEPT ![i] = NoInvite]
  <2> DEFINE next == [invite[i] EXCEPT !.step = "insert"]
  <2>1. /\ ~(Cardinality(members) >= invite[i].limit)
        /\ invite' = [invite EXCEPT ![i] = next]
    BY <1>3 DEF CountMembers, MembersInv, MembersTypeOK
  <2>2. Cardinality(members) \in Nat
    BY Counted DEF MembersInv
  <2>3. peak \in Nat /\ invite[i].limit \in Nat
    BY <1>1, InviteShape DEF MembersInv, MembersTypeOK, NoInvite
  <2>4. peak # Unlimited => Cardinality(members) < peak
    BY <1>1, <2>1, <2>2, <2>3 DEF AtMostPeak
  <2>5. /\ next \in [step : {"find", "count", "insert"}, user : Member,
                     limit : Limits \union {Unlimited}]
        /\ next.step = "insert" /\ next.user = invite[i].user /\ next.limit = invite[i].limit
    BY <1>1
  <2>6. i \in Looked(next.user)
    BY <1>1, <2>5 DEF Looked
  <2> HIDE DEF next
  <2>7. QED
    BY <1>1, <2>1, <2>4, <2>5, <2>6, InviteStep
<1>4. QED
  BY <1>2, <1>3

LEMMA InsertMemberStep ==
  ASSUME MembersInv, NEW i \in Inviter, InsertMember(i)
  PROVE  MembersInv'
<1> USE MembersAssumption
<1> DEFINE u == invite[i].user
           n == Cardinality(members)
           row == [id |-> n + 1, user |-> u, active |-> TRUE, deleted |-> FALSE]
<1>1. /\ invite[i].step = "insert" /\ u \in Member /\ n < MaxMember /\ n \in Nat
      /\ members' = members \union {row} /\ invite' = [invite EXCEPT ![i] = NoInvite]
      /\ UNCHANGED <<limit, peak>>
  BY InviteShape, Counted DEF InsertMember, MembersInv, NoInvite
<1>2. /\ row \in MemberRow /\ row.id = n + 1 /\ row.user = u
  BY <1>1 DEF MemberRow
<1>3. /\ invite'[i] = NoInvite /\ \A j \in Inviter \ {i} : invite'[j] = invite[j]
  BY <1>1 DEF MembersInv, MembersTypeOK
<1> HIDE DEF row, n
<1>4. MembersTypeOK'
  BY <1>1, <1>2 DEF MembersInv, MembersTypeOK
<1>5. \A m \in members : m.id \in Nat /\ m.id <= n
  BY DEF MembersInv, MembersTypeOK, MemberRow, Numbered, n
<1>6. IsFiniteSet(members') /\ Cardinality(members') = n + 1
  <2>1. row \notin members
    BY <1>1, <1>2, <1>5
  <2>2. QED
    BY <1>1, <2>1, FS_AddElement DEF MembersInv, Numbered, n
<1>7. Numbered'
  <2>1. \A m \in members' : m.id \in Nat /\ m.id <= n + 1
    BY <1>1, <1>2, <1>5
  <2>2. \A m \in members : m.id # row.id
    BY <1>1, <1>2, <1>5
  <2>3. \A m, k \in members' : m.id = k.id => m = k
    BY <1>1, <2>2 DEF MembersInv, Numbered
  <2>4. QED
    BY <1>6, <2>1, <2>3 DEF Numbered
<1>8. Peaked'
  BY <1>1, <1>3 DEF MembersInv, Peaked, AtMostPeak
<1>9. RowsBounded'
  <2>1. Inserting' = Inserting \ {i} /\ i \in Inserting
    BY <1>1, <1>3 DEF Inserting, NoInvite
  <2>2. Cardinality(Inserting') = Cardinality(Inserting) - 1
        /\ Cardinality(Inserting) \in Nat /\ Cardinality(Inviter) \in Nat
    BY <2>1, Counted, FS_RemoveElement DEF MembersInv
  <2>3. peak \in Nat
    BY DEF MembersInv, MembersTypeOK, Unlimited
  <2>4. QED
    BY <1>1, <1>6, <2>2, <2>3 DEF MembersInv, RowsBounded, n
<1>10. RowsOnce'
  <2> SUFFICES ASSUME NEW v \in Member
               PROVE  Cardinality(RowsOf(v)') + Cardinality(Looked(v)') <= Cardinality(Inviter)
    BY DEF RowsOnce
  <2>1. /\ Cardinality(RowsOf(v)) + Cardinality(Looked(v)) <= Cardinality(Inviter)
        /\ IsFiniteSet(RowsOf(v)) /\ Cardinality(RowsOf(v)) \in Nat
        /\ IsFiniteSet(Looked(v)) /\ Cardinality(Looked(v)) \in Nat
    BY Counted DEF MembersInv, RowsOnce
  <2>2. CASE v = u
    <3>1. RowsOf(v)' = RowsOf(v) \union {row} /\ Looked(v)' = Looked(v) \ {i} /\ i \in Looked(v)
      BY <1>1, <1>2, <1>3, <2>2 DEF RowsOf, Looked, NoInvite
    <3>2. Cardinality(RowsOf(v)') \in {Cardinality(RowsOf(v)), Cardinality(RowsOf(v)) + 1}
      BY <2>1, <3>1, FS_AddElement
    <3>3. Cardinality(Looked(v)') = Cardinality(Looked(v)) - 1
      BY <2>1, <3>1, FS_RemoveElement
    <3>4. Cardinality(Inviter) \in Nat
      BY FS_CardinalityType
    <3>5. QED
      BY <2>1, <3>2, <3>3, <3>4
  <2>3. CASE v # u
    <3>1. RowsOf(v)' = RowsOf(v) /\ Looked(v)' = Looked(v)
      BY <1>1, <1>2, <1>3, <2>3 DEF RowsOf, Looked, NoInvite
    <3>2. QED
      BY <2>1, <3>1
  <2>4. QED
    BY <2>2, <2>3
<1>11. QED
  BY <1>4, <1>7, <1>8, <1>9, <1>10 DEF MembersInv

(* update_member and remove_member replace a row by another of its number. *)
LEMMA RowStep ==
  ASSUME MembersInv, NEW m \in members, NEW new \in MemberRow, new.id = m.id, new.user = m.user,
         members' = (members \ {m}) \union {new}, UNCHANGED <<limit, invite, peak>>
  PROVE  MembersInv'
<1>1. new \notin members \ {m}
  BY DEF MembersInv, Numbered
<1>2. IsFiniteSet(members') /\ Cardinality(members') = Cardinality(members)
  BY <1>1, Replaced DEF MembersInv, Numbered
<1>3. MembersTypeOK'
  BY DEF MembersInv, MembersTypeOK
<1>4. Numbered'
  BY <1>2 DEF MembersInv, Numbered
<1>5. Peaked'
  BY DEF MembersInv, Peaked, AtMostPeak
<1>6. RowsBounded'
  BY <1>2 DEF MembersInv, RowsBounded, Inserting
<1>7. RowsOnce'
  <2> SUFFICES ASSUME NEW u \in Member PROVE Cardinality(RowsOf(u)') = Cardinality(RowsOf(u))
    BY DEF MembersInv, RowsOnce, Looked
  <2>1. CASE m.user = u
    <3>1. RowsOf(u)' = (RowsOf(u) \ {m}) \union {new} /\ m \in RowsOf(u) /\ new \notin RowsOf(u) \ {m}
      BY <1>1, <2>1 DEF RowsOf
    <3>2. QED
      BY <3>1, Replaced, Counted DEF MembersInv
  <2>2. CASE m.user # u
    BY <2>2 DEF RowsOf
  <2>3. QED
    BY <2>1, <2>2
<1>8. QED
  BY <1>3, <1>4, <1>5, <1>6, <1>7 DEF MembersInv

LEMMA MembersStep == MembersInv /\ [MembersNext]_membersVars => MembersInv'
<1> SUFFICES ASSUME MembersInv, [MembersNext]_membersVars PROVE MembersInv'
  OBVIOUS
<1>1. ASSUME NEW i \in Inviter, NEW u \in Member, InviteMember(i, u) PROVE MembersInv'
  <2> DEFINE next == [step |-> "find", user |-> u, limit |-> limit]
  <2>1. /\ next \in [step : {"find", "count", "insert"}, user : Member, limit : Limits \union {Unlimited}]
        /\ next.limit = limit /\ next.step = "find"
    BY DEF MembersInv, MembersTypeOK
  <2>2. AtMostPeak(limit)
    BY DEF MembersInv, Peaked
  <2>3. invite' = [invite EXCEPT ![i] = next] /\ UNCHANGED <<members, limit, peak>>
    BY <1>1 DEF InviteMember
  <2> HIDE DEF next
  <2>4. QED
    BY <2>1, <2>2, <2>3, InviteStep
<1>2. ASSUME NEW m \in members, RemoveMember(m) PROVE MembersInv'
  <2>1. m \in MemberRow
    BY DEF MembersInv, MembersTypeOK
  <2>2. [m EXCEPT !.deleted = TRUE] \in MemberRow
        /\ [m EXCEPT !.deleted = TRUE].id = m.id /\ [m EXCEPT !.deleted = TRUE].user = m.user
    BY <2>1 DEF MemberRow
  <2>3. QED
    BY <1>2, <2>2, RowStep DEF RemoveMember
<1>3. ASSUME NEW m \in members, NEW active \in BOOLEAN, UpdateMember(m, active) PROVE MembersInv'
  <2>1. m \in MemberRow
    BY DEF MembersInv, MembersTypeOK
  <2>2. [m EXCEPT !.active = active] \in MemberRow
        /\ [m EXCEPT !.active = active].id = m.id /\ [m EXCEPT !.active = active].user = m.user
    BY <2>1 DEF MemberRow
  <2>3. QED
    BY <1>3, <2>2, RowStep DEF UpdateMember
<1>4. CASE UNCHANGED membersVars
  BY <1>4 DEF membersVars, MembersInv, MembersTypeOK, Numbered, Peaked, AtMostPeak, RowsBounded,
     RowsOnce, Inserting, Looked, RowsOf
<1>5. QED
  BY <1>1, <1>2, <1>3, <1>4, PlanStep, FindMemberStep, CountMembersStep, InsertMemberStep DEF MembersNext

LEMMA MembersHold == MembersInv => MembersTypeOK /\ MembersSafe
<1> SUFFICES ASSUME MembersInv PROVE MembersTypeOK /\ MembersSafe
  OBVIOUS
<1>1. Cardinality(Inserting) \in Nat /\ Cardinality(members) \in Nat /\ Cardinality(Inviter) \in Nat
      /\ \A u : Cardinality(RowsOf(u)) \in Nat /\ Cardinality(Looked(u)) \in Nat
  BY Counted DEF MembersInv
<1>2. peak \in Nat
  BY MembersAssumption DEF MembersInv, MembersTypeOK, Unlimited
<1>3. MembersBounded /\ MembersOnce
  BY <1>1, <1>2 DEF MembersInv, RowsBounded, RowsOnce, MembersBounded, MembersOnce
<1>4. QED
  BY <1>3 DEF MembersInv, MembersSafe

-----------------------------------------------------------------------------
(***************************************************************************)
(* The tenant of a request.  A request that no other one has disturbed     *)
(* finds the context as it left it: empty until its own tenant is set.     *)
(***************************************************************************)
ContextKept ==
    \A c \in Call \ disturbed :
        /\ call[c].step = "resolve" => context = NoOrg
        /\ call[c].step = "handle" => context = call[c].org

(* What it reads, or will read first, is its own. *)
ReadsOwn == \A c \in Call \ disturbed : call[c] # Away => seen[c] = call[c].org

ContextInv == ContextTypeOK /\ ContextKept /\ ReadsOwn

LEMMA ContextInitially == ContextInit => ContextInv
  BY DEF ContextInit, ContextInv, ContextTypeOK, ContextKept, ReadsOwn, Away

(* dispatch begins: every request in progress is disturbed. *)
LEMMA DispatchStep ==
  ASSUME ContextInv, NEW c \in Call, NEW o \in Org \union {NoOrg},
         NEW step \in {"resolve", "handle"}, step = "handle" => o = NoOrg,
         Clear(c), call' = [call EXCEPT ![c] = [step |-> step, org |-> o]],
         seen' = [seen EXCEPT ![c] = o], UNCHANGED orgStatus
  PROVE  ContextInv'
<1>1. ContextTypeOK'
  BY DEF ContextInv, ContextTypeOK, Clear, Others
<1>2. /\ context' = NoOrg /\ call'[c] = [step |-> step, org |-> o] /\ seen'[c] = o
      /\ \A d \in Call \ {c} : call'[d] = call[d] /\ seen'[d] = seen[d]
  BY DEF ContextInv, ContextTypeOK, Clear
<1>3. \A d \in Call \ {c} : d \notin disturbed' => call[d] = Away
  BY DEF Clear, Others
<1>4. ContextKept'
  BY <1>2, <1>3 DEF ContextKept, Away
<1>5. ReadsOwn'
  BY <1>2, <1>3 DEF ReadsOwn
<1>6. QED
  BY <1>1, <1>4, <1>5 DEF ContextInv

LEMMA ResolveStep ==
  ASSUME ContextInv, NEW c \in Call, Resolve(c)
  PROVE  ContextInv'
<1> DEFINE o == call[c].org
<1>1. call[c].step = "resolve" /\ call[c] # Away /\ o \in Org \union {NoOrg}
      /\ UNCHANGED <<orgStatus, seen>>
  BY DEF Resolve, ContextInv, ContextTypeOK, Away
<1>2. CASE call' = [call EXCEPT ![c] = Away] /\ UNCHANGED <<context, disturbed>>
  BY <1>1, <1>2 DEF ContextInv, ContextTypeOK, ContextKept, ReadsOwn, Away
<1>3. CASE /\ call' = [call EXCEPT ![c].step = "handle"]
           /\ context' = IF o = NoOrg THEN context ELSE o
           /\ disturbed' = IF o = NoOrg THEN disturbed ELSE disturbed \union Others(c)
  <2>1. ContextTypeOK'
    BY <1>1, <1>3 DEF ContextInv, ContextTypeOK, Others
  <2>2. /\ call'[c].step = "handle" /\ call'[c].org = o
        /\ \A d \in Call \ {c} : call'[d] = call[d]
    BY <1>1, <1>3 DEF ContextInv, ContextTypeOK
  <2>3. disturbed \subseteq disturbed'
        /\ \A d \in Call \ {c} : d \notin disturbed' => context' = context \/ call[d] = Away
    BY <1>3 DEF Others
  <2>4. c \notin disturbed' => context' = o
    BY <1>1, <1>3, <2>3 DEF ContextInv, ContextKept
  <2>5. ContextKept'
    BY <2>2, <2>3, <2>4 DEF ContextInv, ContextKept, Away
  <2>6. ReadsOwn'
    BY <1>1, <2>2, <2>3 DEF ContextInv, ReadsOwn
  <2>7. QED
    BY <2>1, <2>5, <2>6 DEF ContextInv
<1>4. QED
  BY <1>2, <1>3 DEF Resolve

LEMMA ContextStep == ContextInv /\ [ContextNext]_contextVars => ContextInv'
<1> SUFFICES ASSUME ContextInv, [ContextNext]_contextVars PROVE ContextInv'
  OBVIOUS
<1>1. ASSUME NEW c \in Call, DispatchExcluded(c) PROVE ContextInv'
  BY <1>1, DispatchStep DEF DispatchExcluded
<1>2. ASSUME NEW c \in Call, NEW o \in Org \union {NoOrg}, Dispatch(c, o) PROVE ContextInv'
  BY <1>2, DispatchStep DEF Dispatch
<1>3. ASSUME NEW c \in Call, GetTenant(c) PROVE ContextInv'
  BY <1>3 DEF GetTenant, ContextInv, ContextTypeOK, ContextKept, ReadsOwn
<1>4. ASSUME NEW c \in Call, Respond(c) PROVE ContextInv'
  BY <1>4 DEF Respond, ContextInv, ContextTypeOK, ContextKept, ReadsOwn, Away
<1>5. ASSUME NEW o \in Org, NEW status \in {"ACTIVE", "SUSPENDED", "CANCELLED"}, OrgChanges(o, status)
      PROVE  ContextInv'
  BY <1>5 DEF OrgChanges, ContextInv, ContextTypeOK, ContextKept, ReadsOwn
<1>6. CASE UNCHANGED contextVars
  BY <1>6 DEF contextVars, ContextInv, ContextTypeOK, ContextKept, ReadsOwn
<1>7. QED
  BY <1>1, <1>2, <1>3, <1>4, <1>5, <1>6, ResolveStep DEF ContextNext

LEMMA ContextHolds == ContextInv => ContextTypeOK /\ ContextOwn
  BY DEF ContextInv, ContextTypeOK, ReadsOwn, ContextOwn, Away

-----------------------------------------------------------------------------
(***************************************************************************)
(* The rate limit.  What is admitted was counted, and was within the limit *)
(* of some tier when it was counted.                                       *)
(***************************************************************************)
LimiterInv == LimiterTypeOK /\ admitted <= counter /\ LimiterSafe

LEMMA LimiterInitially == LimiterInit => LimiterInv
<1> SUFFICES ASSUME LimiterInit PROVE LimiterInv
  OBVIOUS
<1>1. expiring \in BOOLEAN /\ orphaned \in BOOLEAN
  BY Zenon DEF LimiterInit
<1>2. LimiterTypeOK
  BY <1>1, LimiterAssumption DEF LimiterInit, LimiterTypeOK
<1>3. LimiterSafe /\ admitted <= counter
  BY LimiterAssumption DEF LimiterInit, LimiterSafe, AdmittedBounded, CounterExpires
<1>4. QED
  BY <1>2, <1>3 DEF LimiterInv

LEMMA IncrementStep ==
  ASSUME LimiterInv, NEW c \in Checker, Increment(c)
  PROVE  LimiterInv'
<1> USE LimiterAssumption
<1> DEFINE cost == check[c].cost
           most == check[c].limit
<1>1. /\ check[c] \in [step : {"incr"}, limit : TierLimit, cost : Cost]
      /\ counter' = counter + cost /\ counter + cost <= MaxCounter
      /\ UNCHANGED <<tierLimit, expiring, orphaned>>
  BY DEF Increment, LimiterInv, LimiterTypeOK, NoCheck
<1>2. /\ cost \in Nat \ {0} /\ most \in TierLimit /\ most \in Nat
      /\ counter \in Nat /\ admitted \in Nat
  <2>1. cost \in Cost /\ most \in TierLimit
    BY <1>1
  <2>2. \A n \in Cost : n \in Nat \ {0}
    OBVIOUS
  <2>3. \A n \in TierLimit : n \in Nat
    OBVIOUS
  <2>4. counter \in Nat /\ admitted \in Nat
    BY DEF LimiterInv, LimiterTypeOK
  <2>5. QED
    BY <2>1, <2>2, <2>3, <2>4
<1>3. /\ check' \in [Checker -> {NoCheck, [step |-> "expire"]}
                                   \union [step : {"incr"}, limit : TierLimit, cost : Cost]]
      /\ \A d \in Checker : check[d].step = "expire" => check'[d].step = "expire"
      /\ counter = 0 => check'[c].step = "expire"
  BY <1>1, <1>2 DEF Increment, LimiterInv, LimiterTypeOK
<1>4. /\ admitted' \in {admitted, admitted + cost}
      /\ admitted' = admitted + cost => counter' <= most
  BY <1>2 DEF Increment, Admits
<1>5. admitted' <= counter' /\ admitted' \in 0..MaxCounter /\ counter' \in 0..MaxCounter
  BY <1>1, <1>2, <1>4 DEF LimiterInv, LimiterTypeOK
<1>6. AdmittedBounded'
  BY <1>1, <1>2, <1>4, <1>5 DEF LimiterInv, LimiterSafe, AdmittedBounded
<1>7. CounterExpires'
  <2>1. CASE counter = 0
    BY <1>3, <2>1 DEF CounterExpires
  <2>2. CASE counter # 0
    <3>1. expiring \/ orphaned \/ \E d \in Checker : check[d].step = "expire"
      BY <1>2, <2>2 DEF LimiterInv, LimiterSafe, CounterExpires
    <3>2. QED
      BY <1>1, <1>3, <3>1 DEF CounterExpires
  <2>3. QED
    BY <2>1, <2>2
<1>8. LimiterTypeOK'
  BY <1>1, <1>3, <1>5, Zenon DEF LimiterInv, LimiterTypeOK
<1>9. QED
  BY <1>5, <1>6, <1>7, <1>8 DEF LimiterInv, LimiterSafe

LEMMA LimiterStep == LimiterInv /\ [LimiterNext]_limiterVars => LimiterInv'
<1> SUFFICES ASSUME LimiterInv, [LimiterNext]_limiterVars PROVE LimiterInv'
  OBVIOUS
<1> USE LimiterAssumption DEF LimiterInv, LimiterSafe
<1>1. ASSUME NEW most \in TierLimit, SetTier(most) PROVE LimiterInv'
  BY <1>1 DEF SetTier, LimiterTypeOK, AdmittedBounded, CounterExpires
<1>2. ASSUME NEW c \in Checker, NEW cost \in Cost, ReadTier(c, cost) PROVE LimiterInv'
  <2>1. LimiterTypeOK'
    BY <1>2 DEF ReadTier, LimiterTypeOK
  <2>2. \A d \in Checker : check[d].step = "expire" => check'[d].step = "expire"
    BY <1>2 DEF ReadTier, LimiterTypeOK, NoCheck
  <2>3. QED
    BY <1>2, <2>1, <2>2 DEF ReadTier, AdmittedBounded, CounterExpires
<1>3. ASSUME NEW c \in Checker, Expire(c) PROVE LimiterInv'
  <2>1. expiring' = TRUE /\ check' = [check EXCEPT ![c] = NoCheck]
        /\ UNCHANGED <<tierLimit, counter, admitted, orphaned>>
    BY <1>3, Zenon DEF Expire
  <2>2. check' \in [Checker -> {NoCheck, [step |-> "expire"]}
                                 \union [step : {"incr"}, limit : TierLimit, cost : Cost]]
    BY <2>1 DEF LimiterTypeOK
  <2>3. LimiterTypeOK'
    BY <2>1, <2>2, Zenon DEF LimiterTypeOK
  <2>4. CounterExpires'
    BY <2>1, Zenon DEF CounterExpires
  <2>5. AdmittedBounded' /\ admitted' <= counter'
    BY <2>1 DEF AdmittedBounded
  <2>6. QED
    BY <2>3, <2>4, <2>5
<1>4. ASSUME NEW c \in Checker, ExpireFails(c) PROVE LimiterInv'
  <2>1. orphaned' = TRUE /\ check' = [check EXCEPT ![c] = NoCheck]
        /\ UNCHANGED <<tierLimit, counter, admitted, expiring>>
    BY <1>4, Zenon DEF ExpireFails
  <2>2. check' \in [Checker -> {NoCheck, [step |-> "expire"]}
                                 \union [step : {"incr"}, limit : TierLimit, cost : Cost]]
    BY <2>1 DEF LimiterTypeOK
  <2>3. LimiterTypeOK'
    BY <2>1, <2>2, Zenon DEF LimiterTypeOK
  <2>4. CounterExpires'
    BY <2>1, Zenon DEF CounterExpires
  <2>5. AdmittedBounded' /\ admitted' <= counter'
    BY <2>1 DEF AdmittedBounded
  <2>6. QED
    BY <2>3, <2>4, <2>5
<1>5. CASE WindowEnds
  <2>1. /\ counter' = 0 /\ admitted' = 0 /\ expiring' \in BOOLEAN /\ UNCHANGED <<tierLimit, check, orphaned>>
    BY <1>5, Zenon DEF WindowEnds
  <2>2. 0 \in 0..MaxCounter
    OBVIOUS
  <2>3. LimiterTypeOK'
    BY <2>1, <2>2, Zenon DEF LimiterTypeOK
  <2>4. AdmittedBounded' /\ CounterExpires' /\ admitted' <= counter'
    BY <2>1 DEF AdmittedBounded, CounterExpires
  <2>5. QED
    BY <2>3, <2>4
<1>6. CASE UNCHANGED limiterVars
  BY <1>6 DEF limiterVars, LimiterTypeOK, AdmittedBounded, CounterExpires
<1>7. QED
  BY <1>1, <1>2, <1>3, <1>4, <1>5, <1>6, IncrementStep DEF LimiterNext

-----------------------------------------------------------------------------
(***************************************************************************)
(* Tenants in memory.  As long as update_tenant leaves its slug alone, the *)
(* entry that create_tenant made for a tenant is its own.                  *)
(***************************************************************************)
Indexed == \A t \in Present \ renamed : entity[t].slug \in Slug /\ slugIndex[entity[t].slug] = t

TenantServiceInv == TenantServiceTypeOK /\ Indexed

LEMMA TenantServiceInitially == TenantServiceInit => TenantServiceInv
  BY TenantServiceAssumption DEF TenantServiceInit, TenantServiceInv, TenantServiceTypeOK, Indexed,
     Present, Absent

LEMMA CreateEntityStep ==
  ASSUME TenantServiceInv, NEW t \in Entity, NEW s \in Slug, NEW plan \in ServicePlan,
         CreateEntity(t, s, plan)
  PROVE  TenantServiceInv'
<1>1. TenantServiceTypeOK'
  BY TenantServiceAssumption DEF TenantServiceInv, TenantServiceTypeOK, CreateEntity
<1>2. /\ entity'[t].slug = s /\ slugIndex'[s] = t /\ renamed' = renamed
      /\ \A u \in Entity \ {t} : entity'[u] = entity[u]
      /\ \A q \in Slug \ {s} : slugIndex'[q] = slugIndex[q]
  BY DEF TenantServiceInv, TenantServiceTypeOK, CreateEntity
<1>3. \A u \in Entity \ {t} : u \in Present' <=> u \in Present
  BY <1>2 DEF Present
<1>4. \A u \in Present \ renamed : entity[u].slug # s
  BY TenantServiceAssumption DEF TenantServiceInv, Indexed, CreateEntity, SlugFree, Present
<1>5. Indexed'
  BY <1>2, <1>3, <1>4 DEF TenantServiceInv, Indexed, Present
<1>6. QED
  BY <1>1, <1>5 DEF TenantServiceInv

(* A tenant keeps its slug, or is renamed. *)
LEMMA EntityStep ==
  ASSUME TenantServiceInv, NEW t \in Present,
         NEW new \in [slug : Slug \union {NoSlug}, plan : ServicePlan,
                      status : {"none", "TRIAL", "ACTIVE", "SUSPENDED"}],
         entity' = [entity EXCEPT ![t] = new], renamed' \in {renamed, renamed \union {t}},
         new.slug = entity[t].slug \/ t \in renamed', UNCHANGED <<slugIndex, usage>>
  PROVE  TenantServiceInv'
<1>1. TenantServiceTypeOK'
  BY DEF TenantServiceInv, TenantServiceTypeOK, Present
<1>2. /\ entity'[t] = new /\ renamed \subseteq renamed'
      /\ \A u \in Entity \ {t} : entity'[u] = entity[u]
  BY DEF TenantServiceInv, TenantServiceTypeOK, Present
<1>3. Indexed'
  BY <1>2 DEF TenantServiceInv, Indexed, Present
<1>4. QED
  BY <1>1, <1>3 DEF TenantServiceInv

LEMMA TenantServiceStep == TenantServiceInv /\ [TenantServiceNext]_tenantServiceVars => TenantServiceInv'
<1> SUFFICES ASSUME TenantServiceInv, [TenantServiceNext]_tenantServiceVars PROVE TenantServiceInv'
  OBVIOUS
<1>1. \A t \in Entity : entity[t] \in [slug : Slug \union {NoSlug}, plan : ServicePlan,
                                       status : {"none", "TRIAL", "ACTIVE", "SUSPENDED"}]
  BY DEF TenantServiceInv, TenantServiceTypeOK
<1>2. ASSUME NEW t \in Entity, NEW s \in Slug, UpdateSlug(t, s) PROVE TenantServiceInv'
  BY <1>1, <1>2, EntityStep DEF UpdateSlug
<1>3. ASSUME NEW t \in Entity, NEW plan \in ServicePlan, UpgradeEntity(t, plan) PROVE TenantServiceInv'
  <2> DEFINE new == [entity[t] EXCEPT !.plan = plan, !.status = "ACTIVE"]
  <2>1. /\ new \in [slug : Slug \union {NoSlug}, plan : ServicePlan,
                    status : {"none", "TRIAL", "ACTIVE", "SUSPENDED"}]
        /\ new.slug = entity[t].slug
    BY <1>1
  <2>2. entity' = [entity EXCEPT ![t] = new] /\ t \in Present /\ UNCHANGED <<slugIndex, usage, renamed>>
    BY <1>3 DEF UpgradeEntity
  <2> HIDE DEF new
  <2>3. QED
    BY <2>1, <2>2, EntityStep
<1>4. ASSUME NEW t \in Entity, NEW status \in {"ACTIVE", "SUSPENDED"}, SetEntityStatus(t, status)
      PROVE  TenantServiceInv'
  <2> DEFINE new == [entity[t] EXCEPT !.status = status]
  <2>1. /\ new \in [slug : Slug \union {NoSlug}, plan : ServicePlan,
                    status : {"none", "TRIAL", "ACTIVE", "SUSPENDED"}]
        /\ new.slug = entity[t].slug
    BY <1>1
  <2>2. entity' = [entity EXCEPT ![t] = new] /\ t \in Present /\ UNCHANGED <<slugIndex, usage, renamed>>
    BY <1>4 DEF SetEntityStatus
  <2> HIDE DEF new
  <2>3. QED
    BY <2>1, <2>2, EntityStep
<1>5. ASSUME NEW t \in Entity, RecordUsage(t) PROVE TenantServiceInv'
  BY <1>5, TenantServiceAssumption
  DEF RecordUsage, TenantServiceInv, TenantServiceTypeOK, Indexed, Present
<1>7. CASE UNCHANGED tenantServiceVars
  BY <1>7 DEF tenantServiceVars, TenantServiceInv, TenantServiceTypeOK, Indexed, Present
<1>8. QED
  BY <1>2, <1>3, <1>4, <1>5, <1>7, CreateEntityStep
  DEF TenantServiceNext, SuspendEntity, ReactivateEntity

LEMMA TenantServiceHolds == TenantServiceInv => TenantServiceTypeOK /\ SlugOfOne
  BY DEF TenantServiceInv, Indexed, SlugOfOne, GetTenantBySlug

-----------------------------------------------------------------------------
(* For any number of tenants, customers, events and requests at a time: an *)
(* event of Stripe changes a tenant once, and Stripe stops sending only    *)
(* what was committed, met no tenant, is handled by nobody or raised.      *)
THEOREM BillingIsSafe == BillingSpec => []BillingSafe
<1>1. BillingInv => BillingSafe
  BY BillingHolds DEF BillingSafe
<1>2. QED
  BY <1>1, BillingInitially, BillingStep, PTL DEF BillingSpec

(* The parts of tenancy besides. *)
TenancyInv == MembersInv /\ ContextInv /\ LimiterInv /\ TenantServiceInv

(* For any number of invitations, requests, calls and tenants: a limit of  *)
(* members is exceeded only by invitations that counted at once, a handler *)
(* that no other request disturbed reads its own tenant, no window admits  *)
(* more than the largest tier, and a slug leads to the tenant that has it. *)
THEOREM TenancyIsSafe == Spec => []TenancySafe
<1>1. Init => TenancyInv
  BY MembersInitially, ContextInitially, LimiterInitially, TenantServiceInitially
  DEF Init, TenancyInv
<1>2. [Next]_vars => /\ [MembersNext]_membersVars /\ [ContextNext]_contextVars
                     /\ [LimiterNext]_limiterVars /\ [TenantServiceNext]_tenantServiceVars
  BY DEF Next, vars, membersVars, contextVars, limiterVars, tenantServiceVars
<1>3. TenancyInv /\ [Next]_vars => TenancyInv'
  BY <1>2, MembersStep, ContextStep, LimiterStep, TenantServiceStep DEF TenancyInv
<1>4. TenancyInv => TenancySafe
  BY MembersHold, ContextHolds, TenantServiceHolds DEF TenancyInv, TenancySafe, LimiterInv
<1>5. QED
  BY <1>1, <1>3, <1>4, PTL DEF Spec
==============================================================================

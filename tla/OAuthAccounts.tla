---------------------------- MODULE OAuthAccounts ----------------------------
(***************************************************************************)
(* OAuth sign-in and account linking: the OAuthService of                  *)
(* api/oauth/__init__.py and the handlers of api/oauth/routes.py, as       *)
(* requests of one event loop that interleave where they await.            *)
(*                                                                         *)
(* External: the provider, which answers a code with an account of its     *)
(* own or not at all; and the table of links, which the code imports and   *)
(* no schema defines, so it has no constraint but its primary key.         *)
(* A principal is named by its wallet_address: a wallet, or, for one that  *)
(* a sign-in created, the account at the provider.  A request that is      *)
(* answered before it changed anything is no step.                         *)
(***************************************************************************)
EXTENDS Naturals, FiniteSets

CONSTANTS Worker,       \* requests in progress at one time
          State,        \* values of the state parameter
          Provider,
          Configured,   \* providers with credentials in the environment
          Account,      \* accounts at the providers
          ProviderOf,   \* the provider of an account
          WithEmail,    \* accounts whose user info has an e-mail address
          Wallet,       \* principals that own a wallet
          MaxRow        \* bound: rows that the table of links ever holds at once

ASSUME OAuthAssumption ==
    /\ Configured \subseteq Provider
    /\ ProviderOf \in [Account -> Provider]
    /\ WithEmail \subseteq Account
    /\ Wallet \intersect Account = {}
    /\ MaxRow \in Nat

VARIABLES states,       \* _states, and what became of each state
          principals,   \* rows of data_principals
          tokens,       \* principals that hold a token
          links,        \* rows of the table of links
          request,      \* request[w]: what a request has left to do
          exchanged,    \* history: codes sent to a provider for each state
          overlapped    \* history: two links were checked at the same time

oauthVars == <<states, principals, tokens, links, request, exchanged, overlapped>>

Principal == Wallet \union Account
Link == [row : 1..MaxRow, principal : Principal, account : Account]
Ready == [step |-> "none"]
Fetching == [step : {"fetch"}, op : {"callback", "browser"}, state : State]
                \union [step : {"fetch"}, op : {"link"}, state : State, principal : Wallet]
Saving == [step : {"save"}, op : {"callback", "browser"}, account : Account]
Linking == [step : {"account", "principal", "insert"}, principal : Wallet, account : Account]
Unlinking == [step : {"count", "delete"}, link : Link]

OAuthTypeOK ==
    /\ states \in [State -> {"none", "live", "stale", "gone"}]
    /\ principals \subseteq Principal /\ tokens \subseteq principals
    /\ links \subseteq Link
    /\ request \in [Worker -> Fetching \union Saving \union Linking \union Unlinking \union {Ready}]
    /\ exchanged \in [State -> 0..2]
    /\ overlapped \in BOOLEAN

(* The wallets hold tokens that the wallet sign-in gave them. *)
OAuthInit ==
    /\ states = [s \in State |-> "none"]
    /\ principals = Wallet /\ tokens = Wallet
    /\ links = {}
    /\ request = [w \in Worker |-> Ready]
    /\ exchanged = [s \in State |-> 0]
    /\ overlapped = FALSE

LinkedAccounts(p) == {r \in links : r.principal = p}
LinksOf(p, provider) == {r \in LinkedAccounts(p) : ProviderOf[r.account] = provider}
LinksTo(a) == {r \in links : r.account = a}

(* Row numbers in the table or in hand: a new row gets one of its own. *)
Rows ==
    {r.row : r \in links}
        \union {request[w].link.row : w \in {v \in Worker : request[v].step \in {"count", "delete"}}}

Answer(w) == request' = [request EXCEPT ![w] = Ready]
Go(w, to) == request' = [request EXCEPT ![w] = to]

(* get_authorization_url: a state that stays until a callback names it. *)
AuthorizationUrl(s) == states[s] = "none" /\ states' = [states EXCEPT ![s] = "live"]

(* authorize and authorize/redirect. *)
Authorize(provider, s) ==
    /\ provider \in Configured
    /\ AuthorizationUrl(s)
    /\ UNCHANGED <<principals, tokens, links, request, exchanged, overlapped>>

(* Ten minutes pass. *)
StateAges(s) ==
    /\ states[s] = "live"
    /\ states' = [states EXCEPT ![s] = "stale"]
    /\ UNCHANGED <<principals, tokens, links, request, exchanged, overlapped>>

(* Fault: the state is deleted when the provider has answered. *)
ExchangeCodeKeepsState(w, s, next) ==
    /\ request[w] = Ready /\ states[s] \in {"live", "stale"}
    /\ states' = [states EXCEPT ![s] = IF @ = "stale" THEN "gone" ELSE @]
    /\ exchanged' = [exchanged EXCEPT ![s] = IF states[s] = "live" /\ @ < 2 THEN @ + 1 ELSE @]
    /\ IF states[s] = "live" THEN Go(w, next) ELSE UNCHANGED request

(* exchange_code up to its first await: the state goes, stale or not, and  *)
(* a live one lets the request on to the provider.                         *)
ExchangeCode(w, s, next) ==
    /\ request[w] = Ready /\ states[s] \in {"live", "stale"}
    /\ states' = [states EXCEPT ![s] = "gone"]
    /\ exchanged' = [exchanged EXCEPT ![s] = IF states[s] = "live" /\ @ < 2 THEN @ + 1 ELSE @]
    /\ IF states[s] = "live" THEN Go(w, next) ELSE UNCHANGED request

Callback(w, s) ==
    /\ ExchangeCode(w, s, [step |-> "fetch", op |-> "callback", state |-> s])
    /\ UNCHANGED <<principals, tokens, links, overlapped>>

CallbackBrowser(w, s) ==
    /\ ExchangeCode(w, s, [step |-> "fetch", op |-> "browser", state |-> s])
    /\ UNCHANGED <<principals, tokens, links, overlapped>>

(* A principal that a sign-in created has no wallet that could sign. *)
OwnsWallet(p) == p \in principals \intersect Wallet

LinkAccount(w, s, p) ==
    /\ OwnsWallet(p)
    /\ ExchangeCode(w, s, [step |-> "fetch", op |-> "link", state |-> s, principal |-> p])
    /\ UNCHANGED <<principals, tokens, links, overlapped>>

Checking(w) == request[w].step \in {"account", "principal", "insert"}

(* The token and the user info arrive. *)
Fetched(w, a) ==
    LET r == request[w] IN
    /\ r.step = "fetch" /\ ProviderOf[a] \in Configured
    /\ Go(w, IF r.op = "link"
             THEN [step |-> "account", principal |-> r.principal, account |-> a]
             ELSE [step |-> "save", op |-> r.op, account |-> a])
    /\ overlapped' = (overlapped \/ (r.op = "link" /\ \E v \in Worker \ {w} : Checking(v)))
    /\ UNCHANGED <<states, principals, tokens, links, exchanged>>

(* The provider refuses or does not answer in time. *)
FetchFails(w) ==
    /\ request[w].step = "fetch"
    /\ Answer(w)
    /\ UNCHANGED <<states, principals, tokens, links, exchanged, overlapped>>

(* Tokens are signed for the principal, and asked for when it unlinks. *)
TokensWith(p) == tokens \union {p}
Authenticated(p) == p \in tokens

(* Fault: the new principal is not added to the session. *)
SavePrincipalUnsaved(w, op) ==
    LET r == request[w] IN
    /\ r.step = "save" /\ r.op = op
    /\ tokens' = IF r.account \in WithEmail THEN tokens ELSE TokensWith(r.account)
    /\ Answer(w)
    /\ UNCHANGED <<states, principals, links, exchanged, overlapped>>

(* _get_or_create_principal, commit and tokens.  With an e-mail address    *)
(* the lookup uses a result it did not await and the request fails; a      *)
(* principal that is there already fails the unique wallet_address.        *)
SavePrincipal(w, op) ==
    LET r == request[w] IN
    /\ r.step = "save" /\ r.op = op
    /\ IF r.account \in WithEmail \union principals
       THEN UNCHANGED <<principals, tokens>>
       ELSE /\ principals' = principals \union {r.account}
            /\ tokens' = TokensWith(r.account)
    /\ Answer(w)
    /\ UNCHANGED <<states, links, exchanged, overlapped>>

CallbackSave(w) == SavePrincipal(w, "callback")
BrowserSave(w) == SavePrincipal(w, "browser")

CheckAccount(w) ==
    /\ request[w].step = "account"
    /\ IF LinksTo(request[w].account) # {} THEN Answer(w)
       ELSE Go(w, [request[w] EXCEPT !.step = "principal"])
    /\ UNCHANGED <<states, principals, tokens, links, exchanged, overlapped>>

CheckPrincipal(w) ==
    /\ request[w].step = "principal"
    /\ IF LinksOf(request[w].principal, ProviderOf[request[w].account]) # {} THEN Answer(w)
       ELSE Go(w, [request[w] EXCEPT !.step = "insert"])
    /\ UNCHANGED <<states, principals, tokens, links, exchanged, overlapped>>

InsertLink(w) ==
    /\ request[w].step = "insert"
    /\ \E n \in 1..MaxRow \ Rows :
          /\ \A k \in 1..(n - 1) : k \in Rows
          /\ links' = links \union {[row |-> n, principal |-> request[w].principal,
                                     account |-> request[w].account]}
    /\ Answer(w)
    /\ UNCHANGED <<states, principals, tokens, exchanged, overlapped>>

(* unlink finds exactly one link, or it is answered 404 or fails. *)
UnlinkAccount(w, p, provider) ==
    /\ request[w] = Ready /\ Authenticated(p)
    /\ Cardinality(LinksOf(p, provider)) = 1
    /\ \E r \in LinksOf(p, provider) : Go(w, [step |-> "count", link |-> r])
    /\ UNCHANGED <<states, principals, tokens, links, exchanged, overlapped>>

UnlinkCount(w) ==
    LET p == request[w].link.principal IN
    /\ request[w].step = "count"
    /\ IF Cardinality(LinkedAccounts(p)) <= 1 /\ p \in Account THEN Answer(w)
       ELSE Go(w, [request[w] EXCEPT !.step = "delete"])
    /\ UNCHANGED <<states, principals, tokens, links, exchanged, overlapped>>

UnlinkDelete(w) ==
    /\ request[w].step = "delete"
    /\ links' = {r \in links : r.row # request[w].link.row}
    /\ Answer(w)
    /\ UNCHANGED <<states, principals, tokens, exchanged, overlapped>>

OAuthNext ==
    \/ \E provider \in Provider, s \in State : Authorize(provider, s)
    \/ \E s \in State : StateAges(s)
    \/ \E w \in Worker, s \in State :
          \/ Callback(w, s) \/ CallbackBrowser(w, s)
          \/ \E p \in Principal : LinkAccount(w, s, p)
    \/ \E w \in Worker, a \in Account : Fetched(w, a)
    \/ \E w \in Worker :
          \/ FetchFails(w) \/ CallbackSave(w) \/ BrowserSave(w)
          \/ CheckAccount(w) \/ CheckPrincipal(w) \/ InsertLink(w)
          \/ UnlinkCount(w) \/ UnlinkDelete(w)
    \/ \E w \in Worker, p \in Principal, provider \in Provider : UnlinkAccount(w, p, provider)

OAuthSpec == OAuthInit /\ [][OAuthNext]_oauthVars
-----------------------------------------------------------------------------
(* However callbacks of one state interleave, at most one code is sent to  *)
(* the provider for it: exchange_code deletes the state before it awaits.  *)
StateUsedOnce == \A s \in State : exchanged[s] <= 1 /\ (exchanged[s] = 1 => states[s] = "gone")

(* The two lookups of link are all that keeps an account at one principal  *)
(* and a principal at one account of each provider: it holds until two     *)
(* links are checked at the same time, and unlinking does not disturb it.  *)
LinksUniqueAlone ==
    overlapped \/ \A r, q \in links :
        r # q => /\ r.account # q.account
                 /\ ~(r.principal = q.principal /\ ProviderOf[r.account] = ProviderOf[q.account])

(* Linking takes a signature of the wallet, so a principal that a sign-in  *)
(* created never has a link: what unlink refuses to remove, its last       *)
(* method of signing in, it never meets.                                   *)
OnlyWalletsLink == \A r \in links : r.principal \in Wallet

(* Signing in and linking, together. *)
OAuthSafe == OAuthTypeOK /\ StateUsedOnce /\ LinksUniqueAlone /\ OnlyWalletsLink
=============================================================================

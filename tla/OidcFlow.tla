------------------------------ MODULE OidcFlow ------------------------------
(***************************************************************************)
(* Sign-in through an OpenID provider: routers/auth.py oidc_login and        *)
(* oidc_callback over services/auth_service.py, while the settings change,   *)
(* the provider rotates its keys and the process restarts.                  *)
(*                                                                         *)
(* The settings are the provider they point to, None when SSO is off.       *)
(* State, nonce and PKCE verifier of a flow are drawn together: the number of *)
(* the flow stands for the three.  A callback names a state and a code, which *)
(* need not be of one flow.  One process serves (the deployment's            *)
(* WEB_CONCURRENCY is 1): the two caches are its globals.                    *)
(***************************************************************************)
EXTENDS Integers, Sequences, FiniteSets

CONSTANTS
    Handlers,   \* requests the process may be serving at once
    Browsers,
    Providers,
    Subjects,   \* who signs in at a provider
    Names,      \* usernames; a provider may prefer any of them for anyone
    None,
    MaxFlows,   \* bound: sign-ins started
    MaxPuts,    \* bound: changes of the settings
    MaxKey      \* bound: key rotations, over once a provider has made so many

ASSUME OidcAssumption ==
    /\ None \notin Providers \cup [of : Providers, sub : Subjects] \cup [of : Providers, last : Nat]
    /\ MaxFlows \in Nat /\ MaxPuts \in Nat /\ MaxKey \in Nat

VARIABLES
    configured, \* the oidcsettings row
    discovery,  \* _oidc_discovery_cache: the provider it describes, or None
    jwks,       \* _oidc_jwks_cache
    signing,    \* the provider's newest signing key; it publishes the one before, too
    flows,      \* the sign-ins started: browser, provider sent to, client it was for
    cookie,     \* the flow cookie of each browser: a flow, or 0
    codes,      \* the codes a provider gave: flow, identity, whether redeemed
    rows,       \* the user table: name -> no row, or whose it is
    req,        \* what each handler is doing
    puts,
    signIns,    \* history: the sessions given
    refused,    \* history: flows whose own browser was refused for no reason
    excused,    \* history: flows that are over, or that something may have spoilt
    crossed,    \* history: a request overlapped the last change of the settings
    raced       \* history: accounts linked by two requests that both read them free

vars == <<configured, discovery, jwks, signing, flows, cookie, codes, rows, req, puts,
          signIns, refused, excused, crossed, raced>>
caches == <<discovery, jwks>>
outside == <<signing, flows, codes>>
history == <<signIns, refused, excused, crossed, raced>>

Settings == Providers \cup {None}
FlowIds == Nat \ {0}
Identities == [of : Providers, sub : Subjects]
NoRow == [kind |-> "none", identity |-> None]
Local == [kind |-> "local", identity |-> None]
Legacy == [kind |-> "oidc", identity |-> None]
Bound(i) == [kind |-> "oidc", identity |-> i]
Keys == [of : Providers, last : Nat]
Flow == [browser : Browsers, at : Providers, client : Providers]
Code == [flow : FlowIds, who : Identities, spent : BOOLEAN]
SignIn == [flow : FlowIds, browser : Browsers, who : Identities, account : Names]

Idle == [op |-> "idle"]
Docs == {"want", "asked", "closing"}
LoginRequest == [op : {"login"}, browser : Browsers, cfg : Providers, doc : Docs]
LogoutRequest == [op : {"logout"}, cfg : Providers, doc : Docs]
Stages == {"exchange", "verify", "keys", "userinfo", "provision", "link", "create"}
CallbackRequest ==
    {r \in [op : {"callback"}, browser : Browsers, cfg : Providers, flow : FlowIds, code : FlowIds,
            who : Identities, doc : Docs, pc : Stages, key : Nat, at : Settings,
            name : Names \cup {None}] :
       /\ r.pc = "keys" => r.at \in Providers
       /\ r.pc \in {"provision", "link", "create"} => r.name \in Names}
PutRequest == [op : {"put"}, new : Settings]

TypeOK ==
    /\ configured \in Settings
    /\ discovery \in Settings
    /\ jwks \in Keys \cup {None}
    /\ signing \in [Providers -> Nat]
    /\ flows \in Seq(Flow)
    /\ cookie \in [Browsers -> Nat]
    /\ codes \subseteq Code
    /\ rows \in [Names -> {NoRow, Local, Legacy} \cup {Bound(i) : i \in Identities}]
    /\ req \in [Handlers -> {Idle} \cup LoginRequest \cup LogoutRequest \cup CallbackRequest
                           \cup PutRequest]
    /\ puts \in Nat
    /\ signIns \subseteq SignIn
    /\ refused \subseteq FlowIds /\ excused \subseteq FlowIds
    /\ crossed \in BOOLEAN
    /\ raced \subseteq Names

-----------------------------------------------------------------------------
(* What a handler waits for. *)

Serving(ops) == {h \in Handlers : req[h].op \in ops}

\* Requests that read the settings, and whose answers may fill the caches.
Readers == Serving({"login", "logout", "callback"})

\* The handler is at a call of _get_oidc_discovery.
NeedsDiscovery(h) ==
    \/ req[h].op \in {"login", "logout"}
    \/ (req[h].op = "callback" /\ req[h].pc \in {"exchange", "verify", "userinfo"})

\* What _get_oidc_discovery returns, if it returns now: the cache, at once or when
\* the client it fetched with has been closed, and the cache as it is by then.
Reads(h, d) ==
    /\ NeedsDiscovery(h)
    /\ d = discovery
    /\ req[h].doc = "closing" \/ (req[h].doc = "want" /\ discovery # None)

Moves(h, r) == req' = [req EXCEPT ![h] = r]

Ends(h) == Moves(h, Idle)

\* Mutant: the cookie is not deleted, it is set to nothing.
ClearedToNone(h) == [cookie EXCEPT ![req[h].browser] = None]

\* The redirect at the end of a callback clears the flow cookie, whichever it holds.
Cleared(h) == [cookie EXCEPT ![req[h].browser] = 0]

\* The flow whose cookie is overwritten or cleared under another's callback.
Displaced(b, f) == {cookie[b]} \ {0, f}

\* The callback of h ends on the sign-in page.
Refuse(h, why) ==
    /\ Ends(h)
    /\ cookie' = Cleared(h)
    /\ refused' = refused \cup ({req[h].flow} \ (excused \cup why))
    /\ excused' = excused \cup {req[h].flow} \cup Displaced(req[h].browser, req[h].flow)
    /\ UNCHANGED <<signIns, crossed, raced>>

-----------------------------------------------------------------------------
(* The discovery document. *)

AskDiscovery(h) ==
    /\ NeedsDiscovery(h) /\ req[h].doc = "want" /\ discovery = None
    /\ Moves(h, [req[h] EXCEPT !.doc = "asked"])
    /\ UNCHANGED <<configured, caches, outside, cookie, rows, puts, history>>

\* The answer is kept, whatever has happened to the cache since.
DiscoveryAnswers(h) ==
    /\ NeedsDiscovery(h) /\ req[h].doc = "asked"
    /\ discovery' = req[h].cfg
    /\ Moves(h, [req[h] EXCEPT !.doc = "closing"])
    /\ UNCHANGED <<configured, jwks, outside, cookie, rows, puts, history>>

-----------------------------------------------------------------------------
(* Starting a sign-in. *)

Begin(h, request) ==
    /\ req[h] = Idle /\ configured # None
    /\ Moves(h, request)
    /\ crossed' = (crossed \/ Serving({"put"}) # {})
    /\ UNCHANGED <<configured, caches, outside, cookie, rows, puts, signIns, refused, excused, raced>>

\* oidc_login.  MaxFlows bounds the flows.
BeginLogin(h, b) ==
    /\ Len(flows) + Cardinality(Serving({"login"})) < MaxFlows
    /\ Begin(h, [op |-> "login", browser |-> b, cfg |-> configured, doc |-> "want"])

\* start_oidc_flow, and the cookie that oidc_login sets.
IssueFlow(h) ==
    /\ req[h].op = "login"
    /\ \E d \in Providers :
         /\ Reads(h, d)
         /\ flows' = Append(flows, [browser |-> req[h].browser, at |-> d, client |-> req[h].cfg])
    /\ cookie' = [cookie EXCEPT ![req[h].browser] = Len(flows')]
    /\ excused' = excused \cup Displaced(req[h].browser, 0)
                    \cup (IF crossed \/ Serving({"put"}) # {} THEN {Len(flows')} ELSE {})
    /\ Ends(h)
    /\ UNCHANGED <<configured, caches, signing, codes, rows, puts, signIns, refused, crossed, raced>>

\* logout builds the provider's logout address, which reads the document too.
BeginLogout(h) == Begin(h, [op |-> "logout", cfg |-> configured, doc |-> "want"])

\* The end of a logout, and of a login whose document is gone when it is returned.
AnswerWithout(h) ==
    /\ \/ req[h].op = "logout" /\ \E d \in Settings : Reads(h, d)
       \/ req[h].op = "login" /\ Reads(h, None)
    /\ Ends(h)
    /\ UNCHANGED <<configured, caches, outside, cookie, rows, puts, history>>

\* The user signs in at the provider, which knows only its own clients.
Authenticate(f, s) ==
    /\ flows[f].at = flows[f].client
    /\ \A c \in codes : c.flow # f
    /\ codes' = codes \cup {[flow |-> f, who |-> [of |-> flows[f].at, sub |-> s], spent |-> FALSE]}
    /\ UNCHANGED <<configured, caches, signing, flows, cookie, rows, req, puts, history>>

-----------------------------------------------------------------------------
(* The callback. *)

Callback(b, f, c) ==
    [op |-> "callback", browser |-> b, cfg |-> configured, flow |-> f, code |-> c.flow, who |-> c.who,
     doc |-> "want", key |-> 0, pc |-> "exchange", at |-> None, name |-> None]

\* validate_oidc_flow: the cookie of the browser holds this state.
CookieHolds(b, f) == cookie[b] = f

\* A second callback of a flow while one is served spoils it.
Repeated(f) == {f} \cap {req[h].flow : h \in Serving({"callback"})}

\* So does a code of another flow, for both.
Mixed(f, c) == IF c.flow = f THEN {} ELSE {f, c.flow}

\* The callback is called with the state of f and the code c.
BeginCallback(h, b, f, c) ==
    /\ req[h] = Idle /\ configured # None
    /\ crossed' = (crossed \/ Serving({"put"}) # {})
    /\ IF CookieHolds(b, f)
         THEN /\ Moves(h, Callback(b, f, c))
              /\ excused' = excused \cup Repeated(f) \cup Mixed(f, c)
              /\ UNCHANGED <<cookie, refused>>
         ELSE /\ cookie' = [cookie EXCEPT ![b] = 0]
              /\ refused' = refused \cup (IF b = flows[f].browser THEN {f} \ excused ELSE {})
              /\ excused' = excused \cup Displaced(b, f)
              /\ req' = req
    /\ UNCHANGED <<configured, caches, outside, rows, puts, signIns, raced>>

\* The provider redeems a code of its own, once, for its client.
Redeemable(c, d, cfg) == c.who.of = d /\ cfg = d /\ ~c.spent

\* exchange_oidc_code.  With the verifier of another flow the answer is the provider's:
\* it may have recorded no challenge.
Exchange(h) ==
    /\ req[h].op = "callback" /\ req[h].pc = "exchange"
    /\ \E d \in Settings : \E c \in codes :
         /\ Reads(h, d) /\ c.flow = req[h].code
         /\ \/ /\ Redeemable(c, d, req[h].cfg)
               /\ codes' = (codes \ {c}) \cup {[c EXCEPT !.spent = TRUE]}
               /\ Moves(h, [req[h] EXCEPT !.pc = "verify", !.doc = "want", !.key = signing[d]])
               /\ UNCHANGED <<cookie, history>>
            \/ /\ ~Redeemable(c, d, req[h].cfg) \/ c.flow # req[h].flow
               /\ Refuse(h, {}) /\ UNCHANGED codes
    /\ UNCHANGED <<configured, caches, signing, flows, rows, puts>>

\* The published set of a provider: its newest key and the one before.
Published(p) == [of |-> p, last |-> signing[p]]
Has(set, p, k) == set # None /\ set.of = p /\ k \in {set.last - 1, set.last}

\* Mutant: an unknown key is refused at once, the keys are fetched only when there
\* are none.
FetchesIfEmpty(h) == jwks = None

\* _get_oidc_signing_key: the keys are fetched when the token's is not among them.
Fetches(h) == ~Has(jwks, req[h].who.of, req[h].key)

\* Mutant: the nonce of the token is not compared.
AnyNonce(h) == TRUE

\* The token carries the nonce of the flow it was given for.
NonceMatches(h) == req[h].code = req[h].flow

\* The token has been verified: its key is done with.
Verified(h) ==
    Moves(h, [req[h] EXCEPT !.pc = "userinfo", !.doc = "want", !.key = 0, !.at = None])

\* verify_oidc_id_token, from the document: the key is known, or asked for.
Verify(h) ==
    /\ req[h].op = "callback" /\ req[h].pc = "verify"
    /\ \E d \in Settings :
         /\ Reads(h, d)
         /\ CASE d # None /\ Fetches(h) ->
                   /\ Moves(h, [req[h] EXCEPT !.pc = "keys", !.at = d])
                   /\ UNCHANGED <<cookie, history>>
              [] NonceMatches(h) /\ d = req[h].who.of /\ ~Fetches(h) /\ Has(jwks, d, req[h].key) ->
                   /\ Verified(h)
                   /\ UNCHANGED <<cookie, history>>
              [] OTHER -> Refuse(h, {})
    /\ UNCHANGED <<configured, caches, outside, rows, puts>>

\* The keys arrive: they replace the cached ones and the token is checked at once.
\* A second fetch, when the first lacks the key, asks the same provider.
KeysAnswer(h) ==
    /\ req[h].op = "callback" /\ req[h].pc = "keys"
    /\ jwks' = Published(req[h].at)
    /\ IF NonceMatches(h) /\ req[h].at = req[h].who.of /\ Has(jwks', req[h].at, req[h].key)
         THEN Verified(h) /\ UNCHANGED <<cookie, history>>
         ELSE Refuse(h, {})
    /\ UNCHANGED <<configured, discovery, outside, rows, puts>>

\* get_oidc_userinfo: the access token is good at the provider that gave it.
UserInfo(h) ==
    /\ req[h].op = "callback" /\ req[h].pc = "userinfo"
    /\ \E d \in Settings, n \in Names :
         /\ Reads(h, d)
         /\ IF d = req[h].who.of
              THEN /\ Moves(h, [req[h] EXCEPT !.pc = "provision", !.name = n])
                   /\ UNCHANGED <<cookie, history>>
              ELSE Refuse(h, {})
    /\ UNCHANGED <<configured, caches, outside, rows, puts>>

\* The session cookie, the end of the callback.
Grant(h, n) ==
    /\ signIns' = signIns \cup {[flow |-> req[h].flow, browser |-> req[h].browser,
                                 who |-> req[h].who, account |-> n]}
    /\ cookie' = Cleared(h)
    /\ excused' = excused \cup {req[h].flow} \cup Displaced(req[h].browser, req[h].flow)
    /\ Ends(h)
    /\ UNCHANGED <<refused, crossed>>

OwnedBy(i) == {n \in Names : rows[n].identity = i}

\* Mutant: an account without an identity is linked, though it has a password.
FreeIfUnbound(n) == rows[n] # NoRow /\ rows[n].identity = None

\* An account made before identities were recorded.
Free(n) == rows[n] = Legacy

\* get_or_create_oidc_user, what it reads: the account of the identity, or else the
\* one of the name.
LookUp(h) ==
    /\ req[h].op = "callback" /\ req[h].pc = "provision"
    /\ LET n == req[h].name
           own == OwnedBy(req[h].who)
       IN  CASE own # {} -> \E m \in own : Grant(h, m) /\ raced' = raced
             [] own = {} /\ (rows[n] = NoRow \/ Free(n)) ->
                   /\ Moves(h, [req[h] EXCEPT !.pc = IF rows[n] = NoRow THEN "create" ELSE "link"])
                   /\ UNCHANGED <<cookie, history>>
             [] OTHER -> Refuse(h, {req[h].flow})
    /\ UNCHANGED <<configured, caches, outside, rows, puts>>

\* get_or_create_oidc_user, what it writes: the identity into the row as read, or a
\* new row.  Usernames and identities are unique.
Provision(h) ==
    /\ req[h].op = "callback" /\ req[h].pc \in {"link", "create"}
    /\ LET n == req[h].name
       IN  IF OwnedBy(req[h].who) \ {n} # {} \/ (req[h].pc = "create" /\ rows[n] # NoRow)
             THEN Refuse(h, {req[h].flow}) /\ UNCHANGED rows
             ELSE /\ rows' = [rows EXCEPT ![n] = Bound(req[h].who)]
                  /\ Grant(h, n)
                  /\ raced' = IF rows[n] \in {NoRow, Legacy, Bound(req[h].who)} THEN raced ELSE raced \cup {n}
    /\ UNCHANGED <<configured, caches, outside, puts>>

\* The provider does not answer within OIDC_HTTP_TIMEOUT, or with an error.
ProviderFails(h) ==
    /\ \/ NeedsDiscovery(h) /\ req[h].doc = "asked"
       \/ req[h].op = "callback" /\ req[h].pc = "keys"
       \/ req[h].op = "callback" /\ req[h].pc \in {"exchange", "userinfo"} /\ Reads(h, discovery)
    /\ IF req[h].op = "callback"
         THEN Refuse(h, {req[h].flow})
         ELSE Ends(h) /\ UNCHANGED <<cookie, history>>
    /\ UNCHANGED <<configured, caches, outside, rows, puts>>

-----------------------------------------------------------------------------
(* The rest of the world. *)

\* Mutant: the discovery document survives a change of the settings.
ForgetKeysOnly == UNCHANGED discovery /\ jwks' = None

\* clear_oidc_cache.
Forget == discovery' = None /\ jwks' = None

\* update_oidc_settings: the caches are cleared, then the row is read and written.
\* MaxPuts bounds the changes.
BeginPut(h, new) ==
    /\ req[h] = Idle /\ puts < MaxPuts
    /\ puts' = puts + 1
    /\ Forget
    /\ Moves(h, [op |-> "put", new |-> new])
    /\ crossed' = (Readers # {})
    /\ excused' = excused \cup DOMAIN flows
    /\ UNCHANGED <<configured, outside, cookie, rows, signIns, refused, raced>>

CommitPut(h) ==
    /\ req[h].op = "put"
    /\ configured' = req[h].new
    /\ excused' = excused \cup DOMAIN flows
    /\ Ends(h)
    /\ UNCHANGED <<caches, outside, cookie, rows, puts, signIns, refused, crossed, raced>>

\* The process restarts: its caches and the requests it was serving are gone.
Restart ==
    /\ discovery' = None /\ jwks' = None
    /\ req' = [h \in Handlers |-> Idle]
    /\ crossed' = FALSE
    /\ excused' = excused \cup {req[h].flow : h \in Serving({"callback"})}
    /\ UNCHANGED <<configured, outside, cookie, rows, puts, signIns, refused, raced>>

\* The flow cookie runs out (OIDC_FLOW_TTL).
Expire(b) ==
    /\ cookie[b] # 0
    /\ excused' = excused \cup {cookie[b]}
    /\ cookie' = [cookie EXCEPT ![b] = 0]
    /\ UNCHANGED <<configured, caches, outside, rows, req, puts, signIns, refused, crossed, raced>>

\* Callbacks with a token whose key p publishes no longer once it has rotated again.
Outlived(p) ==
    {h \in Serving({"callback"}) :
       req[h].pc \in {"verify", "keys"} /\ req[h].who.of = p /\ req[h].key < signing[p]}

\* The provider signs with a new key.  MaxKey bounds the rotations.
Rotate(p) ==
    /\ \A q \in Providers : signing[q] < MaxKey
    /\ signing' = [signing EXCEPT ![p] = @ + 1]
    /\ excused' = excused \cup {req[h].flow : h \in Outlived(p)}
    /\ UNCHANGED <<configured, caches, flows, codes, cookie, rows, req, puts, signIns, refused,
                  crossed, raced>>

Init ==
    /\ configured \in Settings
    /\ discovery = None /\ jwks = None
    /\ signing = [p \in Providers |-> 0]
    /\ flows = <<>>
    /\ cookie = [b \in Browsers |-> 0]
    /\ codes = {}
    /\ rows \in [Names -> {NoRow, Local, Legacy}]
    /\ req = [h \in Handlers |-> Idle]
    /\ puts = 0
    /\ signIns = {} /\ refused = {} /\ excused = {}
    /\ crossed = FALSE
    /\ raced = {}

\* What a request does next, answers of the provider included.
Step(h) ==
    \/ AskDiscovery(h) \/ DiscoveryAnswers(h) \/ IssueFlow(h) \/ AnswerWithout(h)
    \/ Exchange(h) \/ Verify(h) \/ KeysAnswer(h) \/ UserInfo(h) \/ LookUp(h) \/ Provision(h)
    \/ CommitPut(h)

Next ==
    \/ \E h \in Handlers :
         \/ Step(h) \/ ProviderFails(h) \/ BeginLogout(h)
         \/ \E b \in Browsers : BeginLogin(h, b)
         \/ \E b \in Browsers, f \in DOMAIN flows, c \in codes : BeginCallback(h, b, f, c)
         \/ \E new \in Settings : BeginPut(h, new)
    \/ \E f \in DOMAIN flows, s \in Subjects : Authenticate(f, s)
    \/ \E b \in Browsers : Expire(b)
    \/ \E p \in Providers : Rotate(p)
    \/ Restart

Spec == Init /\ [][Next]_vars

-----------------------------------------------------------------------------
(* Properties. *)

\* A flow opens at most one session, in the browser that started it, for someone who
\* signed in at the provider it was sent to for this very flow, however often and in
\* whatever browser its callback is called (auth_service.py start_oidc_flow).
FlowSignsInOnce ==
    /\ \A s, t \in signIns : s.flow = t.flow => s = t
    /\ \A s \in signIns :
         /\ s.browser = flows[s.flow].browser
         /\ \E c \in codes : c.flow = s.flow /\ c.who = s.who

\* A session is of the account that is bound to the identity, and no local account is
\* ever bound, unless two requests linked one account (get_or_create_oidc_user).
SessionsOwnTheirAccount ==
    \A s \in signIns : rows[s.account] = Bound(s.who) \/ s.account \in raced

\* The sign-ins as their users see them.
Proven == {[flow |-> c.flow, who |-> c.who] : c \in codes}
Promised ==
    INSTANCE SignIns WITH Accounts <- Names, Starts <- Flow, Nobody <- None,
        begun <- flows, proven <- Proven, opened <- signIns,
        owner <- [n \in Names |-> rows[n].identity],
        local <- {n \in Names : rows[n] = Local}

\* What they see of them.
Shown == <<flows, Proven, signIns, rows>>

\* Of two requests that read one account free, the second replaces the first's identity.
LinkIsOverwritten == \E n \in raced' : rows[n].kind = "oidc" /\ rows'[n] # rows[n]

\* However requests, restarts, failures and changes of the settings interleave, what
\* comes of them is what SignIns promises: a session needs a proof of its own flow, its
\* account belongs to who proved it, and an account changes hands only when two requests
\* linked it at once (get_or_create_oidc_user; start_oidc_flow, exchange_oidc_code).
ActsAsSignIns ==
    /\ Promised!Init
    /\ [][Shown' # Shown => LinkIsOverwritten \/ Promised!Next]_vars

\* A sign-in that nothing outside disturbed is never refused: no provider error, no
\* second sign-in or callback in that browser, no code of another, no change of the
\* settings meanwhile, no account in the way (oidc_callback; _get_oidc_signing_key after a rotation).
RefusedForAReason == refused = {}

\* The caches are of the provider the settings name from a save that no request overlaps
\* on, or from a restart: what a request that did overlap one has left in them, as it may,
\* goes with the next (update_oidc_settings, clear_oidc_cache).
CachesFollowSettings ==
    ~crossed /\ Serving({"put"}) = {} =>
      /\ discovery \in {None, configured}
      /\ jwks # None => jwks.of = configured

================================================================================

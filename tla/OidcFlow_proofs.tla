---------------------------- MODULE OidcFlow_proofs ----------------------------
(***************************************************************************)
(* Proofs about OidcFlow for any number of handlers, browsers, providers,   *)
(* flows and changes of the settings.                                      *)
(***************************************************************************)
EXTENDS OidcFlow, TLAPS

\* Until a request overlapped a save: while one is pending nobody else is served and
\* the caches are empty; otherwise every request and cache is of the settings.
Pending == Serving({"put"}) # {}
CacheInv ==
    ~crossed =>
      /\ Pending => Readers = {} /\ discovery = None /\ jwks = None
      /\ ~Pending =>
           /\ discovery \in {None, configured}
           /\ jwks # None => jwks.of = configured
           /\ \A h \in Readers : req[h].cfg = configured
           /\ \A h \in Handlers : req[h].op = "callback" => req[h].at \in {None, configured}

\* A callback past the exchange of its code.
Past(h) == req[h].op = "callback" /\ req[h].pc # "exchange"

\* One whose token has been verified.
Accepted(h) == req[h].op = "callback" /\ req[h].pc \in {"userinfo", "provision", "link", "create"}

\* A callback is of the browser of its flow and has a code; the code is of that flow when
\* the token is accepted, and both are spoilt when it is not.
Held(h) ==
    /\ req[h].flow \in DOMAIN flows /\ flows[req[h].flow].browser = req[h].browser
    /\ \E c \in codes : c.flow = req[h].code /\ c.who = req[h].who /\ (Past(h) => c.spent)
    /\ req[h].code # req[h].flow => ~Accepted(h) /\ {req[h].code, req[h].flow} \subseteq excused

\* The code of a flow is one and is spent by the first callback that gets past the
\* exchange, the only one that may open a session.
Traced(f, b, who) ==
    /\ f \in DOMAIN flows /\ flows[f].browser = b
    /\ \E c \in codes : c.flow = f /\ c.who = who /\ c.spent
FlowInv ==
    /\ \A b \in Browsers : cookie[b] # 0 => cookie[b] \in DOMAIN flows /\ flows[cookie[b]].browser = b
    /\ \A c \in codes : c.flow \in DOMAIN flows
    /\ \A c, d \in codes : c.flow = d.flow => c = d
    /\ \A h \in Serving({"callback"}) : Held(h)
    /\ \A s \in signIns : Traced(s.flow, s.browser, s.who)
    /\ \A g, h \in Handlers : Past(g) /\ Past(h) /\ req[g].code = req[h].code => g = h
    /\ \A h \in Handlers, s \in signIns : Past(h) => s.flow # req[h].code
    /\ \A s, t \in signIns : s.flow = t.flow => s = t

USE DEF FlowIds, Docs, Stages, Moves

\* What a request is, told by its kind.
LEMMA Kinds ==
    ASSUME TypeOK, NEW h \in Handlers
    PROVE  /\ req[h].op = "login" => req[h] \in LoginRequest
           /\ req[h].op = "logout" => req[h] \in LogoutRequest
           /\ req[h].op = "callback" => req[h] \in CallbackRequest
           /\ req[h].op = "put" => req[h] \in PutRequest
           /\ NeedsDiscovery(h) => req[h].cfg \in Providers /\ req[h].doc \in Docs
  BY DEF TypeOK, Idle, LoginRequest, LogoutRequest, CallbackRequest, PutRequest, NeedsDiscovery

LEMMA InitType == Init => TypeOK
<1> SUFFICES ASSUME Init PROVE TypeOK
  OBVIOUS
<1>1. flows \in Seq(Flow) /\ DOMAIN flows = {}
  BY DEF Init
<1>2. rows \in [Names -> {NoRow, Local, Legacy} \cup {Bound(i) : i \in Identities}]
  BY DEF Init
<1>3. /\ cookie \in [Browsers -> Nat] /\ signing \in [Providers -> Nat]
      /\ req \in [Handlers -> {Idle} \cup LoginRequest \cup LogoutRequest \cup CallbackRequest
                                 \cup PutRequest]
  BY DEF Init
<1> QED
  BY <1>1, <1>2, <1>3 DEF Init, TypeOK, Settings

LEMMA FlowsAreNumbered == ASSUME TypeOK PROVE DOMAIN flows \subseteq FlowIds
<1>1. flows \in Seq(Flow)
  BY DEF TypeOK
<1>2. DOMAIN flows = 1 .. Len(flows) /\ Len(flows) \in Nat
  BY <1>1
<1> QED
  BY <1>2

\* A request of its own kind may be put in the place of another.
LEMMA NewRequest ==
    ASSUME TypeOK, NEW h \in Handlers,
           NEW r \in {Idle} \cup LoginRequest \cup LogoutRequest \cup CallbackRequest \cup PutRequest,
           req' = [req EXCEPT ![h] = r]
    PROVE  /\ req' \in [Handlers -> {Idle} \cup LoginRequest \cup LogoutRequest \cup CallbackRequest
                                      \cup PutRequest]
           /\ \A g \in Handlers : req'[g] = IF g = h THEN r ELSE req[g]
  BY DEF TypeOK

\* Ending a request, with a cookie cleared.
LEMMA EndType ==
    ASSUME TypeOK, NEW h \in Handlers, Ends(h)
    PROVE  /\ req' \in [Handlers -> {Idle} \cup LoginRequest \cup LogoutRequest \cup CallbackRequest
                                      \cup PutRequest]
           /\ \A g \in Handlers : req'[g] = IF g = h THEN Idle ELSE req[g]
  BY NewRequest DEF Ends

\* The variables a callback may change when it ends.
RestTyped ==
    /\ cookie' \in [Browsers -> Nat]
    /\ signIns' \subseteq SignIn
    /\ refused' \subseteq FlowIds /\ excused' \subseteq FlowIds
    /\ crossed' \in BOOLEAN
    /\ raced' \subseteq Names
    /\ req' \in [Handlers -> {Idle} \cup LoginRequest \cup LogoutRequest \cup CallbackRequest
                               \cup PutRequest]

LEMMA DisplacedType ==
    ASSUME TypeOK, NEW b \in Browsers, NEW f \in Nat
    PROVE  Displaced(b, f) \subseteq FlowIds
  BY DEF TypeOK, Displaced

LEMMA RefuseType ==
    ASSUME TypeOK, NEW h \in Handlers, req[h].op = "callback",
           NEW why, why \subseteq FlowIds, Refuse(h, why)
    PROVE  RestTyped
<1>1. req[h] \in CallbackRequest
  BY Kinds
<1>2. req[h].browser \in Browsers /\ req[h].flow \in FlowIds
  BY <1>1 DEF CallbackRequest
<1>3. Displaced(req[h].browser, req[h].flow) \subseteq FlowIds
  BY <1>2, DisplacedType
<1>4. cookie' \in [Browsers -> Nat]
  BY <1>2 DEF Refuse, Cleared, TypeOK
<1>5. Ends(h)
  BY DEF Refuse
<1> QED
  BY <1>2, <1>3, <1>4, <1>5, EndType DEF Refuse, RestTyped, TypeOK

LEMMA GrantType ==
    ASSUME TypeOK, NEW h \in Handlers, req[h].op = "callback", NEW n \in Names,
           Grant(h, n), raced' \subseteq Names
    PROVE  RestTyped
<1>1. req[h] \in CallbackRequest
  BY Kinds
<1>2. req[h].browser \in Browsers /\ req[h].flow \in FlowIds /\ req[h].who \in Identities
  BY <1>1 DEF CallbackRequest
<1>3. Displaced(req[h].browser, req[h].flow) \subseteq FlowIds
  BY <1>2, DisplacedType
<1>4. cookie' \in [Browsers -> Nat]
  BY <1>2 DEF Grant, Cleared, TypeOK
<1>5. signIns' \subseteq SignIn
  BY <1>2 DEF Grant, TypeOK, SignIn
<1>6. Ends(h)
  BY DEF Grant
<1> QED
  BY <1>2, <1>3, <1>4, <1>5, <1>6, EndType DEF Grant, RestTyped, TypeOK

\* A callback that goes on keeps every variable of this kind but its request.
LEMMA MoveType ==
    ASSUME TypeOK, NEW h \in Handlers, NEW r \in CallbackRequest,
           req' = [req EXCEPT ![h] = r], UNCHANGED <<cookie, history>>
    PROVE  RestTyped
  BY NewRequest DEF TypeOK, RestTyped, history

LEMMA TypeStep == TypeOK /\ [Next]_vars => TypeOK'
<1> SUFFICES ASSUME TypeOK, [Next]_vars PROVE TypeOK'
  OBVIOUS
<1>1. CASE UNCHANGED vars
  BY <1>1 DEF TypeOK, vars
<1>2. ASSUME NEW h \in Handlers, AskDiscovery(h) \/ DiscoveryAnswers(h) PROVE TypeOK'
  <2>1. req[h].op \in {"login", "logout", "callback"}
    BY <1>2 DEF AskDiscovery, DiscoveryAnswers, NeedsDiscovery
  <2>2. PICK d \in Docs : req' = [req EXCEPT ![h] = [req[h] EXCEPT !.doc = d]]
    BY <1>2 DEF AskDiscovery, DiscoveryAnswers
  <2>3. [req[h] EXCEPT !.doc = d] \in LoginRequest \cup LogoutRequest \cup CallbackRequest
    BY <2>1, Kinds DEF LoginRequest, LogoutRequest, CallbackRequest
  <2>4. req' \in [Handlers -> {Idle} \cup LoginRequest \cup LogoutRequest \cup CallbackRequest
                              \cup PutRequest]
    BY <2>2, <2>3, NewRequest
  <2>5. discovery' \in Settings
    BY <1>2, Kinds DEF AskDiscovery, DiscoveryAnswers, Settings, TypeOK, caches
  <2> QED
    BY <1>2, <2>4, <2>5 DEF AskDiscovery, DiscoveryAnswers, TypeOK, caches, outside, history
<1>3. ASSUME NEW h \in Handlers, IssueFlow(h) PROVE TypeOK'
  <2>1. req[h] \in LoginRequest
    BY <1>3, Kinds DEF IssueFlow
  <2>2. flows' \in Seq(Flow) /\ Len(flows') \in FlowIds
    BY <1>3, <2>1 DEF IssueFlow, TypeOK, LoginRequest, Flow
  <2>3. cookie' \in [Browsers -> Nat]
    BY <1>3, <2>1, <2>2 DEF IssueFlow, TypeOK, LoginRequest
  <2>4. excused' \subseteq FlowIds
    <3>1. req[h].browser \in Browsers
      BY <2>1 DEF LoginRequest
    <3> QED
      BY <1>3, <2>2, <3>1, DisplacedType DEF IssueFlow, TypeOK
  <2> QED
    BY <1>3, <2>2, <2>3, <2>4, EndType DEF IssueFlow, TypeOK, caches, history
<1>4. ASSUME NEW h \in Handlers, AnswerWithout(h) PROVE TypeOK'
  BY <1>4, EndType DEF AnswerWithout, TypeOK, caches, outside, history
<1>5. ASSUME NEW h \in Handlers, Exchange(h) PROVE TypeOK'
  <2>1. req[h] \in CallbackRequest
    BY <1>5, Kinds DEF Exchange
  <2>2. PICK d \in Settings, c \in codes :
          \/ /\ Redeemable(c, d, req[h].cfg)
             /\ codes' = (codes \ {c}) \cup {[c EXCEPT !.spent = TRUE]}
             /\ Moves(h, [req[h] EXCEPT !.pc = "verify", !.doc = "want", !.key = signing[d]])
             /\ UNCHANGED <<cookie, history>>
          \/ Refuse(h, {}) /\ UNCHANGED codes
    BY <1>5 DEF Exchange
  <2>3. codes' \subseteq Code
    <3>1. c \in Code /\ [c EXCEPT !.spent = TRUE] \in Code
      BY DEF TypeOK, Code
    <3> QED
      BY <2>2, <3>1 DEF TypeOK
  <2>4. RestTyped
    <3>1. CASE Refuse(h, {})
      BY <1>5, <3>1, RefuseType DEF Exchange
    <3>2. CASE /\ Redeemable(c, d, req[h].cfg)
               /\ Moves(h, [req[h] EXCEPT !.pc = "verify", !.doc = "want", !.key = signing[d]])
               /\ UNCHANGED <<cookie, history>>
      <4>1. d \in Providers
        BY <2>1, <3>2 DEF Redeemable, CallbackRequest
      <4>2. signing[d] \in Nat
        BY <4>1 DEF TypeOK
      <4>3. [req[h] EXCEPT !.pc = "verify", !.doc = "want", !.key = signing[d]] \in CallbackRequest
        BY <2>1, <4>2 DEF CallbackRequest
      <4> QED
        BY <2>2, <3>2, <4>3, MoveType
    <3> QED
      BY <2>2, <3>1, <3>2
  <2> QED
    BY <1>5, <2>3, <2>4 DEF Exchange, TypeOK, RestTyped, caches
<1>6. ASSUME NEW h \in Handlers, Verify(h) PROVE TypeOK'
  <2>1. req[h] \in CallbackRequest
    BY <1>6, Kinds DEF Verify
  <2>2. RestTyped
    <3>1. PICK d \in Settings :
            \/ d # None /\ Moves(h, [req[h] EXCEPT !.pc = "keys", !.at = d]) /\ UNCHANGED <<cookie, history>>
            \/ Verified(h) /\ UNCHANGED <<cookie, history>>
            \/ Refuse(h, {})
      BY <1>6 DEF Verify
    <3>2. d # None => [req[h] EXCEPT !.pc = "keys", !.at = d] \in CallbackRequest
      BY <2>1 DEF CallbackRequest, Settings
    <3>3. [req[h] EXCEPT !.pc = "userinfo", !.doc = "want", !.key = 0, !.at = None] \in CallbackRequest
      BY <2>1 DEF CallbackRequest, Settings
    <3> QED
      BY <1>6, <3>1, <3>2, <3>3, MoveType, RefuseType DEF Verify, Verified
  <2> QED
    BY <1>6, <2>2 DEF Verify, TypeOK, RestTyped, caches, outside
<1>7. ASSUME NEW h \in Handlers, KeysAnswer(h) PROVE TypeOK'
  <2>1. req[h] \in CallbackRequest
    BY <1>7, Kinds DEF KeysAnswer
  <2>2. RestTyped
    <3>3. [req[h] EXCEPT !.pc = "userinfo", !.doc = "want", !.key = 0, !.at = None] \in CallbackRequest
      BY <2>1 DEF CallbackRequest, Settings
    <3>4. \/ Verified(h) /\ UNCHANGED <<cookie, history>>
          \/ Refuse(h, {})
      BY <1>7 DEF KeysAnswer
    <3> QED
      BY <1>7, <3>3, <3>4, MoveType, RefuseType DEF KeysAnswer, Verified
  <2>3. req[h].at \in Providers
    BY <1>7, <2>1 DEF KeysAnswer, CallbackRequest
  <2>4. jwks' \in Keys
    BY <1>7, <2>3 DEF KeysAnswer, Published, Keys, TypeOK
  <2> QED
    BY <1>7, <2>2, <2>4 DEF KeysAnswer, TypeOK, RestTyped, outside
<1>8. ASSUME NEW h \in Handlers, UserInfo(h) PROVE TypeOK'
  <2>1. req[h] \in CallbackRequest
    BY <1>8, Kinds DEF UserInfo
  <2>2. RestTyped
    <3>1. PICK n \in Names :
            \/ Moves(h, [req[h] EXCEPT !.pc = "provision", !.name = n]) /\ UNCHANGED <<cookie, history>>
            \/ Refuse(h, {})
      BY <1>8 DEF UserInfo
    <3>2. [req[h] EXCEPT !.pc = "provision", !.name = n] \in CallbackRequest
      BY <2>1 DEF CallbackRequest
    <3> QED
      BY <1>8, <3>1, <3>2, MoveType, RefuseType DEF UserInfo
  <2> QED
    BY <1>8, <2>2 DEF UserInfo, TypeOK, RestTyped, caches, outside
<1>9. ASSUME NEW h \in Handlers, LookUp(h) PROVE TypeOK'
  <2>1. req[h] \in CallbackRequest /\ req[h].flow \in FlowIds
    BY <1>9, Kinds DEF LookUp, CallbackRequest
  <2>2. RestTyped
    <3>1. \/ \E m \in Names : Grant(h, m) /\ raced' = raced
          \/ \E pc \in {"create", "link"} : Moves(h, [req[h] EXCEPT !.pc = pc]) /\ UNCHANGED <<cookie, history>>
          \/ Refuse(h, {req[h].flow})
      BY <1>9 DEF LookUp, OwnedBy
    <3>2. \A pc \in {"create", "link"} : [req[h] EXCEPT !.pc = pc] \in CallbackRequest
      BY <1>9, <2>1 DEF LookUp, CallbackRequest
    <3>3. req[h].op = "callback" /\ raced \subseteq Names /\ {req[h].flow} \subseteq FlowIds
      BY <1>9, <2>1 DEF LookUp, TypeOK
    <3> QED
      BY <3>1, <3>2, <3>3, MoveType, RefuseType, GrantType
  <2> QED
    BY <1>9, <2>2 DEF LookUp, TypeOK, RestTyped, caches, outside
<1>10. ASSUME NEW h \in Handlers, Provision(h) PROVE TypeOK'
  <2>1. /\ req[h] \in CallbackRequest /\ req[h].flow \in FlowIds /\ req[h].who \in Identities
        /\ req[h].name \in Names
    BY <1>10, Kinds DEF Provision, CallbackRequest
  <2>2. PICK n : n = req[h].name
    OBVIOUS
  <2>3. CASE Refuse(h, {req[h].flow}) /\ UNCHANGED rows
    <3>1. RestTyped
      BY <1>10, <2>1, <2>3, RefuseType DEF Provision
    <3> QED
      BY <1>10, <2>3, <3>1 DEF Provision, TypeOK, RestTyped, caches, outside
  <2>4. CASE /\ rows' = [rows EXCEPT ![n] = Bound(req[h].who)]
             /\ Grant(h, n)
             /\ raced' \subseteq raced \cup {n}
    <3>1. RestTyped
      BY <1>10, <2>1, <2>2, <2>4, GrantType DEF Provision, TypeOK
    <3>2. rows' \in [Names -> {NoRow, Local, Legacy} \cup {Bound(i) : i \in Identities}]
      BY <2>1, <2>2, <2>4 DEF TypeOK
    <3> QED
      BY <1>10, <3>1, <3>2 DEF Provision, TypeOK, RestTyped, caches, outside
  <2> QED
    BY <1>10, <2>2, <2>3, <2>4 DEF Provision
<1>11. ASSUME NEW h \in Handlers, ProviderFails(h) PROVE TypeOK'
  <2>1. CASE req[h].op = "callback"
    <3>1. req[h].flow \in FlowIds
      BY <2>1, Kinds DEF CallbackRequest
    <3>2. RestTyped
      BY <1>11, <2>1, <3>1, RefuseType DEF ProviderFails
    <3> QED
      BY <1>11, <3>2 DEF ProviderFails, TypeOK, RestTyped, caches, outside
  <2>2. CASE req[h].op # "callback"
    BY <1>11, <2>2, EndType DEF ProviderFails, TypeOK, caches, outside, history
  <2> QED
    BY <2>1, <2>2
<1>12. ASSUME NEW h \in Handlers, CommitPut(h) PROVE TypeOK'
  <2>1. configured' \in Settings
    BY <1>12, Kinds DEF CommitPut, PutRequest
  <2>2. excused' \subseteq FlowIds
    BY <1>12, FlowsAreNumbered DEF CommitPut, TypeOK
  <2> QED
    BY <1>12, <2>1, <2>2, EndType DEF CommitPut, TypeOK, caches, outside
<1>13. ASSUME NEW h \in Handlers, \E b \in Browsers : BeginLogin(h, b) PROVE TypeOK'
  <2>1. configured \in Providers
    BY <1>13 DEF BeginLogin, Begin, TypeOK, Settings
  <2>2. PICK b \in Browsers :
          /\ req' = [req EXCEPT ![h] = [op |-> "login", browser |-> b, cfg |-> configured, doc |-> "want"]]
          /\ UNCHANGED <<configured, caches, outside, cookie, rows, puts, signIns, refused, excused, raced>>
          /\ crossed' \in BOOLEAN
    BY <1>13 DEF BeginLogin, Begin, TypeOK
  <2>3. [op |-> "login", browser |-> b, cfg |-> configured, doc |-> "want"] \in LoginRequest
    BY <2>1 DEF LoginRequest
  <2> QED
    BY <2>2, <2>3, NewRequest DEF TypeOK, caches, outside
<1>14. ASSUME NEW h \in Handlers, BeginLogout(h) PROVE TypeOK'
  <2>1. configured \in Providers
    BY <1>14 DEF BeginLogout, Begin, TypeOK, Settings
  <2>2. /\ req' = [req EXCEPT ![h] = [op |-> "logout", cfg |-> configured, doc |-> "want"]]
        /\ UNCHANGED <<configured, caches, outside, cookie, rows, puts, signIns, refused, excused, raced>>
        /\ crossed' \in BOOLEAN
    BY <1>14 DEF BeginLogout, Begin, TypeOK
  <2>3. [op |-> "logout", cfg |-> configured, doc |-> "want"] \in LogoutRequest
    BY <2>1 DEF LogoutRequest
  <2> QED
    BY <2>2, <2>3, NewRequest DEF TypeOK, caches, outside
<1>15. ASSUME NEW h \in Handlers,
              \E b \in Browsers, f \in DOMAIN flows, c \in codes : BeginCallback(h, b, f, c)
       PROVE  TypeOK'
  <2>1. PICK b \in Browsers, f \in DOMAIN flows, c \in codes : BeginCallback(h, b, f, c)
    BY <1>15
  <2>2. configured \in Providers /\ f \in FlowIds /\ c.flow \in FlowIds /\ c.who \in Identities
    BY <2>1, FlowsAreNumbered DEF BeginCallback, TypeOK, Settings, Code
  <2>3. Displaced(b, f) \subseteq FlowIds
    BY <2>2, DisplacedType
  <2>4. crossed' \in BOOLEAN
    BY <2>1 DEF BeginCallback, TypeOK
  <2>5. CASE CookieHolds(b, f)
    <3>1. Callback(b, f, c) \in CallbackRequest
      BY <2>2 DEF Callback, CallbackRequest, Settings
    <3>2. Repeated(f) \subseteq FlowIds /\ Mixed(f, c) \subseteq FlowIds
      BY <2>2 DEF Repeated, Mixed
    <3> QED
      BY <2>1, <2>4, <2>5, <3>1, <3>2, NewRequest DEF BeginCallback, TypeOK, caches, outside
  <2>6. CASE ~CookieHolds(b, f)
    <3>1. /\ cookie' = [cookie EXCEPT ![b] = 0] /\ req' = req
          /\ refused' \subseteq refused \cup {f} /\ excused' = excused \cup Displaced(b, f)
      BY <2>1, <2>6 DEF BeginCallback
    <3>2. cookie' \in [Browsers -> Nat]
      BY <3>1 DEF TypeOK
    <3> QED
      BY <2>1, <2>2, <2>3, <2>4, <3>1, <3>2 DEF BeginCallback, TypeOK, caches, outside
  <2> QED
    BY <2>5, <2>6
<1>16. ASSUME NEW h \in Handlers, NEW new \in Settings, BeginPut(h, new) PROVE TypeOK'
  <2>1. [op |-> "put", new |-> new] \in PutRequest
    BY DEF PutRequest
  <2>2. crossed' \in BOOLEAN
    BY <1>16 DEF BeginPut
  <2>4. excused' \subseteq FlowIds
    BY <1>16, FlowsAreNumbered DEF BeginPut, TypeOK
  <2>5. puts' \in Nat
    BY <1>16 DEF BeginPut, TypeOK
  <2>3. discovery' \in Settings /\ jwks' \in Keys \cup {None}
    BY <1>16 DEF BeginPut, Forget, Settings
  <2> QED
    BY <1>16, <2>1, <2>2, <2>3, <2>4, <2>5, NewRequest DEF BeginPut, TypeOK, outside
<1>17. ASSUME NEW f \in DOMAIN flows, NEW s \in Subjects, Authenticate(f, s) PROVE TypeOK'
  <2>1. f \in FlowIds /\ flows[f].at \in Providers
    <3>1. f \in FlowIds
      BY FlowsAreNumbered
    <3>2. flows \in Seq(Flow) /\ f \in DOMAIN flows
      BY DEF TypeOK
    <3>3. flows[f] \in Flow
      BY <3>2
    <3> QED
      BY <3>1, <3>3 DEF Flow
  <2>2. codes' \subseteq Code
    <3>1. [flow |-> f, who |-> [of |-> flows[f].at, sub |-> s], spent |-> FALSE] \in Code
      BY <2>1 DEF Code, Identities
    <3> QED
      BY <1>17, <3>1 DEF Authenticate, TypeOK
  <2> QED
    BY <1>17, <2>2 DEF Authenticate, TypeOK, caches, history
<1>18. ASSUME NEW b \in Browsers, Expire(b) PROVE TypeOK'
  BY <1>18 DEF Expire, TypeOK, caches, outside
<1>19. ASSUME NEW p \in Providers, Rotate(p) PROVE TypeOK'
  <2>1. excused' \subseteq FlowIds
    <3>1. \A h \in Outlived(p) : req[h].flow \in FlowIds
      <4> TAKE h \in Outlived(p)
      <4>1. h \in Handlers /\ req[h] \in CallbackRequest
        BY Kinds DEF Outlived, Serving
      <4> QED
        BY <4>1 DEF CallbackRequest
    <3> QED
      BY <1>19, <3>1 DEF Rotate, TypeOK
  <2> QED
    BY <1>19, <2>1 DEF Rotate, TypeOK, caches
<1>20. ASSUME Restart PROVE TypeOK'
  <2>1. excused' \subseteq FlowIds
    <3>1. \A h \in Serving({"callback"}) : req[h].flow \in FlowIds
      BY Kinds DEF Serving, CallbackRequest
    <3> QED
      BY <1>20, <3>1 DEF Restart, TypeOK
  <2> QED
    BY <1>20, <2>1 DEF Restart, TypeOK, outside, Settings
<1> QED
  BY <1>1, <1>2, <1>3, <1>4, <1>5, <1>6, <1>7, <1>8, <1>9, <1>10, <1>11, <1>12, <1>13, <1>14,
     <1>15, <1>16, <1>17, <1>18, <1>19, <1>20 DEF Next, Step

\* Every reachable state is well typed.
THEOREM TypeCorrect == Spec => []TypeOK
<1>1. Init => TypeOK
  BY InitType
<1>2. TypeOK /\ [Next]_vars => TypeOK'
  BY TypeStep
<1> QED
  BY <1>1, <1>2, PTL DEF Spec

-----------------------------------------------------------------------------
(* The caches. *)

\* What a step of a request that reads the settings may do to them and to itself.
Quiet(h) ==
    /\ h \in Readers
    /\ UNCHANGED <<configured, crossed>>
    /\ \A g \in Handlers \ {h} : req'[g] = req[g]
    /\ \/ req'[h] = Idle
       \/ /\ req'[h].op = req[h].op /\ req'[h].cfg = req[h].cfg
          /\ req[h].op = "callback" => req'[h].at \in {req[h].at, discovery, None}
    /\ discovery' \in {discovery, req[h].cfg}
    /\ jwks' = jwks \/ (req[h].op = "callback" /\ req[h].at # None /\ jwks'.of = req[h].at)

LEMMA QuietKeepsCacheInv ==
    ASSUME TypeOK, CacheInv, NEW h \in Handlers, Quiet(h)
    PROVE  CacheInv'
<1> SUFFICES ASSUME ~crossed PROVE
      /\ Pending' => Readers' = {} /\ discovery' = None /\ jwks' = None
      /\ ~Pending' =>
           /\ discovery' \in {None, configured}
           /\ jwks' # None => jwks'.of = configured
           /\ \A g \in Readers' : req'[g].cfg = configured
           /\ \A g \in Handlers : req'[g].op = "callback" => req'[g].at \in {None, configured}
  BY DEF CacheInv, Quiet
<1>1. ~Pending
  BY DEF CacheInv, Quiet
<1>2. ~Pending'
  BY <1>1 DEF Pending, Serving, Quiet, Readers, Idle
<1>3. /\ discovery \in {None, configured} /\ req[h].cfg = configured
      /\ jwks # None => jwks.of = configured
      /\ \A g \in Readers : req[g].cfg = configured
      /\ \A g \in Handlers : req[g].op = "callback" => req[g].at \in {None, configured}
  BY <1>1 DEF CacheInv, Quiet
<1>4. discovery' \in {None, configured} /\ (jwks' # None => jwks'.of = configured)
  BY <1>3 DEF Quiet
<1>5. \A g \in Readers' : req'[g].cfg = configured
  BY <1>3 DEF Quiet, Readers, Serving, Idle
<1>6. \A g \in Handlers : req'[g].op = "callback" => req'[g].at \in {None, configured}
  BY <1>3 DEF Quiet, Idle
<1> QED
  BY <1>2, <1>4, <1>5, <1>6

LEMMA RefuseIsQuiet ==
    ASSUME TypeOK, NEW h \in Handlers, NEW why, req[h].op = "callback", Refuse(h, why),
           UNCHANGED <<configured, discovery>>,
           jwks' = jwks \/ (req[h].at # None /\ jwks'.of = req[h].at)
    PROVE  Quiet(h)
<1>1. h \in Readers /\ Ends(h)
  BY DEF Readers, Serving, Refuse
<1>2. req'[h] = Idle /\ \A g \in Handlers \ {h} : req'[g] = req[g]
  BY <1>1, EndType
<1> QED
  BY <1>1, <1>2 DEF Quiet, Refuse

LEMMA GrantIsQuiet ==
    ASSUME TypeOK, NEW h \in Handlers, NEW n, req[h].op = "callback", Grant(h, n),
           UNCHANGED <<configured, caches>>
    PROVE  Quiet(h)
<1>1. h \in Readers /\ Ends(h)
  BY DEF Readers, Serving, Grant
<1>2. req'[h] = Idle /\ \A g \in Handlers \ {h} : req'[g] = req[g]
  BY <1>1, EndType
<1> QED
  BY <1>1, <1>2 DEF Quiet, Grant, caches

LEMMA MoveIsQuiet ==
    ASSUME TypeOK, NEW h \in Handlers, req[h].op = "callback", NEW r, Moves(h, r),
           r.op = "callback", r.cfg = req[h].cfg, r.at \in {req[h].at, discovery, None},
           UNCHANGED <<configured, discovery, crossed>>,
           jwks' = jwks \/ (req[h].at # None /\ jwks'.of = req[h].at)
    PROVE  Quiet(h)
  BY DEF Quiet, Readers, Serving, TypeOK

LEMMA QuietSteps ==
    ASSUME TypeOK, NEW h \in Handlers, Step(h) \/ ProviderFails(h), ~CommitPut(h)
    PROVE  Quiet(h)
<1>0. req \in [Handlers -> {Idle} \cup LoginRequest \cup LogoutRequest \cup CallbackRequest \cup PutRequest]
  BY DEF TypeOK
<1>1. CASE AskDiscovery(h) \/ DiscoveryAnswers(h)
  <2>1. req[h].op \in {"login", "logout", "callback"} /\ h \in Readers
    BY <1>1 DEF AskDiscovery, DiscoveryAnswers, NeedsDiscovery, Readers, Serving
  <2>2. PICK d \in Docs : Moves(h, [req[h] EXCEPT !.doc = d])
    BY <1>1 DEF AskDiscovery, DiscoveryAnswers
  <2>3. req[h] \in LoginRequest \cup LogoutRequest \cup CallbackRequest
    BY <2>1, Kinds
  <2>4. LET r == [req[h] EXCEPT !.doc = d]
        IN  r.op = req[h].op /\ r.cfg = req[h].cfg /\ (r.op = "callback" => r.at = req[h].at)
    BY <2>1, <2>3 DEF LoginRequest, LogoutRequest, CallbackRequest
  <2>5. /\ \A g \in Handlers \ {h} : req'[g] = req[g]
        /\ req'[h] = [req[h] EXCEPT !.doc = d]
    BY <1>0, <2>2
  <2>6. /\ UNCHANGED <<configured, crossed>>
        /\ discovery' \in {discovery, req[h].cfg} /\ jwks' = jwks
    BY <1>1 DEF AskDiscovery, DiscoveryAnswers, caches, history
  <2> QED
    BY <2>1, <2>4, <2>5, <2>6 DEF Quiet
<1>2. CASE IssueFlow(h) \/ AnswerWithout(h)
  <2>1. h \in Readers /\ Ends(h) /\ UNCHANGED <<configured, crossed, caches>>
    BY <1>2 DEF IssueFlow, AnswerWithout, Readers, Serving, history
  <2>2. req'[h] = Idle /\ \A g \in Handlers \ {h} : req'[g] = req[g]
    BY <2>1, EndType
  <2> QED
    BY <2>1, <2>2 DEF Quiet, caches
<1>3. CASE Exchange(h)
  <2>1. req[h].op = "callback" /\ UNCHANGED <<configured, discovery, jwks>>
    BY <1>3 DEF Exchange, caches
  <2>2. CASE Refuse(h, {})
    BY <2>1, <2>2, RefuseIsQuiet
  <2>3. CASE /\ \E d : Moves(h, [req[h] EXCEPT !.pc = "verify", !.doc = "want", !.key = signing[d]])
             /\ UNCHANGED history
    <3>1. PICK d : Moves(h, [req[h] EXCEPT !.pc = "verify", !.doc = "want", !.key = signing[d]])
      BY <2>3
    <3>2. LET r == [req[h] EXCEPT !.pc = "verify", !.doc = "want", !.key = signing[d]]
          IN  r.op = "callback" /\ r.cfg = req[h].cfg /\ r.at = req[h].at
      BY <2>1, Kinds DEF CallbackRequest
    <3> QED
      BY <2>1, <2>3, <3>1, <3>2, MoveIsQuiet DEF history
  <2> QED
    BY <1>3, <2>2, <2>3 DEF Exchange
<1>4. CASE Verify(h)
  <2>1. req[h].op = "callback" /\ UNCHANGED <<configured, discovery, jwks>>
    BY <1>4 DEF Verify, caches
  <2>2. CASE Refuse(h, {})
    BY <2>1, <2>2, RefuseIsQuiet
  <2>3. CASE Moves(h, [req[h] EXCEPT !.pc = "keys", !.at = discovery]) /\ UNCHANGED history
    <3>2. LET r == [req[h] EXCEPT !.pc = "keys", !.at = discovery]
          IN  r.op = "callback" /\ r.cfg = req[h].cfg /\ r.at = discovery
      BY <2>1, Kinds DEF CallbackRequest
    <3> QED
      BY <2>1, <2>3, <3>2, MoveIsQuiet DEF history
  <2>4. CASE Verified(h) /\ UNCHANGED history
    <3>2. LET r == [req[h] EXCEPT !.pc = "userinfo", !.doc = "want", !.key = 0, !.at = None]
          IN  r.op = "callback" /\ r.cfg = req[h].cfg /\ r.at = None
      BY <2>1, Kinds DEF CallbackRequest
    <3> QED
      BY <2>1, <2>4, <3>2, MoveIsQuiet DEF history, Verified
  <2> QED
    BY <1>4, <2>2, <2>3, <2>4 DEF Verify, Reads
<1>5. CASE KeysAnswer(h)
  <2>0. req[h] \in CallbackRequest
    BY <1>5, Kinds DEF KeysAnswer
  <2>1. /\ req[h].op = "callback" /\ UNCHANGED <<configured, discovery>>
        /\ jwks' = Published(req[h].at) /\ req[h].at \in Providers
    BY <1>5, <2>0 DEF KeysAnswer, CallbackRequest
  <2>2. req[h].at # None /\ jwks'.of = req[h].at
    BY <2>1, OidcAssumption DEF Published
  <2>3. CASE Refuse(h, {})
    BY <2>1, <2>2, <2>3, RefuseIsQuiet
  <2>4. CASE Verified(h) /\ UNCHANGED history
    <3>2. LET r == [req[h] EXCEPT !.pc = "userinfo", !.doc = "want", !.key = 0, !.at = None]
          IN  r.op = "callback" /\ r.cfg = req[h].cfg /\ r.at = None
      BY <2>0 DEF CallbackRequest
    <3> QED
      BY <2>1, <2>2, <2>4, <3>2, MoveIsQuiet DEF history, Verified
  <2> QED
    BY <1>5, <2>3, <2>4 DEF KeysAnswer
<1>6. CASE UserInfo(h)
  <2>1. req[h].op = "callback" /\ UNCHANGED <<configured, discovery, jwks>>
    BY <1>6 DEF UserInfo, caches
  <2>2. CASE Refuse(h, {})
    BY <2>1, <2>2, RefuseIsQuiet
  <2>3. CASE /\ \E n : Moves(h, [req[h] EXCEPT !.pc = "provision", !.name = n])
             /\ UNCHANGED history
    <3>1. PICK n : Moves(h, [req[h] EXCEPT !.pc = "provision", !.name = n])
      BY <2>3
    <3>2. LET r == [req[h] EXCEPT !.pc = "provision", !.name = n]
          IN  r.op = "callback" /\ r.cfg = req[h].cfg /\ r.at = req[h].at
      BY <2>1, Kinds DEF CallbackRequest
    <3> QED
      BY <2>1, <2>3, <3>1, <3>2, MoveIsQuiet DEF history
  <2> QED
    BY <1>6, <2>2, <2>3 DEF UserInfo
<1>7. CASE LookUp(h)
  <2>1. req[h].op = "callback" /\ UNCHANGED <<configured, caches>>
    BY <1>7 DEF LookUp
  <2>2. CASE Refuse(h, {req[h].flow})
    BY <2>1, <2>2, RefuseIsQuiet DEF caches
  <2>3. CASE /\ \E pc \in {"create", "link"} : Moves(h, [req[h] EXCEPT !.pc = pc])
             /\ UNCHANGED history
    <3>1. PICK pc \in {"create", "link"} : Moves(h, [req[h] EXCEPT !.pc = pc])
      BY <2>3
    <3>2. LET r == [req[h] EXCEPT !.pc = pc]
          IN  r.op = "callback" /\ r.cfg = req[h].cfg /\ r.at = req[h].at
      BY <2>1, Kinds DEF CallbackRequest
    <3> QED
      BY <2>1, <2>3, <3>1, <3>2, MoveIsQuiet DEF history, caches
  <2>4. CASE \E m : Grant(h, m)
    BY <2>1, <2>4, GrantIsQuiet
  <2> QED
    BY <1>7, <2>2, <2>3, <2>4 DEF LookUp
<1>8. CASE Provision(h)
  <2>1. req[h].op = "callback" /\ UNCHANGED <<configured, caches>>
    BY <1>8 DEF Provision
  <2> QED
    BY <1>8, <2>1, RefuseIsQuiet, GrantIsQuiet DEF Provision, caches
<1>9. CASE ProviderFails(h)
  <2>1. h \in Readers
    BY <1>9 DEF ProviderFails, NeedsDiscovery, Readers, Serving
  <2>2. CASE req[h].op = "callback"
    BY <1>9, <2>2, RefuseIsQuiet DEF ProviderFails, caches
  <2>3. CASE req[h].op # "callback"
    <3>1. Ends(h) /\ UNCHANGED <<configured, caches, crossed>>
      BY <1>9, <2>3 DEF ProviderFails, history
    <3>2. req'[h] = Idle /\ \A g \in Handlers \ {h} : req'[g] = req[g]
      BY <3>1, EndType
    <3> QED
      BY <2>1, <3>1, <3>2 DEF Quiet, caches
  <2> QED
    BY <2>2, <2>3
<1> QED
  BY <1>1, <1>2, <1>3, <1>4, <1>5, <1>6, <1>7, <1>8, <1>9 DEF Step

\* A request that begins while a save is pending marks the crossing.
LEMMA BeginKeepsCacheInv ==
    ASSUME TypeOK, CacheInv, NEW h \in Handlers, req[h] = Idle,
           NEW r, r.op \in {"login", "logout", "callback"}, r.cfg = configured,
           r.op = "callback" => r.at = None,
           Moves(h, r) \/ req' = req, UNCHANGED <<configured, caches>>,
           crossed' = (crossed \/ Serving({"put"}) # {})
    PROVE  CacheInv'
<1> SUFFICES ASSUME ~crossed, ~Pending PROVE
      /\ ~Pending' /\ discovery' \in {None, configured}
      /\ jwks' # None => jwks'.of = configured
      /\ \A g \in Readers' : req'[g].cfg = configured
      /\ \A g \in Handlers : req'[g].op = "callback" => req'[g].at \in {None, configured}
  BY DEF CacheInv, Pending
<1>1. /\ discovery \in {None, configured} /\ (jwks # None => jwks.of = configured)
      /\ \A g \in Readers : req[g].cfg = configured
      /\ \A g \in Handlers : req[g].op = "callback" => req[g].at \in {None, configured}
  BY DEF CacheInv
<1>2. \A g \in Handlers : req'[g] = req[g] \/ req'[g] = r
  BY DEF TypeOK
<1> QED
  BY <1>1, <1>2 DEF Pending, Serving, Readers, caches

LEMMA CacheInvStep == TypeOK /\ CacheInv /\ [Next]_vars => CacheInv'
<1> SUFFICES ASSUME TypeOK, CacheInv, [Next]_vars PROVE CacheInv'
  OBVIOUS
<1>1. ASSUME UNCHANGED <<configured, caches, req, crossed>> PROVE CacheInv'
  BY <1>1 DEF CacheInv, Pending, Serving, Readers, caches
<1>2. ASSUME NEW h \in Handlers, Step(h) \/ ProviderFails(h), ~CommitPut(h) PROVE CacheInv'
  BY <1>2, QuietSteps, QuietKeepsCacheInv
<1>3. ASSUME NEW h \in Handlers, CommitPut(h) PROVE CacheInv'
  <2>1. Pending
    BY <1>3 DEF CommitPut, Pending, Serving
  <2>2. /\ UNCHANGED <<caches, crossed>>
        /\ \A g \in Handlers : req'[g] = IF g = h THEN Idle ELSE req[g]
    BY <1>3, EndType DEF CommitPut
  <2>3. CASE ~crossed
    <3>1. Readers = {} /\ discovery = None /\ jwks = None
      BY <2>1, <2>3 DEF CacheInv
    <3>2. Readers' = {}
      BY <2>2, <3>1 DEF Readers, Serving, Idle
    <3>3. \A g \in Handlers : req'[g].op # "callback"
      BY <3>2 DEF Readers, Serving
    <3> QED
      BY <2>2, <3>1, <3>2, <3>3 DEF CacheInv, caches
  <2> QED
    BY <2>2, <2>3 DEF CacheInv
<1>4. ASSUME NEW h \in Handlers, NEW b, BeginLogin(h, b) PROVE CacheInv'
  <2>1. PICK r : r = [op |-> "login", browser |-> b, cfg |-> configured, doc |-> "want"]
    OBVIOUS
  <2>2. r.op = "login" /\ r.cfg = configured /\ (r.op = "callback" => r.at = None)
    BY <2>1
  <2>3. /\ req[h] = Idle /\ (Moves(h, r) \/ req' = req) /\ UNCHANGED <<configured, caches>>
        /\ crossed' = (crossed \/ Serving({"put"}) # {})
    BY <1>4, <2>1 DEF BeginLogin, Begin
  <2> QED
    BY <2>2, <2>3, BeginKeepsCacheInv
<1>5. ASSUME NEW h \in Handlers, BeginLogout(h) PROVE CacheInv'
  <2>1. PICK r : r = [op |-> "logout", cfg |-> configured, doc |-> "want"]
    OBVIOUS
  <2>2. r.op = "logout" /\ r.cfg = configured /\ (r.op = "callback" => r.at = None)
    BY <2>1
  <2>3. /\ req[h] = Idle /\ (Moves(h, r) \/ req' = req) /\ UNCHANGED <<configured, caches>>
        /\ crossed' = (crossed \/ Serving({"put"}) # {})
    BY <1>5, <2>1 DEF BeginLogout, Begin
  <2> QED
    BY <2>2, <2>3, BeginKeepsCacheInv
<1>6. ASSUME NEW h \in Handlers, NEW b, NEW f, NEW c, BeginCallback(h, b, f, c) PROVE CacheInv'
  <2>1. PICK r : r = Callback(b, f, c)
    OBVIOUS
  <2>2. r.op = "callback" /\ r.cfg = configured /\ r.at = None
    BY <2>1 DEF Callback
  <2>3. Moves(h, r) \/ req' = req
    BY <1>6, <2>1 DEF BeginCallback
  <2> QED
    BY <1>6, <2>2, <2>3, BeginKeepsCacheInv DEF BeginCallback
<1>7. ASSUME NEW h \in Handlers, NEW new, BeginPut(h, new) PROVE CacheInv'
  <2>1. discovery' = None /\ jwks' = None /\ crossed' = (Readers # {})
    BY <1>7 DEF BeginPut, Forget
  <2>2. \A g \in Handlers : req'[g] = IF g = h THEN [op |-> "put", new |-> new] ELSE req[g]
    BY <1>7 DEF BeginPut, TypeOK
  <2>3. h \in Serving({"put"})'
    BY <2>2 DEF Serving
  <2>4. Readers = {} => Readers' = {}
    BY <2>2 DEF Readers, Serving
  <2> QED
    BY <2>1, <2>3, <2>4 DEF CacheInv, Pending
<1>8. ASSUME Restart PROVE CacheInv'
  <2>1. /\ \A g \in Handlers : req'[g] = Idle
        /\ discovery' = None /\ jwks' = None
    BY <1>8 DEF Restart
  <2>2. ~Pending' /\ Readers' = {} /\ \A g \in Handlers : req'[g].op # "callback"
    BY <2>1 DEF Pending, Readers, Serving, Idle
  <2> QED
    BY <2>1, <2>2 DEF CacheInv
<1>9. ASSUME \/ \E f \in DOMAIN flows, s \in Subjects : Authenticate(f, s)
             \/ \E b \in Browsers : Expire(b)
             \/ \E p \in Providers : Rotate(p)
      PROVE  UNCHANGED <<configured, caches, req, crossed>>
  BY <1>9 DEF Authenticate, Expire, Rotate, history
<1>10. ASSUME UNCHANGED vars PROVE UNCHANGED <<configured, caches, req, crossed>>
  BY <1>10 DEF vars, caches
<1> QED
  BY <1>1, <1>2, <1>3, <1>4, <1>5, <1>6, <1>7, <1>8, <1>9, <1>10 DEF Next

\* However many handlers, browsers and saves: the caches are of the saved settings from a
\* save that no request overlaps on, or from a restart.
THEOREM CachesFollow == Spec => []CachesFollowSettings
<1>1. Init => TypeOK /\ CacheInv
  BY InitType DEF Init, CacheInv, Pending, Readers, Serving, Idle
<1>2. TypeOK /\ CacheInv /\ [Next]_vars => (TypeOK /\ CacheInv)'
  BY TypeStep, CacheInvStep
<1>3. CacheInv => CachesFollowSettings
  BY DEF CacheInv, Pending, CachesFollowSettings
<1> QED
  BY <1>1, <1>2, <1>3, PTL DEF Spec

-----------------------------------------------------------------------------
(* One session per flow. *)

\* A step that opens nothing: callbacks end, or go on as the callback they were.
Mild ==
    /\ UNCHANGED <<flows, codes, signIns>> /\ excused \subseteq excused'
    /\ \A b \in Browsers : cookie'[b] \in {cookie[b], 0}
    /\ \A g \in Handlers : req'[g].op = "callback" =>
         /\ req[g].op = "callback"
         /\ req'[g].flow = req[g].flow /\ req'[g].code = req[g].code
         /\ req'[g].browser = req[g].browser /\ req'[g].who = req[g].who
         /\ req'[g].pc # "exchange" => req[g].pc # "exchange"
         /\ Accepted(g)' => Accepted(g) \/ NonceMatches(g)

LEMMA MildKeepsFlowInv == ASSUME FlowInv, Mild PROVE FlowInv'
<1>1. \A g \in Handlers : Past(g)' => Past(g)
  BY DEF Mild, Past
<1>2. \A g \in Serving({"callback"})' :
        /\ g \in Serving({"callback"})
        /\ req'[g].flow = req[g].flow /\ req'[g].code = req[g].code
        /\ req'[g].browser = req[g].browser /\ req'[g].who = req[g].who
        /\ Accepted(g)' => Accepted(g) \/ NonceMatches(g)
  BY DEF Mild, Serving
<1>3. \A h \in Serving({"callback"}) : Held(h)
  BY DEF FlowInv
<1>4. \A h \in Serving({"callback"})' : Held(h)'
  <2> TAKE h \in Serving({"callback"})'
  <2>1. h \in Handlers /\ h \in Serving({"callback"}) /\ Held(h)
    BY <1>2, <1>3 DEF Serving
  <2>2. \E c \in codes' : c.flow = req'[h].code /\ c.who = req'[h].who /\ (Past(h)' => c.spent)
    BY <1>1, <1>2, <2>1 DEF Held, Mild
  <2>3. req'[h].code # req'[h].flow => ~Accepted(h)' /\ {req'[h].code, req'[h].flow} \subseteq excused'
    BY <1>2, <2>1 DEF Held, Mild, NonceMatches
  <2>4. req'[h].flow \in DOMAIN flows' /\ flows'[req'[h].flow].browser = req'[h].browser
    BY <1>2, <2>1 DEF Held, Mild
  <2> QED
    BY <2>2, <2>3, <2>4 DEF Held
<1>5. \A s \in signIns' : Traced(s.flow, s.browser, s.who)'
  BY DEF FlowInv, Traced, Mild
<1>6. \A b \in Browsers : cookie'[b] # 0 => cookie'[b] \in DOMAIN flows' /\ flows'[cookie'[b]].browser = b
  BY DEF FlowInv, Mild
<1>7. \A g \in Handlers : Past(g)' => req'[g].code = req[g].code
  BY DEF Mild, Past
<1>8. /\ \A g, h \in Handlers : Past(g)' /\ Past(h)' /\ req'[g].code = req'[h].code => g = h
      /\ \A h \in Handlers, s \in signIns' : Past(h)' => s.flow # req'[h].code
  BY <1>1, <1>7 DEF FlowInv, Mild
<1>9. /\ \A c \in codes' : c.flow \in DOMAIN flows'
      /\ \A c, d \in codes' : c.flow = d.flow => c = d
      /\ \A s, t \in signIns' : s.flow = t.flow => s = t
  BY DEF FlowInv, Mild
<1> QED
  BY <1>4, <1>5, <1>6, <1>8, <1>9 DEF FlowInv

LEMMA RefuseIsMild ==
    ASSUME TypeOK, NEW h \in Handlers, NEW why, req[h].op = "callback", Refuse(h, why),
           UNCHANGED <<flows, codes>>
    PROVE  Mild
<1>1. \A g \in Handlers : req'[g] = IF g = h THEN Idle ELSE req[g]
  BY EndType DEF Refuse
<1>2. \A b \in Browsers : cookie'[b] \in {cookie[b], 0}
  BY DEF Refuse, Cleared, TypeOK
<1> QED
  BY <1>1, <1>2 DEF Mild, Refuse, Idle, Accepted

LEMMA MoveIsMild ==
    ASSUME TypeOK, NEW h \in Handlers, req[h].op = "callback", NEW r, Moves(h, r),
           r.flow = req[h].flow, r.code = req[h].code, r.browser = req[h].browser, r.who = req[h].who,
           r.pc # "exchange" => req[h].pc # "exchange",
           Accepted(h) \/ NonceMatches(h) \/ r.pc \notin {"userinfo", "provision", "link", "create"},
           UNCHANGED <<flows, codes, cookie, signIns, excused>>
    PROVE  Mild
<1>1. \A g \in Handlers : req'[g] = IF g = h THEN r ELSE req[g]
  BY DEF TypeOK
<1> QED
  BY <1>1 DEF Mild, Accepted

LEMMA OtherIsMild ==
    ASSUME TypeOK, NEW h \in Handlers, NEW r, Moves(h, r), r.op # "callback",
           UNCHANGED <<flows, codes, cookie, signIns>>, excused \subseteq excused'
    PROVE  Mild
<1>1. \A g \in Handlers : req'[g] = IF g = h THEN r ELSE req[g]
  BY DEF TypeOK
<1> QED
  BY <1>1 DEF Mild, Accepted

LEMMA MildSteps ==
    ASSUME TypeOK, NEW h \in Handlers,
           \/ AskDiscovery(h) \/ DiscoveryAnswers(h) \/ AnswerWithout(h) \/ Verify(h)
           \/ KeysAnswer(h) \/ UserInfo(h) \/ ProviderFails(h) \/ CommitPut(h)
           \/ BeginLogout(h) \/ \E b \in Browsers : BeginLogin(h, b)
           \/ \E new \in Settings : BeginPut(h, new)
    PROVE  Mild
<1>1. CASE AskDiscovery(h) \/ DiscoveryAnswers(h)
  <2>1. PICK d \in Docs : Moves(h, [req[h] EXCEPT !.doc = d])
    BY <1>1 DEF AskDiscovery, DiscoveryAnswers
  <2>2. req[h].op \in {"login", "logout", "callback"}
    BY <1>1 DEF AskDiscovery, DiscoveryAnswers, NeedsDiscovery
  <2>3. UNCHANGED <<flows, codes, cookie, signIns, excused>>
    BY <1>1 DEF AskDiscovery, DiscoveryAnswers, outside, history
  <2>4. CASE req[h].op = "callback"
    <3>1. LET r == [req[h] EXCEPT !.doc = d]
          IN  /\ r.flow = req[h].flow /\ r.code = req[h].code /\ r.browser = req[h].browser
              /\ r.who = req[h].who /\ r.pc = req[h].pc
      BY <2>4, Kinds DEF CallbackRequest
    <3> QED
      BY <2>1, <2>3, <2>4, <3>1, MoveIsMild DEF Accepted
  <2>5. CASE req[h].op # "callback"
    <3>1. [req[h] EXCEPT !.doc = d].op # "callback"
      BY <2>2, <2>5, Kinds DEF LoginRequest, LogoutRequest
    <3> QED
      BY <2>1, <2>3, <3>1, OtherIsMild
  <2> QED
    BY <2>4, <2>5
<1>2. CASE AnswerWithout(h) \/ CommitPut(h)
  <2>1. Moves(h, Idle) /\ UNCHANGED <<flows, codes, cookie, signIns>> /\ excused \subseteq excused'
    BY <1>2 DEF AnswerWithout, CommitPut, Ends, outside, history
  <2>2. Idle.op # "callback"
    BY DEF Idle
  <2> QED
    BY <2>1, <2>2, OtherIsMild
<1>3. CASE Verify(h)
  <2>1. req[h].op = "callback" /\ req[h].pc = "verify" /\ UNCHANGED <<flows, codes>> /\ req[h] \in CallbackRequest
    BY <1>3, Kinds DEF Verify, outside
  <2>2. CASE Refuse(h, {})
    BY <2>1, <2>2, RefuseIsMild
  <2>3. CASE Moves(h, [req[h] EXCEPT !.pc = "keys", !.at = discovery]) /\ UNCHANGED <<cookie, history>>
    <3>1. LET r == [req[h] EXCEPT !.pc = "keys", !.at = discovery]
          IN  /\ r.flow = req[h].flow /\ r.code = req[h].code /\ r.browser = req[h].browser
              /\ r.who = req[h].who /\ r.pc = "keys"
      BY <2>1 DEF CallbackRequest
    <3> QED
      BY <2>1, <2>3, <3>1, MoveIsMild DEF history
  <2>4. CASE NonceMatches(h) /\ Verified(h) /\ UNCHANGED <<cookie, history>>
    <3>1. LET r == [req[h] EXCEPT !.pc = "userinfo", !.doc = "want", !.key = 0, !.at = None]
          IN  r.flow = req[h].flow /\ r.code = req[h].code /\ r.browser = req[h].browser /\ r.who = req[h].who
      BY <2>1 DEF CallbackRequest
    <3> QED
      BY <2>1, <2>4, <3>1, MoveIsMild DEF history, Verified
  <2> QED
    BY <1>3, <2>2, <2>3, <2>4 DEF Verify, Reads
<1>4. CASE KeysAnswer(h)
  <2>1. req[h].op = "callback" /\ req[h].pc = "keys" /\ UNCHANGED <<flows, codes>> /\ req[h] \in CallbackRequest
    BY <1>4, Kinds DEF KeysAnswer, outside
  <2>2. CASE Refuse(h, {})
    BY <2>1, <2>2, RefuseIsMild
  <2>4. CASE NonceMatches(h) /\ Verified(h) /\ UNCHANGED <<cookie, history>>
    <3>1. LET r == [req[h] EXCEPT !.pc = "userinfo", !.doc = "want", !.key = 0, !.at = None]
          IN  r.flow = req[h].flow /\ r.code = req[h].code /\ r.browser = req[h].browser /\ r.who = req[h].who
      BY <2>1 DEF CallbackRequest
    <3> QED
      BY <2>1, <2>4, <3>1, MoveIsMild DEF history, Verified
  <2> QED
    BY <1>4, <2>2, <2>4 DEF KeysAnswer
<1>5. CASE UserInfo(h)
  <2>1. req[h].op = "callback" /\ req[h].pc = "userinfo" /\ UNCHANGED <<flows, codes>> /\ req[h] \in CallbackRequest
    BY <1>5, Kinds DEF UserInfo, outside
  <2>2. CASE Refuse(h, {})
    BY <2>1, <2>2, RefuseIsMild
  <2>3. ASSUME NEW n, Moves(h, [req[h] EXCEPT !.pc = "provision", !.name = n]), UNCHANGED <<cookie, history>>
        PROVE  Mild
    <3>1. LET r == [req[h] EXCEPT !.pc = "provision", !.name = n]
          IN  r.flow = req[h].flow /\ r.code = req[h].code /\ r.browser = req[h].browser /\ r.who = req[h].who
      BY <2>1 DEF CallbackRequest
    <3> QED
      BY <2>1, <2>3, <3>1, MoveIsMild DEF history, Accepted
  <2> QED
    BY <1>5, <2>2, <2>3 DEF UserInfo
<1>6. CASE ProviderFails(h)
  <2>1. UNCHANGED <<flows, codes>>
    BY <1>6 DEF ProviderFails, outside
  <2>2. CASE req[h].op = "callback"
    BY <1>6, <2>1, <2>2, RefuseIsMild DEF ProviderFails
  <2>3. CASE req[h].op # "callback"
    <3>1. Moves(h, Idle) /\ UNCHANGED <<flows, codes, cookie, signIns, excused>>
      BY <1>6, <2>1, <2>3 DEF ProviderFails, Ends, history
    <3>2. Idle.op # "callback"
      BY DEF Idle
    <3> QED
      BY <3>1, <3>2, OtherIsMild
  <2> QED
    BY <2>2, <2>3
<1>7. CASE BeginLogout(h) \/ \E b \in Browsers : BeginLogin(h, b)
  <2>1. UNCHANGED <<flows, codes, cookie, signIns, excused>>
    BY <1>7 DEF BeginLogout, BeginLogin, Begin, outside
  <2>2. CASE BeginLogout(h)
    <3>1. PICK r : r = [op |-> "logout", cfg |-> configured, doc |-> "want"]
      OBVIOUS
    <3>2. r.op = "logout" /\ Moves(h, r)
      BY <2>2, <3>1 DEF BeginLogout, Begin
    <3> QED
      BY <2>1, <3>2, OtherIsMild
  <2>3. CASE \E b \in Browsers : BeginLogin(h, b)
    <3>1. PICK b \in Browsers : BeginLogin(h, b)
      BY <2>3
    <3>2. PICK r : r = [op |-> "login", browser |-> b, cfg |-> configured, doc |-> "want"]
      OBVIOUS
    <3>3. r.op = "login" /\ Moves(h, r)
      BY <3>1, <3>2 DEF BeginLogin, Begin
    <3> QED
      BY <2>1, <3>3, OtherIsMild
  <2> QED
    BY <1>7, <2>2, <2>3
<1>8. CASE \E new \in Settings : BeginPut(h, new)
  <2>1. PICK new \in Settings : BeginPut(h, new)
    BY <1>8
  <2>4. PICK r : r = [op |-> "put", new |-> new]
    OBVIOUS
  <2>2. UNCHANGED <<flows, codes, cookie, signIns>> /\ excused \subseteq excused'
    BY <1>8 DEF BeginPut, outside
  <2>3. r.op = "put" /\ Moves(h, r)
    BY <2>1, <2>4 DEF BeginPut
  <2> QED
    BY <2>2, <2>3, OtherIsMild
<1> QED
  BY <1>1, <1>2, <1>3, <1>4, <1>5, <1>6, <1>7, <1>8

LEMMA IssueKeepsFlowInv ==
    ASSUME TypeOK, FlowInv, NEW h \in Handlers, IssueFlow(h)
    PROVE  FlowInv'
<1>1. PICK d : flows' = Append(flows, [browser |-> req[h].browser, at |-> d, client |-> req[h].cfg])
  BY DEF IssueFlow
<1>2. /\ req[h].browser \in Browsers
      /\ req'[h] = Idle /\ \A g \in Handlers \ {h} : req'[g] = req[g]
  BY Kinds, EndType DEF IssueFlow, LoginRequest
<1>3. /\ Len(flows') = Len(flows) + 1 /\ DOMAIN flows' = DOMAIN flows \cup {Len(flows')}
      /\ \A f \in DOMAIN flows : flows'[f] = flows[f]
      /\ flows'[Len(flows')].browser = req[h].browser
  <2>1. flows \in Seq(Flow)
    BY DEF TypeOK
  <2> QED
    BY <1>1, <2>1
<1>4. /\ UNCHANGED <<codes, signIns>> /\ excused \subseteq excused'
      /\ cookie' = [cookie EXCEPT ![req[h].browser] = Len(flows')]
  BY DEF IssueFlow
<1>5. \A b \in Browsers : cookie'[b] # 0 => cookie'[b] \in DOMAIN flows' /\ flows'[cookie'[b]].browser = b
  <2> TAKE b \in Browsers
  <2>1. CASE b = req[h].browser
    BY <1>3, <1>4, <2>1 DEF TypeOK
  <2>2. CASE b # req[h].browser
    <3>1. cookie'[b] = cookie[b]
      BY <1>4, <2>2 DEF TypeOK
    <3> QED
      BY <1>3, <3>1 DEF FlowInv
  <2> QED
    BY <2>1, <2>2
<1>6. \A g \in Handlers : Past(g)' => Past(g) /\ req'[g] = req[g]
  BY <1>2 DEF Past, Idle
<1>7. \A g \in Serving({"callback"})' : Held(g)'
  <2> TAKE g \in Serving({"callback"})'
  <2>1. g \in Serving({"callback"}) /\ req'[g] = req[g] /\ Past(g)' = Past(g) /\ Accepted(g)' = Accepted(g)
    BY <1>2 DEF Serving, Idle, Past, Accepted
  <2>2. Held(g)
    BY <2>1 DEF FlowInv
  <2> QED
    BY <1>3, <1>4, <2>1, <2>2 DEF Held
<1>8. \A s \in signIns' : Traced(s.flow, s.browser, s.who)'
  BY <1>3, <1>4 DEF FlowInv, Traced
<1>9. /\ \A c \in codes' : c.flow \in DOMAIN flows'
      /\ \A c, e \in codes' : c.flow = e.flow => c = e
      /\ \A s, t \in signIns' : s.flow = t.flow => s = t
  BY <1>3, <1>4 DEF FlowInv
<1>10. /\ \A g, k \in Handlers : Past(g)' /\ Past(k)' /\ req'[g].code = req'[k].code => g = k
       /\ \A k \in Handlers, s \in signIns' : Past(k)' => s.flow # req'[k].code
  BY <1>4, <1>6 DEF FlowInv
<1> QED
  BY <1>5, <1>7, <1>8, <1>9, <1>10 DEF FlowInv

LEMMA AuthenticateKeepsFlowInv ==
    ASSUME TypeOK, FlowInv, NEW f \in DOMAIN flows, NEW s \in Subjects, Authenticate(f, s)
    PROVE  FlowInv'
<1>1. PICK k : k = [flow |-> f, who |-> [of |-> flows[f].at, sub |-> s], spent |-> FALSE]
  OBVIOUS
<1>2. /\ codes' = codes \cup {k} /\ k.flow = f
      /\ \A c \in codes : c.flow # f
      /\ UNCHANGED <<flows, cookie, req, signIns, excused>>
  BY <1>1 DEF Authenticate, history
<1>3. \A g \in Handlers : Past(g)' = Past(g) /\ Accepted(g)' = Accepted(g)
  BY <1>2 DEF Past, Accepted
<1>4. \A g \in Serving({"callback"})' : Held(g)'
  <2> TAKE g \in Serving({"callback"})'
  <2>1. g \in Serving({"callback"}) /\ g \in Handlers
    BY <1>2 DEF Serving
  <2>2. Held(g)
    BY <2>1 DEF FlowInv
  <2> QED
    BY <1>2, <1>3, <2>1, <2>2 DEF Held
<1>5. \A t \in signIns' : Traced(t.flow, t.browser, t.who)'
  BY <1>2 DEF FlowInv, Traced
<1>6. /\ \A c \in codes' : c.flow \in DOMAIN flows'
      /\ \A c, e \in codes' : c.flow = e.flow => c = e
  BY <1>2 DEF FlowInv
<1> QED
  BY <1>2, <1>3, <1>4, <1>5, <1>6 DEF FlowInv

LEMMA BeginCallbackKeepsFlowInv ==
    ASSUME TypeOK, FlowInv, NEW h \in Handlers, NEW b \in Browsers, NEW f \in DOMAIN flows,
           NEW c \in codes, BeginCallback(h, b, f, c)
    PROVE  FlowInv'
<1>0. UNCHANGED <<flows, codes, signIns>> /\ excused \subseteq excused'
  BY DEF BeginCallback, outside
<1>1. CASE ~CookieHolds(b, f)
  <2>1. req' = req /\ cookie' = [cookie EXCEPT ![b] = 0]
    BY <1>1 DEF BeginCallback
  <2>2. Mild
    BY <1>0, <2>1 DEF Mild, TypeOK, Accepted
  <2> QED
    BY <2>2, MildKeepsFlowInv
<1>2. CASE CookieHolds(b, f)
  <2>0. PICK r : r = Callback(b, f, c)
    OBVIOUS
  <2>1. Moves(h, r) /\ cookie' = cookie /\ req[h] = Idle /\ Mixed(f, c) \subseteq excused'
    BY <1>2, <2>0 DEF BeginCallback
  <2>2. \A g \in Handlers : req'[g] = IF g = h THEN r ELSE req[g]
    BY <2>1 DEF TypeOK
  <2>3. r.flow = f /\ r.code = c.flow /\ r.browser = b /\ r.who = c.who /\ r.pc = "exchange"
    BY <2>0 DEF Callback
  <2>4. \A g \in Handlers : Past(g)' => Past(g) /\ req'[g] = req[g]
    BY <2>2, <2>3 DEF Past
  <2>5. flows[f].browser = b
    <3>1. f # 0
      BY FlowsAreNumbered
    <3> QED
      BY <1>2, <3>1 DEF CookieHolds, FlowInv
  <2>6. \A g \in Serving({"callback"})' : Held(g)'
    <3> TAKE g \in Serving({"callback"})'
    <3>0. g \in Handlers
      BY DEF Serving
    <3>1. CASE g = h
      <4>1. ~Past(g)' /\ ~Accepted(g)'
        BY <2>2, <2>3, <3>1 DEF Past, Accepted
      <4>2. c.flow # f => {c.flow, f} \subseteq excused'
        BY <2>1 DEF Mixed
      <4> QED
        BY <1>0, <2>2, <2>3, <2>5, <3>1, <4>1, <4>2 DEF Held
    <3>2. CASE g # h
      <4>1. g \in Serving({"callback"}) /\ req'[g] = req[g] /\ Past(g)' = Past(g) /\ Accepted(g)' = Accepted(g)
        BY <2>2, <3>0, <3>2 DEF Serving, Past, Accepted
      <4>2. Held(g)
        BY <4>1 DEF FlowInv
      <4> QED
        BY <1>0, <4>1, <4>2 DEF Held
    <3> QED
      BY <3>1, <3>2
  <2>7. \A s \in signIns' : Traced(s.flow, s.browser, s.who)'
    BY <1>0 DEF FlowInv, Traced
  <2>8. /\ \A g, k \in Handlers : Past(g)' /\ Past(k)' /\ req'[g].code = req'[k].code => g = k
        /\ \A k \in Handlers, s \in signIns' : Past(k)' => s.flow # req'[k].code
    BY <1>0, <2>4 DEF FlowInv
  <2> QED
    BY <1>0, <2>1, <2>6, <2>7, <2>8 DEF FlowInv
<1> QED
  BY <1>1, <1>2

LEMMA ExchangeKeepsFlowInv ==
    ASSUME TypeOK, FlowInv, NEW h \in Handlers, Exchange(h)
    PROVE  FlowInv'
<1>1. req[h] \in CallbackRequest /\ req[h].op = "callback" /\ req[h].pc = "exchange" /\ h \in Serving({"callback"})
  BY Kinds DEF Exchange, Serving
<1>2. PICK d \in Settings, c \in codes :
        /\ c.flow = req[h].code
        /\ \/ /\ Redeemable(c, d, req[h].cfg)
              /\ codes' = (codes \ {c}) \cup {[c EXCEPT !.spent = TRUE]}
              /\ Moves(h, [req[h] EXCEPT !.pc = "verify", !.doc = "want", !.key = signing[d]])
              /\ UNCHANGED <<cookie, history>>
           \/ Refuse(h, {}) /\ UNCHANGED codes
  BY DEF Exchange
<1>3. UNCHANGED flows
  BY DEF Exchange
<1>4. CASE Refuse(h, {}) /\ UNCHANGED codes
  <2>1. Mild
    BY <1>1, <1>3, <1>4, RefuseIsMild
  <2> QED
    BY <2>1, MildKeepsFlowInv
<1>5. CASE /\ Redeemable(c, d, req[h].cfg)
           /\ codes' = (codes \ {c}) \cup {[c EXCEPT !.spent = TRUE]}
           /\ Moves(h, [req[h] EXCEPT !.pc = "verify", !.doc = "want", !.key = signing[d]])
           /\ UNCHANGED <<cookie, history>>
  <2>1. PICK k : k = [c EXCEPT !.spent = TRUE]
    OBVIOUS
  <2>2. k.flow = c.flow /\ k.who = c.who /\ k.spent /\ ~c.spent
    BY <1>5, <2>1 DEF Redeemable, TypeOK, Code
  <2>3. codes' = (codes \ {c}) \cup {k} /\ UNCHANGED <<cookie, signIns, excused>>
    BY <1>5, <2>1 DEF history
  <2>4. PICK r : r = [req[h] EXCEPT !.pc = "verify", !.doc = "want", !.key = signing[d]]
    OBVIOUS
  <2>5. /\ r.op = "callback" /\ r.pc = "verify" /\ r.flow = req[h].flow /\ r.code = req[h].code
        /\ r.browser = req[h].browser /\ r.who = req[h].who
    BY <1>1, <2>4 DEF CallbackRequest
  <2>6. \A g \in Handlers : req'[g] = IF g = h THEN r ELSE req[g]
    BY <1>5, <2>4 DEF TypeOK
  <2>7. \A e \in codes : e.flow = req[h].code => e = c
    BY <1>2 DEF FlowInv
  <2>8. \A e \in codes : e.spent => e.flow # req[h].code
    BY <2>2, <2>7
  <2>9. Held(h)
    BY <1>1 DEF FlowInv
  <2>10. c.who = req[h].who
    BY <2>7, <2>9 DEF Held
  <2>11. Held(h)'
    <3>1. \E e \in codes' : e.flow = r.code /\ e.who = r.who /\ e.spent
      BY <1>2, <2>2, <2>3, <2>5, <2>10
    <3>2. req'[h] = r /\ ~Accepted(h)'
      BY <2>5, <2>6 DEF Accepted
    <3> QED
      BY <1>3, <2>3, <2>5, <2>9, <3>1, <3>2 DEF Held
  <2>12. \A e \in codes : \E k2 \in codes' : k2.flow = e.flow /\ k2.who = e.who /\ (e.spent => k2.spent)
    BY <2>2, <2>3
  <2>13. \A g \in Serving({"callback"})' : Held(g)'
    <3> TAKE g \in Serving({"callback"})'
    <3>0. g \in Handlers
      BY DEF Serving
    <3>2. CASE g # h
      <4>1. /\ g \in Serving({"callback"}) /\ req'[g] = req[g] /\ Past(g)' = Past(g)
            /\ Accepted(g)' = Accepted(g)
        BY <2>6, <3>0, <3>2 DEF Serving, Past, Accepted
      <4>2. Held(g)
        BY <4>1 DEF FlowInv
      <4>3. \E e \in codes' : e.flow = req[g].code /\ e.who = req[g].who /\ (Past(g) => e.spent)
        BY <2>12, <4>2 DEF Held
      <4> QED
        BY <1>3, <2>3, <4>1, <4>2, <4>3 DEF Held
    <3> QED
      BY <2>11, <3>2
  <2>14. \A s \in signIns' : Traced(s.flow, s.browser, s.who)' /\ s.flow # req[h].code
    <3> TAKE s \in signIns'
    <3>1. Traced(s.flow, s.browser, s.who)
      BY <2>3 DEF FlowInv
    <3>2. Traced(s.flow, s.browser, s.who)'
      BY <1>3, <2>12, <3>1 DEF Traced
    <3> QED
      BY <2>8, <3>1, <3>2 DEF Traced
  <2>15. \A g \in Handlers \ {h} : Past(g)' => Past(g) /\ req'[g] = req[g] /\ req[g].code # req[h].code
    <3> TAKE g \in Handlers \ {h}
    <3>1. HAVE Past(g)'
    <3>2. Past(g) /\ req'[g] = req[g] /\ g \in Serving({"callback"})
      BY <2>6, <3>1 DEF Past, Serving
    <3>3. Held(g)
      BY <3>2 DEF FlowInv
    <3> QED
      BY <2>8, <3>2, <3>3 DEF Held
  <2>16. req'[h].code = req[h].code
    BY <2>5, <2>6
  <2>17. \A g, e \in Handlers : Past(g)' /\ Past(e)' /\ req'[g].code = req'[e].code => g = e
    BY <2>15, <2>16 DEF FlowInv
  <2>18. \A g \in Handlers, s \in signIns' : Past(g)' => s.flow # req'[g].code
    BY <2>3, <2>14, <2>15, <2>16 DEF FlowInv
  <2>19. /\ \A e \in codes' : e.flow \in DOMAIN flows'
         /\ \A e, f \in codes' : e.flow = f.flow => e = f
    BY <1>2, <1>3, <2>2, <2>3 DEF FlowInv
  <2> QED
    BY <1>3, <2>3, <2>13, <2>14, <2>17, <2>18, <2>19 DEF FlowInv
<1> QED
  BY <1>2, <1>4, <1>5

\* A session is opened by a callback past the exchange, which ends with it.
LEMMA GrantKeepsFlowInv ==
    ASSUME TypeOK, FlowInv, NEW h \in Handlers, NEW n, Accepted(h), Grant(h, n),
           UNCHANGED <<flows, codes>>
    PROVE  FlowInv'
<1>0. Past(h) /\ Held(h) /\ req[h].code = req[h].flow
  BY DEF Accepted, Past, FlowInv, Serving, Held
<1>1. PICK t : t = [flow |-> req[h].flow, browser |-> req[h].browser, who |-> req[h].who, account |-> n]
  OBVIOUS
<1>2. signIns' = signIns \cup {t} /\ t.flow = req[h].code /\ excused \subseteq excused'
  BY <1>0, <1>1 DEF Grant
<1>3. req'[h] = Idle /\ \A g \in Handlers \ {h} : req'[g] = req[g]
  BY EndType DEF Grant
<1>4. Traced(t.flow, t.browser, t.who)
  BY <1>0, <1>1 DEF Held, Traced
<1>5. \A g \in Handlers : Past(g)' => Past(g) /\ req'[g] = req[g] /\ g # h
  BY <1>3 DEF Past, Idle
<1>6. \A g \in Serving({"callback"})' : Held(g)'
  <2> TAKE g \in Serving({"callback"})'
  <2>1. g \in Serving({"callback"}) /\ req'[g] = req[g] /\ Past(g)' = Past(g) /\ Accepted(g)' = Accepted(g)
    BY <1>3 DEF Serving, Idle, Past, Accepted
  <2>2. Held(g)
    BY <2>1 DEF FlowInv
  <2> QED
    BY <1>2, <2>1, <2>2 DEF Held
<1>7. \A s \in signIns' : Traced(s.flow, s.browser, s.who)'
  BY <1>2, <1>4 DEF FlowInv, Traced
<1>8. \A s, u \in signIns' : s.flow = u.flow => s = u
  BY <1>0, <1>2 DEF FlowInv
<1>9. /\ \A g, e \in Handlers : Past(g)' /\ Past(e)' /\ req'[g].code = req'[e].code => g = e
      /\ \A g \in Handlers, s \in signIns' : Past(g)' => s.flow # req'[g].code
  BY <1>0, <1>2, <1>5 DEF FlowInv
<1>10. \A b \in Browsers : cookie'[b] \in {cookie[b], 0}
  BY DEF Grant, Cleared, TypeOK
<1>11. \A b \in Browsers : cookie'[b] # 0 => cookie'[b] \in DOMAIN flows' /\ flows'[cookie'[b]].browser = b
  BY <1>10 DEF FlowInv
<1> QED
  BY <1>6, <1>7, <1>8, <1>9, <1>11 DEF FlowInv

LEMMA FlowInvStep == TypeOK /\ FlowInv /\ [Next]_vars => FlowInv'
<1> SUFFICES ASSUME TypeOK, FlowInv, [Next]_vars PROVE FlowInv'
  OBVIOUS
<1>1. ASSUME NEW h \in Handlers,
             \/ AskDiscovery(h) \/ DiscoveryAnswers(h) \/ AnswerWithout(h) \/ Verify(h)
             \/ KeysAnswer(h) \/ UserInfo(h) \/ ProviderFails(h) \/ CommitPut(h)
             \/ BeginLogout(h) \/ \E b \in Browsers : BeginLogin(h, b)
             \/ \E new \in Settings : BeginPut(h, new)
      PROVE  FlowInv'
  BY <1>1, MildSteps, MildKeepsFlowInv
<1>2. ASSUME NEW h \in Handlers, IssueFlow(h) PROVE FlowInv'
  BY <1>2, IssueKeepsFlowInv
<1>3. ASSUME NEW h \in Handlers, Exchange(h) PROVE FlowInv'
  BY <1>3, ExchangeKeepsFlowInv
<1>4. ASSUME NEW h \in Handlers, LookUp(h) PROVE FlowInv'
  <2>1. /\ req[h].op = "callback" /\ req[h].pc = "provision" /\ Accepted(h) /\ UNCHANGED <<flows, codes>>
        /\ req[h] \in CallbackRequest
    BY <1>4, Kinds DEF LookUp, outside, Accepted
  <2>2. CASE Refuse(h, {req[h].flow})
    BY <2>1, <2>2, RefuseIsMild, MildKeepsFlowInv
  <2>3. CASE \E m : Grant(h, m)
    BY <2>1, <2>3, GrantKeepsFlowInv
  <2>4. ASSUME NEW pc, Moves(h, [req[h] EXCEPT !.pc = pc]), UNCHANGED <<cookie, history>>
        PROVE  FlowInv'
    <3>1. LET r == [req[h] EXCEPT !.pc = pc]
          IN  r.flow = req[h].flow /\ r.code = req[h].code /\ r.browser = req[h].browser /\ r.who = req[h].who
      BY <2>1 DEF CallbackRequest
    <3>2. Mild
      BY <2>1, <2>4, <3>1, MoveIsMild DEF history
    <3> QED
      BY <3>2, MildKeepsFlowInv
  <2> QED
    BY <1>4, <2>2, <2>3, <2>4 DEF LookUp
<1>5. ASSUME NEW h \in Handlers, Provision(h) PROVE FlowInv'
  <2>1. req[h].op = "callback" /\ Accepted(h) /\ UNCHANGED <<flows, codes>>
    BY <1>5 DEF Provision, outside, Accepted
  <2>2. Refuse(h, {req[h].flow}) \/ \E m : Grant(h, m)
    BY <1>5 DEF Provision
  <2>3. CASE Refuse(h, {req[h].flow})
    BY <2>1, <2>3, RefuseIsMild, MildKeepsFlowInv
  <2>4. CASE \E m : Grant(h, m)
    BY <2>1, <2>4, GrantKeepsFlowInv
  <2> QED
    BY <2>2, <2>3, <2>4
<1>6. ASSUME NEW h \in Handlers, NEW b \in Browsers, NEW f \in DOMAIN flows, NEW c \in codes,
             BeginCallback(h, b, f, c)
      PROVE  FlowInv'
  BY <1>6, BeginCallbackKeepsFlowInv
<1>7. ASSUME NEW f \in DOMAIN flows, NEW s \in Subjects, Authenticate(f, s) PROVE FlowInv'
  BY <1>7, AuthenticateKeepsFlowInv
<1>8. ASSUME NEW b \in Browsers, Expire(b) PROVE FlowInv'
  <2>1. Mild
    BY <1>8 DEF Expire, Mild, TypeOK, outside, Accepted
  <2> QED
    BY <2>1, MildKeepsFlowInv
<1>9. ASSUME NEW p \in Providers, Rotate(p) PROVE FlowInv'
  <2>1. Mild
    BY <1>9 DEF Rotate, Mild, TypeOK, Accepted
  <2> QED
    BY <2>1, MildKeepsFlowInv
<1>10. ASSUME Restart PROVE FlowInv'
  <2>1. \A g \in Handlers : req'[g].op # "callback"
    BY <1>10 DEF Restart, Idle
  <2>2. Mild
    BY <1>10, <2>1 DEF Restart, Mild, outside, Accepted
  <2> QED
    BY <2>2, MildKeepsFlowInv
<1>11. ASSUME UNCHANGED vars PROVE FlowInv'
  <2>1. Mild
    BY <1>11 DEF vars, Mild, Accepted
  <2> QED
    BY <2>1, MildKeepsFlowInv
<1> QED
  BY <1>1, <1>2, <1>3, <1>4, <1>5, <1>6, <1>7, <1>8, <1>9, <1>10, <1>11 DEF Next, Step

LEMMA FlowInvInit == Init => FlowInv
  BY DEF Init, FlowInv, Serving, Past, Idle

\* However often and wherever its callback is called, a flow opens one session at
\* most, in its browser and for who signed in for it.
THEOREM FlowsSignInOnce == Spec => []FlowSignsInOnce
<1>1. Init => TypeOK /\ FlowInv
  BY InitType, FlowInvInit
<1>2. TypeOK /\ FlowInv /\ [Next]_vars => (TypeOK /\ FlowInv)'
  BY TypeStep, FlowInvStep
<1>3. FlowInv => FlowSignsInOnce
  BY DEF FlowInv, Traced, FlowSignsInOnce
<1> QED
  BY <1>1, <1>2, <1>3, PTL DEF Spec

-----------------------------------------------------------------------------
(* Sessions and accounts. *)

LEMMA SessionsStep == TypeOK /\ SessionsOwnTheirAccount /\ [Next]_vars => SessionsOwnTheirAccount'
<1> SUFFICES ASSUME TypeOK, SessionsOwnTheirAccount, [Next]_vars PROVE SessionsOwnTheirAccount'
  OBVIOUS
<1>1. ASSUME UNCHANGED <<rows, signIns, raced>> PROVE SessionsOwnTheirAccount'
  BY <1>1 DEF SessionsOwnTheirAccount
<1>2. ASSUME NEW h \in Handlers, LookUp(h), ~UNCHANGED <<rows, signIns, raced>>
      PROVE  SessionsOwnTheirAccount'
  <2>1. PICK m \in OwnedBy(req[h].who) : Grant(h, m) /\ raced' = raced
    BY <1>2 DEF LookUp, Refuse, history
  <2>2. req[h].who \in Identities
    BY <1>2, Kinds DEF LookUp, CallbackRequest
  <2>3. rows[m] = Bound(req[h].who)
    <3>1. m \in Names /\ rows[m].identity = req[h].who
      BY <2>1 DEF OwnedBy
    <3>2. \E i \in Identities \cup {None} : rows[m] \in {NoRow, Local, Legacy, Bound(i)}
      BY <3>1 DEF TypeOK
    <3>3. CASE req[h].who = None
      BY <2>2, <3>3, OidcAssumption DEF Identities
    <3> QED
      BY <3>1, <3>2, <3>3 DEF NoRow, Local, Legacy, Bound
  <2>4. UNCHANGED rows
    BY <1>2 DEF LookUp
  <2> QED
    BY <2>1, <2>3, <2>4 DEF Grant, SessionsOwnTheirAccount
<1>3. ASSUME NEW h \in Handlers, Provision(h) PROVE SessionsOwnTheirAccount'
  <2>1. req[h].name \in Names
    BY <1>3, Kinds DEF Provision, CallbackRequest
  <2>2. CASE UNCHANGED <<rows, signIns, raced>>
    BY <1>1, <2>2
  <2>3. CASE ~UNCHANGED <<rows, signIns, raced>>
    <3>1. PICK n : n = req[h].name
      OBVIOUS
    <3>2. /\ rows' = [rows EXCEPT ![n] = Bound(req[h].who)]
          /\ Grant(h, n)
          /\ raced' = IF rows[n] \in {NoRow, Legacy, Bound(req[h].who)} THEN raced ELSE raced \cup {n}
      BY <1>3, <2>3, <3>1 DEF Provision, Refuse
    <3>3. rows'[n] = Bound(req[h].who) /\ \A m \in Names \ {n} : rows'[m] = rows[m]
      BY <2>1, <3>1, <3>2 DEF TypeOK
    <3>4. signIns' = signIns \cup {[flow |-> req[h].flow, browser |-> req[h].browser,
                                    who |-> req[h].who, account |-> n]}
      BY <3>2 DEF Grant
    <3>5. ASSUME NEW s \in signIns PROVE rows'[s.account] = Bound(s.who) \/ s.account \in raced'
      <4>1. s.account \in Names /\ s.who \in Identities
        BY DEF TypeOK, SignIn
      <4>2. rows[s.account] = Bound(s.who) \/ s.account \in raced
        BY DEF SessionsOwnTheirAccount
      <4>3. CASE s.account \in raced
        BY <3>2, <4>3
      <4>4. CASE s.account # n /\ rows[s.account] = Bound(s.who)
        BY <3>3, <4>1, <4>4
      <4>5. CASE s.account = n /\ rows[s.account] = Bound(s.who)
        <5>1. s.who # None => rows[n] # NoRow /\ rows[n] # Legacy
          <6>1. rows[n].kind = "oidc" /\ rows[n].identity = s.who
            BY <4>5 DEF Bound
          <6>2. NoRow.kind = "none" /\ Legacy.identity = None
            BY DEF NoRow, Legacy
          <6> QED
            BY <6>1, <6>2
        <5>2. CASE s.who = req[h].who
          BY <3>3, <4>5, <5>2
        <5>3. CASE s.who # req[h].who /\ s.who # None
          BY <3>2, <4>5, <5>1, <5>3 DEF Bound
        <5>4. CASE s.who = None
          BY <4>1, <5>4, OidcAssumption DEF Identities
        <5> QED
          BY <5>2, <5>3, <5>4
      <4> QED
        BY <4>2, <4>3, <4>4, <4>5
    <3> QED
      BY <3>3, <3>4, <3>5 DEF SessionsOwnTheirAccount
  <2> QED
    BY <2>2, <2>3
<1>4. ASSUME NEW h \in Handlers, Step(h) \/ ProviderFails(h), ~LookUp(h), ~Provision(h)
      PROVE  UNCHANGED <<rows, signIns, raced>>
  BY <1>4 DEF Step, ProviderFails, AskDiscovery, DiscoveryAnswers, IssueFlow, AnswerWithout, Exchange,
     Verify, KeysAnswer, UserInfo, CommitPut, Refuse, history
<1>5. ASSUME NEW h \in Handlers,
             \/ BeginLogout(h)
             \/ \E b \in Browsers : BeginLogin(h, b)
             \/ \E b \in Browsers, f \in DOMAIN flows, c \in codes : BeginCallback(h, b, f, c)
             \/ \E new \in Settings : BeginPut(h, new)
      PROVE  UNCHANGED <<rows, signIns, raced>>
  BY <1>5 DEF BeginLogout, BeginLogin, Begin, BeginCallback, BeginPut
<1>6. ASSUME \/ \E f \in DOMAIN flows, s \in Subjects : Authenticate(f, s)
             \/ \E b \in Browsers : Expire(b)
             \/ \E p \in Providers : Rotate(p)
             \/ Restart
             \/ UNCHANGED vars
      PROVE  UNCHANGED <<rows, signIns, raced>>
  BY <1>6 DEF Authenticate, Expire, Rotate, Restart, vars, history
<1> QED
  BY <1>1, <1>2, <1>3, <1>4, <1>5, <1>6 DEF Next

\* Whoever holds a session of an account is who the account is bound to, and so never
\* a local account, unless two callbacks linked it at once.
THEOREM SessionsOwnAccounts == Spec => []SessionsOwnTheirAccount
<1>1. Init => TypeOK /\ SessionsOwnTheirAccount
  BY InitType DEF Init, SessionsOwnTheirAccount
<1>2. TypeOK /\ SessionsOwnTheirAccount /\ [Next]_vars => (TypeOK /\ SessionsOwnTheirAccount)'
  BY TypeStep, SessionsStep
<1> QED
  BY <1>1, <1>2, PTL DEF Spec

-----------------------------------------------------------------------------
(* The sign-ins are those that SignIns promises. *)

LEMMA InitSignIns == Init => Promised!Init
<1> SUFFICES ASSUME Init PROVE Promised!Init
  OBVIOUS
<1>1. flows = <<>> /\ Proven = {} /\ signIns = {}
  BY DEF Init, Proven
<1>2. \A n \in Names : rows[n].identity = None
  BY DEF Init, NoRow, Local, Legacy
<1> QED
  BY <1>1, <1>2 DEF Promised!Init

\* A code proves who it is for.
LEMMA NewCodeProves ==
    ASSUME NEW f, NEW who, NEW c, c.flow = f, c.who = who, codes' = codes \cup {c}
    PROVE  Proven' = Proven \cup {[flow |-> f, who |-> who]}
  BY DEF Proven

\* A redeemed code proves what it proved.
LEMMA RedeemedStillProves ==
    ASSUME NEW c \in codes, NEW k, k.flow = c.flow, k.who = c.who, codes' = (codes \ {c}) \cup {k}
    PROVE  Proven' = Proven
  BY DEF Proven

\* A callback that gives its session of an account: the account is bound to whoever it
\* is for, and was before or was nobody's.
LEMMA GrantOpens ==
    ASSUME TypeOK, FlowInv, NEW h \in Handlers, Accepted(h), NEW n \in Names, Grant(h, n),
           UNCHANGED <<flows, codes>>,
           rows' = rows \/ rows' = [rows EXCEPT ![n] = Bound(req[h].who)],
           \/ rows[n].identity = req[h].who
           \/ rows[n] \in {NoRow, Legacy} /\ OwnedBy(req[h].who) = {} /\ rows' # rows
    PROVE  Promised!Next
<1> DEFINE i == req[h].who
           p == [flow |-> req[h].flow, who |-> i]
<1>1. req[h] \in CallbackRequest /\ i \in Identities /\ h \in Serving({"callback"})
  BY Kinds DEF Accepted, CallbackRequest, Serving
<1>2. i # None /\ Bound(i).identity = i /\ Bound(i) # Local
  BY <1>1, OidcAssumption DEF Identities, Bound, Local
<1>3. /\ flows[p.flow].browser = req[h].browser
      /\ p \in Proven /\ Proven' = Proven
      /\ \A s \in signIns : s.flow # p.flow
  <2>1. Held(h) /\ Past(h) /\ req[h].code = p.flow
    BY <1>1 DEF FlowInv, Held, Accepted, Past
  <2> QED BY <2>1 DEF FlowInv, Held, Proven
<1>4. signIns' = signIns \cup {[flow |-> p.flow, browser |-> flows[p.flow].browser,
                                who |-> p.who, account |-> n]}
  BY <1>3 DEF Grant
<1>5. \A m \in Names : rows'[m] = IF m = n /\ rows' # rows THEN Bound(i) ELSE rows[m]
  BY DEF TypeOK
<1>6. rows[n] # Local
  <2>1. Local.identity = None /\ Local # NoRow /\ Local # Legacy
    BY DEF Local, NoRow, Legacy
  <2> QED BY <1>2, <2>1
<1>7. {m \in Names : rows'[m] = Local} = {m \in Names : rows[m] = Local}
  BY <1>2, <1>5, <1>6
<1>8. [m \in Names |-> rows'[m].identity] = [[m \in Names |-> rows[m].identity] EXCEPT ![n] = i]
  BY <1>2, <1>5
<1>9. \/ rows[n].identity = i
      \/ /\ rows[n].identity = None /\ n \notin {m \in Names : rows[m] = Local}
         /\ \A m \in Names : rows[m].identity # i
  BY <1>6 DEF NoRow, Legacy, OwnedBy
<1>10. Promised!Open(p, n)
  BY <1>3, <1>4, <1>7, <1>8, <1>9 DEF Promised!Open, Promised!MayLink
<1> QED BY <1>3, <1>10 DEF Promised!Next

\* Who is about to link an account has read one that has no password.
Linking(h) == req[h].op = "callback" /\ req[h].pc = "link"
LinkInv == \A h \in Handlers : Linking(h) => rows[req[h].name].kind = "oidc"

\* A request that is not about to link takes the place of another.
LEMMA PlacedKeepsLinkInv ==
    ASSUME TypeOK, LinkInv, NEW h \in Handlers, NEW r, Moves(h, r), r.op # "callback" \/ r.pc # "link",
           \A n \in Names : rows'[n] = rows[n] \/ rows'[n].kind = "oidc"
    PROVE  LinkInv'
<1>1. \A g \in Handlers : req'[g] = IF g = h THEN r ELSE req[g]
  BY DEF TypeOK
<1>2. ASSUME NEW g \in Handlers, Linking(g)' PROVE rows'[req'[g].name].kind = "oidc"
  <2>1. Linking(g) /\ req'[g] = req[g]
    BY <1>1, <1>2 DEF Linking
  <2>2. req[g].name \in Names
    BY <2>1, Kinds DEF Linking, CallbackRequest
  <2> QED BY <2>1, <2>2 DEF LinkInv
<1> QED BY <1>2 DEF LinkInv

LEMMA LinkInvStep == TypeOK /\ LinkInv /\ [Next]_vars => LinkInv'
<1> SUFFICES ASSUME TypeOK, LinkInv, [Next]_vars PROVE LinkInv'
  OBVIOUS
<1>1. ASSUME NEW h \in Handlers, Ends(h), UNCHANGED rows PROVE LinkInv'
  BY <1>1, PlacedKeepsLinkInv DEF Ends, Idle
<1>2. ASSUME NEW h \in Handlers, AskDiscovery(h) \/ DiscoveryAnswers(h) PROVE LinkInv'
  <2>1. PICK d \in Docs : Moves(h, [req[h] EXCEPT !.doc = d])
    BY <1>2 DEF AskDiscovery, DiscoveryAnswers
  <2>2. LET r == [req[h] EXCEPT !.doc = d] IN r.op # "callback" \/ r.pc # "link"
    BY <1>2, Kinds DEF AskDiscovery, DiscoveryAnswers, NeedsDiscovery, LoginRequest, LogoutRequest,
       CallbackRequest
  <2>3. UNCHANGED rows
    BY <1>2 DEF AskDiscovery, DiscoveryAnswers
  <2> QED BY <2>1, <2>2, <2>3, PlacedKeepsLinkInv
<1>3. ASSUME NEW h \in Handlers, IssueFlow(h) \/ AnswerWithout(h) \/ CommitPut(h) \/ ProviderFails(h)
      PROVE  LinkInv'
  BY <1>1, <1>3 DEF IssueFlow, AnswerWithout, CommitPut, ProviderFails, Refuse
<1>4. ASSUME NEW h \in Handlers, Exchange(h) \/ Verify(h) \/ KeysAnswer(h) \/ UserInfo(h) PROVE LinkInv'
  <2>1. req[h] \in CallbackRequest /\ UNCHANGED rows
    BY <1>4, Kinds DEF Exchange, Verify, KeysAnswer, UserInfo
  <2>2. CASE Ends(h)
    BY <1>1, <2>1, <2>2
  <2>3. CASE Verified(h)
    <3>1. [req[h] EXCEPT !.pc = "userinfo", !.doc = "want", !.key = 0, !.at = None].pc = "userinfo"
      BY <2>1 DEF CallbackRequest
    <3> QED BY <2>1, <2>3, <3>1, PlacedKeepsLinkInv DEF Verified
  <2>4. CASE \E d : Moves(h, [req[h] EXCEPT !.pc = "keys", !.at = d])
    <3>1. \A d : [req[h] EXCEPT !.pc = "keys", !.at = d].pc = "keys"
      BY <2>1 DEF CallbackRequest
    <3> QED BY <2>1, <2>4, <3>1, PlacedKeepsLinkInv
  <2>5. CASE \E n : Moves(h, [req[h] EXCEPT !.pc = "provision", !.name = n])
    <3>1. \A n : [req[h] EXCEPT !.pc = "provision", !.name = n].pc = "provision"
      BY <2>1 DEF CallbackRequest
    <3> QED BY <2>1, <2>5, <3>1, PlacedKeepsLinkInv
  <2>6. CASE \E k : Moves(h, [req[h] EXCEPT !.pc = "verify", !.doc = "want", !.key = k])
    <3>1. \A k : [req[h] EXCEPT !.pc = "verify", !.doc = "want", !.key = k].pc = "verify"
      BY <2>1 DEF CallbackRequest
    <3> QED BY <2>1, <2>6, <3>1, PlacedKeepsLinkInv
  <2> QED BY <1>4, <2>2, <2>3, <2>4, <2>5, <2>6 DEF Exchange, Verify, KeysAnswer, UserInfo, Refuse
<1>5. ASSUME NEW h \in Handlers, LookUp(h) PROVE LinkInv'
  <2>1. req[h] \in CallbackRequest /\ req[h].name \in Names /\ UNCHANGED rows
    BY <1>5, Kinds DEF LookUp, CallbackRequest
  <2>2. CASE Ends(h)
    BY <1>1, <2>1, <2>2
  <2>3. ASSUME NEW pc, Moves(h, [req[h] EXCEPT !.pc = pc]), pc = "link" => rows[req[h].name] = Legacy
        PROVE  LinkInv'
    <3>1. [req[h] EXCEPT !.pc = pc].pc = pc /\ [req[h] EXCEPT !.pc = pc].name = req[h].name
      BY <2>1 DEF CallbackRequest
    <3>2. \A g \in Handlers : req'[g] = IF g = h THEN [req[h] EXCEPT !.pc = pc] ELSE req[g]
      BY <2>3 DEF TypeOK
    <3> QED BY <2>1, <2>3, <3>1, <3>2 DEF LinkInv, Linking, Legacy
  <2>4. \/ Ends(h)
        \/ Moves(h, [req[h] EXCEPT !.pc = IF rows[req[h].name] = NoRow THEN "create" ELSE "link"])
             /\ (rows[req[h].name] = NoRow \/ rows[req[h].name] = Legacy)
    BY <1>5 DEF LookUp, Grant, Refuse, Free
  <2> QED BY <2>2, <2>3, <2>4
<1>6. ASSUME NEW h \in Handlers, Provision(h) PROVE LinkInv'
  <2>1. Ends(h)
    BY <1>6 DEF Provision, Grant, Refuse
  <2>2. \A n \in Names : rows'[n] = rows[n] \/ rows'[n].kind = "oidc"
    BY <1>6 DEF Provision, TypeOK, Bound
  <2> QED BY <2>1, <2>2, PlacedKeepsLinkInv DEF Ends, Idle
<1>7. ASSUME NEW h \in Handlers, BeginLogout(h) \/ \E b \in Browsers : BeginLogin(h, b) PROVE LinkInv'
  <2>1. CASE BeginLogout(h)
    <3>1. Moves(h, [op |-> "logout", cfg |-> configured, doc |-> "want"]) /\ UNCHANGED rows
      BY <2>1 DEF BeginLogout, Begin
    <3> QED BY <3>1, PlacedKeepsLinkInv
  <2>2. ASSUME NEW b \in Browsers, BeginLogin(h, b) PROVE LinkInv'
    <3>1. /\ Moves(h, [op |-> "login", browser |-> b, cfg |-> configured, doc |-> "want"])
          /\ UNCHANGED rows
      BY <2>2 DEF BeginLogin, Begin
    <3> QED BY <3>1, PlacedKeepsLinkInv
  <2> QED BY <1>7, <2>1, <2>2
<1>8. ASSUME NEW h \in Handlers, NEW b \in Browsers, NEW f \in DOMAIN flows, NEW c \in codes,
             BeginCallback(h, b, f, c)
      PROVE  LinkInv'
  <2>1. UNCHANGED rows /\ (Moves(h, Callback(b, f, c)) \/ UNCHANGED req)
    BY <1>8 DEF BeginCallback
  <2>2. Callback(b, f, c).pc = "exchange"
    BY DEF Callback
  <2> QED BY <2>1, <2>2, PlacedKeepsLinkInv DEF LinkInv, Linking
<1>9. ASSUME NEW h \in Handlers, NEW new \in Settings, BeginPut(h, new) PROVE LinkInv'
  <2>1. UNCHANGED rows /\ Moves(h, [op |-> "put", new |-> new])
    BY <1>9 DEF BeginPut
  <2> QED BY <2>1, PlacedKeepsLinkInv
<1>10. ASSUME \/ \E f \in DOMAIN flows, s \in Subjects : Authenticate(f, s)
              \/ \E b \in Browsers : Expire(b)
              \/ \E p \in Providers : Rotate(p)
              \/ UNCHANGED vars
       PROVE  LinkInv'
  <2>1. UNCHANGED <<req, rows>>
    BY <1>10 DEF Authenticate, Expire, Rotate, vars
  <2> QED BY <2>1 DEF LinkInv, Linking
<1>11. ASSUME Restart PROVE LinkInv'
  BY <1>11 DEF Restart, LinkInv, Linking, Idle
<1> QED
  BY <1>2, <1>3, <1>4, <1>5, <1>6, <1>7, <1>8, <1>9, <1>10, <1>11 DEF Next, Step

\* Every step is one of SignIns, or nothing that its users see.
LEMMA SignInsStep ==
    TypeOK /\ FlowInv /\ LinkInv /\ [Next]_vars =>
      [Shown' # Shown => LinkIsOverwritten \/ Promised!Next]_vars
<1> DEFINE Promise == Shown' # Shown => LinkIsOverwritten \/ Promised!Next
<1> SUFFICES ASSUME TypeOK, FlowInv, LinkInv, [Next]_vars PROVE Promise
  OBVIOUS
<1>1. ASSUME UNCHANGED <<flows, codes, signIns, rows>> PROVE Promise
  BY <1>1 DEF Shown, Proven
<1>2. ASSUME NEW h \in Handlers, IssueFlow(h) PROVE Promise
  <2>1. PICK d \in Providers :
          flows' = Append(flows, [browser |-> req[h].browser, at |-> d, client |-> req[h].cfg])
    BY <1>2 DEF IssueFlow
  <2>2. [browser |-> req[h].browser, at |-> d, client |-> req[h].cfg] \in Flow
    BY <1>2, Kinds DEF IssueFlow, LoginRequest, Flow
  <2>3. UNCHANGED <<Proven, signIns, rows>>
    BY <1>2 DEF IssueFlow, Proven
  <2> QED BY <2>1, <2>2, <2>3 DEF Promised!Next, Promised!Begin
<1>3. ASSUME NEW f \in DOMAIN flows, NEW s \in Subjects, Authenticate(f, s) PROVE Promise
  <2> DEFINE who == [of |-> flows[f].at, sub |-> s]
  <2>1. flows[f] \in Flow
    BY DEF TypeOK
  <2>2. who \in Identities /\ who.of = flows[f].at
    BY <2>1 DEF Flow, Identities
  <2> HIDE DEF who
  <2>3. PICK c : c = [flow |-> f, who |-> who, spent |-> FALSE]
    OBVIOUS
  <2>4. c.flow = f /\ c.who = who
    BY <2>3
  <2>5. codes' = codes \cup {c} /\ \A d \in codes : d.flow # f
    BY <1>3, <2>3 DEF Authenticate, who
  <2>6. Proven' = Proven \cup {[flow |-> f, who |-> who]}
    BY <2>4, <2>5, NewCodeProves
  <2>7. \A p \in Proven : p.flow # f
    BY <2>5 DEF Proven
  <2>8. UNCHANGED <<flows, signIns, rows>>
    BY <1>3 DEF Authenticate, history
  <2> QED BY <2>2, <2>6, <2>7, <2>8 DEF Promised!Next, Promised!Prove
<1>4. ASSUME NEW h \in Handlers, Exchange(h) PROVE Promise
  <2>1. UNCHANGED <<flows, rows, signIns>>
    BY <1>4 DEF Exchange, Refuse, history
  <2>2. UNCHANGED codes \/ \E c \in codes : codes' = (codes \ {c}) \cup {[c EXCEPT !.spent = TRUE]}
    BY <1>4 DEF Exchange
  <2>3. \A c \in codes : [c EXCEPT !.spent = TRUE].flow = c.flow /\ [c EXCEPT !.spent = TRUE].who = c.who
    BY DEF TypeOK, Code
  <2> QED BY <1>1, <2>1, <2>2, <2>3, RedeemedStillProves DEF Shown
<1>5. ASSUME NEW h \in Handlers, LookUp(h) PROVE Promise
  <2>1. Accepted(h) /\ UNCHANGED <<flows, codes, rows>>
    BY <1>5 DEF LookUp, Accepted, outside
  <2>2. CASE \E m \in OwnedBy(req[h].who) : Grant(h, m)
    BY <2>1, <2>2, GrantOpens DEF OwnedBy
  <2>3. CASE UNCHANGED signIns
    BY <1>1, <2>1, <2>3
  <2> QED BY <1>5, <2>2, <2>3 DEF LookUp, Refuse, history
<1>6. ASSUME NEW h \in Handlers, Provision(h) PROVE Promise
  <2> DEFINE n == req[h].name
  <2>1. /\ Accepted(h) /\ n \in Names /\ req[h].who \in Identities /\ UNCHANGED <<flows, codes>>
        /\ req[h].who # None
    BY <1>6, Kinds, OidcAssumption DEF Provision, Accepted, outside, CallbackRequest, Identities
  <2>2. CASE UNCHANGED <<rows, signIns>>
    BY <1>1, <2>1, <2>2
  <2>3. CASE /\ OwnedBy(req[h].who) \ {n} = {}
             /\ rows' = [rows EXCEPT ![n] = Bound(req[h].who)]
             /\ Grant(h, n)
             /\ raced' = IF rows[n] \in {NoRow, Legacy, Bound(req[h].who)} THEN raced ELSE raced \cup {n}
    <3>1. rows'[n] = Bound(req[h].who) /\ Bound(req[h].who).identity = req[h].who
      BY <2>1, <2>3 DEF TypeOK, Bound
    <3>2. CASE rows[n] = Bound(req[h].who)
      BY <2>1, <2>3, <3>1, <3>2, GrantOpens
    <3>3. CASE rows[n] \in {NoRow, Legacy}
      <4>1. rows[n].identity = None /\ rows'[n] # rows[n]
        BY <2>1, <3>1, <3>3 DEF NoRow, Legacy
      <4>2. OwnedBy(req[h].who) = {}
        BY <2>1, <2>3, <4>1 DEF OwnedBy
      <4> QED BY <2>1, <2>3, <3>3, <4>1, <4>2, GrantOpens
    <3>4. CASE rows[n] \notin {NoRow, Legacy, Bound(req[h].who)}
      <4>1. rows[n] # NoRow /\ rows' # rows /\ rows'[n] # rows[n]
        BY <2>3, <3>1, <3>4
      <4>2. Linking(h)
        BY <1>6, <4>1 DEF Provision, Linking, Refuse
      <4>3. rows[n].kind = "oidc"
        BY <4>2 DEF LinkInv
      <4> QED BY <2>1, <2>3, <3>4, <4>1, <4>3 DEF LinkIsOverwritten
    <3> QED BY <3>2, <3>3, <3>4
  <2> QED BY <1>6, <2>2, <2>3 DEF Provision, Refuse
<1>7. ASSUME NEW h \in Handlers, Step(h) \/ ProviderFails(h),
             ~IssueFlow(h), ~Exchange(h), ~LookUp(h), ~Provision(h)
      PROVE  UNCHANGED <<flows, codes, signIns, rows>>
  BY <1>7 DEF Step, ProviderFails, AskDiscovery, DiscoveryAnswers, AnswerWithout, Verify, KeysAnswer,
     UserInfo, CommitPut, Refuse, outside, history
<1>8. ASSUME NEW h \in Handlers,
             \/ BeginLogout(h)
             \/ \E b \in Browsers : BeginLogin(h, b)
             \/ \E b \in Browsers, f \in DOMAIN flows, c \in codes : BeginCallback(h, b, f, c)
             \/ \E new \in Settings : BeginPut(h, new)
      PROVE  UNCHANGED <<flows, codes, signIns, rows>>
  BY <1>8 DEF BeginLogout, BeginLogin, Begin, BeginCallback, BeginPut, outside
<1>9. ASSUME \/ \E b \in Browsers : Expire(b)
             \/ \E p \in Providers : Rotate(p)
             \/ Restart
             \/ UNCHANGED vars
      PROVE  UNCHANGED <<flows, codes, signIns, rows>>
  BY <1>9 DEF Expire, Rotate, Restart, vars, outside, history
<1> HIDE DEF Promise
<1> QED
  BY <1>1, <1>2, <1>3, <1>4, <1>5, <1>6, <1>7, <1>8, <1>9 DEF Next

\* For any number of requests, browsers, providers and accounts: sign-ins are begun,
\* proven and opened as SignIns says, but where a second link replaces a first one.
THEOREM SignInsAreAsPromised == Spec => ActsAsSignIns
<1>1. Init => TypeOK /\ FlowInv /\ LinkInv
  <2>1. Init => LinkInv
    BY DEF Init, LinkInv, Linking, Idle
  <2> QED BY <2>1, InitType, FlowInvInit
<1>2. TypeOK /\ FlowInv /\ LinkInv /\ [Next]_vars => (TypeOK /\ FlowInv /\ LinkInv)'
  BY TypeStep, FlowInvStep, LinkInvStep
<1> QED
  BY <1>1, <1>2, InitSignIns, SignInsStep, PTL DEF Spec, ActsAsSignIns

-----------------------------------------------------------------------------
(* No flow is refused without a reason.                                     *)

Callbacks == Serving({"callback"})

\* What a callback has read and holds is what it needs: its provider is the one that is
\* configured, the document is there, and the key of its token is published.
InTime(h) ==
    /\ req[h].cfg = configured /\ req[h].who.of = configured
    /\ req[h].doc = "closing" => discovery # None
    /\ req[h].pc \in {"verify", "keys"} =>
         req[h].key \in {signing[configured] - 1, signing[configured]}
    /\ req[h].pc = "keys" => req[h].at = configured

\* A flow that nothing has spoilt: its browser has the cookie, and its code is spent only
\* by a callback that is still being served.
Calm(f) ==
    /\ ~crossed /\ ~Pending
    /\ flows[f].at = configured /\ flows[f].client = configured
    /\ cookie[flows[f].browser] = f
    /\ \A c \in codes : c.flow = f /\ c.spent => \E h \in Handlers : Past(h) /\ req[h].flow = f

ExcuseInv ==
    /\ refused = {}
    /\ \A c \in codes : c.who.of = flows[c.flow].at
    /\ \A f \in DOMAIN flows \ excused : Calm(f)
    /\ \A h \in Callbacks : req[h].flow \notin excused =>
         InTime(h) /\ \A g \in Callbacks : req[g].flow = req[h].flow => g = h

\* What a step has to keep: flows that stay unspoilt stay calm, with their callbacks.
LEMMA CalmStep ==
    ASSUME ExcuseInv, refused' = {}, excused \subseteq excused',
           \A f \in DOMAIN flows : f \in DOMAIN flows' /\ flows'[f] = flows[f],
           \A f \in DOMAIN flows' \ excused' : f \notin DOMAIN flows => Calm(f)',
           \A c \in codes' :
             /\ c.who.of = flows'[c.flow].at
             /\ c.spent => \/ c \in codes
                           \/ c.flow \in excused'
                           \/ \E h \in Handlers : Past(h)' /\ req'[h].flow = c.flow,
           \A f \in DOMAIN flows \ excused' :
             /\ configured' = configured /\ ~crossed' /\ ~Pending'
             /\ cookie'[flows[f].browser] = f,
           \A g \in Handlers : Past(g) /\ req[g].flow \notin excused' =>
             Past(g)' /\ req'[g].flow = req[g].flow,
           \A g \in Callbacks' : req'[g].flow \notin excused' =>
             /\ InTime(g)'
             /\ \/ g \in Callbacks /\ req'[g].flow = req[g].flow
                \/ \A k \in Callbacks' : req'[k].flow = req'[g].flow => k = g
    PROVE  ExcuseInv'
<1>1. ASSUME NEW f \in DOMAIN flows \ excused' PROVE Calm(f)'
  <2>1. f \notin excused /\ Calm(f)
    BY DEF ExcuseInv
  <2>2. ASSUME NEW c \in codes', c.flow = f, c.spent
        PROVE  \E h \in Handlers : Past(h)' /\ req'[h].flow = f
    <3>1. CASE c \in codes
      <4>1. PICK h \in Handlers : Past(h) /\ req[h].flow = f
        BY <2>1, <2>2, <3>1 DEF Calm
      <4> QED BY <4>1
    <3> QED BY <2>2, <3>1
  <2> QED BY <2>1, <2>2 DEF Calm
<1>2. ASSUME NEW h \in Callbacks', req'[h].flow \notin excused',
             NEW g \in Callbacks', req'[g].flow = req'[h].flow
      PROVE  g = h
  <2>1. CASE \A k \in Callbacks' : req'[k].flow = req'[h].flow => k = h
    BY <1>2, <2>1
  <2>2. CASE \A k \in Callbacks' : req'[k].flow = req'[g].flow => k = g
    BY <1>2, <2>2
  <2>3. CASE g \in Callbacks /\ h \in Callbacks /\ req'[g].flow = req[g].flow /\ req'[h].flow = req[h].flow
    <3>1. req[h].flow \notin excused /\ req[g].flow = req[h].flow
      BY <1>2, <2>3
    <3>2. \A k \in Callbacks : req[k].flow = req[h].flow => k = h
      BY <2>3, <3>1 DEF ExcuseInv
    <3> QED BY <2>3, <3>1, <3>2
  <2>4. /\ (h \in Callbacks /\ req'[h].flow = req[h].flow)
             \/ \A k \in Callbacks' : req'[k].flow = req'[h].flow => k = h
        /\ (g \in Callbacks /\ req'[g].flow = req[g].flow)
             \/ \A k \in Callbacks' : req'[k].flow = req'[g].flow => k = g
    BY <1>2
  <2> QED BY <2>1, <2>2, <2>3, <2>4
<1> QED BY <1>1, <1>2 DEF ExcuseInv

LEMMA StillInTime ==
    ASSUME NEW g, InTime(g), req'[g] = req[g], UNCHANGED <<configured, signing>>,
           discovery # None => discovery' # None
    PROVE  InTime(g)'
  BY DEF InTime

\* A callback is of a flow that was started, in its own browser.
LEMMA CallbackFacts ==
    ASSUME TypeOK, FlowInv, NEW h \in Callbacks
    PROVE  /\ h \in Handlers /\ req[h].op = "callback" /\ req[h] \in CallbackRequest
           /\ req[h].flow \in DOMAIN flows /\ req[h].flow # 0
           /\ flows[req[h].flow].browser = req[h].browser
           /\ \E c \in codes : c.flow = req[h].code /\ c.who = req[h].who
           /\ req[h].code # req[h].flow => {req[h].code, req[h].flow} \subseteq excused
<1>1. h \in Handlers /\ req[h].op = "callback" /\ req[h] \in CallbackRequest
  BY Kinds DEF Callbacks, Serving
<1>2. Held(h)
  BY DEF FlowInv, Callbacks
<1>3. req[h].flow \in FlowIds
  BY <1>1 DEF CallbackRequest
<1> QED BY <1>1, <1>2, <1>3 DEF Held

\* A callback ends and clears the cookie.
LEMMA EndIsCalm ==
    ASSUME TypeOK, FlowInv, ExcuseInv, NEW h \in Callbacks, Ends(h), cookie' = Cleared(h),
           refused' = {},
           excused' = excused \cup {req[h].flow} \cup Displaced(req[h].browser, req[h].flow),
           UNCHANGED <<configured, discovery, signing, flows, codes, crossed>>
    PROVE  ExcuseInv'
<1>1. /\ h \in Handlers /\ req[h].op = "callback" /\ req[h].flow \in DOMAIN flows
      /\ req[h].browser \in Browsers
  BY CallbackFacts DEF CallbackRequest
<1>2. \A g \in Handlers : req'[g] = IF g = h THEN Idle ELSE req[g]
  BY <1>1, EndType
<1>3. ASSUME NEW f \in DOMAIN flows \ excused'
      PROVE  configured' = configured /\ ~crossed' /\ ~Pending' /\ cookie'[flows[f].browser] = f
  <2>1. Calm(f) /\ f # req[h].flow /\ f \in FlowIds
    BY <1>3, FlowsAreNumbered DEF ExcuseInv
  <2>2. ~Pending'
    BY <1>2, <2>1 DEF Calm, Pending, Serving, Idle
  <2>3. flows[f].browser # req[h].browser
    BY <1>3, <2>1 DEF Calm, Displaced
  <2>4. flows[f].browser \in Browsers
    <3>1. flows \in Seq(Flow) /\ f \in DOMAIN flows
      BY <1>3 DEF TypeOK
    <3>2. flows[f] \in Flow
      BY <3>1
    <3> QED BY <3>2 DEF Flow
  <2> QED BY <2>1, <2>2, <2>3, <2>4 DEF Calm, Cleared, TypeOK
<1>4. \A g \in Handlers : Past(g) /\ req[g].flow \notin excused' => Past(g)' /\ req'[g].flow = req[g].flow
  BY <1>2 DEF Past
<1>5. ASSUME NEW g \in Callbacks', req'[g].flow \notin excused'
      PROVE  InTime(g)' /\ g \in Callbacks /\ req'[g].flow = req[g].flow
  <2>1. g \in Handlers /\ g \in Callbacks /\ req'[g] = req[g]
    BY <1>2 DEF Callbacks, Serving, Idle
  <2>2. InTime(g)
    BY <1>5, <2>1 DEF ExcuseInv
  <2> QED BY <2>1, <2>2, StillInTime
<1> QED BY <1>3, <1>4, <1>5, CalmStep DEF ExcuseInv

\* A callback goes on.
LEMMA MoveIsCalm ==
    ASSUME TypeOK, FlowInv, ExcuseInv, NEW h \in Callbacks, NEW r, Moves(h, r),
           r.op = "callback", r.flow = req[h].flow, Past(h) => r.pc # "exchange",
           r.flow \notin excused => InTime(h)',
           UNCHANGED <<configured, signing, flows, crossed, cookie, refused, excused>>,
           discovery # None => discovery' # None,
           \A c \in codes' : /\ c.who.of = flows[c.flow].at
                             /\ c.spent => \/ c \in codes \/ c.flow \in excused
                                           \/ c.flow = r.flow /\ r.pc # "exchange"
    PROVE  ExcuseInv'
<1>1. h \in Handlers /\ req[h].op = "callback"
  BY CallbackFacts
<1>2. \A g \in Handlers : req'[g] = IF g = h THEN r ELSE req[g]
  BY <1>1 DEF Moves, TypeOK
<1>3. (Past(h) \/ r.pc # "exchange" => Past(h)') /\ req'[h].flow = r.flow
  BY <1>1, <1>2 DEF Past
<1>4. ~Pending => ~Pending'
  BY <1>1, <1>2 DEF Pending, Serving
<1>5. \A f \in DOMAIN flows \ excused' :
        configured' = configured /\ ~crossed' /\ ~Pending' /\ cookie'[flows[f].browser] = f
  BY <1>4 DEF ExcuseInv, Calm
<1>6. \A g \in Handlers : Past(g) /\ req[g].flow \notin excused' => Past(g)' /\ req'[g].flow = req[g].flow
  BY <1>2, <1>3 DEF Past
<1>7. ASSUME NEW g \in Callbacks', req'[g].flow \notin excused'
      PROVE  InTime(g)' /\ g \in Callbacks /\ req'[g].flow = req[g].flow
  <2>1. CASE g = h
    BY <1>3, <1>7, <2>1
  <2>2. CASE g # h
    <3>1. g \in Handlers /\ g \in Callbacks /\ req'[g] = req[g]
      BY <1>2, <2>2 DEF Callbacks, Serving
    <3>2. InTime(g)
      BY <1>7, <3>1 DEF ExcuseInv
    <3> QED BY <3>1, <3>2, StillInTime
  <2> QED BY <2>1, <2>2
<1>8. \A c \in codes' :
        /\ c.who.of = flows'[c.flow].at
        /\ c.spent => \/ c \in codes \/ c.flow \in excused'
                      \/ \E k \in Handlers : Past(k)' /\ req'[k].flow = c.flow
  BY <1>1, <1>3
<1>9. refused' = {}
  BY DEF ExcuseInv
<1> QED BY <1>5, <1>6, <1>7, <1>8, <1>9, CalmStep

\* A step of another request, or of none, or a callback that waits for the document.
LEMMA OtherIsCalm ==
    ASSUME TypeOK, FlowInv, ExcuseInv, refused' = {}, excused \subseteq excused',
           UNCHANGED <<flows, configured, signing>>,
           discovery # None => discovery' # None,
           \A c \in codes' : /\ c.who.of = flows[c.flow].at
                             /\ c.spent => c \in codes,
           ~crossed /\ ~Pending => ~crossed' /\ ~Pending',
           \A f \in DOMAIN flows \ excused' : cookie'[flows[f].browser] = f,
           \A g \in Handlers : req[g].op = "callback" \/ req'[g].op = "callback" => req'[g] = req[g]
    PROVE  ExcuseInv'
<1>1. \A f \in DOMAIN flows \ excused' :
        configured' = configured /\ ~crossed' /\ ~Pending' /\ cookie'[flows[f].browser] = f
  BY DEF ExcuseInv, Calm
<1>2. \A g \in Handlers : Past(g) /\ req[g].flow \notin excused' => Past(g)' /\ req'[g].flow = req[g].flow
  BY DEF Past
<1>3. ASSUME NEW g \in Callbacks', req'[g].flow \notin excused'
      PROVE  InTime(g)' /\ g \in Callbacks /\ req'[g].flow = req[g].flow
  <2>1. g \in Callbacks /\ req'[g] = req[g]
    BY DEF Callbacks, Serving
  <2>2. InTime(g)
    BY <1>3, <2>1 DEF ExcuseInv
  <2> QED BY <2>1, <2>2, StillInTime
<1> QED BY <1>1, <1>2, <1>3, CalmStep

\* Every flow is spoilt.
LEMMA AllSpoilt ==
    ASSUME TypeOK, FlowInv, ExcuseInv, DOMAIN flows \subseteq excused', excused \subseteq excused',
           UNCHANGED <<flows, codes, refused>>,
           \A g \in Callbacks' : g \in Callbacks /\ req'[g].flow = req[g].flow
    PROVE  ExcuseInv'
<1>1. \A g \in Callbacks' : req'[g].flow \in excused'
  BY CallbackFacts
<1>2. \A g \in Handlers : Past(g) => req[g].flow \in excused'
  BY CallbackFacts DEF Past, Callbacks, Serving
<1> QED BY <1>1, <1>2, CalmStep DEF ExcuseInv

\* What a callback of an unspoilt flow finds.
LEMMA UnspoiltCallback ==
    ASSUME TypeOK, CacheInv, FlowInv, ExcuseInv, NEW h \in Callbacks, req[h].flow \notin excused
    PROVE  /\ InTime(h) /\ Calm(req[h].flow) /\ configured \in Providers
           /\ req[h].code = req[h].flow
           /\ discovery \in {None, configured}
           /\ \A d : Reads(h, d) => d = configured
<1>1. InTime(h) /\ Calm(req[h].flow)
  BY CallbackFacts DEF ExcuseInv
<1>2. discovery \in {None, configured}
  BY <1>1 DEF Calm, CacheInv
<1>3. configured \in Providers
  <2>1. req[h].who \in Identities
    BY CallbackFacts DEF CallbackRequest
  <2> QED BY <1>1, <2>1 DEF InTime, Identities
<1>4. req[h].code = req[h].flow
  BY CallbackFacts
<1> QED BY <1>1, <1>2, <1>3, <1>4 DEF Reads, InTime

LEMMA RefuseIsCalm ==
    ASSUME TypeOK, FlowInv, ExcuseInv, NEW h \in Callbacks, NEW why, Refuse(h, why),
           req[h].flow \in excused \cup why,
           UNCHANGED <<configured, discovery, signing, flows, codes>>
    PROVE  ExcuseInv'
<1>1. refused' = {}
  BY DEF Refuse, ExcuseInv
<1> QED BY <1>1, EndIsCalm DEF Refuse

LEMMA GrantIsCalm ==
    ASSUME TypeOK, FlowInv, ExcuseInv, NEW h \in Callbacks, NEW n, Grant(h, n),
           UNCHANGED <<configured, discovery, signing, flows, codes>>
    PROVE  ExcuseInv'
<1>1. refused' = {}
  BY DEF Grant, ExcuseInv
<1> QED BY <1>1, EndIsCalm DEF Grant

\* The steps that wait for, and get, the discovery document.
LEMMA DiscoveryKeepsExcuseInv ==
    ASSUME TypeOK, FlowInv, ExcuseInv, NEW h \in Handlers, AskDiscovery(h) \/ DiscoveryAnswers(h)
    PROVE  ExcuseInv'
<1>1. NeedsDiscovery(h) /\ req[h].cfg \in Providers
  BY Kinds DEF AskDiscovery, DiscoveryAnswers
<1>2. /\ UNCHANGED <<configured, signing, flows, codes, cookie, refused, excused, crossed>>
      /\ discovery # None => discovery' # None
  BY <1>1, OidcAssumption DEF AskDiscovery, DiscoveryAnswers, caches, outside, history
<1>3. PICK r : /\ Moves(h, r)
               /\ \/ r = [req[h] EXCEPT !.doc = "asked"]
                  \/ r = [req[h] EXCEPT !.doc = "closing"] /\ discovery' # None
  BY <1>1, OidcAssumption DEF AskDiscovery, DiscoveryAnswers
<1>4. \A g \in Handlers : req'[g] = IF g = h THEN r ELSE req[g]
  BY <1>3 DEF Moves, TypeOK
<1>5. CASE req[h].op = "callback"
  <2>1. h \in Callbacks /\ req[h] \in CallbackRequest
    BY <1>5, Kinds DEF Callbacks, Serving
  <2>2. /\ r.op = "callback" /\ r.flow = req[h].flow /\ r.pc = req[h].pc /\ r.cfg = req[h].cfg
        /\ r.who = req[h].who /\ r.key = req[h].key /\ r.at = req[h].at
        /\ r.doc = "closing" => discovery' # None
    BY <1>3, <2>1, <1>5 DEF CallbackRequest
  <2>3. r.flow \notin excused => InTime(h)'
    <3>1. SUFFICES ASSUME r.flow \notin excused PROVE InTime(h)'
      OBVIOUS
    <3>2. InTime(h)
      BY <2>1, <2>2, <3>1 DEF ExcuseInv
    <3> QED BY <1>2, <1>4, <2>2, <3>2 DEF InTime
  <2> QED BY <1>2, <1>3, <2>1, <2>2, <2>3, MoveIsCalm DEF Past, ExcuseInv
<1>6. CASE req[h].op # "callback"
  <2>1. req[h] \in LoginRequest \cup LogoutRequest
    BY <1>1, <1>6, Kinds DEF NeedsDiscovery
  <2>2. r.op \in {"login", "logout"}
    BY <1>3, <2>1 DEF LoginRequest, LogoutRequest
  <2>3. ~Pending => ~Pending'
    BY <1>4, <2>2 DEF Pending, Serving
  <2> QED BY <1>2, <1>4, <1>6, <2>2, <2>3, OtherIsCalm DEF ExcuseInv, Calm
<1> QED BY <1>5, <1>6

\* The steps that begin or end a request that is no callback, and the steps outside.
LEMMA OtherSteps ==
    ASSUME TypeOK, FlowInv, ExcuseInv,
           \/ \E h \in Handlers : \/ AnswerWithout(h) \/ BeginLogout(h)
                                  \/ \E b \in Browsers : BeginLogin(h, b)
                                  \/ ProviderFails(h) /\ req[h].op # "callback"
           \/ \E f \in DOMAIN flows, s \in Subjects : Authenticate(f, s)
           \/ \E b \in Browsers : Expire(b)
           \/ UNCHANGED vars
    PROVE  ExcuseInv'
<1>1. ASSUME NEW h \in Handlers, AnswerWithout(h) \/ (ProviderFails(h) /\ req[h].op # "callback")
      PROVE  ExcuseInv'
  <2>1. /\ Ends(h) /\ req[h].op # "callback"
        /\ UNCHANGED <<configured, discovery, signing, flows, codes, cookie, refused, excused, crossed>>
    BY <1>1 DEF AnswerWithout, ProviderFails, caches, outside, history
  <2>2. \A g \in Handlers : req'[g] = IF g = h THEN Idle ELSE req[g]
    BY <2>1, EndType
  <2>3. ~Pending => ~Pending'
    BY <2>2 DEF Pending, Serving, Idle
  <2> QED BY <2>1, <2>2, <2>3, OtherIsCalm DEF ExcuseInv, Calm, Idle
<1>2. ASSUME NEW h \in Handlers, NEW r, Begin(h, r), r.op \in {"login", "logout"}
      PROVE  ExcuseInv'
  <2>1. /\ req[h] = Idle /\ Moves(h, r) /\ crossed' = (crossed \/ Pending)
        /\ UNCHANGED <<configured, discovery, signing, flows, codes, cookie, refused, excused>>
    BY <1>2 DEF Begin, caches, outside, Pending
  <2>2. \A g \in Handlers : req'[g] = IF g = h THEN r ELSE req[g]
    BY <2>1 DEF Moves, TypeOK
  <2>3. ~Pending => ~Pending'
    BY <1>2, <2>2 DEF Pending, Serving
  <2>4. \A g \in Handlers : req[g].op = "callback" \/ req'[g].op = "callback" => req'[g] = req[g]
    BY <1>2, <2>1, <2>2 DEF Idle
  <2>5. \A f \in DOMAIN flows \ excused' : cookie'[flows[f].browser] = f
    BY <2>1 DEF ExcuseInv, Calm
  <2>6. refused' = {} /\ \A c \in codes' : c.who.of = flows[c.flow].at /\ c \in codes
    BY <2>1 DEF ExcuseInv
  <2>7. ~crossed /\ ~Pending => ~crossed' /\ ~Pending'
    BY <2>1, <2>3
  <2> QED BY <2>1, <2>4, <2>5, <2>6, <2>7, OtherIsCalm
<1>3. ASSUME NEW h \in Handlers, BeginLogout(h) \/ \E b \in Browsers : BeginLogin(h, b)
      PROVE  ExcuseInv'
  BY <1>2, <1>3 DEF BeginLogout, BeginLogin
<1>4. ASSUME NEW f \in DOMAIN flows, NEW s \in Subjects, Authenticate(f, s) PROVE ExcuseInv'
  <2>1. UNCHANGED <<configured, discovery, signing, flows, cookie, req, refused, excused, crossed>>
    BY <1>4 DEF Authenticate, caches, history
  <2>2. \A c \in codes' : c.who.of = flows[c.flow].at /\ (c.spent => c \in codes)
    BY <1>4 DEF Authenticate, ExcuseInv
  <2>3. Pending' = Pending
    BY <2>1 DEF Pending, Serving
  <2> QED BY <2>1, <2>2, <2>3, OtherIsCalm DEF ExcuseInv, Calm
<1>5. ASSUME NEW b \in Browsers, Expire(b) PROVE ExcuseInv'
  <2>1. /\ UNCHANGED <<configured, discovery, signing, flows, codes, req, refused, crossed>>
        /\ excused' = excused \cup {cookie[b]} /\ cookie' = [cookie EXCEPT ![b] = 0]
    BY <1>5 DEF Expire, caches, outside
  <2>2. ASSUME NEW f \in DOMAIN flows \ excused' PROVE cookie'[flows[f].browser] = f
    <3>1. cookie[flows[f].browser] = f /\ f # cookie[b]
      BY <2>1, <2>2 DEF ExcuseInv, Calm
    <3> QED BY <2>1, <3>1 DEF TypeOK
  <2>3. Pending' = Pending
    BY <2>1 DEF Pending, Serving
  <2> QED BY <2>1, <2>2, <2>3, OtherIsCalm DEF ExcuseInv
<1>6. ASSUME UNCHANGED vars PROVE ExcuseInv'
  <2>1. Pending' = Pending
    BY <1>6 DEF Pending, Serving, vars
  <2> QED BY <1>6, <2>1, OtherIsCalm DEF vars, ExcuseInv, Calm
<1> QED BY <1>1, <1>3, <1>4, <1>5, <1>6

\* The settings change: every flow that was started is spoilt.
LEMMA PutKeepsExcuseInv ==
    ASSUME TypeOK, FlowInv, ExcuseInv, NEW h \in Handlers,
           CommitPut(h) \/ \E new \in Settings : BeginPut(h, new)
    PROVE  ExcuseInv'
<1>1. /\ UNCHANGED <<flows, codes, refused>>
      /\ DOMAIN flows \subseteq excused' /\ excused \subseteq excused'
  BY DEF CommitPut, BeginPut, outside
<1>2. PICK r : r.op # "callback" /\ Moves(h, r)
  BY DEF CommitPut, BeginPut, Ends, Idle
<1>3. \A g \in Callbacks' : g \in Callbacks /\ req'[g].flow = req[g].flow
  BY <1>2 DEF Moves, TypeOK, Callbacks, Serving
<1> QED BY <1>1, <1>3, AllSpoilt

\* The process restarts: the flows of its callbacks are spoilt.
LEMMA RestartKeepsExcuseInv ==
    ASSUME TypeOK, FlowInv, ExcuseInv, Restart
    PROVE  ExcuseInv'
<1>1. /\ UNCHANGED <<configured, signing, flows, codes, cookie, refused>> /\ ~crossed'
      /\ excused' = excused \cup {req[h].flow : h \in Callbacks}
      /\ \A h \in Handlers : req'[h] = Idle
  BY DEF Restart, outside, Callbacks
<1>2. Callbacks' = {} /\ ~Pending'
  BY <1>1 DEF Callbacks, Pending, Serving, Idle
<1>3. \A h \in Handlers : Past(h) => h \in Callbacks
  BY DEF Past, Callbacks, Serving
<1>4. \A h \in Handlers : Past(h) => req[h].flow \in excused'
  BY <1>1, <1>3
<1>5. \A f \in DOMAIN flows \ excused' :
        configured' = configured /\ ~crossed' /\ ~Pending' /\ cookie'[flows[f].browser] = f
  BY <1>1, <1>2 DEF ExcuseInv, Calm
<1>6. refused' = {} /\ \A c \in codes' : c.who.of = flows'[c.flow].at /\ c \in codes
  BY <1>1 DEF ExcuseInv
<1> QED BY <1>1, <1>2, <1>4, <1>5, <1>6, CalmStep

\* A provider rotates its keys: a token whose key is published no longer spoils its flow.
LEMMA RotateKeepsExcuseInv ==
    ASSUME TypeOK, FlowInv, ExcuseInv, NEW p \in Providers, Rotate(p)
    PROVE  ExcuseInv'
<1>1. /\ UNCHANGED <<configured, discovery, flows, codes, cookie, req, refused, crossed>>
      /\ signing' = [signing EXCEPT ![p] = @ + 1]
      /\ excused' = excused \cup {req[h].flow : h \in Outlived(p)}
  BY DEF Rotate, caches
<1>2. Pending' = Pending /\ Callbacks' = Callbacks
  BY <1>1 DEF Pending, Callbacks, Serving
<1>3. \A f \in DOMAIN flows \ excused' :
        configured' = configured /\ ~crossed' /\ ~Pending' /\ cookie'[flows[f].browser] = f
  BY <1>1, <1>2 DEF ExcuseInv, Calm
<1>4. ASSUME NEW h \in Callbacks, req[h].flow \notin excused' PROVE InTime(h)'
  <2>1. InTime(h) /\ h \notin Outlived(p)
    BY <1>1, <1>4 DEF ExcuseInv
  <2>2. req[h].key \in Nat
    BY CallbackFacts DEF CallbackRequest
  <2>3. req[h].pc \in {"verify", "keys"} =>
          req[h].key \in {signing'[configured] - 1, signing'[configured]}
    <3>1. SUFFICES ASSUME req[h].pc \in {"verify", "keys"}
                   PROVE  req[h].key \in {signing'[configured] - 1, signing'[configured]}
      OBVIOUS
    <3>2. req[h].key \in {signing[configured] - 1, signing[configured]}
      BY <2>1, <3>1 DEF InTime
    <3>3. CASE configured = p
      <4>1. signing[p] \in Nat /\ signing'[p] = signing[p] + 1
        BY <1>1 DEF TypeOK
      <4>2. ~(req[h].key < signing[p])
        BY <2>1, <3>1, <3>3 DEF Outlived, InTime, Callbacks
      <4> QED BY <2>2, <3>2, <3>3, <4>1, <4>2
    <3>4. CASE configured # p
      <4>1. signing'[configured] = signing[configured]
        BY <1>1, <3>4 DEF TypeOK
      <4> QED BY <3>2, <4>1
    <3> QED BY <3>3, <3>4
  <2> QED BY <1>1, <2>1, <2>3 DEF InTime
<1>5. refused' = {} /\ \A c \in codes' : c.who.of = flows'[c.flow].at /\ c \in codes
  BY <1>1 DEF ExcuseInv
<1>6. \A g \in Handlers : Past(g)' = Past(g) /\ req'[g].flow = req[g].flow
  BY <1>1 DEF Past
<1> QED BY <1>1, <1>2, <1>3, <1>4, <1>5, <1>6, CalmStep

\* A flow is started: it is calm, or spoilt from the first.
LEMMA IssueKeepsExcuseInv ==
    ASSUME TypeOK, CacheInv, FlowInv, ExcuseInv, NEW h \in Handlers, IssueFlow(h)
    PROVE  ExcuseInv'
<1>1. PICK d \in Providers :
        /\ d = discovery
        /\ flows' = Append(flows, [browser |-> req[h].browser, at |-> d, client |-> req[h].cfg])
  BY DEF IssueFlow, Reads
<1>2. /\ UNCHANGED <<configured, discovery, signing, codes, refused, crossed>>
      /\ cookie' = [cookie EXCEPT ![req[h].browser] = Len(flows')]
      /\ excused' = excused \cup Displaced(req[h].browser, 0)
                      \cup (IF crossed \/ Pending THEN {Len(flows')} ELSE {})
  BY DEF IssueFlow, caches, Pending
<1>3. req[h].op = "login" /\ req[h].browser \in Browsers /\ h \in Readers
  BY Kinds DEF IssueFlow, LoginRequest, Readers, Serving
<1>4. \A g \in Handlers : req'[g] = IF g = h THEN Idle ELSE req[g]
  BY EndType DEF IssueFlow
<1>5. flows \in Seq(Flow) /\ Len(flows) \in Nat /\ DOMAIN flows = 1 .. Len(flows)
  BY DEF TypeOK
<1>6. /\ Len(flows') = Len(flows) + 1 /\ DOMAIN flows' = DOMAIN flows \cup {Len(flows')}
      /\ \A f \in DOMAIN flows : flows'[f] = flows[f]
      /\ flows'[Len(flows')] = [browser |-> req[h].browser, at |-> d, client |-> req[h].cfg]
  BY <1>1, <1>5
<1>7. Len(flows') \notin DOMAIN flows
  BY <1>5, <1>6
<1>8. ~Pending => ~Pending'
  BY <1>4 DEF Pending, Serving, Idle
<1>9. ASSUME NEW f \in DOMAIN flows' \ excused', f \notin DOMAIN flows PROVE Calm(f)'
  <2>1. f = Len(flows') /\ ~crossed /\ ~Pending
    BY <1>2, <1>6, <1>9
  <2>2. d = configured /\ req[h].cfg = configured
    BY <1>1, <1>3, <2>1, OidcAssumption DEF CacheInv
  <2>3. flows'[f].at = configured /\ flows'[f].client = configured /\ flows'[f].browser = req[h].browser
    BY <1>6, <2>1, <2>2
  <2>4. cookie'[flows'[f].browser] = f
    BY <1>2, <1>3, <2>1, <2>3 DEF TypeOK
  <2>5. \A c \in codes' : c.flow # f
    BY <1>2, <1>9 DEF FlowInv
  <2> QED BY <1>2, <1>8, <2>1, <2>3, <2>4, <2>5 DEF Calm
<1>10. ASSUME NEW f \in DOMAIN flows \ excused'
       PROVE  configured' = configured /\ ~crossed' /\ ~Pending' /\ cookie'[flows[f].browser] = f
  <2>1. Calm(f) /\ f # 0
    BY <1>2, <1>5, <1>10 DEF ExcuseInv
  <2>2. flows[f].browser # req[h].browser
    BY <1>2, <1>10, <2>1 DEF Calm, Displaced
  <2> QED BY <1>2, <1>8, <2>1, <2>2 DEF Calm, TypeOK
<1>11. \A c \in codes' : c.who.of = flows'[c.flow].at /\ c \in codes
  BY <1>2, <1>6 DEF ExcuseInv, FlowInv
<1>12. \A g \in Handlers : Past(g) => Past(g)' /\ req'[g].flow = req[g].flow
  BY <1>3, <1>4 DEF Past
<1>13. ASSUME NEW g \in Callbacks', req'[g].flow \notin excused'
       PROVE  InTime(g)' /\ g \in Callbacks /\ req'[g].flow = req[g].flow
  <2>1. g \in Callbacks /\ req'[g] = req[g]
    BY <1>4 DEF Callbacks, Serving, Idle
  <2>2. InTime(g)
    BY <1>2, <1>13, <2>1 DEF ExcuseInv
  <2> QED BY <1>2, <2>1, <2>2, StillInTime
<1>14. refused' = {} /\ excused \subseteq excused'
  BY <1>2 DEF ExcuseInv
<1> QED BY <1>6, <1>9, <1>10, <1>11, <1>12, <1>13, <1>14, CalmStep

\* A callback begins: with the cookie of its flow, or it clears another's.
LEMMA BeginCallbackKeepsExcuseInv ==
    ASSUME TypeOK, CacheInv, FlowInv, ExcuseInv, NEW h \in Handlers, NEW b \in Browsers,
           NEW f \in DOMAIN flows, NEW c \in codes, BeginCallback(h, b, f, c)
    PROVE  ExcuseInv'
<1>1. /\ req[h] = Idle /\ crossed' = (crossed \/ Pending)
      /\ UNCHANGED <<configured, discovery, signing, flows, codes>>
  BY DEF BeginCallback, caches, outside, Pending
<1>2. f # 0 /\ c.who.of = flows[c.flow].at
  BY FlowsAreNumbered DEF ExcuseInv, FlowIds
<1>3. CASE ~CookieHolds(b, f)
  <2>1. /\ UNCHANGED req /\ cookie' = [cookie EXCEPT ![b] = 0]
        /\ refused' = refused \cup (IF b = flows[f].browser THEN {f} \ excused ELSE {})
        /\ excused' = excused \cup Displaced(b, f)
    BY <1>3 DEF BeginCallback
  <2>2. refused' = {}
    BY <1>2, <1>3, <2>1 DEF CookieHolds, ExcuseInv, Calm
  <2>3. ASSUME NEW e \in DOMAIN flows \ excused' PROVE cookie'[flows[e].browser] = e
    <3>1. Calm(e) /\ e # 0
      BY <2>1, <2>3, FlowsAreNumbered DEF ExcuseInv, FlowIds
    <3>2. flows[e].browser # b
      BY <1>3, <2>1, <2>3, <3>1 DEF Calm, Displaced, CookieHolds
    <3> QED BY <2>1, <3>1, <3>2 DEF Calm, TypeOK
  <2>4. Pending' = Pending
    BY <2>1 DEF Pending, Serving
  <2>5. \A e \in codes' : e.who.of = flows[e.flow].at /\ e \in codes
    BY <1>1 DEF ExcuseInv
  <2> QED BY <1>1, <2>1, <2>2, <2>3, <2>4, <2>5, OtherIsCalm
<1>4. CASE CookieHolds(b, f)
  <2>1. /\ Moves(h, Callback(b, f, c)) /\ UNCHANGED <<cookie, refused>>
        /\ excused' = excused \cup Repeated(f) \cup Mixed(f, c)
    BY <1>4 DEF BeginCallback
  <2> DEFINE r == Callback(b, f, c)
  <2>2. /\ r.op = "callback" /\ r.cfg = configured /\ r.flow = f
        /\ r.who = c.who /\ r.doc = "want" /\ r.pc = "exchange"
    BY DEF Callback
  <2> HIDE DEF r
  <2>3. \A g \in Handlers : req'[g] = IF g = h THEN r ELSE req[g]
    BY <2>1 DEF Moves, TypeOK, r
  <2>4. ~Pending => ~Pending'
    BY <2>2, <2>3 DEF Pending, Serving
  <2>5. \A e \in DOMAIN flows \ excused' :
          configured' = configured /\ ~crossed' /\ ~Pending' /\ cookie'[flows[e].browser] = e
    BY <1>1, <2>1, <2>4 DEF ExcuseInv, Calm
  <2>6. \A g \in Handlers : Past(g) => Past(g)' /\ req'[g].flow = req[g].flow
    BY <1>1, <2>3 DEF Past, Idle
  <2>7. ASSUME NEW g \in Callbacks', req'[g].flow \notin excused'
        PROVE  /\ InTime(g)'
               /\ \/ g \in Callbacks /\ req'[g].flow = req[g].flow
                  \/ \A k \in Callbacks' : req'[k].flow = req'[g].flow => k = g
    <3>1. CASE g = h
      <4>1. f \notin excused /\ f \notin Repeated(f) /\ c.flow = f /\ req'[g] = r
        BY <2>1, <2>2, <2>3, <2>7, <3>1 DEF Mixed
      <4>2. c.who.of = configured
        BY <1>2, <4>1 DEF ExcuseInv, Calm
      <4>3. InTime(g)'
        BY <1>1, <2>2, <4>1, <4>2 DEF InTime
      <4>4. ASSUME NEW k \in Callbacks', req'[k].flow = req'[g].flow, k # h PROVE FALSE
        <5>1. k \in Callbacks /\ req[k].flow = f
          BY <2>2, <2>3, <4>1, <4>4 DEF Callbacks, Serving
        <5> QED BY <4>1, <5>1 DEF Repeated, Callbacks
      <4> QED BY <3>1, <4>3, <4>4
    <3>2. CASE g # h
      <4>1. g \in Callbacks /\ req'[g] = req[g]
        BY <2>3, <3>2 DEF Callbacks, Serving
      <4>2. InTime(g)
        BY <2>1, <2>7, <4>1 DEF ExcuseInv
      <4> QED BY <1>1, <4>1, <4>2, StillInTime
    <3> QED BY <3>1, <3>2
  <2>8. refused' = {} /\ \A e \in codes' : e.who.of = flows'[e.flow].at /\ e \in codes
    BY <1>1, <2>1 DEF ExcuseInv
  <2> QED BY <1>1, <2>1, <2>5, <2>6, <2>7, <2>8, CalmStep
<1> QED BY <1>3, <1>4

\* A callback at work, which is refused only when something spoilt its flow.
LEMMA CallbackKeepsExcuseInv ==
    ASSUME TypeOK, CacheInv, FlowInv, ExcuseInv, NEW h \in Handlers,
           \/ Exchange(h) \/ Verify(h) \/ KeysAnswer(h) \/ UserInfo(h) \/ LookUp(h) \/ Provision(h)
           \/ ProviderFails(h) /\ req[h].op = "callback"
    PROVE  ExcuseInv'
<1>1. /\ h \in Callbacks /\ req[h] \in CallbackRequest /\ req[h].op = "callback"
      /\ UNCHANGED <<configured, discovery, signing, flows>>
  BY Kinds DEF Exchange, Verify, KeysAnswer, UserInfo, LookUp, Provision, ProviderFails, caches,
     outside, Callbacks, Serving
<1>2. \A r : Moves(h, r) => \A g \in Handlers : req'[g] = IF g = h THEN r ELSE req[g]
  BY DEF Moves, TypeOK
<1>3. ASSUME Exchange(h) PROVE ExcuseInv'
  <2>1. PICK d \in Settings, c \in codes :
          /\ Reads(h, d) /\ c.flow = req[h].code
          /\ \/ /\ codes' = (codes \ {c}) \cup {[c EXCEPT !.spent = TRUE]}
                /\ Moves(h, [req[h] EXCEPT !.pc = "verify", !.doc = "want", !.key = signing[d]])
                /\ UNCHANGED <<cookie, history>>
             \/ /\ ~Redeemable(c, d, req[h].cfg) \/ c.flow # req[h].flow
                /\ Refuse(h, {}) /\ UNCHANGED codes
    BY <1>3 DEF Exchange
  <2>2. CASE /\ codes' = (codes \ {c}) \cup {[c EXCEPT !.spent = TRUE]}
             /\ Moves(h, [req[h] EXCEPT !.pc = "verify", !.doc = "want", !.key = signing[d]])
             /\ UNCHANGED <<cookie, history>>
    <3> DEFINE r == [req[h] EXCEPT !.pc = "verify", !.doc = "want", !.key = signing[d]]
    <3>1. /\ r.op = "callback" /\ r.pc = "verify" /\ r.flow = req[h].flow /\ r.cfg = req[h].cfg
          /\ r.who = req[h].who /\ r.doc = "want" /\ r.key = signing[d]
      BY <1>1 DEF CallbackRequest
    <3>2. Moves(h, r) /\ UNCHANGED <<cookie, refused, excused, crossed>>
      BY <2>2 DEF history
    <3> HIDE DEF r
    <3>3. req'[h] = r
      BY <1>2, <3>2
    <3>4. ASSUME r.flow \notin excused PROVE InTime(h)'
      <4>1. InTime(h) /\ d = configured
        BY <1>1, <2>1, <3>1, <3>4, UnspoiltCallback
      <4> QED BY <1>1, <3>1, <3>3, <4>1 DEF InTime
    <3>5. ASSUME NEW e \in codes'
          PROVE  /\ e.who.of = flows[e.flow].at
                 /\ e.spent => \/ e \in codes \/ e.flow \in excused
                               \/ e.flow = r.flow /\ r.pc # "exchange"
      <4>1. CASE e \in codes
        BY <4>1 DEF ExcuseInv
      <4>2. CASE e = [c EXCEPT !.spent = TRUE]
        <5>1. e.flow = c.flow /\ e.who = c.who
          BY <4>2 DEF TypeOK, Code
        <5>2. c.flow \in excused \/ c.flow = req[h].flow
          BY <1>1, <2>1, CallbackFacts
        <5> QED BY <3>1, <5>1, <5>2 DEF ExcuseInv
      <4> QED BY <2>2, <4>1, <4>2
    <3> QED BY <1>1, <3>1, <3>2, <3>4, <3>5, MoveIsCalm
  <2>3. CASE /\ ~Redeemable(c, d, req[h].cfg) \/ c.flow # req[h].flow
             /\ Refuse(h, {}) /\ UNCHANGED codes
    <3>1. req[h].flow \in excused
      <4> SUFFICES ASSUME req[h].flow \notin excused PROVE FALSE
        OBVIOUS
      <4>1. InTime(h) /\ Calm(req[h].flow) /\ d = configured /\ c.flow = req[h].flow
        BY <1>1, <2>1, UnspoiltCallback
      <4>2. c.who.of = configured
        BY <2>1, <4>1 DEF ExcuseInv, Calm
      <4>3. c.spent
        BY <2>3, <4>1, <4>2 DEF Redeemable, InTime
      <4>4. PICK g \in Handlers : Past(g) /\ req[g].flow = req[h].flow
        BY <2>1, <4>1, <4>3 DEF Calm
      <4>5. g \in Callbacks /\ g # h
        BY <1>3, <4>4 DEF Past, Callbacks, Serving, Exchange
      <4> QED BY <1>1, <4>4, <4>5 DEF ExcuseInv
    <3> QED BY <1>1, <2>3, <3>1, RefuseIsCalm
  <2> QED BY <2>1, <2>2, <2>3
<1>4. ASSUME NEW r, Moves(h, r), UNCHANGED <<cookie, history, codes>>,
             r.op = "callback", r.flow = req[h].flow, r.pc # "exchange", r.flow \notin excused => InTime(h)'
      PROVE  ExcuseInv'
  BY <1>1, <1>4, MoveIsCalm DEF history, ExcuseInv
<1>5. ASSUME Verified(h), UNCHANGED <<cookie, history, codes>> PROVE ExcuseInv'
  <2> DEFINE r == [req[h] EXCEPT !.pc = "userinfo", !.doc = "want", !.key = 0, !.at = None]
  <2>1. /\ r.op = "callback" /\ r.flow = req[h].flow /\ r.pc = "userinfo" /\ r.doc = "want"
        /\ r.cfg = req[h].cfg /\ r.who = req[h].who
    BY <1>1 DEF CallbackRequest
  <2>2. Moves(h, r)
    BY <1>5 DEF Verified
  <2> HIDE DEF r
  <2>3. req'[h] = r
    BY <1>2, <2>2
  <2>4. ASSUME r.flow \notin excused PROVE InTime(h)'
    <3>1. InTime(h)
      BY <1>1, <2>1, <2>4, UnspoiltCallback
    <3> QED BY <1>1, <2>1, <2>3, <3>1 DEF InTime
  <2> QED BY <1>4, <1>5, <2>1, <2>2, <2>4
<1>6. ASSUME Refuse(h, {}), req[h].flow \in excused, UNCHANGED codes PROVE ExcuseInv'
  BY <1>1, <1>6, RefuseIsCalm
<1>7. ASSUME Refuse(h, {req[h].flow}), UNCHANGED codes PROVE ExcuseInv'
  BY <1>1, <1>7, RefuseIsCalm
<1>8. ASSUME Verify(h) PROVE ExcuseInv'
  <2>1. PICK d \in Settings :
          /\ Reads(h, d)
          /\ CASE d # None /\ Fetches(h) ->
                    /\ Moves(h, [req[h] EXCEPT !.pc = "keys", !.at = d])
                    /\ UNCHANGED <<cookie, history>>
               [] NonceMatches(h) /\ d = req[h].who.of /\ ~Fetches(h) /\ Has(jwks, d, req[h].key) ->
                    /\ Verified(h)
                    /\ UNCHANGED <<cookie, history>>
               [] OTHER -> Refuse(h, {})
    BY <1>8 DEF Verify
  <2>2. UNCHANGED codes
    BY <1>8 DEF Verify, outside
  <2>3. req[h].flow \notin excused =>
          InTime(h) /\ NonceMatches(h) /\ d = configured /\ d = req[h].who.of /\ d # None
    BY <1>1, <2>1, OidcAssumption, UnspoiltCallback DEF InTime, NonceMatches
  <2>4. CASE d # None /\ Fetches(h)
    <3> DEFINE r == [req[h] EXCEPT !.pc = "keys", !.at = d]
    <3>1. /\ r.op = "callback" /\ r.flow = req[h].flow /\ r.pc = "keys" /\ r.doc = req[h].doc
          /\ r.cfg = req[h].cfg /\ r.who = req[h].who /\ r.key = req[h].key /\ r.at = d
      BY <1>1 DEF CallbackRequest
    <3>2. Moves(h, r) /\ UNCHANGED <<cookie, history>>
      BY <2>1, <2>4
    <3> HIDE DEF r
    <3>3. req'[h] = r
      BY <1>2, <3>2
    <3>4. ASSUME r.flow \notin excused PROVE InTime(h)'
      <4>1. InTime(h) /\ d = configured /\ req[h].pc = "verify"
        BY <1>8, <2>3, <3>1, <3>4 DEF Verify
      <4> QED BY <1>1, <3>1, <3>3, <4>1 DEF InTime
    <3> QED BY <1>4, <2>2, <3>1, <3>2, <3>4
  <2>5. CASE NonceMatches(h) /\ d = req[h].who.of /\ ~Fetches(h) /\ Has(jwks, d, req[h].key)
    BY <1>5, <2>1, <2>2, <2>5
  <2>6. CASE /\ ~(d # None /\ Fetches(h))
             /\ ~(NonceMatches(h) /\ d = req[h].who.of /\ ~Fetches(h) /\ Has(jwks, d, req[h].key))
    <3>1. req[h].flow \in excused
      BY <2>3, <2>6 DEF Fetches
    <3>2. Refuse(h, {})
      BY <2>1, <2>6
    <3> QED BY <1>6, <2>2, <3>1, <3>2
  <2> QED BY <2>4, <2>5, <2>6
<1>9. ASSUME KeysAnswer(h) PROVE ExcuseInv'
  <2>1. /\ req[h].pc = "keys" /\ jwks' = Published(req[h].at) /\ UNCHANGED codes
        /\ IF NonceMatches(h) /\ req[h].at = req[h].who.of /\ Has(jwks', req[h].at, req[h].key)
             THEN Verified(h) /\ UNCHANGED <<cookie, history>>
             ELSE Refuse(h, {})
    BY <1>9 DEF KeysAnswer, outside
  <2>2. CASE NonceMatches(h) /\ req[h].at = req[h].who.of /\ Has(jwks', req[h].at, req[h].key)
    BY <1>5, <2>1, <2>2
  <2>3. CASE ~(NonceMatches(h) /\ req[h].at = req[h].who.of /\ Has(jwks', req[h].at, req[h].key))
    <3>1. ASSUME req[h].flow \notin excused PROVE FALSE
      <4>1. InTime(h) /\ NonceMatches(h) /\ configured \in Providers
        BY <1>1, <3>1, UnspoiltCallback DEF NonceMatches
      <4>2. /\ req[h].at = configured /\ req[h].who.of = configured
            /\ req[h].key \in {signing[configured] - 1, signing[configured]}
        BY <2>1, <4>1 DEF InTime
      <4>3. jwks' = [of |-> configured, last |-> signing[configured]]
        BY <2>1, <4>2 DEF Published
      <4>4. Has(jwks', configured, req[h].key)
        <5>1. configured \in Settings /\ signing[configured] \in Nat
          BY <4>1 DEF TypeOK
        <5>2. jwks' # None
          BY <4>1, <4>3, <5>1, OidcAssumption
        <5> QED BY <4>2, <4>3, <5>2 DEF Has
      <4> QED BY <2>3, <4>1, <4>2, <4>4
    <3> QED BY <1>6, <2>1, <2>3, <3>1
  <2> QED BY <2>2, <2>3
<1>10. ASSUME UserInfo(h) PROVE ExcuseInv'
  <2>1. PICK d \in Settings, n \in Names :
          /\ Reads(h, d)
          /\ IF d = req[h].who.of
               THEN /\ Moves(h, [req[h] EXCEPT !.pc = "provision", !.name = n])
                    /\ UNCHANGED <<cookie, history>>
               ELSE Refuse(h, {})
    BY <1>10 DEF UserInfo
  <2>2. UNCHANGED codes
    BY <1>10 DEF UserInfo, outside
  <2>3. req[h].flow \notin excused => InTime(h) /\ d = req[h].who.of
    BY <1>1, <2>1, UnspoiltCallback DEF InTime
  <2>4. CASE d = req[h].who.of
    <3> DEFINE r == [req[h] EXCEPT !.pc = "provision", !.name = n]
    <3>1. /\ r.op = "callback" /\ r.flow = req[h].flow /\ r.pc = "provision" /\ r.doc = req[h].doc
          /\ r.cfg = req[h].cfg /\ r.who = req[h].who
      BY <1>1 DEF CallbackRequest
    <3>2. Moves(h, r) /\ UNCHANGED <<cookie, history>>
      BY <2>1, <2>4
    <3> HIDE DEF r
    <3>3. req'[h] = r
      BY <1>2, <3>2
    <3>4. ASSUME r.flow \notin excused PROVE InTime(h)'
      BY <1>1, <2>3, <3>1, <3>3, <3>4 DEF InTime
    <3> QED BY <1>4, <2>2, <3>1, <3>2, <3>4
  <2>5. CASE d # req[h].who.of
    BY <1>6, <2>1, <2>2, <2>3, <2>5
  <2> QED BY <2>4, <2>5
<1>11. ASSUME NEW n, Grant(h, n), UNCHANGED codes PROVE ExcuseInv'
  BY <1>1, <1>11, GrantIsCalm
<1>12. ASSUME LookUp(h) PROVE ExcuseInv'
  <2>1. UNCHANGED codes
    BY <1>12 DEF LookUp, outside
  <2>2. ASSUME NEW pc \in {"create", "link"}, Moves(h, [req[h] EXCEPT !.pc = pc]),
               UNCHANGED <<cookie, history>>
        PROVE  ExcuseInv'
    <3> DEFINE r == [req[h] EXCEPT !.pc = pc]
    <3>1. /\ r.op = "callback" /\ r.flow = req[h].flow /\ r.pc = pc /\ r.doc = req[h].doc
          /\ r.cfg = req[h].cfg /\ r.who = req[h].who
      BY <1>1 DEF CallbackRequest
    <3>2. Moves(h, r)
      BY <2>2
    <3> HIDE DEF r
    <3>3. req'[h] = r
      BY <1>2, <3>2
    <3>4. ASSUME r.flow \notin excused PROVE InTime(h)'
      <4>1. InTime(h)
        BY <1>1, <3>1, <3>4, UnspoiltCallback
      <4> QED BY <1>1, <3>1, <3>3, <4>1 DEF InTime
    <3> QED BY <1>4, <2>1, <2>2, <3>1, <3>2, <3>4
  <2> QED BY <1>7, <1>11, <1>12, <2>1, <2>2 DEF LookUp
<1>13. ASSUME Provision(h) PROVE ExcuseInv'
  BY <1>7, <1>11, <1>13 DEF Provision, outside
<1>14. ASSUME ProviderFails(h) PROVE ExcuseInv'
  BY <1>1, <1>7, <1>14 DEF ProviderFails, outside
<1> QED BY <1>3, <1>8, <1>9, <1>10, <1>12, <1>13, <1>14

LEMMA ExcuseInvStep == TypeOK /\ CacheInv /\ FlowInv /\ ExcuseInv /\ [Next]_vars => ExcuseInv'
<1> SUFFICES ASSUME TypeOK, CacheInv, FlowInv, ExcuseInv, [Next]_vars PROVE ExcuseInv'
  OBVIOUS
<1>1. ASSUME NEW h \in Handlers, Step(h) \/ ProviderFails(h) PROVE ExcuseInv'
  BY <1>1, DiscoveryKeepsExcuseInv, IssueKeepsExcuseInv, OtherSteps, CallbackKeepsExcuseInv,
     PutKeepsExcuseInv DEF Step
<1>2. ASSUME NEW h \in Handlers, NEW b \in Browsers, NEW f \in DOMAIN flows, NEW c \in codes,
             BeginCallback(h, b, f, c)
      PROVE  ExcuseInv'
  BY <1>2, BeginCallbackKeepsExcuseInv
<1>3. ASSUME NEW h \in Handlers, \E new \in Settings : BeginPut(h, new) PROVE ExcuseInv'
  BY <1>3, PutKeepsExcuseInv
<1> QED
  BY <1>1, <1>2, <1>3, OtherSteps, RotateKeepsExcuseInv, RestartKeepsExcuseInv DEF Next

\* However many browsers, requests, rotations and changes of the settings: a sign-in that
\* nothing outside disturbed is not refused.
THEOREM RefusedOnlyForAReason == Spec => []RefusedForAReason
<1>1. Init => TypeOK /\ CacheInv /\ FlowInv /\ ExcuseInv
  <2>1. Init => CacheInv
    BY DEF Init, CacheInv, Pending, Readers, Serving, Idle
  <2>2. Init => ExcuseInv
    BY DEF Init, ExcuseInv, Callbacks, Serving, Idle
  <2> QED BY <2>1, <2>2, InitType, FlowInvInit
<1>2. TypeOK /\ CacheInv /\ FlowInv /\ ExcuseInv /\ [Next]_vars
        => (TypeOK /\ CacheInv /\ FlowInv /\ ExcuseInv)'
  BY TypeStep, CacheInvStep, FlowInvStep, ExcuseInvStep
<1>3. ExcuseInv => RefusedForAReason
  BY DEF ExcuseInv, RefusedForAReason
<1> QED
  BY <1>1, <1>2, <1>3, PTL DEF Spec
================================================================================

---- MODULE BrowserSession ----
(***************************************************************************)
(* What the browser application knows of its session.  The cookie is out   *)
(* of its sight: whether somebody is signed in is derived from the user it *)
(* has loaded, and the end of a session from the first call that the       *)
(* server answers with 401.  A notice is then shown over the page, whose   *)
(* only button logs out and leads to the login page.                       *)
(*                                                                         *)
(* The calls of a page are only counted: what they do is in TablePage,     *)
(* ZoneEditor and AccountZones.  A page that is left does not cancel its   *)
(* calls.  There is one tab, and one user, who signs in with a password.   *)
(***************************************************************************)
EXTENDS Page

CONSTANTS
    MaxVersions, \* bound: revocations of the user's sessions
    MaxSignOuts, \* bound: logouts
    MaxPending   \* bound: calls of all pages in flight

ASSUME BrowserSessionAssumption ==
    /\ {MaxVersions, MaxSignOuts} \subseteq Nat
    /\ MaxPending \in Nat \ {0}

VARIABLES
    version,        \* the server's: the user's token version
    cookie,         \* the token version in the browser's cookie
    page,           \* "starting", "login", "home": a page of the layout
    loginSeen,      \* the login page is in the browser's history
    user,           \* a user is loaded
    sessionExpired, \* the notice is up
    isSigningIn,    \* the login form waits
    queries,        \* calls the server has not served
    results,        \* calls it has, until the application gets the answer
    signOuts,       \* logouts so far
    losses,         \* calls that failed so far
    doubtful        \* history: why the notice, or the login page, may be wrong

sessionVars == <<version, cookie, page, loginSeen, user, sessionExpired, isSigningIn, queries,
                 results, signOuts, losses, doubtful>>

Cookies == 0..MaxVersions \cup {None}

\* A call carries the cookie of the moment it is sent.
Queries ==
    [op : {"page", "login", "me", "bootstrap", "logout"}, nr : 1..MaxPending, cookie : Cookies]

\* `set` is the cookie the answer of a login sets.
Results == [query : Queries, status : {"ok", "failed", "denied"}, set : Cookies]

Outstanding == queries \cup {r.query : r \in results}

\* `nr` tells calls in flight apart.
Unused == (1..MaxPending) \ {c.nr : c \in Outstanding}

Query(op, nr) == [op |-> op, nr |-> nr, cookie |-> cookie]

SignedIn == cookie = version

-----------------------------------------------------------------------------
(* The application sends calls.                                            *)

Sends(op) ==
    /\ Unused # {}
    /\ queries' = queries \cup {Query(op, CHOOSE nr \in Unused : TRUE)}

\* A page of the layout is entered, or something is done on it.  The notice covers the
\* page, and no answer it waits for sends another call but the ones of PageAnswered.
UsePage ==
    /\ page = "home" /\ ~sessionExpired
    /\ Sends("page")
    /\ UNCHANGED <<version, cookie, page, user, sessionExpired, isSigningIn, results, signOuts,
                   losses, doubtful, loginSeen>>

\* The form cannot be submitted again before the answer.
Login ==
    /\ page = "login" /\ ~isSigningIn
    /\ Sends("login")
    /\ isSigningIn' = TRUE
    /\ UNCHANGED <<version, cookie, page, user, sessionExpired, results, signOuts, losses, doubtful, loginSeen>>

\* Mutant: the notice is left up.
LogoutUnder ==
    /\ page = "home"
    /\ signOuts < MaxSignOuts
    /\ signOuts' = signOuts + 1
    /\ Sends("logout")
    /\ doubtful' = doubtful \ {"stray", "back"}
    /\ UNCHANGED <<version, cookie, page, user, sessionExpired, isSigningIn, results, losses, loginSeen>>

\* The button of the page, or the one of the notice, pressed once or again.
Logout ==
    /\ page = "home"
    /\ signOuts < MaxSignOuts
    /\ signOuts' = signOuts + 1
    /\ sessionExpired' = FALSE
    /\ Sends("logout")
    /\ doubtful' = doubtful \ {"stray", "back"}
    /\ UNCHANGED <<version, cookie, page, user, isSigningIn, results, losses, loginSeen>>

\* The guard of the layout is not run again for the pages inside it, so no link leads to
\* the login page; the browser's Back button does, if it was shown before.  The notice
\* goes out of sight but is not forgotten.
Leave ==
    /\ page = "home" /\ ~user /\ loginSeen
    /\ page' = "login"
    /\ isSigningIn' = FALSE
    /\ doubtful' = doubtful \cup {d \in {"back"} : sessionExpired}
    /\ UNCHANGED <<version, cookie, user, sessionExpired, queries, results, signOuts, losses, loginSeen>>

\* The document is loaded anew, with no call in flight that changes the cookie.
Reload ==
    /\ \A c \in Outstanding : c.op \notin {"login", "logout"}
    /\ page # "starting"
    /\ page' = "starting"
    /\ user' = FALSE
    /\ sessionExpired' = FALSE
    /\ isSigningIn' = FALSE
    /\ results' = {}
    /\ queries' = {Query("bootstrap", 1)}
    /\ doubtful' = doubtful \ {"stray", "back"}
    /\ UNCHANGED <<version, cookie, signOuts, losses, loginSeen>>

-----------------------------------------------------------------------------
(* The server.                                                             *)

\* An administrator, or the user elsewhere, ends the user's sessions.
Revoke ==
    /\ version < MaxVersions
    /\ version' = version + 1
    /\ UNCHANGED <<cookie, page, user, sessionExpired, isSigningIn, queries, results,
                   signOuts, losses, doubtful, loginSeen>>

Yields(c, status, set) ==
    /\ queries' = queries \ {c}
    /\ results' = results \cup {[query |-> c, status |-> status, set |-> set]}
    /\ UNCHANGED <<cookie, page, user, sessionExpired, isSigningIn, signOuts, doubtful, loginSeen>>

\* A call is served for the session of its cookie, if that is still one.
Serve(c) ==
    /\ c.op \in {"page", "me", "bootstrap"}
    /\ Yields(c, IF c.cookie = version THEN "ok" ELSE "denied", None)
    /\ UNCHANGED <<version, losses>>

\* The right password starts a session, a wrong one does not.
ServeLogin(c) ==
    /\ c.op = "login"
    /\ Yields(c, "ok", version) \/ Yields(c, "denied", None)
    /\ UNCHANGED <<version, losses>>

\* Logging out revokes the sessions of the cookie's user, and clears the cookie anyhow.
ServeLogout(c) ==
    /\ c.op = "logout"
    /\ c.cookie = version => version < MaxVersions
    /\ version' = IF c.cookie = version THEN version + 1 ELSE version
    /\ Yields(c, "ok", None)
    /\ UNCHANGED losses

\* The call is lost, or was served without effect and its answer is.
Lose(c) ==
    /\ losses < MaxFaults
    /\ losses' = losses + 1
    /\ Yields(c, "failed", None)
    /\ UNCHANGED version

\* The sessions are revoked, but the answer that clears the cookie is lost.
LoseLogout(c) ==
    /\ c.op = "logout" /\ c.cookie = version
    /\ losses < MaxFaults
    /\ losses' = losses + 1
    /\ version < MaxVersions
    /\ version' = version + 1
    /\ Yields(c, "failed", None)

-----------------------------------------------------------------------------
(* The answers.                                                            *)

\* The first 401 to a call of a page puts up the notice.
Expires(r) == r.status = "denied" /\ ~sessionExpired

\* An answer for an earlier session, or for one that the user is ending.
Late(r) ==
    \/ r.query.cookie # cookie
    \/ page = "login"
    \/ \E c \in Outstanding : c.op = "logout"

\* A page may call again after an answer, as ReloadAfter of TablePage does.
PageAnswered(r, again) ==
    /\ r.query.op = "page"
    /\ results' = results \ {r}
    /\ sessionExpired' = (sessionExpired \/ Expires(r))
    /\ user' = (user /\ ~Expires(r))
    /\ doubtful' = doubtful \cup {d \in {"stray"} : Expires(r) /\ Late(r)}
    /\ again => r.status = "ok"
    /\ queries' = queries \cup {c \in {Query("page", r.query.nr)} : again}
    /\ UNCHANGED <<version, cookie, page, isSigningIn, signOuts, losses, loginSeen>>

\* The cookie is set before the application sees the answer, and asks who the user is.
LoginAnswered(r) ==
    /\ r.query.op = "login"
    /\ results' = results \ {r}
    /\ IF r.status = "ok"
       THEN /\ cookie' = r.set
            /\ queries' = queries \cup {[Query("me", r.query.nr) EXCEPT !.cookie = r.set]}
            /\ UNCHANGED isSigningIn
       ELSE /\ isSigningIn' = FALSE
            /\ UNCHANGED <<cookie, queries>>
    /\ UNCHANGED <<version, page, user, sessionExpired, signOuts, losses, doubtful, loginSeen>>

\* What follows from this answer is only supposed if the call was lost.
Supposed(r) == IF r.status = "failed" THEN doubtful \cup {"lost"} ELSE doubtful \ {"lost"}

\* The user is loaded and the zones are shown, or the form says that signing in failed.
MeAnswered(r) ==
    /\ r.query.op = "me"
    /\ results' = results \ {r}
    /\ isSigningIn' = FALSE
    /\ user' = (user \/ r.status = "ok")
    /\ page' = IF r.status = "ok" THEN "home" ELSE page
    /\ doubtful' = Supposed(r)
    /\ UNCHANGED <<version, cookie, sessionExpired, queries, signOuts, losses, loginSeen>>

\* Mutant: the guards do not wait for the user to be loaded.
BootstrappedLate(r) ==
    /\ r.query.op = "bootstrap"
    /\ results' = results \ {r}
    /\ user' = (r.status = "ok")
    /\ page' = "login"
    /\ loginSeen' = (loginSeen \/ page' = "login")
    /\ doubtful' = Supposed(r)
    /\ UNCHANGED <<version, cookie, sessionExpired, isSigningIn, queries, signOuts, losses>>

\* At the start a user is loaded if there is a session; the guard leads to a page or to
\* the login page.
Bootstrapped(r) ==
    /\ r.query.op = "bootstrap"
    /\ results' = results \ {r}
    /\ user' = (r.status = "ok")
    /\ page' = IF r.status = "ok" THEN "home" ELSE "login"
    /\ loginSeen' = (loginSeen \/ page' = "login")
    /\ doubtful' = Supposed(r)
    /\ UNCHANGED <<version, cookie, sessionExpired, isSigningIn, queries, signOuts, losses>>

\* Mutant: an error of the call is not caught.
LogoutThrows(r) ==
    /\ r.query.op = "logout"
    /\ results' = results \ {r}
    /\ cookie' = IF r.status = "ok" THEN None ELSE cookie
    /\ user' = (user /\ r.status # "ok")
    /\ page' = IF r.status = "ok" THEN "login" ELSE page
    /\ loginSeen' = (loginSeen \/ page' = "login")
    /\ doubtful' = Supposed(r)
    /\ UNCHANGED <<version, sessionExpired, isSigningIn, queries, signOuts, losses>>

\* Whatever came of it, the user is forgotten and the login page shown.
LogoutAnswered(r) ==
    /\ r.query.op = "logout"
    /\ results' = results \ {r}
    /\ cookie' = IF r.status = "ok" THEN None ELSE cookie
    /\ user' = FALSE
    /\ page' = "login"
    /\ loginSeen' = (loginSeen \/ page' = "login")
    /\ doubtful' = Supposed(r)
    /\ UNCHANGED <<version, sessionExpired, isSigningIn, queries, signOuts, losses>>

SessionInit ==
    /\ version = 0
    /\ cookie \in {0, None}
    /\ page = "starting"
    /\ loginSeen = FALSE
    /\ user = FALSE
    /\ sessionExpired = FALSE
    /\ isSigningIn = FALSE
    /\ signOuts = 0
    /\ queries = {Query("bootstrap", 1)}
    /\ results = {}
    /\ losses = 0
    /\ doubtful = {}

SessionNext ==
    \/ UsePage \/ Login \/ Logout \/ Leave \/ Reload \/ Revoke
    \/ \E c \in queries : Serve(c) \/ ServeLogin(c) \/ ServeLogout(c) \/ Lose(c) \/ LoseLogout(c)
    \/ \E r \in results :
        \/ \E again \in BOOLEAN : PageAnswered(r, again)
        \/ LoginAnswered(r) \/ MeAnswered(r) \/ Bootstrapped(r) \/ LogoutAnswered(r)

SessionSpec == SessionInit /\ [][SessionNext]_sessionVars

-----------------------------------------------------------------------------

SessionTypeOK ==
    /\ version \in 0..MaxVersions
    /\ cookie \in Cookies
    /\ page \in {"starting", "login", "home"}
    /\ {loginSeen, user, sessionExpired, isSigningIn} \subseteq BOOLEAN
    /\ queries \subseteq Queries
    /\ results \subseteq Results
    /\ signOuts \in 0..MaxSignOuts
    /\ losses \in 0..MaxFaults
    /\ doubtful \subseteq {"stray", "back", "lost"}

\* Nobody is stranded on a page without a user: the notice with its button is up, or a
\* logout is under way that leads to the login page.
NeverStranded ==
    page = "home" /\ ~user => sessionExpired \/ \E c \in Outstanding : c.op = "logout"

\* The notice that the session has expired is not up while the browser's session is
\* alive, unless what put it up was an answer that came during or after a logout, or the
\* login page was reached around the button of the notice.
NoticeMeansExpired == sessionExpired /\ SignedIn => doubtful \cap {"stray", "back"} # {}

\* When the login page is at rest the browser holds no live session, unless the call that
\* was to end it, or to find out about it, was lost, or the notice was wrong.
SignedOutIsOut == page = "login" /\ Outstanding = {} /\ doubtful = {} => ~SignedIn

====

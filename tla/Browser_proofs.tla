---- MODULE Browser_proofs ----
(***************************************************************************)
(* Proofs about the browser application, for any number of calls in        *)
(* flight, edits, lost calls and changes by others: its session, the       *)
(* dialog that assigns zones, the pages that show a table, the zone page.  *)
(***************************************************************************)
EXTENDS MCBrowser, SequenceTheorems, WellFoundedInduction, TLAPS

\* Numbers tell the calls in flight apart.
Distinct ==
    /\ \A c, d \in queries : c.nr = d.nr => c = d
    /\ \A c \in queries, r \in results : c.nr # r.query.nr
    /\ \A r, s \in results : r.query.nr = s.query.nr => r = s

OnTheirWay(ops) == \E c \in Outstanding : c.op \in ops

\* The login form waits for one call at a time, and the login page is shown meanwhile.
OneSignIn ==
    \A c, d \in Outstanding :
        c.op \in {"login", "me"} /\ d.op \in {"login", "me"} => c = d /\ isSigningIn /\ page = "login"

\* The application starts with one call, and does nothing else until it is answered.
Starting ==
    /\ page = "starting" =>
         ~sessionExpired /\ \A c, d \in Outstanding : c.op = "bootstrap" /\ c = d
    /\ OnTheirWay({"bootstrap"}) => page = "starting"

\* No cookie is ahead of the server, and what was refused for its cookie stays so.
Behind ==
    /\ cookie # None => cookie <= version
    /\ \A c \in Outstanding : c.cookie # None => c.cookie <= version
    /\ \A r \in results :
         /\ r.set # None => r.set <= version
         /\ r.status = "denied" /\ r.query.op # "login" =>
                r.query.cookie # version /\ r.query.op # "logout"
    /\ \A c \in Outstanding : c.op \in {"me", "bootstrap"} => cookie \in {c.cookie, None}

\* Whoever is signed in and sees the login page is about to be told or to be logged out.
SignInIsNoticed ==
    page = "login" /\ SignedIn /\ doubtful = {} => OnTheirWay({"me", "logout"})

\* A notice that is about to be lost from sight, or is, is known to be wrong.
NoticeIsSeen ==
    sessionExpired /\ (page = "login" \/ OnTheirWay({"logout"})) => doubtful \cap {"stray", "back"} # {}

IInv ==
    /\ SessionTypeOK /\ Distinct /\ OneSignIn /\ Starting /\ Behind
    /\ NeverStranded /\ SignInIsNoticed /\ NoticeIsSeen /\ NoticeMeansExpired

USE PageAssumption, BrowserSessionAssumption

-----------------------------------------------------------------------------
(* How the calls in flight change.                                         *)

\* A call with an unused number is sent.
LEMMA SendShape ==
    ASSUME Distinct, NEW x, \A c \in Outstanding : c.nr # x.nr,
           queries' = queries \cup {x}, results' = results
    PROVE  Distinct' /\ Outstanding' = Outstanding \cup {x}
<1>1. \A c \in queries : c.nr # x.nr
  BY DEF Outstanding
<1>2. \A r \in results : r.query.nr # x.nr
  BY DEF Outstanding
<1>3. Distinct'
  BY <1>1, <1>2 DEF Distinct
<1>4. Outstanding' = Outstanding \cup {x}
  BY DEF Outstanding
<1> QED
  BY <1>3, <1>4

\* A call gets its answer.
LEMMA YieldShape ==
    ASSUME Distinct, NEW c \in queries, NEW status, NEW set, Yields(c, status, set)
    PROVE  /\ Distinct'
           /\ Outstanding' = Outstanding
           /\ results' = results \cup {[query |-> c, status |-> status, set |-> set]}
<1> DEFINE a == [query |-> c, status |-> status, set |-> set]
<1>1. queries' = queries \ {c} /\ results' = results \cup {a} /\ a.query = c
  BY DEF Yields
<1>2. Distinct'
  BY <1>1 DEF Distinct
<1>3. Outstanding' = Outstanding
  BY <1>1 DEF Outstanding
<1> QED
  BY <1>1, <1>2, <1>3

\* An answer reaches the application.
LEMMA AnswerShape ==
    ASSUME Distinct, NEW r \in results, results' = results \ {r}, queries' = queries
    PROVE  /\ Distinct'
           /\ r.query \in Outstanding
           /\ Outstanding' = Outstanding \ {r.query}
<1>1. Distinct'
  BY DEF Distinct
<1>2. r.query \in Outstanding
  BY DEF Outstanding
<1>3. r.query \notin queries /\ \A s \in results \ {r} : s.query # r.query
  BY DEF Distinct
<1>4. Outstanding' = Outstanding \ {r.query}
  BY <1>3 DEF Outstanding
<1> QED
  BY <1>1, <1>2, <1>4

\* An answer reaches the application, which calls again under the same number.
LEMMA ReplaceShape ==
    ASSUME Distinct, NEW r \in results, results' = results \ {r},
           NEW x, x.nr = r.query.nr, queries' = queries \cup {x}
    PROVE  /\ Distinct'
           /\ r.query \in Outstanding
           /\ Outstanding' = (Outstanding \ {r.query}) \cup {x}
<1>1. \A c \in queries : c.nr # x.nr
  BY DEF Distinct
<1>2. \A s \in results \ {r} : s.query.nr # x.nr
  BY DEF Distinct
<1>3. Distinct'
  BY <1>1, <1>2 DEF Distinct
<1>4. r.query \in Outstanding
  BY DEF Outstanding
<1>5. r.query \notin queries /\ \A s \in results \ {r} : s.query # r.query
  BY DEF Distinct
<1>6. Outstanding' = (Outstanding \ {r.query}) \cup {x}
  BY <1>5 DEF Outstanding
<1> QED
  BY <1>3, <1>4, <1>6

LEMMA SendsShape ==
    ASSUME IInv, NEW op \in {"page", "login", "me", "bootstrap", "logout"}, Sends(op), results' = results
    PROVE  \E x \in Queries :
             /\ x = [op |-> op, nr |-> x.nr, cookie |-> cookie]
             /\ queries' = queries \cup {x}
             /\ Distinct'
             /\ Outstanding' = Outstanding \cup {x}
<1>1. PICK nr \in Unused : queries' = queries \cup {Query(op, nr)}
  BY DEF Sends
<1>2. nr \in 1..MaxPending /\ \A c \in Outstanding : c.nr # nr
  BY DEF Unused
<1>3. PICK x : x = Query(op, nr)
  OBVIOUS
<1>4. x \in Queries /\ x = [op |-> op, nr |-> x.nr, cookie |-> cookie] /\ x.nr = nr
  BY <1>2, <1>3 DEF Query, Queries, IInv, SessionTypeOK
<1>5. Distinct' /\ Outstanding' = Outstanding \cup {x}
  BY <1>1, <1>2, <1>3, <1>4, SendShape DEF IInv
<1> QED
  BY <1>1, <1>3, <1>4, <1>5

LEMMA OutstandingTyped == ASSUME SessionTypeOK PROVE Outstanding \subseteq Queries
  BY DEF SessionTypeOK, Outstanding, Results

\* The parts of the invariant but the numbers.
Rest ==
    /\ OneSignIn /\ Starting /\ Behind /\ NeverStranded
    /\ SignInIsNoticed /\ NoticeIsSeen /\ NoticeMeansExpired

LEMMA Assemble == ASSUME SessionTypeOK', Distinct', Rest' PROVE IInv'
  BY DEF IInv, Rest

-----------------------------------------------------------------------------
(* The application sends calls.                                            *)

LEMMA UsePageStep == ASSUME IInv, UsePage PROVE IInv'
<1>1. PICK x \in Queries :
         /\ x = [op |-> "page", nr |-> x.nr, cookie |-> cookie]
         /\ queries' = queries \cup {x}
         /\ Distinct'
         /\ Outstanding' = Outstanding \cup {x}
  BY SendsShape DEF UsePage
<1>2. x.op = "page" /\ x.cookie = cookie
  BY <1>1
<1> USE <1>1, <1>2 DEF UsePage, IInv
<1>3. SessionTypeOK'
  <2>1. signOuts' \in 0..MaxSignOuts
    BY DEF SessionTypeOK
  <2> QED
    BY <2>1 DEF SessionTypeOK
<1>4. OneSignIn' /\ Starting'
  BY DEF OneSignIn, Starting, OnTheirWay, SessionTypeOK
<1>5. Behind'
  BY DEF Behind, SessionTypeOK, Starting, OnTheirWay
<1>6. NeverStranded' /\ SignInIsNoticed' /\ NoticeIsSeen' /\ NoticeMeansExpired'
  BY DEF NeverStranded, SignInIsNoticed, NoticeIsSeen, NoticeMeansExpired, SignedIn, OnTheirWay,
         SessionTypeOK
<1> QED
  BY <1>3, <1>4, <1>5, <1>6, Assemble DEF Rest

LEMMA LoginStep == ASSUME IInv, Login PROVE IInv'
<1>1. PICK x \in Queries :
         /\ x = [op |-> "login", nr |-> x.nr, cookie |-> cookie]
         /\ queries' = queries \cup {x}
         /\ Distinct'
         /\ Outstanding' = Outstanding \cup {x}
  BY SendsShape DEF Login
<1>2. x.op = "login" /\ x.cookie = cookie
  BY <1>1
<1> USE <1>1, <1>2 DEF Login, IInv
<1>3. SessionTypeOK'
  <2>1. signOuts' \in 0..MaxSignOuts
    BY DEF SessionTypeOK
  <2> QED
    BY <2>1 DEF SessionTypeOK
<1>4. OneSignIn' /\ Starting'
  BY DEF OneSignIn, Starting, OnTheirWay, SessionTypeOK
<1>5. Behind'
  BY DEF Behind, SessionTypeOK, Starting, OnTheirWay
<1>6. NeverStranded' /\ SignInIsNoticed' /\ NoticeIsSeen' /\ NoticeMeansExpired'
  BY DEF NeverStranded, SignInIsNoticed, NoticeIsSeen, NoticeMeansExpired, SignedIn, OnTheirWay,
         SessionTypeOK
<1> QED
  BY <1>3, <1>4, <1>5, <1>6, Assemble DEF Rest

LEMMA LogoutStep == ASSUME IInv, Logout PROVE IInv'
<1>1. PICK x \in Queries :
         /\ x = [op |-> "logout", nr |-> x.nr, cookie |-> cookie]
         /\ queries' = queries \cup {x}
         /\ Distinct'
         /\ Outstanding' = Outstanding \cup {x}
  BY SendsShape DEF Logout
<1>2. x.op = "logout" /\ x.cookie = cookie
  BY <1>1
<1> USE <1>1, <1>2 DEF Logout, IInv
<1>3. SessionTypeOK'
  <2>1. signOuts' \in 0..MaxSignOuts
    BY DEF SessionTypeOK
  <2> QED
    BY <2>1 DEF SessionTypeOK
<1>4. OneSignIn' /\ Starting'
  BY DEF OneSignIn, Starting, OnTheirWay, SessionTypeOK
<1>5. Behind'
  BY DEF Behind, SessionTypeOK, Starting, OnTheirWay
<1>6. NeverStranded' /\ SignInIsNoticed' /\ NoticeIsSeen' /\ NoticeMeansExpired'
  BY DEF NeverStranded, SignInIsNoticed, NoticeIsSeen, NoticeMeansExpired, SignedIn, OnTheirWay,
         SessionTypeOK
<1> QED
  BY <1>3, <1>4, <1>5, <1>6, Assemble DEF Rest

LEMMA LeaveStep == ASSUME IInv, Leave PROVE IInv'
<1> USE DEF Leave, IInv
<1>1. Outstanding' = Outstanding /\ Distinct'
  BY DEF Outstanding, Distinct
<1>2. SessionTypeOK'
  BY DEF SessionTypeOK
<1>3. OneSignIn' /\ Starting' /\ Behind'
  BY <1>1 DEF OneSignIn, Starting, Behind, OnTheirWay
<1>4. NeverStranded' /\ SignInIsNoticed' /\ NoticeIsSeen' /\ NoticeMeansExpired'
  BY <1>1 DEF NeverStranded, SignInIsNoticed, NoticeIsSeen, NoticeMeansExpired, SignedIn, OnTheirWay,
              SessionTypeOK
<1> QED
  BY <1>1, <1>2, <1>3, <1>4, Assemble DEF Rest

LEMMA ReloadStep == ASSUME IInv, Reload PROVE IInv'
<1> USE DEF Reload, IInv
<1>1. PICK x : x = Query("bootstrap", 1)
  OBVIOUS
<1>2. x \in Queries /\ x.op = "bootstrap" /\ x.cookie = cookie
  BY <1>1 DEF Query, Queries, SessionTypeOK
<1>3. queries' = {x} /\ results' = {} /\ Outstanding' = {x} /\ Distinct'
  BY <1>1 DEF Outstanding, Distinct
<1>4. SessionTypeOK'
  BY <1>2, <1>3 DEF SessionTypeOK
<1>5. OneSignIn' /\ Starting' /\ Behind'
  BY <1>2, <1>3 DEF OneSignIn, Starting, Behind, OnTheirWay
<1>6. NeverStranded' /\ SignInIsNoticed' /\ NoticeIsSeen' /\ NoticeMeansExpired'
  BY <1>2, <1>3 DEF NeverStranded, SignInIsNoticed, NoticeIsSeen, NoticeMeansExpired, SignedIn, OnTheirWay
<1> QED
  BY <1>3, <1>4, <1>5, <1>6, Assemble DEF Rest

-----------------------------------------------------------------------------
(* The server.                                                             *)

\* A revocation makes no cookie good again.
LEMMA Aged ==
    ASSUME IInv, version' \in 0..MaxVersions, version' = version \/ version' = version + 1
    PROVE  /\ version \in Nat /\ version' >= version
           /\ cookie # None => cookie <= version'
           /\ cookie = version' => cookie = version
           /\ \A d \in Outstanding : d.cookie # None => d.cookie <= version'
           /\ \A r \in results : r.set # None => r.set <= version'
           /\ \A r \in results : r.status = "denied" /\ r.query.op # "login" =>
                r.query.cookie # version' /\ r.query.op # "logout"
<1> USE DEF IInv
<1>1. version \in Nat /\ version' \in Nat /\ version' >= version
  BY DEF SessionTypeOK
<1>2. (cookie # None => cookie <= version') /\ (cookie = version' => cookie = version)
  BY <1>1 DEF Behind, SessionTypeOK, Cookies
<1>3. \A d \in Outstanding : d.cookie # None => d.cookie <= version'
  BY <1>1, OutstandingTyped DEF Behind, Queries, Cookies
<1>4. \A r \in results : r.set # None => r.set <= version'
  <2> SUFFICES ASSUME NEW r \in results, r.set # None PROVE r.set <= version'
    OBVIOUS
  <2>1. r.set \in Cookies /\ r.set <= version
    BY DEF Behind, SessionTypeOK, Results
  <2> QED
    BY <1>1, <2>1 DEF Cookies
<1>5. \A r \in results : r.status = "denied" /\ r.query.op # "login" =>
           r.query.cookie # version' /\ r.query.op # "logout"
  <2> SUFFICES ASSUME NEW r \in results, r.status = "denied", r.query.op # "login"
               PROVE  r.query.cookie # version' /\ r.query.op # "logout"
    OBVIOUS
  <2>1. r.query.cookie # version /\ r.query.op # "logout"
    BY DEF Behind
  <2>2. r.query.cookie \in Cookies /\ r.query \in Outstanding
    BY DEF SessionTypeOK, Results, Queries, Outstanding
  <2>3. r.query.cookie # None => r.query.cookie <= version
    BY <2>2 DEF Behind
  <2> QED
    BY <2>1, <2>2, <2>3, <1>1 DEF Cookies
<1> QED
  BY <1>1, <1>2, <1>3, <1>4, <1>5

LEMMA RevokeStep == ASSUME IInv, Revoke PROVE IInv'
<1> USE DEF Revoke, IInv
<1>1. Outstanding' = Outstanding /\ Distinct'
  BY DEF Outstanding, Distinct
<1>2. SessionTypeOK' /\ version \in Nat /\ version' = version + 1
  BY DEF SessionTypeOK
<1>3. OneSignIn' /\ Starting'
  BY <1>1 DEF OneSignIn, Starting, OnTheirWay
<1>4. Behind'
  <2>1. version' \in 0..MaxVersions
    BY <1>2 DEF SessionTypeOK
  <2> QED
    BY <1>1, <1>2, <2>1, Aged DEF Behind
<1>5. ~SignedIn'
  BY <1>2 DEF SignedIn, Behind, SessionTypeOK, Cookies
<1>6. NeverStranded' /\ SignInIsNoticed' /\ NoticeIsSeen' /\ NoticeMeansExpired'
  BY <1>1, <1>5 DEF NeverStranded, SignInIsNoticed, NoticeIsSeen, NoticeMeansExpired, OnTheirWay
<1> QED
  BY <1>1, <1>2, <1>3, <1>4, <1>6, Assemble DEF Rest

\* An answer is on its way, and the session may have been revoked.
LEMMA YieldsStep ==
    ASSUME IInv, NEW c \in queries, NEW status \in {"ok", "failed", "denied"}, NEW set \in Cookies,
           Yields(c, status, set), version' \in 0..MaxVersions,
           version' = version \/ (version' = version + 1),
           losses' \in 0..MaxFaults,
           set # None => set <= version',
           status = "denied" /\ c.op # "login" => c.cookie # version' /\ c.op # "logout"
    PROVE  IInv'
<1> USE DEF IInv
<1>1. PICK a : a = [query |-> c, status |-> status, set |-> set]
  OBVIOUS
<1>2. Distinct' /\ Outstanding' = Outstanding /\ results' = results \cup {a}
  BY <1>1, YieldShape
<1>3. c \in Queries /\ a \in Results /\ a.query = c /\ a.status = status /\ a.set = set
  BY <1>1 DEF SessionTypeOK, Results
<1>4. SessionTypeOK'
  BY <1>2, <1>3 DEF SessionTypeOK, Yields
<1>5. OneSignIn' /\ Starting'
  BY <1>2 DEF OneSignIn, Starting, OnTheirWay, Yields
<1>6. cookie' = cookie /\ (cookie' = version' => cookie = version)
  BY Aged DEF Yields
<1>7. Behind'
  BY <1>2, <1>3, <1>6, Aged DEF Behind, Yields
<1>8. SignedIn' => SignedIn
  BY <1>6 DEF SignedIn
<1>9. NeverStranded' /\ SignInIsNoticed' /\ NoticeIsSeen' /\ NoticeMeansExpired'
  BY <1>2, <1>8 DEF NeverStranded, SignInIsNoticed, NoticeIsSeen, NoticeMeansExpired, OnTheirWay, Yields
<1> QED
  BY <1>2, <1>4, <1>5, <1>7, <1>9, Assemble DEF Rest

LEMMA ServerStep ==
    ASSUME IInv, NEW c \in queries, Serve(c) \/ ServeLogin(c) \/ ServeLogout(c) \/ Lose(c) \/ LoseLogout(c)
    PROVE  IInv'
<1>1. version \in 0..MaxVersions /\ losses \in 0..MaxFaults /\ version \in Cookies /\ None \in Cookies
  BY DEF IInv, SessionTypeOK, Cookies
<1>2. CASE Serve(c)
  BY <1>1, <1>2, YieldsStep DEF Serve
<1>3. CASE ServeLogin(c)
  <2>1. CASE Yields(c, "ok", version)
    BY <1>1, <1>3, <2>1, YieldsStep DEF ServeLogin
  <2>2. CASE Yields(c, "denied", None)
    BY <1>1, <1>3, <2>2, YieldsStep DEF ServeLogin
  <2> QED
    BY <1>3, <2>1, <2>2 DEF ServeLogin
<1>4. CASE ServeLogout(c)
  BY <1>1, <1>4, YieldsStep DEF ServeLogout
<1>5. CASE Lose(c)
  <2>1. losses' \in 0..MaxFaults /\ version' = version /\ Yields(c, "failed", None)
    BY <1>1, <1>5 DEF Lose
  <2> QED BY <1>1, <2>1, YieldsStep
<1>6. CASE LoseLogout(c)
  <2>1. /\ losses' \in 0..MaxFaults /\ version' = version + 1 /\ version' \in 0..MaxVersions
        /\ Yields(c, "failed", None)
    BY <1>1, <1>6 DEF LoseLogout
  <2> QED BY <1>1, <2>1, YieldsStep
<1> QED
  BY <1>2, <1>3, <1>4, <1>5, <1>6

-----------------------------------------------------------------------------
(* The answers.                                                            *)

\* What every answer leaves, whether or not another call takes its number.
LEMMA Left ==
    ASSUME IInv, NEW r \in results
    PROVE  /\ r \in Results /\ r.query \in Queries /\ r.query \in Outstanding
           /\ \A s \in results \ {r} : s.query \in Outstanding \ {r.query}
           /\ results \ {r} \subseteq Results
  BY DEF IInv, SessionTypeOK, Results, Outstanding, Distinct

LEMMA PageAnsweredStep ==
    ASSUME IInv, NEW r \in results, NEW again \in BOOLEAN, PageAnswered(r, again) PROVE IInv'
<1> USE DEF IInv
<1>1. PICK x : x = Query("page", r.query.nr)
  OBVIOUS
<1>2. x \in Queries /\ x.op = "page" /\ x.cookie = cookie /\ x.nr = r.query.nr
  BY <1>1, Left DEF Query, Queries, SessionTypeOK
<1>3. Distinct' /\ r.query \in Outstanding /\ (\/ Outstanding' = Outstanding \ {r.query}
                                              \/ Outstanding' = (Outstanding \ {r.query}) \cup {x})
  <2>1. CASE again
    BY <1>1, <1>2, <2>1, ReplaceShape DEF PageAnswered
  <2>2. CASE ~again
    BY <2>2, AnswerShape DEF PageAnswered
  <2> QED
    BY <2>1, <2>2
<1>4. SessionTypeOK'
  BY <1>1, <1>2, Left DEF SessionTypeOK, PageAnswered
<1>5. ~(page = "starting")
  BY <1>3 DEF Starting, PageAnswered
<1>6. OneSignIn' /\ Starting' /\ Behind'
  BY <1>2, <1>3, <1>5 DEF OneSignIn, Starting, OnTheirWay, Behind, PageAnswered
<1>7. OnTheirWay({"logout"})' <=> OnTheirWay({"logout"})
  BY <1>2, <1>3 DEF OnTheirWay, PageAnswered
<1>8. OnTheirWay({"me", "logout"})' <=> OnTheirWay({"me", "logout"})
  BY <1>2, <1>3 DEF OnTheirWay, PageAnswered
<1>9. Expires(r) /\ ~Late(r) => ~SignedIn
  BY DEF Expires, Late, SignedIn, Behind, PageAnswered
<1>10. Late(r) <=> r.query.cookie # cookie \/ page = "login" \/ OnTheirWay({"logout"})
  BY DEF Late, OnTheirWay
<1>11. NeverStranded' /\ SignInIsNoticed'
  BY <1>7, <1>8 DEF NeverStranded, SignInIsNoticed, PageAnswered, SignedIn, OnTheirWay
<1>12. NoticeIsSeen' /\ NoticeMeansExpired'
  BY <1>7, <1>9, <1>10 DEF NoticeIsSeen, NoticeMeansExpired, PageAnswered, SignedIn
<1> QED
  BY <1>3, <1>4, <1>6, <1>11, <1>12, Assemble DEF Rest

LEMMA LoginAnsweredStep ==
    ASSUME IInv, NEW r \in results, LoginAnswered(r) PROVE IInv'
<1> USE DEF IInv
<1>1. PICK x : x = [Query("me", r.query.nr) EXCEPT !.cookie = r.set]
  OBVIOUS
<1>2. x \in Queries /\ x.op = "me" /\ x.cookie = r.set /\ x.nr = r.query.nr /\ r.set \in Cookies
  BY <1>1, Left DEF Query, Queries, Results, SessionTypeOK
<1>3. page = "login" /\ \A c \in Outstanding \ {r.query} : c.op \notin {"login", "me", "bootstrap"}
  BY Left DEF LoginAnswered, OneSignIn, Starting, OnTheirWay
<1>4. CASE r.status = "ok"
  <2>1. Distinct' /\ Outstanding' = (Outstanding \ {r.query}) \cup {x}
    BY <1>1, <1>2, <1>4, ReplaceShape DEF LoginAnswered
  <2>2. SessionTypeOK'
    BY <1>1, <1>2, <1>4, Left DEF SessionTypeOK, LoginAnswered
  <2>3. OneSignIn' /\ Starting'
    BY <1>2, <1>3, <1>4, <2>1, Left DEF OneSignIn, Starting, OnTheirWay, LoginAnswered
  <2>4. Behind'
    BY <1>2, <1>3, <1>4, <2>1 DEF Behind, LoginAnswered
  <2>5. OnTheirWay({"logout"})' => OnTheirWay({"logout"})
    BY <1>2, <2>1 DEF OnTheirWay
  <2>6. OnTheirWay({"me", "logout"})'
    BY <1>2, <2>1 DEF OnTheirWay
  <2>7. NeverStranded' /\ SignInIsNoticed' /\ NoticeIsSeen' /\ NoticeMeansExpired'
    BY <1>3, <2>5, <2>6 DEF NeverStranded, SignInIsNoticed, NoticeIsSeen, NoticeMeansExpired, LoginAnswered
  <2> QED
    BY <2>1, <2>2, <2>3, <2>4, <2>7, Assemble DEF Rest
<1>5. CASE r.status # "ok"
  <2>1. Distinct' /\ Outstanding' = Outstanding \ {r.query} /\ cookie' = cookie /\ queries' = queries
    BY <1>5, AnswerShape DEF LoginAnswered
  <2>2. SessionTypeOK'
    BY <1>5, <2>1, Left DEF SessionTypeOK, LoginAnswered
  <2>3. OneSignIn' /\ Starting' /\ Behind'
    BY <1>3, <2>1 DEF OneSignIn, Starting, OnTheirWay, Behind, LoginAnswered
  <2>4. OnTheirWay({"logout"})' <=> OnTheirWay({"logout"})
    BY <2>1, <1>3 DEF OnTheirWay, LoginAnswered
  <2>5. OnTheirWay({"me", "logout"})' <=> OnTheirWay({"me", "logout"})
    BY <2>1, <1>3 DEF OnTheirWay, LoginAnswered
  <2>6. NeverStranded' /\ SignInIsNoticed' /\ NoticeIsSeen' /\ NoticeMeansExpired'
    BY <1>3, <2>1, <2>4, <2>5
       DEF NeverStranded, SignInIsNoticed, NoticeIsSeen, NoticeMeansExpired, SignedIn, LoginAnswered
  <2> QED
    BY <2>1, <2>2, <2>3, <2>6, Assemble DEF Rest
<1> QED
  BY <1>4, <1>5

\* What a user loaded, or not, has in common for the two calls that ask for it.
LEMMA AskedStep ==
    ASSUME IInv, NEW r \in results, r.query.op \in {"me", "bootstrap"}, r.status # "ok", SignedIn
    PROVE  r.status = "failed"
<1>1. r.status = "denied" => r.query.cookie # version
  BY DEF IInv, Behind
<1>2. cookie \in {r.query.cookie, None}
  BY Left DEF IInv, Behind
<1>3. cookie # None
  BY DEF SignedIn, IInv, SessionTypeOK
<1> QED
  BY <1>1, <1>2, <1>3, Left DEF SignedIn, Results

LEMMA MeAnsweredStep ==
    ASSUME IInv, NEW r \in results, MeAnswered(r) PROVE IInv'
<1> USE DEF IInv
<1>1. Distinct' /\ Outstanding' = Outstanding \ {r.query}
  BY AnswerShape DEF MeAnswered
<1>2. page = "login" /\ \A c \in Outstanding \ {r.query} : c.op \notin {"login", "me", "bootstrap"}
  BY Left DEF MeAnswered, OneSignIn, Starting, OnTheirWay
<1>3. SessionTypeOK'
  BY Left DEF SessionTypeOK, MeAnswered, Supposed
<1>4. OneSignIn' /\ Starting'
  BY <1>1, <1>2 DEF OneSignIn, Starting, OnTheirWay, MeAnswered
<1>5. Behind'
  BY <1>1 DEF Behind, MeAnswered
<1>6. OnTheirWay({"logout"})' <=> OnTheirWay({"logout"})
  BY <1>1, <1>2 DEF OnTheirWay, MeAnswered
<1>7. doubtful' \cap {"stray", "back"} = doubtful \cap {"stray", "back"}
  BY DEF MeAnswered, Supposed
<1>8. NeverStranded' /\ NoticeIsSeen' /\ NoticeMeansExpired'
  BY <1>2, <1>6, <1>7 DEF NeverStranded, NoticeIsSeen, NoticeMeansExpired, MeAnswered, SignedIn
<1>9. SignInIsNoticed'
  BY <1>2, AskedStep DEF SignInIsNoticed, MeAnswered, Supposed, SignedIn
<1> QED
  BY <1>1, <1>3, <1>4, <1>5, <1>8, <1>9, Assemble DEF Rest

LEMMA BootstrappedStep ==
    ASSUME IInv, NEW r \in results, Bootstrapped(r) PROVE IInv'
<1> USE DEF IInv
<1>1. Distinct' /\ Outstanding' = Outstanding \ {r.query}
  BY AnswerShape DEF Bootstrapped
<1>2. page = "starting" /\ ~sessionExpired /\ Outstanding' = {}
  BY <1>1, Left DEF Bootstrapped, Starting, OnTheirWay
<1>3. SessionTypeOK'
  BY Left DEF SessionTypeOK, Bootstrapped, Supposed
<1>4. OneSignIn' /\ Starting'
  BY <1>2 DEF OneSignIn, Starting, OnTheirWay, Bootstrapped
<1>5. Behind'
  BY <1>1 DEF Behind, Bootstrapped
<1>6. NeverStranded' /\ NoticeIsSeen' /\ NoticeMeansExpired'
  BY <1>2 DEF NeverStranded, NoticeIsSeen, NoticeMeansExpired, Bootstrapped
<1>7. SignInIsNoticed'
  BY AskedStep DEF SignInIsNoticed, Bootstrapped, Supposed, SignedIn
<1> QED
  BY <1>1, <1>3, <1>4, <1>5, <1>6, <1>7, Assemble DEF Rest

LEMMA LogoutAnsweredStep ==
    ASSUME IInv, NEW r \in results, LogoutAnswered(r) PROVE IInv'
<1> USE DEF IInv
<1>1. Distinct' /\ Outstanding' = Outstanding \ {r.query} /\ r.query \in Outstanding
  BY AnswerShape DEF LogoutAnswered
<1>2. OnTheirWay({"logout"}) /\ page # "starting"
  BY <1>1 DEF LogoutAnswered, Starting, OnTheirWay
<1>3. SessionTypeOK'
  BY Left DEF SessionTypeOK, LogoutAnswered, Supposed, Cookies
<1>4. OneSignIn' /\ Starting'
  BY <1>1, <1>2 DEF OneSignIn, Starting, OnTheirWay, LogoutAnswered
<1>5. Behind'
  BY <1>1 DEF Behind, LogoutAnswered
<1>6. doubtful' \cap {"stray", "back"} = doubtful \cap {"stray", "back"}
  BY DEF LogoutAnswered, Supposed
<1>7. NeverStranded' /\ NoticeIsSeen' /\ NoticeMeansExpired'
  BY <1>2, <1>6 DEF NeverStranded, NoticeIsSeen, NoticeMeansExpired, LogoutAnswered
<1>8. r.status = "failed" \/ ~SignedIn'
  BY Left DEF Behind, LogoutAnswered, SignedIn, SessionTypeOK, Results
<1>9. SignInIsNoticed'
  BY <1>8 DEF SignInIsNoticed, LogoutAnswered, Supposed
<1> QED
  BY <1>1, <1>3, <1>4, <1>5, <1>7, <1>9, Assemble DEF Rest

-----------------------------------------------------------------------------

LEMMA InitInvariant == SessionInit => IInv
<1> SUFFICES ASSUME SessionInit PROVE IInv
  OBVIOUS
<1>1. PICK x : x = Query("bootstrap", 1)
  OBVIOUS
<1>2. x \in Queries /\ x.op = "bootstrap" /\ x.cookie = cookie
  BY <1>1 DEF Query, Queries, SessionInit, Cookies
<1>3. queries = {x} /\ results = {} /\ Outstanding = {x}
  BY <1>1 DEF Outstanding, SessionInit
<1>4. SessionTypeOK
  <2>1. version \in 0..MaxVersions /\ signOuts \in 0..MaxSignOuts /\ losses \in 0..MaxFaults
    BY DEF SessionInit
  <2>2. cookie \in Cookies
    BY DEF SessionInit, Cookies
  <2> QED
    BY <1>2, <1>3, <2>1, <2>2 DEF SessionTypeOK, SessionInit
<1>5. Distinct /\ OneSignIn /\ Starting /\ Behind
  BY <1>2, <1>3 DEF Distinct, OneSignIn, Starting, Behind, OnTheirWay, SessionInit
<1>6. NeverStranded /\ SignInIsNoticed /\ NoticeIsSeen /\ NoticeMeansExpired
  BY DEF NeverStranded, SignInIsNoticed, NoticeIsSeen, NoticeMeansExpired, SessionInit
<1> QED
  BY <1>4, <1>5, <1>6 DEF IInv

LEMMA StepInvariant == IInv /\ [SessionNext]_sessionVars => IInv'
<1> SUFFICES ASSUME IInv, [SessionNext]_sessionVars PROVE IInv'
  OBVIOUS
<1>1. CASE UsePage \/ Login \/ Logout \/ Leave \/ Reload \/ Revoke
  BY <1>1, UsePageStep, LoginStep, LogoutStep, LeaveStep, ReloadStep, RevokeStep
<1>2. ASSUME NEW c \in queries, Serve(c) \/ ServeLogin(c) \/ ServeLogout(c) \/ Lose(c) \/ LoseLogout(c) PROVE IInv'
  BY <1>2, ServerStep
<1>3. ASSUME NEW r \in results,
             \/ \E again \in BOOLEAN : PageAnswered(r, again)
             \/ LoginAnswered(r) \/ MeAnswered(r) \/ Bootstrapped(r) \/ LogoutAnswered(r)
      PROVE  IInv'
  BY <1>3, PageAnsweredStep, LoginAnsweredStep, MeAnsweredStep, BootstrappedStep, LogoutAnsweredStep
<1>4. CASE UNCHANGED sessionVars
  <2>1. Outstanding' = Outstanding
    BY <1>4 DEF sessionVars, Outstanding
  <2> QED
    BY <1>4, <2>1 DEF sessionVars, IInv, SessionTypeOK, Distinct, OneSignIn, Starting, Behind, OnTheirWay,
       NeverStranded, SignInIsNoticed, NoticeIsSeen, NoticeMeansExpired, SignedIn
<1> QED
  BY <1>1, <1>2, <1>3, <1>4 DEF SessionNext

LEMMA Invariant == SessionSpec => []IInv
  BY InitInvariant, StepInvariant, PTL DEF SessionSpec

\* The variables of the session keep their types.
THEOREM SessionTypeCorrect == SessionSpec => []SessionTypeOK
<1>1. IInv => SessionTypeOK
  BY DEF IInv
<1> QED
  BY <1>1, Invariant, PTL

\* A page without a user always offers, or is already on, a way to the login page.
THEOREM NobodyStranded == SessionSpec => []NeverStranded
<1>1. IInv => NeverStranded
  BY DEF IInv
<1> QED
  BY <1>1, Invariant, PTL

\* The notice of an expired session is not up over a live one, unless a 401 came late or
\* the login page was reached around the button.
THEOREM NoticeIsTrue == SessionSpec => []NoticeMeansExpired
<1>1. IInv => NoticeMeansExpired
  BY DEF IInv
<1> QED
  BY <1>1, Invariant, PTL

\* At rest on the login page the browser has no live session, but for the cases it names.
THEOREM LoginPageIsSignedOut == SessionSpec => []SignedOutIsOut
<1>1. IInv => SignedOutIsOut
  BY DEF IInv, SignInIsNoticed, SignedOutIsOut, OnTheirWay
<1> QED
  BY <1>1, Invariant, PTL

-----------------------------------------------------------------------------
(* Numbers.                                                                *)

HIDE BrowserSessionAssumption

\* A set of numbers that is not empty has a least one.
LEMMA LeastNumber ==
    ASSUME NEW T, T \subseteq Nat, T # {}
    PROVE  \E n \in T : \A m \in T : n <= m
<1>1. PICK n \in T : \A m \in T : ~ (<<m, n>> \in OpToRel(<, Nat))
  BY WFMin, NatLessThanWellFounded
<1>2. \A m \in T : ~ (m < n)
  BY <1>1 DEF OpToRel
<1> QED
  BY <1>2

\* And a greatest one, when there is a bound.
LEMMA GreatestNumber ==
    ASSUME NEW bound \in Nat, NEW T, T \subseteq 0..bound, T # {}
    PROVE  \E n \in T : \A m \in T : m <= n
<1> DEFINE Rooms == {n \in Nat : n <= bound /\ bound - n \in T}
<1>1. Rooms \subseteq Nat /\ Rooms # {}
  <2>1. PICK x \in T : TRUE
    OBVIOUS
  <2>2. bound - x \in Nat /\ bound - x <= bound /\ bound - (bound - x) = x
    OBVIOUS
  <2> QED
    BY <2>1, <2>2
<1>2. PICK n \in Rooms : \A m \in Rooms : n <= m
  <2> HIDE DEF Rooms
  <2> QED
    BY <1>1, LeastNumber
<1>3. ASSUME NEW m \in T PROVE m <= bound - n
  <2>1. m \in 0..bound
    OBVIOUS
  <2>2. bound - (bound - m) = m
    BY <2>1
  <2>3. bound - m \in Nat /\ bound - m <= bound
    BY <2>1
  <2>4. bound - m \in Rooms
    BY <2>2, <2>3
  <2>5. n <= bound - m /\ n \in Nat
    BY <2>4, <1>2
  <2> QED
    BY <2>1, <2>5
<1> QED
  BY <1>2, <1>3

-----------------------------------------------------------------------------
(* The names of networks and addresses.                                    *)

Characters == (UNION {Range(label) : label \in Labels}) \cup {Dot}

\* What the parts of a name are joined from, and how far they are joined.
Parts(numbers) == [i \in DOMAIN numbers |-> Append(Reverse(numbers)[i], Dot)]
Joined(parts) == CHOOSE f : f = [i \in 1..Len(parts) |-> IF i = 1 THEN parts[i] ELSE f[i - 1] \o parts[i]]

LEMMA ArpaNameIsJoined ==
    ASSUME NEW numbers \in Seq(Labels), numbers # <<>>
    PROVE  ArpaName(numbers) = Joined(Parts(numbers))[Len(numbers)]
<1>1. DOMAIN numbers = 1..Len(numbers) /\ Len(numbers) \in Nat \ {0}
  BY LenProperties, EmptySeq
<1>2. Len(Parts(numbers)) = Len(numbers)
  BY <1>1 DEF Parts
<1> QED
  BY <1>1, <1>2, Zenon DEF ArpaName, FlattenSeq, Joined, Parts

LEMMA JoinedExists ==
    ASSUME NEW S, NEW parts \in Seq(Seq(S))
    PROVE  Joined(parts) = [i \in 1..Len(parts) |->
                              IF i = 1 THEN parts[i] ELSE Joined(parts)[i - 1] \o parts[i]]
<1> DEFINE Step(f, n) == f = [i \in 1..n |-> IF i = 1 THEN parts[i] ELSE f[i - 1] \o parts[i]]
           T == {n \in Nat : ~ \E f : Step(f, n)}
<1>1. Step([i \in {} |-> i], 0)
  OBVIOUS
<1>2. T = {}
  <2> SUFFICES ASSUME T # {} PROVE FALSE
    OBVIOUS
  <2>1. PICK n \in T : \A m \in T : n <= m
    <3>1. T \subseteq Nat
      OBVIOUS
    <3> HIDE DEF T
    <3> QED
      BY <3>1, LeastNumber
  <2>2. n # 0
    BY <1>1, <2>1
  <2>3. n \in Nat /\ n - 1 \in Nat /\ n - 1 \notin T
    <3>1. n \in Nat
      BY <2>1
    <3>2. n - 1 \in Nat /\ ~ (n <= n - 1)
      BY <3>1, <2>2
    <3> HIDE DEF T
    <3> QED
      BY <3>1, <3>2, <2>1
  <2>4. PICK f : Step(f, n - 1)
    BY <2>3
  <2> DEFINE g == [i \in 1..n |-> IF i = n THEN (IF i = 1 THEN parts[i] ELSE f[n - 1] \o parts[i]) ELSE f[i]]
  <2>5. ASSUME NEW i \in 1..n PROVE g[i] = IF i = 1 THEN parts[i] ELSE g[i - 1] \o parts[i]
    <3>1. CASE i = n
      BY <3>1, <2>2
    <3>2. CASE i # n
      <4>1. i \in 1..(n - 1)
        BY <3>2, <2>2
      <4>2. f[i] = IF i = 1 THEN parts[i] ELSE f[i - 1] \o parts[i]
        BY <4>1, <2>4
      <4>3. g[i] = f[i] /\ (i # 1 => g[i - 1] = f[i - 1])
        BY <4>1
      <4> QED
        BY <4>2, <4>3
    <3> QED
      BY <3>1, <3>2
  <2>6. Step(g, n)
    BY <2>5
  <2> QED
    BY <2>6, <2>1
<1>3. \E f : Step(f, Len(parts))
  BY <1>2, LenProperties
<1> QED
  BY <1>3 DEF Joined

\* The first i parts, joined.
LEMMA JoinedSteps ==
    ASSUME NEW S, NEW parts \in Seq(Seq(S)), NEW i \in 1..Len(parts)
    PROVE  Joined(parts)[i] = IF i = 1 THEN parts[i] ELSE Joined(parts)[i - 1] \o parts[i]
<1> DEFINE F == Joined(parts)
           G == [j \in 1..Len(parts) |-> IF j = 1 THEN parts[j] ELSE F[j - 1] \o parts[j]]
<1>1. F = G
  BY JoinedExists
<1>2. G[i] = IF i = 1 THEN parts[i] ELSE F[i - 1] \o parts[i]
  OBVIOUS
<1> HIDE DEF G
<1> QED
  BY <1>1, <1>2

LEMMA JoinedType ==
    ASSUME NEW S, NEW parts \in Seq(Seq(S)), NEW k \in 1..Len(parts)
    PROVE  Joined(parts)[k] \in Seq(S)
<1> DEFINE T == {n \in 1..Len(parts) : Joined(parts)[n] \notin Seq(S)}
<1>1. Len(parts) \in Nat /\ \A i \in 1..Len(parts) : parts[i] \in Seq(S)
  BY LenProperties, ElementOfSeq
<1> SUFFICES ASSUME T # {} PROVE FALSE
  OBVIOUS
<1>2. PICK n \in T : \A m \in T : n <= m
  <2>1. T \subseteq Nat
    BY <1>1
  <2> HIDE DEF T
  <2> QED
    BY <2>1, LeastNumber
<1>3. n \in 1..Len(parts) /\ Joined(parts)[n] \notin Seq(S)
  BY <1>2
<1>4. n # 1
  BY <1>1, <1>3, JoinedSteps
<1>5. n - 1 \in 1..Len(parts) /\ ~ (n <= n - 1)
  BY <1>1, <1>3, <1>4
<1>6. Joined(parts)[n - 1] \in Seq(S)
  <2>1. n - 1 \notin T
    <3> HIDE DEF T
    <3> QED
      BY <1>5, <1>2
  <2> QED
    BY <2>1, <1>5
<1>7. Joined(parts)[n] = Joined(parts)[n - 1] \o parts[n]
  BY <1>3, <1>4, JoinedSteps
<1> QED
  BY <1>1, <1>3, <1>6, <1>7, ConcatProperties

LEMMA JoinedNotEmpty ==
    ASSUME NEW S, NEW parts \in Seq(Seq(S)), NEW k \in 1..Len(parts),
           parts[k] # <<>>
    PROVE  Len(Joined(parts)[k]) > 0
<1>1. Len(parts) \in Nat /\ parts[k] \in Seq(S) /\ Len(parts[k]) \in Nat \ {0}
  BY LenProperties, ElementOfSeq, EmptySeq
<1>2. CASE k = 1
  BY <1>1, <1>2, JoinedSteps
<1>3. CASE k # 1
  <2>1. k - 1 \in 1..Len(parts)
    BY <1>1, <1>3
  <2> DEFINE before == Joined(parts)[k - 1]
  <2>2. before \in Seq(S)
    BY <2>1, JoinedType
  <2>3. Joined(parts)[k] = before \o parts[k]
    BY <1>3, JoinedSteps
  <2> HIDE DEF before
  <2>4. Len(before) \in Nat /\ Len(before \o parts[k]) = Len(before) + Len(parts[k])
    BY <1>1, <2>2, LenProperties, ConcatProperties
  <2> QED
    BY <1>1, <2>3, <2>4
<1> QED
  BY <1>2, <1>3

LEMMA PartsShape ==
    ASSUME NEW numbers \in Seq(Labels)
    PROVE  /\ Parts(numbers) \in Seq(Seq(Characters))
           /\ Len(Parts(numbers)) = Len(numbers)
           /\ \A i \in 1..Len(numbers) :
                 /\ Parts(numbers)[i] = Append(numbers[Len(numbers) - i + 1], Dot)
                 /\ numbers[Len(numbers) - i + 1] \in Seq(Characters)
                 /\ Parts(numbers)[i] # <<>>
<1> DEFINE d == Len(numbers)
<1>1. d \in Nat /\ DOMAIN numbers = 1..d /\ \A i \in 1..d : numbers[i] \in Labels
  BY LenProperties, ElementOfSeq
<1>2. \A label \in Labels : label \in Seq(Characters)
  <2> SUFFICES ASSUME NEW label \in Labels PROVE label \in Seq(Characters)
    OBVIOUS
  <2>1. label \in Seq(Range(label)) /\ Range(label) \subseteq Characters
    BY ReversePtrAssumption DEF Characters
  <2> QED
    BY <2>1, SeqMonotonic
<1>3. ASSUME NEW i \in 1..d
      PROVE  /\ d - i + 1 \in 1..d
             /\ Reverse(numbers)[i] = numbers[d - i + 1]
             /\ numbers[d - i + 1] \in Seq(Characters)
             /\ Append(numbers[d - i + 1], Dot) \in Seq(Characters)
             /\ Append(numbers[d - i + 1], Dot) # <<>>
  <2>1. d - i + 1 \in 1..d
    BY <1>1
  <2>2. Reverse(numbers)[i] = numbers[d - i + 1]
    BY DEF Reverse
  <2>3. numbers[d - i + 1] \in Seq(Characters)
    BY <2>1, <1>1, <1>2
  <2>4. Dot \in Characters
    BY DEF Characters
  <2> QED
    BY <2>1, <2>2, <2>3, <2>4, AppendProperties
<1>4. Parts(numbers) \in [1..d -> Seq(Characters)]
  BY <1>1, <1>3 DEF Parts
<1>5. Parts(numbers) \in Seq(Seq(Characters)) /\ Len(Parts(numbers)) = d
  BY <1>1, <1>4, IsASeq, LenProperties
<1> QED
  BY <1>1, <1>3, <1>5 DEF Parts

\* The name of a network ends the names of the networks and addresses in it, and is
\* shorter than those of the smaller ones.
LEMMA PrefixEndsName ==
    ASSUME NEW z \in Seq(Labels), NEW y \in Seq(Labels), z # <<>>, IsPrefix(z, y)
    PROVE  \E u \in Seq(Characters) :
              ArpaName(y) = u \o ArpaName(z) /\ (Len(z) < Len(y) => Len(u) > 0)
<1> DEFINE d == Len(z)
           e == Len(y) - Len(z)
           P == Parts(z)
           Q == Parts(y)
           F == Joined(P)
           H == Joined(Q)
           Ends(k) == \E u \in Seq(Characters) : H[e + k] = u \o F[k] /\ (e > 0 => Len(u) > 0)
           T == {k \in 1..d : ~ Ends(k)}
<1>1. d \in Nat \ {0} /\ e \in Nat /\ Len(y) = d + e
  BY LenProperties, EmptySeq DEF IsPrefix
<1>2. P \in Seq(Seq(Characters)) /\ Q \in Seq(Seq(Characters)) /\ Len(P) = d /\ Len(Q) = d + e
  BY <1>1, PartsShape
<1>3. ASSUME NEW k \in 1..d PROVE Q[e + k] = P[k] /\ P[k] \in Seq(Characters) /\ e + k \in 1..(d + e)
  <2>1. e + k \in 1..(d + e) /\ d - k + 1 \in 1..d /\ Len(y) - (e + k) + 1 = d - k + 1
    BY <1>1
  <2>2. P[k] = Append(z[d - k + 1], Dot) /\ Q[e + k] = Append(y[d - k + 1], Dot)
    BY <2>1, <1>1, PartsShape
  <2>3. z[d - k + 1] = y[d - k + 1]
    <3>1. SubSeq(z, 1, d)[d - k + 1] = z[d - k + 1] /\ SubSeq(y, 1, d)[d - k + 1] = y[d - k + 1]
      BY <2>1, <1>1, SubSeqProperties
    <3> QED
      BY <3>1 DEF IsPrefix
  <2>4. P[k] \in Seq(Characters)
    BY <1>2, ElementOfSeq
  <2> QED
    BY <2>1, <2>2, <2>3, <2>4
<1>4. /\ \A k \in 1..d : F[k] \in Seq(Characters)
      /\ \A k \in 1..(d + e) : H[k] \in Seq(Characters) /\ Len(H[k]) > 0
      /\ F[1] = P[1] /\ H[1] = Q[1]
      /\ \A k \in 1..d : k # 1 => F[k] = F[k - 1] \o P[k]
      /\ \A k \in 1..(d + e) : k # 1 => H[k] = H[k - 1] \o Q[k]
  <2>1. \A k \in 1..(d + e) : Q[k] # <<>>
    BY <1>1, PartsShape
  <2>2. \A k \in 1..d : F[k] \in Seq(Characters)
    BY <1>2, JoinedType
  <2>3. \A k \in 1..(d + e) : H[k] \in Seq(Characters) /\ Len(H[k]) > 0
    BY <1>2, <2>1, JoinedType, JoinedNotEmpty
  <2>4. 1 \in 1..d /\ 1 \in 1..(d + e)
    BY <1>1
  <2>5. F[1] = P[1] /\ \A k \in 1..d : k # 1 => F[k] = F[k - 1] \o P[k]
    BY <1>2, <2>4, JoinedSteps
  <2>6. H[1] = Q[1] /\ \A k \in 1..(d + e) : k # 1 => H[k] = H[k - 1] \o Q[k]
    BY <1>2, <2>4, JoinedSteps
  <2> QED
    BY <2>2, <2>3, <2>5, <2>6
<1>5. ArpaName(z) = F[d] /\ ArpaName(y) = H[e + d]
  <2>1. y # <<>>
    BY <1>1
  <2> QED
    BY <2>1, <1>1, ArpaNameIsJoined
<1>6. Len(z) < Len(y) <=> e > 0
  BY <1>1
<1> HIDE DEF F, H, P, Q, e, d
<1>7. Ends(1)
  <2>1. 1 \in 1..d
    BY <1>1
  <2>2. CASE e = 0
    <3>1. H[e + 1] = P[1] /\ P[1] \in Seq(Characters)
      BY <2>1, <2>2, <1>3, <1>4
    <3>2. <<>> \in Seq(Characters) /\ <<>> \o P[1] = P[1]
      BY <3>1, ConcatEmptySeq
    <3> QED
      BY <2>2, <3>1, <3>2, <1>4
  <2>3. CASE e > 0
    <3>1. e + 1 \in 1..(d + e) /\ e + 1 # 1 /\ e \in 1..(d + e) /\ (e + 1) - 1 = e
      BY <2>3, <1>1
    <3>2. H[e + 1] = H[e] \o F[1]
      BY <3>1, <2>1, <1>3, <1>4
    <3> QED
      BY <3>1, <3>2, <1>4
  <2> HIDE DEF Ends
  <2> QED
    BY <2>2, <2>3, <1>1
<1>8. ASSUME NEW k \in 1..d, k # 1, Ends(k - 1) PROVE Ends(k)
  <2>1. k - 1 \in 1..d /\ e + k \in 1..(d + e) /\ e + k # 1 /\ (e + k) - 1 = e + (k - 1)
    BY <1>1, <1>8
  <2>2. PICK u \in Seq(Characters) : H[e + (k - 1)] = u \o F[k - 1] /\ (e > 0 => Len(u) > 0)
    BY <1>8
  <2>3. H[e + k] = (u \o F[k - 1]) \o P[k]
    BY <2>1, <2>2, <1>3, <1>4
  <2>4. F[k] = F[k - 1] \o P[k]
    BY <1>8, <1>4
  <2>5. F[k - 1] \in Seq(Characters) /\ P[k] \in Seq(Characters)
    BY <2>1, <1>3, <1>4
  <2> DEFINE g == F[k - 1]
             p == P[k]
  <2>6. (u \o g) \o p = u \o (g \o p)
    <3> HIDE DEF g, p
    <3>1. u \in Seq(Characters) /\ g \in Seq(Characters) /\ p \in Seq(Characters)
      BY <2>5 DEF g, p
    <3> QED
      BY ONLY <3>1, ConcatAssociative
  <2> QED
    BY <2>2, <2>3, <2>4, <2>6
<1>9. Ends(d)
  <2> SUFFICES ASSUME T # {} PROVE FALSE
    <3>1. d \in 1..d
      BY <1>1
    <3> HIDE DEF Ends
    <3> QED
      BY <3>1
  <2>1. PICK n \in T : \A m \in T : n <= m
    <3>1. T \subseteq Nat
      BY <1>1
    <3> HIDE DEF T
    <3> QED
      BY <3>1, LeastNumber
  <2>2. n \in 1..d /\ ~ Ends(n)
    BY <2>1
  <2>3. n # 1
    BY <2>2, <1>7
  <2>4. n - 1 \in 1..d /\ ~ (n <= n - 1)
    BY <2>2, <2>3, <1>1
  <2>5. Ends(n - 1)
    <3>1. n - 1 \notin T
      <4> HIDE DEF T
      <4> QED
        BY <2>4, <2>1
    <3> QED
      BY <3>1, <2>4
  <2> HIDE DEF Ends
  <2> QED
    BY <2>2, <2>3, <2>5, <1>8
<1> QED
  BY <1>5, <1>6, <1>9

LEMMA ReverseShape ==
    ASSUME NEW S, NEW s \in Seq(S)
    PROVE  /\ Len(Reverse(s)) = Len(s)
           /\ \A i \in 1..Len(s) : Reverse(s)[i] = s[Len(s) - i + 1]
           /\ Reverse(s) \in Seq(S)
<1>1. Len(s) \in Nat
  BY LenProperties
<1>2. \A i \in 1..Len(s) : Reverse(s)[i] = s[Len(s) - i + 1]
  BY DEF Reverse
<1>3. \A i \in 1..Len(s) : Len(s) - i + 1 \in 1..Len(s)
  BY <1>1
<1>4. Reverse(s) \in [1..Len(s) -> S]
  BY <1>3, ElementOfSeq DEF Reverse
<1>5. Reverse(s) \in Seq(S)
  BY <1>1, <1>4, IsASeq
<1>6. Len(Reverse(s)) = Len(s)
  BY <1>1, <1>4, <1>5, LenProperties
<1> QED
  BY <1>2, <1>5, <1>6

LEMMA SuffixOfConcat ==
    ASSUME NEW S, NEW u \in Seq(S), NEW s \in Seq(S)
    PROVE  IsSuffix(s, u \o s)
<1> DEFINE t == u \o s
           n == Len(s)
           m == Len(u)
           R == Reverse(s)
           Q == Reverse(t)
<1>1. n \in Nat /\ m \in Nat /\ t \in Seq(S) /\ Len(t) = m + n
  BY LenProperties, ConcatProperties
<1>2. \A i \in 1..n : t[m + i] = s[i]
  <2> TAKE i \in 1..n
  <2>1. m + i \in 1..Len(t) /\ ~ (m + i <= m) /\ (m + i) - m = i
    BY <1>1
  <2> QED
    BY <2>1, ConcatProperties
<1> HIDE DEF t
<1>3. /\ R \in Seq(S) /\ Len(R) = n /\ \A i \in 1..n : R[i] = s[n - i + 1]
      /\ Q \in Seq(S) /\ Len(Q) = m + n /\ \A i \in 1..(m + n) : Q[i] = t[(m + n) - i + 1]
  <2>1. R \in Seq(S) /\ Len(R) = n /\ \A i \in 1..n : R[i] = s[n - i + 1]
    BY ReverseShape
  <2>2. Q \in Seq(S) /\ Len(Q) = Len(t) /\ \A i \in 1..Len(t) : Q[i] = t[Len(t) - i + 1]
    BY <1>1, ReverseShape
  <2> QED
    BY <2>1, <2>2, <1>1
<1>4. ASSUME NEW i \in 1..n PROVE R[i] = Q[i]
  <2>1. n - i + 1 \in 1..n /\ i \in 1..(m + n) /\ (m + n) - i + 1 = m + (n - i + 1)
    BY <1>1
  <2> QED
    BY <2>1, <1>2, <1>3
<1> HIDE DEF R, Q, n, m
<1>5. SubSeq(R, 1, n) = [i \in 1..n |-> R[i]] /\ SubSeq(Q, 1, n) = [i \in 1..n |-> Q[i]]
  BY <1>1, <1>3
<1>6. IsPrefix(R, Q)
  BY <1>1, <1>3, <1>4, <1>5 DEF IsPrefix
<1> QED
  BY <1>6 DEF IsSuffix, R, Q, t

LEMMA SuffixIsNotLonger ==
    ASSUME NEW S, NEW s \in Seq(S), NEW t \in Seq(S), IsSuffix(s, t)
    PROVE  Len(s) <= Len(t)
BY ReverseShape DEF IsSuffix, IsPrefix

\* The network of a zone, and an address, in characters.
LEMMA NumbersShape ==
    ASSUME NEW numbers \in Subnets \cup Addresses
    PROVE  /\ numbers \in Seq(Labels) /\ numbers # <<>> /\ Len(numbers) \in 1..Depth
           /\ numbers \in Addresses => Len(numbers) = Depth
           /\ ArpaName(numbers) \in Seq(Characters) /\ Len(ArpaName(numbers)) \in Nat
<1>1. PICK d \in 1..Depth : numbers \in [1..d -> Labels] /\ (numbers \in Addresses => d = Depth)
  <2>1. CASE numbers \in Addresses
    <3>1. Depth \in 1..Depth
      BY ReversePtrAssumption
    <3> QED
      BY <2>1, <3>1 DEF Addresses
  <2>2. CASE numbers \notin Addresses
    <3>1. PICK d \in 1..Depth : numbers \in [1..d -> Range(Lower)]
      BY <2>2 DEF Subnets
    <3>2. Range(Lower) \subseteq Labels
      BY ReversePtrAssumption DEF Range
    <3> QED
      BY <2>2, <3>1, <3>2
  <2> QED
    BY <2>1, <2>2
<1>2. d \in Nat
  BY ReversePtrAssumption
<1>3. numbers \in Seq(Labels) /\ Len(numbers) = d
  BY <1>1, <1>2, IsASeq, LenProperties
<1>4. numbers # <<>>
  BY <1>1, <1>3, EmptySeq
<1>5. ArpaName(numbers) \in Seq(Characters)
  <2>1. Parts(numbers) \in Seq(Seq(Characters)) /\ Len(Parts(numbers)) = d
    BY <1>3, PartsShape
  <2>2. d \in 1..Len(Parts(numbers))
    BY <2>1, <1>1, <1>2
  <2> QED
    BY <2>1, <2>2, <1>3, <1>4, ArpaNameIsJoined, JoinedType
<1> QED
  BY <1>1, <1>3, <1>4, <1>5, LenProperties

-----------------------------------------------------------------------------
(* The choice of a zone.                                                   *)

\* A zone whose network has the address is found by name.
LEMMA CoveringZoneMatches ==
    ASSUME NEW z \in Subnets, NEW a \in Addresses, a = Lowered(a), Covers(z, a)
    PROVE  IsSuffix(ArpaName(z), ArpaName(a))
<1>1. /\ z \in Seq(Labels) /\ z # <<>> /\ a \in Seq(Labels)
      /\ ArpaName(z) \in Seq(Characters)
  BY NumbersShape
<1>2. PICK u \in Seq(Characters) : ArpaName(a) = u \o ArpaName(z)
  BY <1>1, PrefixEndsName DEF Covers
<1> QED
  BY <1>1, <1>2, SuffixOfConcat

\* Of two networks with the address, the smaller one has the longer name.
LEMMA SmallerIsLonger ==
    ASSUME NEW z \in Subnets, NEW y \in Subnets, NEW a \in Addresses, a = Lowered(a),
           Covers(z, a), Covers(y, a), Len(z) < Len(y)
    PROVE  Len(ArpaName(z)) < Len(ArpaName(y))
<1>1. /\ z \in Seq(Labels) /\ y \in Seq(Labels) /\ z # <<>>
      /\ ArpaName(z) \in Seq(Characters) /\ Len(ArpaName(z)) \in Nat
  BY NumbersShape
<1>2. IsPrefix(z, y)
  <2> DEFINE m == Len(z)
             n == Len(y)
  <2>1. m \in Nat /\ n \in Nat /\ m <= n
    BY <1>1, LenProperties
  <2>2. a \in Seq(Labels) /\ m <= Len(a) /\ n <= Len(a) /\ Len(a) \in Nat
    BY NumbersShape, LenProperties DEF Covers, IsPrefix
  <2>3. \A i \in 1..m : z[i] = a[i]
    <3>1. SubSeq(z, 1, m) = SubSeq(a, 1, m)
      BY DEF Covers, IsPrefix
    <3>2. \A i \in 1..m : SubSeq(z, 1, m)[i] = z[i] /\ SubSeq(a, 1, m)[i] = a[i]
      BY <1>1, <2>1, <2>2
    <3> QED
      BY <3>1, <3>2
  <2>4. \A i \in 1..n : y[i] = a[i]
    <3>1. SubSeq(y, 1, n) = SubSeq(a, 1, n)
      BY DEF Covers, IsPrefix
    <3>2. \A i \in 1..n : SubSeq(y, 1, n)[i] = y[i] /\ SubSeq(a, 1, n)[i] = a[i]
      BY <1>1, <2>1, <2>2
    <3> QED
      BY <3>1, <3>2
  <2>5. SubSeq(z, 1, m) = [i \in 1..m |-> z[i]] /\ SubSeq(y, 1, m) = [i \in 1..m |-> y[i]]
    BY <1>1, <2>1
  <2>6. \A i \in 1..m : z[i] = y[i]
    BY <2>1, <2>3, <2>4
  <2> QED
    BY <2>1, <2>5, <2>6 DEF IsPrefix
<1>3. PICK u \in Seq(Characters) : ArpaName(y) = u \o ArpaName(z) /\ Len(u) > 0
  BY <1>1, <1>2, PrefixEndsName
<1>4. Len(u) \in Nat /\ Len(ArpaName(y)) = Len(u) + Len(ArpaName(z))
  BY <1>1, <1>3, LenProperties, ConcatProperties
<1> QED
  BY <1>1, <1>3, <1>4

\* Some zone is the best when one matches.
LEMMA BestExists ==
    ASSUME NEW a \in Addresses, NEW zones \in SUBSET Subnets, NEW z \in zones,
           IsSuffix(ArpaName(z), ArpaName(a))
    PROVE  FindBestReverseZone(a, zones) # {}
<1> DEFINE matching == {y \in zones : IsSuffix(ArpaName(y), ArpaName(a))}
           lengths == {Len(ArpaName(y)) : y \in matching}
           bound == Len(ArpaName(a))
<1>1. bound \in Nat /\ ArpaName(a) \in Seq(Characters)
  BY NumbersShape
<1>2. ASSUME NEW y \in matching PROVE Len(ArpaName(y)) \in 0..bound
  <2>1. y \in Subnets /\ IsSuffix(ArpaName(y), ArpaName(a))
    OBVIOUS
  <2>2. ArpaName(y) \in Seq(Characters) /\ Len(ArpaName(y)) \in Nat
    BY <2>1, NumbersShape
  <2>3. Len(ArpaName(y)) <= bound
    BY <2>1, <2>2, <1>1, SuffixIsNotLonger
  <2> QED
    BY <2>2, <2>3, <1>1
<1>3. lengths \subseteq 0..bound /\ lengths # {}
  <2>1. z \in matching
    OBVIOUS
  <2> HIDE DEF matching
  <2> QED
    BY <1>2, <2>1
<1>4. PICK k \in lengths : \A m \in lengths : m <= k
  <2> HIDE DEF lengths, bound
  <2> QED
    BY <1>1, <1>3, GreatestNumber
<1>5. PICK x \in matching : k = Len(ArpaName(x))
  BY <1>4
<1>6. \A y \in matching : Len(ArpaName(x)) >= Len(ArpaName(y))
  <2> TAKE y \in matching
  <2>1. Len(ArpaName(y)) \in lengths
    OBVIOUS
  <2>2. Len(ArpaName(y)) <= k
    BY <2>1, <1>4
  <2>3. Len(ArpaName(y)) \in Nat /\ k \in Nat
    BY <1>2, <1>5
  <2> QED
    BY <2>2, <2>3, <1>5
<1> QED
  BY <1>5, <1>6 DEF FindBestReverseZone

\* The best name is that of the smallest network, if that has the address at all.
LEMMA BestIsDeepest ==
    ASSUME NEW a \in Addresses, NEW zones \in SUBSET Subnets, a = Lowered(a),
           NEW z \in FindBestReverseZone(a, zones), Covers(z, a)
    PROVE  z \in Deepest(a, zones)
<1>1. z \in zones /\ z \in Subnets
  BY DEF FindBestReverseZone
<1>2. ASSUME NEW y \in zones, Covers(y, a) PROVE Len(y) <= Len(z)
  <2>1. y \in Subnets /\ IsSuffix(ArpaName(y), ArpaName(a))
    BY <1>2, CoveringZoneMatches
  <2>2. Len(ArpaName(z)) >= Len(ArpaName(y))
    BY <2>1 DEF FindBestReverseZone
  <2>3. /\ Len(ArpaName(z)) \in Nat /\ Len(ArpaName(y)) \in Nat
        /\ Len(z) \in Nat /\ Len(y) \in Nat
    BY <1>1, <2>1, NumbersShape, LenProperties
  <2>4. ~ (Len(z) < Len(y))
    BY <1>1, <2>1, <2>2, <2>3, <1>2, SmallerIsLonger
  <2> QED
    BY <2>3, <2>4
<1> QED
  BY <1>1, <1>2 DEF Deepest

LEMMA SuffixHasRest ==
    ASSUME NEW S, NEW s \in Seq(S), NEW t \in Seq(S), IsSuffix(s, t)
    PROVE  \E u \in Seq(S) : t = u \o s
<1> DEFINE n == Len(s)
           m == Len(t) - Len(s)
           R == Reverse(s)
           Q == Reverse(t)
           u == SubSeq(t, 1, m)
           v == SubSeq(t, m + 1, m + n)
<1>1. n \in Nat /\ m \in Nat /\ Len(t) = m + n
  BY LenProperties, SuffixIsNotLonger
<1>2. /\ R \in Seq(S) /\ Len(R) = n /\ \A i \in 1..n : R[i] = s[n - i + 1]
      /\ Q \in Seq(S) /\ Len(Q) = m + n /\ \A i \in 1..(m + n) : Q[i] = t[(m + n) - i + 1]
  <2>1. R \in Seq(S) /\ Len(R) = n /\ \A i \in 1..n : R[i] = s[n - i + 1]
    BY ReverseShape
  <2>2. Q \in Seq(S) /\ Len(Q) = Len(t) /\ \A i \in 1..Len(t) : Q[i] = t[Len(t) - i + 1]
    BY ReverseShape
  <2> QED
    BY <2>1, <2>2, <1>1
<1>3. IsPrefix(R, Q)
  BY DEF IsSuffix
<1> HIDE DEF R, Q
<1>4. \A i \in 1..n : R[i] = Q[i]
  <2>1. SubSeq(R, 1, n) = SubSeq(Q, 1, n)
    BY <1>2, <1>3 DEF IsPrefix
  <2>2. SubSeq(R, 1, n) = [i \in 1..n |-> R[i]] /\ SubSeq(Q, 1, n) = [i \in 1..n |-> Q[i]]
    BY <1>1, <1>2
  <2> QED
    BY <2>1, <2>2
<1>5. \A i \in 1..n : t[m + i] = s[i]
  <2> TAKE i \in 1..n
  <2>1. n - i + 1 \in 1..n /\ n - i + 1 \in 1..(m + n) /\ n - (n - i + 1) + 1 = i
        /\ (m + n) - (n - i + 1) + 1 = m + i
    BY <1>1
  <2> QED
    BY <2>1, <1>2, <1>4
<1>6. u \in Seq(S) /\ Len(u) = m /\ \A i \in 1..m : u[i] = t[i]
  BY <1>1, SubSeqProperties
<1>7. u \o s \in Seq(S) /\ Len(u \o s) = m + n
      /\ \A i \in 1..(m + n) : (u \o s)[i] = IF i <= m THEN u[i] ELSE s[i - m]
  BY <1>1, <1>6, ConcatProperties
<1>8. \A i \in 1..(m + n) : t[i] = (u \o s)[i]
  <2> TAKE i \in 1..(m + n)
  <2>1. CASE i <= m
    <3>1. i \in 1..m
      BY <2>1, <1>1
    <3> QED
      BY <3>1, <2>1, <1>6, <1>7
  <2>2. CASE ~ (i <= m)
    <3>1. i - m \in 1..n /\ m + (i - m) = i
      BY <2>2, <1>1
    <3> QED
      BY <3>1, <2>2, <1>5, <1>7
  <2> QED
    BY <2>1, <2>2
<1> HIDE DEF u
<1>9. t = u \o s
  BY <1>1, <1>7, <1>8, SeqEqual
<1> QED
  BY <1>6, <1>9

LEMMA SameLengthSamePrefix ==
    ASSUME NEW S, NEW s \in Seq(S), NEW t \in Seq(S), NEW w \in Seq(S),
           IsPrefix(s, w), IsPrefix(t, w), Len(s) = Len(t)
    PROVE  s = t
<1>1. SubSeq(s, 1, Len(s)) = SubSeq(t, 1, Len(t))
  BY DEF IsPrefix
<1> QED
  BY <1>1, SubSeqFull

LEMMA ConcatCancels ==
    ASSUME NEW S, NEW x \in Seq(S), NEW y \in Seq(S), NEW s \in Seq(S), NEW t \in Seq(S),
           x \o s = y \o t, Len(s) = Len(t)
    PROVE  s = t /\ x = y
<1> DEFINE c == x \o s
           n == Len(s)
           m == Len(x)
<1>1. n \in Nat /\ m \in Nat /\ Len(y) \in Nat
  BY LenProperties
<1>2. Len(c) = m + n /\ \A i \in 1..(m + n) : c[i] = IF i <= m THEN x[i] ELSE s[i - m]
  BY ConcatProperties
<1>3. Len(c) = Len(y) + n /\ \A i \in 1..(Len(y) + n) : c[i] = IF i <= Len(y) THEN y[i] ELSE t[i - Len(y)]
  BY ConcatProperties
<1> HIDE DEF c
<1>4. Len(y) = m
  BY <1>1, <1>2, <1>3
<1>5. \A i \in 1..m : x[i] = y[i]
  BY <1>1, <1>2, <1>3, <1>4
<1>6. \A i \in 1..n : s[i] = t[i]
  <2> TAKE i \in 1..n
  <2>1. m + i \in 1..(m + n) /\ ~ (m + i <= m) /\ (m + i) - m = i
    BY <1>1
  <2> QED
    BY <2>1, <1>2, <1>3, <1>4
<1> QED
  BY <1>4, <1>5, <1>6, SeqEqual

\* When all numbers are written with as many digits, names end alike only for networks
\* that have the address.
LEMMA MatchingZoneCovers ==
    ASSUME \A l, m \in Labels : Len(l) = Len(m),
           NEW z \in Subnets, NEW a \in Addresses, a = Lowered(a),
           IsSuffix(ArpaName(z), ArpaName(a))
    PROVE  Covers(z, a)
<1> DEFINE d == Len(z)
           e == Depth - Len(z)
           P == Parts(z)
           Q == Parts(a)
           F == Joined(P)
           H == Joined(Q)
           Ends(k) == \E u \in Seq(Characters) : H[e + k] = u \o F[k]
           T == {k \in 1..d : ~ Ends(k)}
<1>1. /\ z \in Seq(Labels) /\ a \in Seq(Labels) /\ z # <<>> /\ a # <<>>
      /\ ArpaName(z) \in Seq(Characters) /\ ArpaName(a) \in Seq(Characters)
      /\ Len(z) \in 1..Depth /\ Len(a) = Depth
  BY NumbersShape
<1>2. d \in Nat \ {0} /\ e \in Nat /\ Depth = d + e
  BY <1>1, ReversePtrAssumption
<1>3. /\ P \in Seq(Seq(Characters)) /\ Q \in Seq(Seq(Characters)) /\ Len(P) = d /\ Len(Q) = d + e
      /\ \A k \in 1..d : P[k] \in Seq(Characters)
      /\ \A k \in 1..(d + e) : Q[k] \in Seq(Characters)
  BY <1>1, <1>2, PartsShape, ElementOfSeq
<1>4. ASSUME NEW k \in 1..d
      PROVE  /\ e + k \in 1..(d + e) /\ d - k + 1 \in 1..d
             /\ P[k] = Append(z[d - k + 1], Dot) /\ Q[e + k] = Append(a[d - k + 1], Dot)
             /\ z[d - k + 1] \in Seq(Characters) /\ a[d - k + 1] \in Seq(Characters)
             /\ Len(Q[e + k]) = Len(P[k])
  <2>1. e + k \in 1..(d + e) /\ d - k + 1 \in 1..d /\ d - k + 1 \in 1..(d + e)
        /\ (d + e) - (e + k) + 1 = d - k + 1
    BY <1>2
  <2>2. P[k] = Append(z[d - k + 1], Dot) /\ z[d - k + 1] \in Seq(Characters)
    BY <1>1, PartsShape
  <2>3. Q[e + k] = Append(a[d - k + 1], Dot) /\ a[d - k + 1] \in Seq(Characters)
    <3>1. \A i \in 1..(d + e) :
             /\ Parts(a)[i] = Append(a[(d + e) - i + 1], Dot)
             /\ a[(d + e) - i + 1] \in Seq(Characters)
      BY <1>1, <1>2, PartsShape
    <3> HIDE DEF d, e
    <3>2. /\ Parts(a)[e + k] = Append(a[(d + e) - (e + k) + 1], Dot)
          /\ a[(d + e) - (e + k) + 1] \in Seq(Characters)
      BY <2>1, <3>1
    <3> QED
      BY <2>1, <3>2
  <2>4. z[d - k + 1] \in Labels /\ a[d - k + 1] \in Labels
    BY <2>1, <1>1, <1>2, ElementOfSeq
  <2>5. Dot \in Characters
    BY DEF Characters
  <2>6. Len(Q[e + k]) = Len(P[k])
    BY <2>2, <2>3, <2>4, <2>5, AppendProperties
  <2> QED
    BY <2>1, <2>2, <2>3, <2>6
<1>5. /\ \A k \in 1..d : F[k] \in Seq(Characters)
      /\ \A k \in 1..(d + e) : H[k] \in Seq(Characters)
      /\ F[1] = P[1] /\ H[1] = Q[1]
      /\ \A k \in 1..d : k # 1 => F[k] = F[k - 1] \o P[k]
      /\ \A k \in 1..(d + e) : k # 1 => H[k] = H[k - 1] \o Q[k]
  <2>1. 1 \in 1..d /\ 1 \in 1..(d + e)
    BY <1>2
  <2>2. (\A k \in 1..d : F[k] \in Seq(Characters)) /\ \A k \in 1..(d + e) : H[k] \in Seq(Characters)
    BY <1>3, JoinedType
  <2>3. F[1] = P[1] /\ \A k \in 1..d : k # 1 => F[k] = F[k - 1] \o P[k]
    BY <1>3, <2>1, JoinedSteps
  <2>4. H[1] = Q[1] /\ \A k \in 1..(d + e) : k # 1 => H[k] = H[k - 1] \o Q[k]
    BY <1>3, <2>1, JoinedSteps
  <2> QED
    BY <2>2, <2>3, <2>4
<1>6. ArpaName(z) = F[d] /\ ArpaName(a) = H[e + d]
  BY <1>1, <1>2, ArpaNameIsJoined
<1> HIDE DEF F, H, P, Q, e, d
<1>7. Ends(d)
  <2>1. PICK u \in Seq(Characters) : ArpaName(a) = u \o ArpaName(z)
    BY <1>1, SuffixHasRest
  <2> QED
    BY <2>1, <1>6
<1>8. ASSUME NEW k \in 1..d, Ends(k)
      PROVE  Q[e + k] = P[k] /\ (k # 1 => Ends(k - 1))
  <2> DEFINE p == P[k]
             q == Q[e + k]
  <2>1. PICK u \in Seq(Characters) : H[e + k] = u \o F[k]
    BY <1>8
  <2>2. e + k \in 1..(d + e) /\ q \in Seq(Characters) /\ p \in Seq(Characters) /\ Len(q) = Len(p)
    BY <1>3, <1>4
  <2>3. CASE k = 1 /\ e = 0
    <3>1. H[e + k] = q /\ F[k] = p
      BY <2>3, <1>5
    <3> HIDE DEF p, q
    <3>2. <<>> \in Seq(Characters) /\ <<>> \o q = q
      BY <2>2, ConcatEmptySeq
    <3>3. <<>> \o q = u \o p
      BY <3>1, <3>2, <2>1
    <3>4. q = p
      BY <3>2, <3>3, <2>2, ConcatCancels
    <3> QED
      BY <3>4, <2>3 DEF p, q
  <2>4. CASE k = 1 /\ e # 0
    <3>1. e + k # 1 /\ (e + k) - 1 = e /\ e \in 1..(d + e)
      BY <2>4, <1>2
    <3> DEFINE h == H[e]
    <3>2. h \o q = u \o p /\ h \in Seq(Characters)
      BY <3>1, <2>1, <2>2, <2>4, <1>5
    <3> HIDE DEF p, q, h
    <3>3. q = p
      BY <3>2, <2>2, ConcatCancels
    <3> QED
      BY <3>3, <2>4 DEF p, q
  <2>5. CASE k # 1
    <3>1. k - 1 \in 1..d /\ e + k # 1 /\ (e + k) - 1 = e + (k - 1) /\ e + (k - 1) \in 1..(d + e)
      BY <2>5, <1>2
    <3> DEFINE f == F[k - 1]
               h == H[e + (k - 1)]
    <3>2. f \in Seq(Characters) /\ h \in Seq(Characters)
      BY <3>1, <1>5
    <3>3. h \o q = u \o (f \o p)
      BY <3>1, <2>1, <2>2, <2>5, <1>5
    <3> HIDE DEF f, h, p, q
    <3>4. u \o (f \o p) = (u \o f) \o p
      <4>1. u \in Seq(Characters) /\ f \in Seq(Characters) /\ p \in Seq(Characters)
        BY <3>2, <2>2
      <4> QED
        BY ONLY <4>1, ConcatAssociative
    <3>5. u \o f \in Seq(Characters)
      BY <3>2, ConcatProperties
    <3>6. q = p /\ h = u \o f
      <4>1. h \o q = (u \o f) \o p
        BY <3>3, <3>4
      <4> DEFINE v == u \o f
      <4>2. v \in Seq(Characters) /\ h \o q = v \o p
        BY <4>1, <3>5
      <4> HIDE DEF v
      <4>3. q = p /\ h = v
        BY <4>2, <3>2, <2>2, ConcatCancels
      <4> QED
        BY <4>3 DEF v
    <3> QED
      BY <3>6 DEF f, h, p, q
  <2> QED
    BY <2>3, <2>4, <2>5
<1>9. T = {}
  <2> SUFFICES ASSUME T # {} PROVE FALSE
    OBVIOUS
  <2>1. PICK n \in T : \A m \in T : m <= n
    <3>1. T \subseteq 0..d /\ d \in Nat
      BY <1>2
    <3> HIDE DEF T
    <3> QED
      BY <3>1, GreatestNumber
  <2>2. n \in 1..d /\ ~ Ends(n)
    BY <2>1
  <2> HIDE DEF Ends
  <2>3. n # d
    BY <2>2, <1>7
  <2>4. n + 1 \in 1..d /\ ~ (n + 1 <= n) /\ n + 1 # 1 /\ (n + 1) - 1 = n
    BY <2>2, <2>3, <1>2
  <2>5. Ends(n + 1)
    <3>1. n + 1 \notin T
      <4> HIDE DEF T
      <4> QED
        BY <2>4, <2>1
    <3> QED
      BY <3>1, <2>4
  <2> QED
    BY <2>2, <2>4, <2>5, <1>8
<1>10. \A i \in 1..d : z[i] = a[i]
  <2> TAKE i \in 1..d
  <2> DEFINE j == d - i + 1
             l == a[i]
             m == z[i]
  <2>1. j \in 1..d /\ d - j + 1 = i
    BY <1>2
  <2> HIDE DEF j
  <2>2. Q[e + j] = P[j]
    <3>1. Ends(j)
      BY <2>1, <1>9
    <3> HIDE DEF Ends
    <3> QED
      BY <2>1, <3>1, <1>8
  <2>3. Append(l, Dot) = Append(m, Dot) /\ l \in Seq(Characters) /\ m \in Seq(Characters)
    <3>1. /\ P[j] = Append(z[d - j + 1], Dot) /\ Q[e + j] = Append(a[d - j + 1], Dot)
          /\ z[d - j + 1] \in Seq(Characters) /\ a[d - j + 1] \in Seq(Characters)
      BY ONLY <2>1, <1>4
    <3>2. Append(a[d - j + 1], Dot) = Append(z[d - j + 1], Dot)
      BY <3>1, <2>2
    <3> QED
      BY <3>1, <3>2, <2>1
  <2>4. Dot \in Characters
    BY DEF Characters
  <2> HIDE DEF l, m
  <2>5. l = m
    BY <2>3, <2>4, AppendInjective
  <2> QED
    BY <2>5 DEF l, m
<1>11. SubSeq(z, 1, d) = [i \in 1..d |-> z[i]] /\ SubSeq(a, 1, d) = [i \in 1..d |-> a[i]] /\ d <= Len(a)
  BY <1>1, <1>2 DEF d
<1> QED
  BY <1>10, <1>11 DEF Covers, IsPrefix, d

\* Where all numbers are written with as many digits, as the nibbles of IPv6 addresses are,
\* and the address was typed in lower case, comparing the names as strings chooses exactly
\* the zone of the smallest network.
THEOREM EqualDigitsAreExact ==
    ASSUME \A l, m \in Labels : Len(l) = Len(m),
           NEW a \in Addresses, a = Lowered(a), NEW zones \in SUBSET Subnets
    PROVE  FindBestReverseZone(a, zones) = Deepest(a, zones)
<1>1. ASSUME NEW z \in FindBestReverseZone(a, zones) PROVE z \in Deepest(a, zones)
  <2>1. z \in Subnets /\ IsSuffix(ArpaName(z), ArpaName(a))
    BY DEF FindBestReverseZone
  <2>2. Covers(z, a)
    BY <2>1, MatchingZoneCovers
  <2> QED
    BY <2>2, BestIsDeepest
<1>2. ASSUME NEW z \in Deepest(a, zones) PROVE z \in FindBestReverseZone(a, zones)
  <2>1. z \in zones /\ z \in Subnets /\ Covers(z, a) /\ z \in Seq(Labels)
    BY NumbersShape DEF Deepest
  <2>2. IsSuffix(ArpaName(z), ArpaName(a))
    BY <2>1, CoveringZoneMatches
  <2>3. FindBestReverseZone(a, zones) # {}
    BY <2>1, <2>2, BestExists
  <2>4. PICK b \in FindBestReverseZone(a, zones) : TRUE
    BY <2>3
  <2>5. b \in Deepest(a, zones)
    BY <1>1
  <2>6. b \in zones /\ b \in Subnets /\ Covers(b, a) /\ b \in Seq(Labels)
    BY <2>5, NumbersShape DEF Deepest
  <2>7. Len(b) <= Len(z) /\ Len(z) <= Len(b) /\ Len(b) \in Nat /\ Len(z) \in Nat
    BY <2>1, <2>5, <2>6, LenProperties DEF Deepest
  <2>8. b = z
    <3>1. a \in Seq(Labels) /\ Len(b) = Len(z)
      BY <2>7, NumbersShape
    <3> QED
      BY <3>1, <2>1, <2>6, SameLengthSamePrefix DEF Covers
  <2> QED
    BY <2>4, <2>8
<1> QED
  BY <1>1, <1>2

-----------------------------------------------------------------------------
(* The PTR record of an address.                                           *)

\* The zone asked, and the zones that took a record, were the best of those listed; an
\* address for which there was one is waiting, stored or reported.
PtrInv ==
    /\ PtrTypeOK
    /\ adding # None =>
          /\ adding.address \in DOMAIN settled
          /\ adding.zone \in FindBestReverseZone(adding.address, settled[adding.address])
    /\ \A p \in ptrs :
          /\ p.address \in DOMAIN settled
          /\ p.zone \in FindBestReverseZone(p.address, settled[p.address])
          /\ Covers(p.zone, p.address)
    /\ \A a \in DOMAIN settled :
          a = Lowered(a) /\ Deepest(a, settled[a]) # {} =>
              \/ adding # None /\ adding.address = a
              \/ \E p \in ptrs : p.address = a
              \/ a \in alerts

\* The address record that was added, and the zone its PTR record is to be put in.
LEMMA AddressAddedShape ==
    ASSUME PtrTypeOK, NEW address \in Addresses, AddressAdded(address)
    PROVE  LET zones == IF listed = None THEN {} ELSE listed
               best == FindBestReverseZone(address, zones)
           IN  /\ zones \subseteq Subnets /\ adding = None /\ address \notin DOMAIN settled
               /\ DOMAIN settled' = DOMAIN settled \cup {address}
               /\ settled'[address] = zones
               /\ \A a \in DOMAIN settled : settled'[a] = settled[a]
               /\ best = {} => adding' = None
               /\ best # {} =>
                    /\ adding' \in [address : Addresses, zone : Subnets]
                    /\ adding'.address = address /\ adding'.zone \in best
<1> DEFINE zones == IF listed = None THEN {} ELSE listed
           best == FindBestReverseZone(address, zones)
<1>1. zones \subseteq Subnets
  BY DEF PtrTypeOK
<1>2. /\ adding = None /\ address \notin DOMAIN settled
      /\ adding' = IF best = {} THEN None
                   ELSE [address |-> address, zone |-> CHOOSE z \in best : TRUE]
      /\ settled' = [a \in DOMAIN settled \cup {address} |->
                       IF a = address THEN zones ELSE settled[a]]
  BY DEF AddressAdded
<1>3. best \subseteq zones
  BY DEF FindBestReverseZone
<1> HIDE DEF best, zones
<1>4. ASSUME best # {}
      PROVE  /\ adding' \in [address : Addresses, zone : Subnets]
             /\ adding'.address = address /\ adding'.zone \in best
  <2>1. (CHOOSE z \in best : TRUE) \in best
    BY <1>4
  <2> QED
    BY <2>1, <1>1, <1>2, <1>3, <1>4
<1> QED
  BY <1>1, <1>2, <1>4 DEF best, zones

\* PTR records lie in networks with their address, and the page's state keeps its shape.
THEOREM PtrTypeCorrect == PtrSpec => []PtrTypeOK
<1>1. PtrInit => PtrTypeOK
  BY PageAssumption, ReversePtrAssumption DEF PtrInit, PtrTypeOK
<1>2. PtrTypeOK /\ [PtrNext]_ptrVars => PtrTypeOK'
  <2> SUFFICES ASSUME PtrTypeOK, [PtrNext]_ptrVars PROVE PtrTypeOK'
    OBVIOUS
  <2>1. ASSUME NEW visible \in SUBSET reverse, ZonesListed(visible) PROVE PtrTypeOK'
    BY <2>1 DEF ZonesListed, PtrTypeOK
  <2>2. ASSUME NEW address \in Addresses, AddressAdded(address) PROVE PtrTypeOK'
    <3>1. \A a \in DOMAIN settled' : a \in Addresses /\ settled'[a] \subseteq Subnets
      BY <2>2, AddressAddedShape DEF PtrTypeOK
    <3>2. adding' \in [address : Addresses, zone : Subnets] \cup {None}
      BY <2>2, AddressAddedShape
    <3>3. UNCHANGED <<reverse, listed, ptrs, alerts, changes>>
      BY <2>2 DEF AddressAdded
    <3> QED
      BY <3>1, <3>2, <3>3 DEF PtrTypeOK
  <2>3. CASE PtrCreated
    BY <2>3 DEF PtrCreated, PtrTypeOK
  <2>4. CASE PtrNotCreated
    BY <2>4 DEF PtrNotCreated, PtrTypeOK
  <2>5. ASSUME NEW zone \in Subnets, OthersChange(zone) PROVE PtrTypeOK'
    <3>1. reverse' \subseteq Subnets
      BY <2>5 DEF OthersChange, PtrTypeOK, SymDiff
    <3>2. changes' \in 0..MaxFaults
      BY <2>5, PageAssumption DEF OthersChange, PtrTypeOK
    <3> QED
      BY <2>5, <3>1, <3>2 DEF OthersChange, PtrTypeOK
  <2>6. CASE UNCHANGED ptrVars
    BY <2>6 DEF ptrVars, PtrTypeOK
  <2> QED
    BY <2>1, <2>2, <2>3, <2>4, <2>5, <2>6 DEF PtrNext
<1> QED
  BY <1>1, <1>2, PTL DEF PtrSpec

LEMMA PtrStep ==
    ASSUME PtrInv, PtrTypeOK', [PtrNext]_ptrVars
    PROVE  PtrInv'
<1>1. ASSUME NEW visible \in SUBSET reverse, ZonesListed(visible) PROVE PtrInv'
  BY <1>1 DEF ZonesListed, PtrInv
<1>2. ASSUME NEW address \in Addresses, AddressAdded(address) PROVE PtrInv'
  <2> DEFINE zones == IF listed = None THEN {} ELSE listed
             best == FindBestReverseZone(address, zones)
  <2>1. /\ zones \subseteq Subnets /\ adding = None /\ address \notin DOMAIN settled
        /\ DOMAIN settled' = DOMAIN settled \cup {address}
        /\ settled'[address] = zones
        /\ \A a \in DOMAIN settled : settled'[a] = settled[a]
        /\ best = {} => adding' = None
        /\ best # {} =>
             /\ adding' \in [address : Addresses, zone : Subnets]
             /\ adding'.address = address /\ adding'.zone \in best
    BY <1>2, AddressAddedShape DEF PtrInv
  <2>2. ptrs' = ptrs /\ alerts' = alerts
    BY <1>2 DEF AddressAdded
  <2>3. address = Lowered(address) /\ Deepest(address, zones) # {} => best # {}
    <3> SUFFICES ASSUME address = Lowered(address), NEW z \in Deepest(address, zones)
                 PROVE best # {}
      OBVIOUS
    <3>1. z \in zones /\ z \in Subnets /\ Covers(z, address)
      BY <2>1 DEF Deepest
    <3>2. IsSuffix(ArpaName(z), ArpaName(address))
      BY <3>1, CoveringZoneMatches
    <3> HIDE DEF zones
    <3> QED
      BY <2>1, <3>1, <3>2, BestExists
  <2> HIDE DEF zones, best
  <2>4. adding' # None => /\ adding'.address \in DOMAIN settled'
                          /\ adding'.zone \in FindBestReverseZone(adding'.address, settled'[adding'.address])
    BY <2>1 DEF best
  <2>5. \A p \in ptrs : /\ p.address \in DOMAIN settled'
                        /\ p.zone \in FindBestReverseZone(p.address, settled'[p.address])
                        /\ Covers(p.zone, p.address)
    BY <2>1 DEF PtrInv
  <2>6. ASSUME NEW a \in DOMAIN settled', a = Lowered(a), Deepest(a, settled'[a]) # {}
        PROVE  \/ adding' # None /\ adding'.address = a
               \/ \E p \in ptrs : p.address = a
               \/ a \in alerts
    <3>1. CASE a = address
      <4>1. best # {}
        BY <2>1, <2>3, <2>6, <3>1
      <4> QED
        BY <4>1, <2>1, <3>1, ReversePtrAssumption
    <3>2. CASE a # address
      BY <2>1, <2>6, <3>2 DEF PtrInv
    <3> QED
      BY <3>1, <3>2
  <2> QED
    BY <2>2, <2>4, <2>5, <2>6 DEF PtrInv
<1>3. CASE PtrCreated
  BY <1>3 DEF PtrCreated, PtrInv
<1>4. CASE PtrNotCreated
  BY <1>4 DEF PtrNotCreated, PtrInv
<1>5. ASSUME NEW zone \in Subnets, OthersChange(zone) PROVE PtrInv'
  BY <1>5 DEF OthersChange, PtrInv
<1>6. CASE UNCHANGED ptrVars
  BY <1>6 DEF ptrVars, PtrInv
<1> QED
  BY <1>1, <1>2, <1>3, <1>4, <1>5, <1>6 DEF PtrNext

LEMMA PtrInvHolds == PtrSpec => []PtrInv
<1>1. PtrInit => PtrInv
  <2> SUFFICES ASSUME PtrInit PROVE PtrInv
    OBVIOUS
  <2>1. PtrTypeOK
    BY PageAssumption, ReversePtrAssumption DEF PtrInit, PtrTypeOK
  <2> QED
    BY <2>1 DEF PtrInit, PtrInv
<1>2. PtrInv /\ PtrTypeOK' /\ [PtrNext]_ptrVars => PtrInv'
  BY PtrStep
<1> QED
  BY <1>1, <1>2, PtrTypeCorrect, PTL DEF PtrSpec

\* Whatever the addresses typed in lower case, the zones and what others do to them: the PTR
\* record is not in a wider zone than the list had, and when there is none in the right one
\* a message has said so.
THEOREM PtrIsPlacedOrReported == PtrSpec => []PtrPlacedOrReported
<1>1. PtrInv => PtrPlacedOrReported
  <2> SUFFICES ASSUME PtrInv, NEW a \in DOMAIN settled, a = Lowered(a)
               PROVE  LET fitting == Deepest(a, settled[a])
                          under == {p \in ptrs : p.address = a}
                      IN  /\ \A p \in under : p.zone \in fitting
                          /\ fitting # {} /\ adding = None => under # {} \/ a \in alerts
    BY DEF PtrPlacedOrReported
  <2>1. a \in Addresses /\ settled[a] \subseteq Subnets
    BY DEF PtrInv, PtrTypeOK
  <2>2. ASSUME NEW p \in ptrs, p.address = a PROVE p.zone \in Deepest(a, settled[a])
    <3>1. p.zone \in FindBestReverseZone(a, settled[a]) /\ Covers(p.zone, a)
      BY <2>2 DEF PtrInv
    <3> QED
      BY <3>1, <2>1, BestIsDeepest
  <2>3. Deepest(a, settled[a]) # {} /\ adding = None => (\E p \in ptrs : p.address = a) \/ a \in alerts
    BY DEF PtrInv
  <2> QED
    BY <2>2, <2>3
<1> QED
  BY <1>1, PtrInvHolds, PTL

-----------------------------------------------------------------------------
(* Sequences without one of their elements.                                *)

\* A sequence without one of its elements.
LEMMA RemovedAt ==
    ASSUME NEW S, NEW s \in Seq(S), NEW i \in DOMAIN s
    PROVE  /\ RemoveAt(s, i) \in Seq(S)
           /\ Len(RemoveAt(s, i)) = Len(s) - 1
           /\ \A j \in 1..Len(s) - 1 : RemoveAt(s, i)[j] = IF j < i THEN s[j] ELSE s[j + 1]
<1> DEFINE front == SubSeq(s, 1, i - 1)
           back == SubSeq(s, i + 1, Len(s))
<1>1. Len(s) \in Nat /\ i \in 1..Len(s)
  OBVIOUS
<1>2. front \in Seq(S) /\ Len(front) = i - 1 /\ \A j \in 1..i - 1 : front[j] = s[j]
  BY <1>1
<1>3. back \in Seq(S) /\ Len(back) = Len(s) - i /\ \A j \in 1..Len(s) - i : back[j] = s[i + j]
  BY <1>1
<1> HIDE DEF front, back
<1>4. /\ front \o back \in Seq(S) /\ Len(front \o back) = Len(s) - 1
      /\ \A j \in 1..Len(s) - 1 : (front \o back)[j] = IF j < i THEN s[j] ELSE s[j + 1]
  <2>1. front \o back \in Seq(S) /\ Len(front \o back) = Len(s) - 1
    BY <1>1, <1>2, <1>3
  <2>2. ASSUME NEW j \in 1..Len(s) - 1 PROVE (front \o back)[j] = IF j < i THEN s[j] ELSE s[j + 1]
    <3>1. (front \o back)[j] = IF j <= i - 1 THEN front[j] ELSE back[j - (i - 1)]
      <4>1. Len(front) = i - 1 /\ j \in 1..Len(front) + Len(back)
        BY <1>1, <1>2, <1>3
      <4>2. front \in Seq(S) /\ back \in Seq(S)
        BY <1>2, <1>3
      <4>3. \A k \in 1..Len(front) + Len(back) :
              (front \o back)[k] = IF k <= Len(front) THEN front[k] ELSE back[k - Len(front)]
        BY <4>2, ConcatProperties, Zenon
      <4> QED BY <4>1, <4>3
    <3>2. CASE j < i
      BY <1>1, <1>2, <3>1, <3>2
    <3>3. CASE ~(j < i)
      <4>1. j - (i - 1) \in 1..Len(s) - i /\ i + (j - (i - 1)) = j + 1 /\ ~(j <= i - 1)
        BY <1>1, <3>3
      <4> QED BY <1>3, <3>1, <3>3, <4>1
    <3> QED BY <3>2, <3>3
  <2> QED BY <2>1, <2>2
<1> QED BY <1>4 DEF RemoveAt, front, back

\* It has the same elements, but for the one taken out.
LEMMA RemovedKeeps ==
    ASSUME NEW S, NEW s \in Seq(S), NEW i \in DOMAIN s
    PROVE  /\ \A j \in DOMAIN s : j # i => \E k \in DOMAIN RemoveAt(s, i) : RemoveAt(s, i)[k] = s[j]
           /\ \A k \in DOMAIN RemoveAt(s, i) : \E j \in DOMAIN s : RemoveAt(s, i)[k] = s[j]
<1> DEFINE t == RemoveAt(s, i)
<1>1. /\ t \in Seq(S) /\ Len(t) = Len(s) - 1 /\ DOMAIN s = 1..Len(s) /\ DOMAIN t = 1..Len(s) - 1
      /\ Len(s) \in Nat
      /\ \A j \in 1..Len(s) - 1 : t[j] = IF j < i THEN s[j] ELSE s[j + 1]
  BY RemovedAt
<1> HIDE DEF t
<1>2. ASSUME NEW j \in DOMAIN s, j # i PROVE \E k \in DOMAIN t : t[k] = s[j]
  <2>1. CASE j < i
    BY <1>1, <2>1
  <2>2. CASE j > i
    <3>1. j - 1 \in DOMAIN t /\ t[j - 1] = s[j]
      BY <1>1, <2>2
    <3> QED BY <3>1
  <2> QED BY <1>1, <1>2, <2>1, <2>2
<1>3. ASSUME NEW k \in DOMAIN t PROVE \E j \in DOMAIN s : t[k] = s[j]
  <2>1. CASE k < i
    BY <1>1, <2>1
  <2>2. CASE ~(k < i)
    <3>1. k + 1 \in DOMAIN s /\ t[k] = s[k + 1]
      BY <1>1, <2>2
    <3> QED BY <3>1
  <2> QED BY <2>1, <2>2
<1> QED BY <1>2, <1>3 DEF t

\* Two places of a sequence without one of its elements were two places of it.
LEMMA RemovedApart ==
    ASSUME NEW S, NEW s \in Seq(S), NEW i \in DOMAIN s
    PROVE  /\ \A k \in DOMAIN RemoveAt(s, i) :
                \E a \in DOMAIN s : a # i /\ RemoveAt(s, i)[k] = s[a]
           /\ \A k, l \in DOMAIN RemoveAt(s, i) : k # l =>
                \E a, b \in DOMAIN s :
                    a # b /\ a # i /\ b # i /\ RemoveAt(s, i)[k] = s[a] /\ RemoveAt(s, i)[l] = s[b]
<1> DEFINE t == RemoveAt(s, i)
           at(k) == IF k < i THEN k ELSE k + 1
<1>1. t \in Seq(S) /\ Len(t) = Len(s) - 1 /\ \A j \in 1..Len(s) - 1 : t[j] = IF j < i THEN s[j] ELSE s[j + 1]
  BY RemovedAt
<1>2. DOMAIN t = 1..Len(s) - 1 /\ DOMAIN s = 1..Len(s) /\ Len(s) \in Nat
  BY <1>1, LenProperties
<1> HIDE DEF t
<1>3. \A k \in DOMAIN t : at(k) \in DOMAIN s /\ at(k) # i /\ t[k] = s[at(k)]
  BY <1>1, <1>2
<1>4. \A k, l \in DOMAIN t : k # l => at(k) # at(l)
  BY <1>1, <1>2
<1> HIDE DEF at
<1> QED BY <1>3, <1>4 DEF t

-----------------------------------------------------------------------------
(* The pages that show a table.                                            *)

USE TablePageAssumption

\* A load of what the page was asked for last is on its way, or will be.
LoadComes ==
    \/ \E i \in DOMAIN sent : sent[i].op = "load" /\ sent[i].q = chosen
    \/ \E i \in DOMAIN answers : Reloads(answers[i].call) /\ answers[i].status = "ok"

\* The rows once the answer was taken.
After(rows, a) == IF Loaded(a) THEN a.rows ELSE Applied(rows, a.call)

\* From the k-th answer, if it is of a load, or from the rows shown now, the answers lead,
\* taken in order, through these views to what the server holds.
LeadsBy(k, views) ==
    /\ k > 0 => Loaded(answers[k])
    /\ views[k] = IF k = 0 THEN shown ELSE answers[k].rows
    /\ \A i \in (k + 1)..Len(answers) : views[i] = After(views[i - 1], answers[i])
    /\ views[Len(answers)] = table[chosen]

AnswersLead == \E k \in 0..Len(answers), views \in [0..Len(answers) -> Tables] : LeadsBy(k, views)

Orderly == \A i \in DOMAIN answers : answers[i].status = "ok" /\ answers[i].call.q = chosen

Converges == doubts = {} /\ Orderly => LoadComes \/ AnswersLead

\* What was loaded holds, unless it is known to be behind.
Fresh ==
    \A i \in DOMAIN answers :
        Loaded(answers[i]) /\ ~answers[i].behind => answers[i].rows = table[answers[i].call.q]

TableInv == TableTypeOK /\ FlagsFollowCalls /\ Fresh /\ Converges

\* A call is sent.
LEMMA SentShape ==
    ASSUME NEW S, NEW s \in Seq(S), NEW x \in S, NEW t, t = Append(s, x)
    PROVE  /\ t \in Seq(S) /\ Len(t) = Len(s) + 1 /\ DOMAIN t = 1..Len(s) + 1 /\ DOMAIN s = 1..Len(s)
           /\ Len(s) \in Nat /\ t[Len(s) + 1] = x
           /\ \A i \in DOMAIN s : i \in DOMAIN t /\ t[i] = s[i]
BY AppendProperties

\* What the user does sends a call, and what it turns on is of that call.
LEMMA UserShape ==
    ASSUME TableTypeOK, UserStep
    PROVE  /\ \E c \in Calls :
                /\ sent' = Append(sent, c)
                /\ isLoading' => isLoading \/ c.op = "load"
                /\ busy' \subseteq busy \cup {c.via} /\ busy' \subseteq Edits
                /\ chosen' # chosen => c.op = "load" /\ c.q = chosen'
           /\ chosen' \in Questions /\ isLoading' \in BOOLEAN
           /\ edits' \in 0..MaxEdits
           /\ UNCHANGED <<kind, table, shown, answers, faults, doubts>>
<1>1. ASSUME NEW q \in Questions, Ask(q)
      PROVE  /\ Load(q, None) \in Calls /\ Load(q, None).op = "load" /\ Load(q, None).q = chosen'
             /\ sent' = Append(sent, Load(q, None)) /\ busy' = busy /\ chosen' = q /\ edits' = edits
             /\ isLoading' = TRUE /\ UNCHANGED <<kind, table, shown, answers, faults, doubts>>
  BY <1>1 DEF Ask, Load, Calls
<1>2. ASSUME Retry
      PROVE  /\ Load(chosen, None) \in Calls /\ Load(chosen, None).op = "load"
             /\ sent' = Append(sent, Load(chosen, None)) /\ busy' = busy /\ chosen' = chosen
             /\ edits' = edits /\ isLoading' = TRUE
             /\ UNCHANGED <<kind, table, shown, answers, faults, doubts>>
  BY <1>2 DEF Retry, Load, Calls, TableTypeOK
<1>3. ASSUME NEW op \in Edits, NEW id \in Ids, NEW v \in Versions, Edit(op, id, v)
      PROVE  \E c \in Calls :
                /\ sent' = Append(sent, c) /\ c.via = op
                /\ busy' \subseteq busy \cup {op} /\ chosen' = chosen /\ isLoading' = isLoading
                /\ edits' \in 0..MaxEdits /\ UNCHANGED <<kind, table, shown, answers, faults, doubts>>
  <2> DEFINE c == [op |-> op, q |-> chosen, id |-> id, version |-> v, via |-> op]
  <2>1. c \in Calls /\ c.via = op
    BY DEF Calls, TableTypeOK
  <2>2. edits' \in 0..MaxEdits
    BY <1>3 DEF Edit, TableTypeOK
  <2> QED BY <1>3, <2>1, <2>2 DEF Edit
<1>4. CASE \E q \in Questions : Ask(q)
  BY <1>1, <1>4 DEF TableTypeOK
<1>5. CASE Retry
  BY <1>2, <1>5 DEF TableTypeOK
<1>6. CASE \E op \in Edits, id \in Ids, v \in Versions : Edit(op, id, v)
  <2>1. PICK op \in Edits, id \in Ids, v \in Versions : Edit(op, id, v)
    BY <1>6
  <2>2. PICK c \in Calls :
                /\ sent' = Append(sent, c) /\ c.via = op
                /\ busy' \subseteq busy \cup {op} /\ chosen' = chosen /\ isLoading' = isLoading
                /\ edits' \in 0..MaxEdits /\ UNCHANGED <<kind, table, shown, answers, faults, doubts>>
    BY <1>3, <2>1
  <2>3. busy' \subseteq Edits
    BY <2>2 DEF TableTypeOK
  <2> QED BY <2>2, <2>3 DEF TableTypeOK
<1> QED BY <1>4, <1>5, <1>6 DEF UserStep

LEMMA UserInvariant == ASSUME TableInv, UserStep PROVE TableInv'
<1> USE DEF TableInv
<1>1. PICK c \in Calls :
        /\ sent' = Append(sent, c)
        /\ isLoading' => isLoading \/ c.op = "load"
        /\ busy' \subseteq busy \cup {c.via} /\ busy' \subseteq Edits
        /\ chosen' # chosen => c.op = "load" /\ c.q = chosen'
  BY UserShape
<1>2. /\ chosen' \in Questions /\ isLoading' \in BOOLEAN /\ edits' \in 0..MaxEdits
      /\ UNCHANGED <<kind, table, shown, answers, faults, doubts>>
  BY UserShape
<1>3. /\ sent' \in Seq(Calls) /\ Len(sent) + 1 \in DOMAIN sent' /\ sent'[Len(sent) + 1] = c
      /\ \A i \in DOMAIN sent : i \in DOMAIN sent' /\ sent'[i] = sent[i]
  <2>1. sent \in Seq(Calls)
    BY DEF TableTypeOK
  <2> QED BY <1>1, <2>1, SentShape
<1>4. TableTypeOK'
  BY <1>1, <1>2, <1>3 DEF TableTypeOK
<1>5. c \in InFlight' /\ InFlight \subseteq InFlight'
  BY <1>2, <1>3 DEF InFlight
<1>6. FlagsFollowCalls'
  BY <1>1, <1>5 DEF FlagsFollowCalls
<1>7. Fresh'
  BY <1>2 DEF Fresh
<1>8. Converges'
  <2>1. CASE chosen' # chosen
    <3>1. LoadComes'
      BY <1>1, <1>3, <2>1 DEF LoadComes
    <3> QED BY <3>1 DEF Converges
  <2>2. CASE chosen' = chosen
    <3>1. LoadComes => LoadComes'
      BY <1>2, <1>3, <2>2 DEF LoadComes, Reloads
    <3>2. (AnswersLead' <=> AnswersLead) /\ (Orderly' <=> Orderly)
      BY <1>2, <2>2 DEF AnswersLead, LeadsBy, Orderly
    <3> QED BY <1>2, <3>1, <3>2 DEF Converges
  <2> QED BY <2>1, <2>2
<1> QED BY <1>4, <1>6, <1>7, <1>8

-----------------------------------------------------------------------------

\* What is answered already, but for what is known to be behind.
Same(a, b) == a.call = b.call /\ a.status = b.status /\ a.rows = b.rows

LEMMA OvertakenShape ==
    ASSUME TableTypeOK
    PROVE  /\ Overtaken \in Seq(Answers) /\ Len(Overtaken) = Len(answers) /\ DOMAIN Overtaken = DOMAIN answers
           /\ \A i \in DOMAIN answers :
                Same(Overtaken[i], answers[i]) /\ Overtaken[i].behind = Loaded(answers[i])
<1>1. answers \in Seq(Answers) /\ DOMAIN answers = 1..Len(answers) /\ Len(answers) \in Nat
  BY DEF TableTypeOK
<1>2. \A i \in DOMAIN answers :
        /\ Overtaken[i] \in Answers
        /\ Same(Overtaken[i], answers[i]) /\ Overtaken[i].behind = Loaded(answers[i])
  <2> SUFFICES ASSUME NEW i \in DOMAIN answers
               PROVE  /\ Overtaken[i] \in Answers
                      /\ Same(Overtaken[i], answers[i]) /\ Overtaken[i].behind = Loaded(answers[i])
    OBVIOUS
  <2>1. answers[i] \in Answers
    BY <1>1
  <2>2. Loaded(answers[i]) \in BOOLEAN
    BY DEF Loaded
  <2>3. Overtaken[i] = [answers[i] EXCEPT !.behind = Loaded(answers[i])]
    BY DEF Overtaken
  <2> QED BY <2>1, <2>2, <2>3 DEF Answers, Same
<1>3. DOMAIN Overtaken = 1..Len(answers)
  BY <1>1 DEF Overtaken
<1>4. Overtaken \in Seq(Answers) /\ Len(Overtaken) = Len(answers)
  <2>1. Overtaken \in [1..Len(answers) -> Answers]
    BY <1>1, <1>2, <1>3 DEF Overtaken
  <2>2. Overtaken \in Seq(Answers)
    BY <1>1, <2>1, SeqDef
  <2> QED BY <1>1, <1>3, <2>2, LenProperties
<1> QED BY <1>1, <1>2, <1>3, <1>4

LEMMA OthersInvariant == ASSUME TableInv, OthersStep PROVE TableInv'
<1> USE DEF TableInv
<1>1. PICK q \in Questions, id \in Ids, v \in Versions \cup {None} : OthersEdit(q, id, v)
  BY DEF OthersStep
<1>2. /\ answers' = Overtaken /\ UNCHANGED <<kind, chosen, shown, isLoading, busy, sent, edits>>
      /\ doubts' = doubts \cup {"others"} /\ faults' \in 0..MaxFaults
      /\ table' = [table EXCEPT ![q][id] = v]
  BY <1>1 DEF OthersEdit, TableTypeOK
<1>3. table' \in [Questions -> Tables]
  BY <1>2 DEF TableTypeOK, Tables
<1>4. TableTypeOK'
  BY <1>2, <1>3, OvertakenShape DEF TableTypeOK
<1>5. InFlight' = InFlight
  BY <1>2, OvertakenShape DEF InFlight, Same
<1>6. FlagsFollowCalls'
  BY <1>2, <1>5 DEF FlagsFollowCalls
<1>7. Fresh' /\ Converges'
  BY <1>2, OvertakenShape DEF Fresh, Converges, Same, Loaded
<1> QED BY <1>4, <1>6, <1>7
-----------------------------------------------------------------------------

\* A call that is served is answered after those that were.
LEMMA ServedShape ==
    ASSUME TableTypeOK, NEW i \in DOMAIN sent, NEW status \in {"ok", "failed", "denied"},
           Served(i, status), table' \in [Questions -> Tables]
    PROVE  \E a \in Answers :
             /\ a.call = sent[i] /\ a.status = status
             /\ (Loaded(a) => a.rows = table[a.call.q])
             /\ DOMAIN answers = 1..Len(answers) /\ Len(answers) \in Nat
             /\ Len(answers') = Len(answers) + 1 /\ DOMAIN answers' = 1..Len(answers) + 1
             /\ answers'[Len(answers) + 1] = a
             /\ \A j \in 1..Len(answers) :
                  /\ Same(answers'[j], answers[j])
                  /\ answers'[j].behind = IF table' = table THEN answers[j].behind ELSE Loaded(answers[j])
             /\ \A j \in DOMAIN sent : j # i => \E k \in DOMAIN sent' : sent'[k] = sent[j]
             /\ TableTypeOK'
<1> DEFINE c == sent[i]
           a == [call |-> c, status |-> status, behind |-> FALSE,
                 rows |-> IF c.op = "load" /\ status = "ok" THEN table[c.q] ELSE NoRows]
           earlier == IF table' = table THEN answers ELSE Overtaken
<1>1. /\ sent \in Seq(Calls) /\ answers \in Seq(Answers) /\ c \in Calls
      /\ DOMAIN answers = 1..Len(answers) /\ Len(answers) \in Nat
  BY ElementOfSeq, LenProperties DEF TableTypeOK
<1>2. a \in Answers
  <2>1. c.q \in Questions
    BY <1>1 DEF Calls
  <2>2. NoRows \in Tables /\ table[c.q] \in Tables
    BY <2>1 DEF TableTypeOK, NoRows, Tables
  <2> QED BY <1>1, <2>2 DEF Answers
<1>3. a.call = c /\ a.status = status /\ ~a.behind /\ (Loaded(a) => a.rows = table[a.call.q])
  BY DEF Loaded
<1>4. /\ sent' = RemoveAt(sent, i) /\ answers' = Append(earlier, a)
      /\ UNCHANGED <<kind, chosen, shown, isLoading, busy, edits, doubts>> /\ faults' \in 0..MaxFaults
  BY DEF Served, TableTypeOK
<1> HIDE DEF a
<1>5. /\ earlier \in Seq(Answers) /\ Len(earlier) = Len(answers)
      /\ \A j \in DOMAIN answers :
           /\ Same(earlier[j], answers[j])
           /\ earlier[j].behind = IF table' = table THEN answers[j].behind ELSE Loaded(answers[j])
  <2>1. CASE table' = table
    BY <1>1, <2>1 DEF Same
  <2>2. CASE table' # table
    BY <2>2, OvertakenShape
  <2> QED BY <2>1, <2>2
<1> HIDE DEF earlier
<1>6. /\ answers' \in Seq(Answers) /\ Len(answers') = Len(answers) + 1
      /\ DOMAIN answers' = 1..Len(answers) + 1 /\ answers'[Len(answers) + 1] = a
      /\ \A j \in 1..Len(answers) : answers'[j] = earlier[j]
  BY <1>2, <1>4, <1>5, SentShape
<1>7. /\ sent' \in Seq(Calls)
      /\ \A j \in DOMAIN sent : j # i => \E k \in DOMAIN sent' : sent'[k] = sent[j]
  BY <1>1, <1>4, RemovedAt, RemovedKeeps
<1>8. TableTypeOK'
  BY <1>4, <1>6, <1>7 DEF TableTypeOK
<1> QED BY <1>1, <1>2, <1>3, <1>5, <1>6, <1>7, <1>8

\* What a change does to the server's rows it does to those a page applies it to.
LEMMA AppliedIsEffect ==
    ASSUME NEW c \in Calls, c.op \in Edits, Fits(c), table \in [Questions -> Tables]
    PROVE  /\ Effect(c)[c.q] = Applied(table[c.q], c)
           /\ Effect(c) \in [Questions -> Tables] /\ Applied(table[c.q], c) \in Tables
<1>1. c.q \in Questions /\ table[c.q] \in Tables /\ c.version \in Versions \cup {None}
  BY DEF Calls
<1>2. CASE c.op = "create"
  BY <1>1, <1>2 DEF Effect, Applied, Tables
<1>3. CASE c.op = "remove"
  BY <1>1, <1>3 DEF Effect, Applied, Tables
<1>4. CASE c.op = "change"
  BY <1>1, <1>4 DEF Effect, Applied, Tables, Fits
<1> QED BY <1>2, <1>3, <1>4 DEF Edits

LEMMA ServeInvariant ==
    ASSUME TableInv, NEW i \in DOMAIN sent,
           Perform(i) \/ \E status \in {"failed", "denied"} : Refuse(i, status)
    PROVE  TableInv'
<1> USE DEF TableInv
<1>0. PICK n \in Nat : n = Len(answers)
  BY LenProperties DEF TableTypeOK
<1>1. PICK c \in Calls : c = sent[i]
  BY ElementOfSeq, LenProperties DEF TableTypeOK
<1>2. PICK status \in {"ok", "failed", "denied"} :
        /\ Served(i, status)
        /\ \/ table' = table /\ (status = "ok" => c.op = "load")
           \/ Fits(c) /\ c.op \in Edits /\ table' = Effect(c)
  BY <1>1 DEF Perform, Refuse, Effect, Calls
<1>3. table' \in [Questions -> Tables]
  BY <1>1, <1>2, AppliedIsEffect DEF TableTypeOK
<1>4. PICK a \in Answers :
             /\ a.call = c /\ a.status = status
             /\ (Loaded(a) => a.rows = table[a.call.q])
             /\ DOMAIN answers = 1..n
             /\ Len(answers') = n + 1 /\ DOMAIN answers' = 1..n + 1
             /\ answers'[n + 1] = a
             /\ \A j \in 1..n :
                  /\ Same(answers'[j], answers[j])
                  /\ answers'[j].behind = IF table' = table THEN answers[j].behind ELSE Loaded(answers[j])
             /\ \A j \in DOMAIN sent : j # i => \E k \in DOMAIN sent' : sent'[k] = sent[j]
             /\ TableTypeOK'
  BY <1>0, <1>1, <1>2, <1>3, ServedShape
<1>5. UNCHANGED <<kind, chosen, shown, isLoading, busy, edits, doubts>>
  BY <1>2 DEF Served
<1>6. InFlight \subseteq InFlight'
  <2>1. c \in InFlight'
    BY <1>4 DEF InFlight
  <2> QED BY <1>1, <1>4, <2>1 DEF InFlight, Same
<1>7. FlagsFollowCalls'
  BY <1>5, <1>6 DEF FlagsFollowCalls
<1>8. Fresh'
  <2> SUFFICES ASSUME NEW j \in DOMAIN answers', Loaded(answers'[j]), ~answers'[j].behind
               PROVE  answers'[j].rows = table'[answers'[j].call.q]
    BY DEF Fresh
  <2>1. CASE j \in 1..n
    BY <1>4, <2>1 DEF Fresh, Same, Loaded
  <2>2. CASE j = n + 1
    <3>1. Loaded(a) /\ table' = table
      BY <1>2, <1>4, <2>2 DEF Loaded, Edits
    <3> QED BY <1>4, <2>2, <3>1
  <2> QED BY <1>4, <2>1, <2>2
<1>9. Converges'
  <2> SUFFICES ASSUME doubts' = {}, Orderly' PROVE LoadComes' \/ AnswersLead'
    BY DEF Converges
  <2>1. Orderly /\ status = "ok" /\ c.q = chosen
    BY <1>4, <1>5 DEF Orderly, Same
  <2>2. LoadComes \/ AnswersLead
    BY <1>5, <2>1 DEF Converges
  <2>3. CASE c.op = "load"
    <3> DEFINE views == [j \in 0..n + 1 |-> a.rows]
    <3>1. Loaded(a) /\ table' = table /\ a.rows = table'[chosen'] /\ a.rows \in Tables
      BY <1>2, <1>4, <1>5, <2>1, <2>3 DEF Loaded, Edits, Answers
    <3>2. LeadsBy(n + 1, views)'
      BY <1>0, <1>4, <3>1 DEF LeadsBy
    <3>3. views \in [0..Len(answers') -> Tables] /\ n + 1 \in 0..Len(answers')
      BY <1>4, <3>1
    <3> HIDE DEF views
    <3> QED BY <3>2, <3>3 DEF AnswersLead
  <2>4. CASE c.op # "load"
    <3>1. CASE LoadComes
      <4>1. Reloads(c)' <=> Reloads(c)
        BY <1>5 DEF Reloads
      <4> QED BY <1>1, <1>4, <1>5, <2>4, <3>1 DEF LoadComes, Reloads, Same
    <3>2. CASE AnswersLead
      <4>1. PICK k \in 0..n, views \in [0..n -> Tables] : LeadsBy(k, views)
        BY <1>0, <3>2 DEF AnswersLead
      <4> DEFINE rows == Applied(views[n], c)
                 views2 == [j \in 0..n + 1 |-> IF j = n + 1 THEN rows ELSE views[j]]
      <4>2. rows = table'[chosen'] /\ rows \in Tables
        BY <1>1, <1>2, <1>5, <2>1, <2>4, <4>1, <1>0, AppliedIsEffect DEF LeadsBy, TableTypeOK
      <4>3. rows = After(views[n], a)
        BY <1>4, <2>4 DEF After, Loaded
      <4> HIDE DEF rows
      <4>4. views2 \in [0..Len(answers') -> Tables] /\ k \in 0..Len(answers')
        BY <1>4, <4>2
      <4>5. LeadsBy(k, views2)'
        <5>1. \A j \in 1..n : answers'[j].rows = answers[j].rows /\ (Loaded(answers'[j]) <=> Loaded(answers[j]))
                /\ \A v : After(v, answers'[j]) = After(v, answers[j])
          BY <1>4 DEF Same, Loaded, After
        <5>2. /\ k > 0 => Loaded(answers'[k])
              /\ views2[k] = IF k = 0 THEN shown' ELSE answers'[k].rows
          BY <1>0, <1>4, <1>5, <4>1, <5>1 DEF LeadsBy
        <5>3. ASSUME NEW j \in (k + 1)..(n + 1) PROVE views2[j] = After(views2[j - 1], answers'[j])
          <6>1. CASE j = n + 1
            BY <1>4, <4>3, <6>1
          <6>2. CASE j # n + 1
            <7>1. j \in (k + 1)..n /\ j \in 1..n /\ j - 1 \in 0..n /\ j # n + 1 /\ j - 1 # n + 1
              BY <6>2
            <7>2. views2[j] = views[j] /\ views2[j - 1] = views[j - 1]
              BY <7>1
            <7>3. views[j] = After(views[j - 1], answers[j])
              BY <1>0, <4>1, <7>1 DEF LeadsBy
            <7> QED BY <5>1, <7>1, <7>2, <7>3
          <6> QED BY <6>1, <6>2
        <5>4. views2[n + 1] = table'[chosen']
          BY <4>2
        <5> HIDE DEF views2
        <5> QED BY <1>4, <5>2, <5>3, <5>4 DEF LeadsBy
      <4> HIDE DEF views2
      <4> QED BY <4>4, <4>5 DEF AnswersLead
    <3> QED BY <2>2, <3>1, <3>2
  <2> QED BY <2>3, <2>4
<1> QED BY <1>4, <1>7, <1>8, <1>9
-----------------------------------------------------------------------------

\* What taking an answer turns off was turned on by its call.
LEMMA TableAnswerShape ==
    ASSUME TableTypeOK, NEW i \in DOMAIN answers, Answer(i)
    PROVE  \E a \in Answers :
             /\ a = answers[i]
             /\ answers' \in Seq(Answers) /\ answers' = RemoveAt(answers, i) /\ sent' \in Seq(Calls)
             /\ \A j \in DOMAIN sent : \E k \in DOMAIN sent' : sent'[k] = sent[j]
             /\ isLoading' \in BOOLEAN /\ busy' \subseteq busy /\ shown' \in Tables
             /\ isLoading' => \/ isLoading /\ a.call.op # "load"
                              \/ \E k \in DOMAIN sent' : sent'[k].op = "load"
             /\ a.call.via \in busy' => \E k \in DOMAIN sent' : sent'[k].via = a.call.via
             /\ UNCHANGED <<kind, table, chosen, edits, faults>>
             /\ \/ Loaded(a) /\ shown' = a.rows /\ sent' = sent
                \/ Reloads(a.call) /\ \E k \in DOMAIN sent' : sent'[k].op = "load" /\ sent'[k].q = chosen
                \/ a.status = "ok" /\ shown' = Applied(shown, a.call) /\ ~Loaded(a) /\ ~Reloads(a.call)
                \/ a.status # "ok"
<1>1. answers \in Seq(Answers) /\ sent \in Seq(Calls) /\ shown \in Tables
  BY DEF TableTypeOK
<1>2. PICK a \in Answers : a = answers[i]
  BY <1>1, ElementOfSeq, LenProperties
<1>3. /\ answers' \in Seq(Answers) /\ answers' = RemoveAt(answers, i)
      /\ UNCHANGED <<kind, table, chosen, edits, faults>>
  <2>1. answers' = RemoveAt(answers, i) /\ UNCHANGED <<kind, table, chosen, edits, faults>>
    BY DEF Answer, ShowLoaded, ReloadAfter, ShowEdited, ShowError, Answered
  <2> QED BY <1>1, <2>1, RemovedAt
<1>4. CASE ShowLoaded(i)
  BY <1>1, <1>2, <1>3, <1>4 DEF ShowLoaded, Answers, TableTypeOK
<1>5. CASE ReloadAfter(i)
  <2>1. PICK c \in Calls : c = Load(chosen, a.call.via)
    BY <1>2 DEF Load, Calls, Answers, TableTypeOK
  <2>2. sent' = Append(sent, c) /\ isLoading' = TRUE /\ busy' = busy /\ shown' = shown /\ Reloads(a.call)
    BY <1>2, <1>5, <2>1 DEF ReloadAfter
  <2>3. /\ sent' \in Seq(Calls) /\ \E k \in DOMAIN sent' : sent'[k] = c
        /\ \A j \in DOMAIN sent : j \in DOMAIN sent' /\ sent'[j] = sent[j]
    <3>1. /\ sent' \in Seq(Calls) /\ DOMAIN sent' = 1..Len(sent) + 1 /\ Len(sent) \in Nat
          /\ sent'[Len(sent) + 1] = c
          /\ \A j \in DOMAIN sent : j \in DOMAIN sent' /\ sent'[j] = sent[j]
      BY <1>1, <2>2, SentShape
    <3> QED BY <3>1
  <2>4. c.op = "load" /\ c.q = chosen /\ c.via = a.call.via
    BY <2>1 DEF Load
  <2> QED BY <1>1, <1>2, <1>3, <2>2, <2>3, <2>4
<1>6. CASE ShowEdited(i)
  <2>1. Applied(shown, a.call) \in Tables
    <3>1. a.call \in Calls /\ a.call.op \in Edits /\ a.call.version \in Versions \cup {None}
      BY <1>2, <1>6 DEF ShowEdited, Answers, Calls
    <3> QED BY <1>1, <3>1 DEF Applied, Tables, Edits
  <2> QED BY <1>1, <1>2, <1>3, <1>6, <2>1 DEF ShowEdited, TableTypeOK, Loaded, Edits
<1>7. CASE ShowError(i)
  BY <1>1, <1>2, <1>3, <1>7 DEF ShowError, TableTypeOK
<1> QED BY <1>4, <1>5, <1>6, <1>7 DEF Answer

\* A page that has no doubts after an answer took the first one, or has loaded last.
LEMMA DoubtsShape ==
    ASSUME TableTypeOK, NEW i \in DOMAIN answers, Answer(i)
    PROVE  /\ doubts' \subseteq {"others", "late", "strayed", "failed"}
           /\ doubts' = {} =>
                \/ /\ Loaded(answers[i]) /\ ~answers[i].behind /\ answers[i].call.q = chosen
                   /\ Len(answers) = 1
                \/ doubts = {} /\ i = 1 /\ answers[i].call.q = chosen /\ answers[i].status = "ok"
<1>1. doubts' = DoubtsAfter(i)
  BY DEF Answer, ShowLoaded, ReloadAfter, ShowEdited, ShowError, Answered
<1> DEFINE new == {d \in {"late", "strayed", "failed"} :
                        \/ d = "late" /\ i # 1
                        \/ d = "strayed" /\ answers[i].call.q # chosen
                        \/ d = "failed" /\ answers[i].status # "ok"}
<1>2. \/ /\ doubts' = {}
         /\ Loaded(answers[i]) /\ ~answers[i].behind /\ answers[i].call.q = chosen /\ Len(answers) = 1
      \/ doubts' = doubts \cup new
  BY <1>1 DEF DoubtsAfter
<1>3. new = {} => i = 1 /\ answers[i].call.q = chosen /\ answers[i].status = "ok"
  OBVIOUS
<1> QED BY <1>2, <1>3 DEF TableTypeOK

LEMMA AnswerInvariant ==
    ASSUME TableInv, NEW i \in DOMAIN answers, Answer(i)
    PROVE  TableInv'
<1> USE DEF TableInv
<1>0. PICK n \in Nat : n = Len(answers) /\ DOMAIN answers = 1..n
  BY LenProperties DEF TableTypeOK
<1>1. PICK a \in Answers :
             /\ a = answers[i]
             /\ answers' \in Seq(Answers) /\ answers' = RemoveAt(answers, i) /\ sent' \in Seq(Calls)
             /\ \A j \in DOMAIN sent : \E k \in DOMAIN sent' : sent'[k] = sent[j]
             /\ isLoading' \in BOOLEAN /\ busy' \subseteq busy /\ shown' \in Tables
             /\ isLoading' => \/ isLoading /\ a.call.op # "load"
                              \/ \E k \in DOMAIN sent' : sent'[k].op = "load"
             /\ a.call.via \in busy' => \E k \in DOMAIN sent' : sent'[k].via = a.call.via
             /\ UNCHANGED <<kind, table, chosen, edits, faults>>
             /\ \/ Loaded(a) /\ shown' = a.rows /\ sent' = sent
                \/ Reloads(a.call) /\ \E k \in DOMAIN sent' : sent'[k].op = "load" /\ sent'[k].q = chosen
                \/ a.status = "ok" /\ shown' = Applied(shown, a.call) /\ ~Loaded(a) /\ ~Reloads(a.call)
                \/ a.status # "ok"
  BY TableAnswerShape
<1>2. /\ Len(answers') = n - 1 /\ DOMAIN answers' = 1..n - 1
      /\ \A j \in 1..n - 1 : answers'[j] = IF j < i THEN answers[j] ELSE answers[j + 1]
      /\ \A j \in DOMAIN answers : j # i => \E k \in DOMAIN answers' : answers'[k] = answers[j]
      /\ \A k \in DOMAIN answers' : \E j \in DOMAIN answers : answers'[k] = answers[j]
  <2>1. answers \in Seq(Answers)
    BY DEF TableTypeOK
  <2>2. /\ \A j \in DOMAIN answers : j # i => \E k \in DOMAIN answers' : answers'[k] = answers[j]
        /\ \A k \in DOMAIN answers' : \E j \in DOMAIN answers : answers'[k] = answers[j]
    BY <1>1, <2>1, RemovedKeeps
  <2>3. /\ Len(answers') = n - 1
        /\ \A j \in 1..n - 1 : answers'[j] = IF j < i THEN answers[j] ELSE answers[j + 1]
    <3>1. /\ Len(RemoveAt(answers, i)) = Len(answers) - 1
          /\ \A j \in 1..Len(answers) - 1 :
               RemoveAt(answers, i)[j] = IF j < i THEN answers[j] ELSE answers[j + 1]
      BY <2>1, RemovedAt
    <3> QED BY <1>0, <1>1, <3>1
  <2>4. DOMAIN answers' = 1..n - 1
    BY <1>1, <2>3, LenProperties
  <2> QED BY <2>2, <2>3, <2>4
<1>3. TableTypeOK'
  BY <1>1, DoubtsShape DEF TableTypeOK
<1>4. /\ InFlight \subseteq InFlight' \cup {a.call}
      /\ \A k \in DOMAIN sent' : sent'[k] \in InFlight'
  BY <1>1, <1>2 DEF InFlight
<1>5. FlagsFollowCalls'
  BY <1>1, <1>4 DEF FlagsFollowCalls
<1>6. Fresh'
  BY <1>1, <1>2 DEF Fresh
<1>7. Converges'
  <2> SUFFICES ASSUME doubts' = {}, Orderly' PROVE LoadComes' \/ AnswersLead'
    BY DEF Converges
  <2>1. CASE Loaded(a) /\ ~a.behind /\ a.call.q = chosen /\ n = 1
    <3>1. (shown' = a.rows /\ shown' = table[chosen]) \/ LoadComes'
      BY <1>1, <2>1 DEF Fresh, LoadComes, Loaded
    <3>2. CASE shown' = table'[chosen']
      <4> DEFINE rows == table'[chosen']
      <4>1. PICK v : v = table'[chosen']
        OBVIOUS
      <4>2. v \in Tables /\ Len(answers') = 0
        BY <1>1, <1>2, <2>1, <3>2, <4>1
      <4>3. [j \in 0..0 |-> v] \in [0..Len(answers') -> Tables] /\ 0 \in 0..Len(answers')
        BY <4>2
      <4>4. LeadsBy(0, [j \in 0..0 |-> v])'
        BY <3>2, <4>1, <4>2 DEF LeadsBy
      <4> QED BY <4>3, <4>4 DEF AnswersLead
    <3> QED BY <1>1, <3>1, <3>2
  <2>2. CASE doubts = {} /\ i = 1 /\ a.call.q = chosen /\ a.status = "ok"
    <3>1. Orderly
      <4> SUFFICES ASSUME NEW j \in DOMAIN answers
                   PROVE  answers[j].status = "ok" /\ answers[j].call.q = chosen
        BY DEF Orderly
      <4>1. CASE j = i
        BY <1>1, <2>2, <4>1
      <4>2. CASE j # i
        <5>1. PICK k \in DOMAIN answers' : answers'[k] = answers[j]
          BY <1>2, <4>2
        <5> QED BY <1>1, <5>1 DEF Orderly
      <4> QED BY <4>1, <4>2
    <3>2. CASE LoadComes
      <4>1. \A c : Reloads(c)' <=> Reloads(c)
        BY <1>1 DEF Reloads
      <4>2. CASE \E j \in DOMAIN sent : sent[j].op = "load" /\ sent[j].q = chosen
        BY <1>1, <4>2 DEF LoadComes
      <4>3. CASE \E j \in DOMAIN answers : Reloads(answers[j].call) /\ answers[j].status = "ok"
        <5>1. PICK j \in DOMAIN answers : Reloads(answers[j].call) /\ answers[j].status = "ok"
          BY <4>3
        <5>2. CASE j # i
          BY <1>2, <4>1, <5>1, <5>2 DEF LoadComes
        <5>3. CASE j = i
          <6>1. ~Loaded(a)
            BY <1>1, <5>1, <5>3 DEF Loaded, Reloads, Edits
          <6>2. \E k \in DOMAIN sent' : sent'[k].op = "load" /\ sent'[k].q = chosen
            BY <1>1, <2>2, <5>1, <5>3, <6>1
          <6> QED BY <1>1, <6>2 DEF LoadComes
        <5> QED BY <5>2, <5>3
      <4> QED BY <3>2, <4>2, <4>3 DEF LoadComes
    <3>3. CASE ~LoadComes
      <4>1. PICK k \in 0..n, views \in [0..n -> Tables] : LeadsBy(k, views)
        BY <1>0, <2>2, <3>1, <3>3 DEF Converges, AnswersLead
      <4>2. n >= 1 /\ n - 1 \in Nat /\ \A j \in 1..n - 1 : answers'[j] = answers[j + 1]
        BY <1>0, <1>2, <2>2
      <4>3. ~Reloads(a.call)
        BY <1>1, <2>2, <3>3 DEF LoadComes
      <4>4. k <= 1 => shown' = views[1]
        <5>1. CASE k = 0
          BY <1>0, <1>1, <2>2, <4>1, <4>2, <4>3, <5>1 DEF LeadsBy, After
        <5>2. CASE k = 1
          BY <1>1, <2>2, <4>1, <4>3, <5>2 DEF LeadsBy
        <5> QED BY <5>1, <5>2
      <4> DEFINE k2 == IF k <= 1 THEN 0 ELSE k - 1
                 views2 == [j \in 0..n - 1 |-> views[j + 1]]
      <4>5. k2 \in 0..n - 1 /\ views2 \in [0..n - 1 -> Tables]
        BY <4>2
      <4>6. /\ k2 > 0 => Loaded(answers'[k2])
            /\ views2[k2] = IF k2 = 0 THEN shown' ELSE answers'[k2].rows
        <5>1. CASE k <= 1
          BY <4>2, <4>4, <5>1
        <5>2. CASE k > 1
          <6>1. k2 \in 1..n - 1 /\ k2 + 1 = k
            BY <5>2
          <6>2. Loaded(answers[k]) /\ views[k] = answers[k].rows
            BY <4>1, <5>2 DEF LeadsBy
          <6>3. views2[k2] = views[k] /\ k2 # 0
            BY <5>2, <6>1
          <6>4. answers'[k2] = answers[k]
            BY <4>2, <6>1
          <6> HIDE DEF k2, views2
          <6> QED BY <6>2, <6>3, <6>4
        <5> QED BY <5>1, <5>2
      <4>7. ASSUME NEW j \in (k2 + 1)..(n - 1) PROVE views2[j] = After(views2[j - 1], answers'[j])
        <5>1. j \in 1..n - 1 /\ j - 1 \in 0..n - 1 /\ j + 1 \in (k + 1)..n
              /\ (j - 1) + 1 = j /\ (j + 1) - 1 = j
          <6>1. n \in Nat /\ k \in Nat /\ k2 \in Nat /\ k <= k2 + 1
            BY <4>2
          <6> HIDE DEF k2, views2
          <6>2. j \in Nat /\ k2 + 1 <= j /\ j <= n - 1
            BY <6>1
          <6> QED BY <6>1, <6>2
        <5>2. views2[j] = views[j + 1] /\ views2[j - 1] = views[j]
          BY <5>1
        <5>3. views[j + 1] = After(views[j], answers[j + 1])
          BY <1>0, <4>1, <5>1 DEF LeadsBy
        <5> QED BY <4>2, <5>1, <5>2, <5>3
      <4>8. views2[n - 1] = table'[chosen']
        BY <1>0, <1>1, <4>1, <4>2 DEF LeadsBy
      <4> HIDE DEF views2, k2
      <4>9. LeadsBy(k2, views2)'
        BY <1>2, <4>6, <4>7, <4>8 DEF LeadsBy
      <4> QED BY <1>2, <4>5, <4>9 DEF AnswersLead
    <3> QED BY <3>2, <3>3
  <2> QED BY <1>0, <1>1, <2>1, <2>2, DoubtsShape
<1> QED BY <1>3, <1>5, <1>6, <1>7

-----------------------------------------------------------------------------

LEMMA TableInitInvariant == TableInit => TableInv
<1> SUFFICES ASSUME TableInit PROVE TableInv
  OBVIOUS
<1> USE DEF TableInit
<1>1. PICK c \in Calls : c = Load(chosen, None) /\ c.op = "load" /\ c.q = chosen
  BY DEF Load, Calls
<1>2. sent = <<c>> /\ 1 \in DOMAIN sent /\ sent[1] = c /\ answers = <<>> /\ DOMAIN answers = {}
  BY <1>1
<1>3. TableTypeOK
  <2>1. kind \in Kinds
    <3>1. \A create, change, remove \in {"none", "reload", "here"}, modal \in SUBSET {"change", "remove"} :
            Component(create, change, remove, modal) \in Kinds
      BY DEF Component, Kinds
    <3>2. \A create, remove \in {"none", "reload", "here"} : Asking(create, remove) \in Kinds
      BY DEF Asking, Kinds
    <3>3. {"change"} \in SUBSET {"change", "remove"} /\ {"remove"} \in SUBSET {"change", "remove"}
          /\ {} \in SUBSET {"change", "remove"} /\ {"change", "remove"} \in SUBSET {"change", "remove"}
      OBVIOUS
    <3>4. {ZoneList, TsigKeys, Autoprimaries, Networks, AcmeKeys, AdminUsers, AdminRecordTypes}
            \subseteq Kinds
      BY <3>1, <3>3
         DEF ZoneList, TsigKeys, Autoprimaries, Networks, AcmeKeys, AdminUsers, AdminRecordTypes
    <3>5. {AdminAccounts, Tokens, ZoneMembers, ZoneAcmeKeys, ZoneCryptoKeys} \subseteq Kinds
      BY <3>1, <3>3 DEF AdminAccounts, Tokens, ZoneMembers, ZoneAcmeKeys, ZoneCryptoKeys
    <3>6. {Catalogues, Consumers, ServerConfig, Statistics} \subseteq Kinds
      BY <3>1, <3>3 DEF Catalogues, Consumers, ServerConfig, Statistics
    <3>7. {CatalogueMembers, ConsumerMembers, Search, Audit} \subseteq Kinds
      BY <3>2 DEF CatalogueMembers, ConsumerMembers, Search, Audit
    <3> QED BY <3>4, <3>5, <3>6, <3>7 DEF Components
  <2>2. shown \in Tables /\ table \in [Questions -> Tables]
    BY DEF NoRows, Tables
  <2>3. sent \in Seq(Calls) /\ answers \in Seq(Answers)
    BY <1>2
  <2>4. 0 \in 0..MaxEdits /\ 0 \in 0..MaxFaults
    <3>1. MaxEdits \in Nat /\ MaxFaults \in Nat
      OBVIOUS
    <3> QED BY <3>1
  <2> QED BY <2>1, <2>2, <2>3, <2>4 DEF TableTypeOK
<1>4. FlagsFollowCalls
  BY <1>1, <1>2 DEF FlagsFollowCalls, InFlight
<1>5. Fresh /\ LoadComes
  BY <1>1, <1>2 DEF Fresh, LoadComes
<1> QED BY <1>3, <1>4, <1>5 DEF TableInv, Converges

LEMMA TableStepInvariant == TableInv /\ [TableNext]_tableVars => TableInv'
<1> SUFFICES ASSUME TableInv, [TableNext]_tableVars PROVE TableInv'
  OBVIOUS
<1>1. CASE UNCHANGED tableVars
  BY <1>1 DEF tableVars, TableInv, TableTypeOK, FlagsFollowCalls, InFlight, Fresh, Converges, Orderly,
              LoadComes, Reloads, AnswersLead, LeadsBy
<1>2. CASE TableNext
  BY <1>2, UserInvariant, ServeInvariant, OthersInvariant, AnswerInvariant DEF TableNext
<1> QED BY <1>1, <1>2

LEMMA TableInvariant == TableSpec => []TableInv
BY TableInitInvariant, TableStepInvariant, PTL DEF TableSpec

\* A page with a table keeps its types.
THEOREM TableTypeCorrect == TableSpec => []TableTypeOK
<1>1. TableInv => TableTypeOK
  BY DEF TableInv
<1> QED BY <1>1, TableInvariant, PTL

\* No spinner and no disabled button outlives the calls it waits for, on any of the pages.
THEOREM FlagsFollow == TableSpec => []FlagsFollowCalls
<1>1. TableInv => FlagsFollowCalls
  BY DEF TableInv
<1> QED BY <1>1, TableInvariant, PTL

\* Every page that has no reason to doubt its rows shows those of the server once its
\* calls are answered: for any number of rows, questions, calls and edits.
THEOREM PagesConverge == TableSpec => []NoSilentDivergence
<1>1. TableInv => NoSilentDivergence
  <2> SUFFICES ASSUME TableInv, InFlight = {}, doubts = {} PROVE shown = table[chosen]
    BY DEF NoSilentDivergence
  <2>1. sent \in Seq(Calls) /\ answers \in Seq(Answers)
    BY DEF TableInv, TableTypeOK
  <2>2. DOMAIN sent = {} /\ DOMAIN answers = {}
    BY DEF InFlight
  <2>3. Len(answers) = 0
    BY <2>1, <2>2, LenProperties
  <2>4. AnswersLead
    BY <2>2 DEF TableInv, Converges, Orderly, LoadComes
  <2> QED BY <2>3, <2>4 DEF AnswersLead, LeadsBy
<1> QED BY <1>1, TableInvariant, PTL

-----------------------------------------------------------------------------
(* The zone page.                                                          *)

USE ZoneEditorAssumption

IsEdit(c) == c.op # "load"
Plain(c) == c.op \in {"extend", "prune", "replace"}

\* What an edit does to the set it names, as far as its kind says.
Shaped(c) ==
    /\ Plain(c) => c.name \in Names /\ c.plus \cap c.minus = {}
    /\ c.op = "extend" => \E v \in Values : c.set = {v} /\ c.plus = {v} /\ c.minus = {}
    /\ c.op = "prune" => \E v \in Values : c.set = {v} /\ c.plus = {} /\ c.minus = {v}
    /\ c.op = "import" => c.file \in Sets

\* The user means a value to be there, or not to be, after the edit.
Adds(c, n, v) == IF c.op = "import" THEN v \in c.file[n] ELSE Plain(c) /\ c.name = n /\ v \in c.plus
Takes(c, n, v) == IF c.op = "import" THEN v \notin c.file[n] ELSE Plain(c) /\ c.name = n /\ v \in c.minus

\* No two edits in flight collide, unless both are done.
Apart ==
    /\ \A i, j \in DOMAIN asked :
          i # j /\ IsEdit(asked[i]) /\ IsEdit(asked[j]) => ~Collide(asked[i], asked[j])
    /\ \A i \in DOMAIN asked, j \in DOMAIN replies :
          IsEdit(asked[i]) /\ IsEdit(replies[j].call) => ~Collide(asked[i], replies[j].call)

Allowed == \A j \in DOMAIN replies : IsEdit(replies[j].call) => replies[j].status = "ok"

\* The server holds what the acknowledged edits and those about to be add up to, and no
\* two of the latter contradict each other.
Agreed ==
    \A n \in Names, v \in Values, j, k \in DOMAIN replies :
        ~(Adds(replies[j].call, n, v) /\ Takes(replies[k].call, n, v))

Sums ==
    \A n \in Names, v \in Values :
        v \in held[n] <=>
             \/ \E j \in DOMAIN replies : Adds(replies[j].call, n, v)
             \/ v \in want[n] /\ \A j \in DOMAIN replies : ~Takes(replies[j].call, n, v)

\* A set that is sent as a whole was computed from what the server holds, and what an
\* import has not seen is not there.
SoundAsk(c) ==
    /\ c.op = "replace" => c.set = (held[c.name] \ c.minus) \cup c.plus
    /\ c.op = "import" /\ c.saw # None => \A n \in Names \ c.saw : held[n] = {}

Sound == \A i \in DOMAIN asked : SoundAsk(asked[i])

\* The edit dialog shows what the server holds until it is saved.
DraftHolds ==
    draft # None =>
      /\ tab = "records"
      /\ ~draft.blind /\ spoiled = {} =>
           \/ Pending = {} /\ draft.set = held[draft.name]
           \/ "edit" \in submitting /\ \A c \in Pending : c.op = "replace" /\ c.via = "edit"

\* So does the page, when nothing is in flight and its last load was not overtaken.
CopyHolds ==
    /\ Pending = {} /\ ~dim => copy = held
    /\ \A j \in DOMAIN replies : LoadedSets(replies[j]) /\ ~replies[j].behind => replies[j].sets = held

AllShaped == \A c \in Pending : Shaped(c)

EditsHold == spoiled = {} => Apart /\ (Allowed => Agreed /\ Sums /\ Sound)

EditorInv == EditorTypeOK /\ SubmittingEnds /\ AllShaped /\ EditsHold /\ DraftHolds /\ CopyHolds

-----------------------------------------------------------------------------
(* What the edits do.                                                      *)

\* Two edits that do not collide do not contradict each other.
LEMMA Compatible ==
    ASSUME NEW c, NEW d, Shaped(c), Shaped(d), IsEdit(c), IsEdit(d), ~Collide(c, d), NEW n, NEW v
    PROVE  ~(Adds(c, n, v) /\ Takes(d, n, v)) /\ ~(Takes(c, n, v) /\ Adds(d, n, v))
BY DEF Shaped, IsEdit, Collide, Adds, Takes, Plain

\* An edit does what it means to.
LEMMA StoredIsMeant ==
    ASSUME NEW c \in Asks, Shaped(c), IsEdit(c), SoundAsk(c), c.op = "import" => c.saw # None,
           held \in Sets
    PROVE  /\ Stored(c) \in Sets
           /\ \A n \in Names, v \in Values :
                v \in Stored(c)[n] <=> Adds(c, n, v) \/ (v \in held[n] /\ ~Takes(c, n, v))
<1> USE DEF Shaped, Plain, Adds, Takes, Sets
<1>1. CASE c.op = "extend"
  BY <1>1 DEF Stored, Asks
<1>2. CASE c.op = "prune"
  BY <1>2 DEF Stored, Asks
<1>3. CASE c.op = "replace"
  BY <1>3 DEF Stored, Asks, SoundAsk
<1>4. CASE c.op = "import"
  <2>1. Stored(c) = Imported(c)
    BY <1>4 DEF Stored
  <2>2. \A n \in Names : Imported(c)[n] = c.file[n]
    BY <1>4 DEF Imported, SoundAsk
  <2> QED BY <1>4, <2>1, <2>2 DEF Imported
<1> QED BY <1>1, <1>2, <1>3, <1>4 DEF Asks, IsEdit

-----------------------------------------------------------------------------
(* The user.                                                               *)

\* The calls in flight when one is sent.
LEMMA PendingSent ==
    ASSUME EditorTypeOK, NEW c \in Asks, asked' = Append(asked, c), replies' = replies
    PROVE  /\ asked' \in Seq(Asks) /\ Pending' = Pending \cup {c}
           /\ DOMAIN asked = 1..Len(asked) /\ Len(asked) \in Nat
           /\ DOMAIN asked' = 1..Len(asked) + 1 /\ asked'[Len(asked) + 1] = c
           /\ \A i \in DOMAIN asked : i \in DOMAIN asked' /\ asked'[i] = asked[i]
<1>1. /\ asked' \in Seq(Asks) /\ DOMAIN asked = 1..Len(asked) /\ Len(asked) \in Nat
      /\ DOMAIN asked' = 1..Len(asked) + 1 /\ asked'[Len(asked) + 1] = c
      /\ \A i \in DOMAIN asked : i \in DOMAIN asked' /\ asked'[i] = asked[i]
  BY SentShape DEF EditorTypeOK
<1>2. Pending' = Pending \cup {c}
  <2>1. {asked'[i] : i \in DOMAIN asked'} = {asked[i] : i \in DOMAIN asked} \cup {c}
    BY <1>1
  <2> QED BY <2>1 DEF Pending
<1> QED BY <1>1, <1>2

LEMMA EditSent ==
    ASSUME EditorInv, NEW c \in Asks, NEW why \in SUBSET {"blind"}, SendEdit(c, why), draft' = draft,
           Shaped(c), IsEdit(c), spoiled = {} /\ why = {} => SoundAsk(c),
           draft = None \/ (c.op = "replace" /\ c.via = "edit")
    PROVE  EditorInv'
<1> USE DEF EditorInv
<1>1. /\ asked' \in Seq(Asks) /\ Pending' = Pending \cup {c}
      /\ DOMAIN asked = 1..Len(asked) /\ Len(asked) \in Nat
      /\ DOMAIN asked' = 1..Len(asked) + 1 /\ asked'[Len(asked) + 1] = c
      /\ \A i \in DOMAIN asked : i \in DOMAIN asked' /\ asked'[i] = asked[i]
  BY PendingSent DEF SendEdit
<1>2. /\ submitting' = submitting \cup ({c.via} \ {None})
      /\ spoiled' = spoiled \cup why \cup {w \in {"crossed"} : Crosses(c)}
      /\ UNCHANGED <<tab, held, copy, isLoadingMeta, metadataLoaded, replies, mishaps, want, dim>>
      /\ tries' \in 0..MaxEdits
  BY DEF SendEdit, EditorTypeOK
<1>3. EditorTypeOK'
  <2>1. submitting' \subseteq Ways /\ spoiled' \subseteq {"failed", "blind", "crossed"}
    BY <1>2 DEF EditorTypeOK, Asks
  <2> QED BY <1>1, <1>2, <2>1 DEF EditorTypeOK
<1>4. SubmittingEnds' /\ AllShaped'
  BY <1>1, <1>2 DEF SubmittingEnds, AllShaped, Shaped, Plain
<1>5. CopyHolds'
  BY <1>1, <1>2 DEF CopyHolds, LoadedSets
<1>6. DraftHolds'
  <2> SUFFICES ASSUME draft' # None
               PROVE  /\ tab' = "records"
                      /\ ~draft'.blind /\ spoiled' = {} =>
                           "edit" \in submitting' /\ \A d \in Pending' : d.op = "replace" /\ d.via = "edit"
    BY DEF DraftHolds
  <2>1. tab' = "records" /\ c.op = "replace" /\ c.via = "edit" /\ "edit" \in submitting'
    <3>1. "edit" # None
      BY DEF Ways
    <3> QED BY <1>2, <3>1 DEF DraftHolds
  <2> QED BY <1>1, <1>2, <2>1 DEF DraftHolds
<1>7. EditsHold'
  <2> SUFFICES ASSUME spoiled' = {} PROVE Apart' /\ (Allowed' => Agreed' /\ Sums' /\ Sound')
    BY DEF EditsHold
  <2>1. spoiled = {} /\ why = {} /\ ~Crosses(c)
    BY <1>2
  <2>2. /\ \A i \in DOMAIN asked : IsEdit(asked[i]) => ~Collide(c, asked[i]) /\ ~Collide(asked[i], c)
        /\ \A j \in DOMAIN replies : IsEdit(replies[j].call) => ~Collide(c, replies[j].call)
    BY <2>1 DEF Crosses, Collide, Pending, IsEdit
  <2>3. Apart'
    BY <1>1, <1>2, <2>1, <2>2 DEF EditsHold, Apart
  <2>4. Allowed' => Agreed' /\ Sums' /\ Sound'
    BY <1>1, <1>2, <2>1 DEF EditsHold, Allowed, Agreed, Sums, Sound, SoundAsk
  <2> QED BY <2>3, <2>4
<1> QED BY <1>3, <1>4, <1>5, <1>6, <1>7

\* The calls of the edits.
LEMMA EntryCalls ==
    ASSUME NEW n \in Names, NEW v \in Values
    PROVE  /\ Extend(n, v) \in Asks /\ Shaped(Extend(n, v)) /\ Extend(n, v).op = "extend"
           /\ Prune(n, v) \in Asks /\ Shaped(Prune(n, v)) /\ Prune(n, v).op = "prune"
BY DEF Extend, Prune, Ask0, Asks, Shaped, Plain

LEMMA ImportCall ==
    ASSUME NEW f \in Sets
    PROVE  /\ Import(f) \in Asks /\ Shaped(Import(f)) /\ Import(f).op = "import"
           /\ Import(f).saw = None
BY DEF Import, Ask0, Asks, Shaped, Plain, Ways

\* A set that is sent is sound if it was computed from what the server holds, or from
\* nothing.
LEMMA SetCall ==
    ASSUME NEW n \in Names, NEW from \in SUBSET Values, NEW to \in SUBSET Values
    PROVE  LET c == Replace(n, from, to) IN
           /\ c \in Asks /\ Shaped(c) /\ c.op = "replace" /\ c.set = to /\ c.via = None
           /\ \/ held[n] = from
              \/ held[n] \in SUBSET Values /\ from = Values \ to
              => SoundAsk(c)
<1> DEFINE c == Replace(n, from, to)
<1>1. /\ c.op = "replace" /\ c.name = n /\ c.set = to /\ c.plus = to \ from /\ c.minus = from \ to
      /\ c.via = None
  BY DEF Replace, Ask0
<1>2. to \ from \in SUBSET Values /\ from \ to \in SUBSET Values /\ (to \ from) \cap (from \ to) = {}
  OBVIOUS
<1>3. c \in Asks
  BY <1>2 DEF Replace, Ask0, Asks
<1> HIDE DEF c
<1>4. Shaped(c)
  BY <1>1, <1>2 DEF Shaped, Plain
<1>5. ASSUME \/ held[n] = from
             \/ held[n] \in SUBSET Values /\ from = Values \ to
      PROVE  SoundAsk(c)
  <2>1. to = (held[n] \ (from \ to)) \cup (to \ from)
    <3>1. CASE held[n] = from
      BY <3>1
    <3>2. CASE held[n] \in SUBSET Values /\ from = Values \ to
      BY <3>2
    <3> QED BY <1>5, <3>1, <3>2
  <2> QED BY <1>1, <2>1 DEF SoundAsk
<1> QED BY <1>1, <1>3, <1>4, <1>5 DEF c

LEMMA ThroughCall ==
    ASSUME NEW c \in Asks, NEW way \in {None} \cup Ways
    PROVE  LET d == Through(c, way) IN
           /\ d \in Asks /\ d.via = way /\ d.op = c.op
           /\ d.name = c.name /\ d.set = c.set /\ d.plus = c.plus /\ d.minus = c.minus
           /\ d.saw = c.saw /\ d.file = c.file
           /\ (Shaped(c) => Shaped(d)) /\ (SoundAsk(c) => SoundAsk(d))
<1> DEFINE d == Through(c, way)
<1>1. /\ d \in Asks /\ d.via = way /\ d.op = c.op
      /\ d.name = c.name /\ d.set = c.set /\ d.plus = c.plus /\ d.minus = c.minus
      /\ d.saw = c.saw /\ d.file = c.file
  BY DEF Through, Asks
<1> HIDE DEF d
<1>2. (Shaped(c) => Shaped(d)) /\ (SoundAsk(c) => SoundAsk(d))
  BY <1>1 DEF Shaped, Plain, SoundAsk
<1> QED BY <1>1, <1>2 DEF d

\* What is computed from the page while nothing is in flight is computed from what holds.
LEMMA RecordsStep ==
    ASSUME EditorInv, NEW n \in Names, NEW v \in Values, NEW w \in Values,
           \/ AddRecord(n, v) \/ PruneRecordValue(n, v) \/ ToggleRecordDisabled(n, v, w)
    PROVE  EditorInv'
<1>1. held[n] \in SUBSET Values /\ copy[n] \in SUBSET Values
  BY DEF EditorInv, EditorTypeOK, Sets
<1>2. CASE AddRecord(n, v)
  <2> DEFINE c == Through(Extend(n, v), "add")
  <2>1. c \in Asks /\ Shaped(c) /\ c.op = "extend"
    <3>1. "add" \in {None} \cup Ways
      BY DEF Ways
    <3> QED BY <3>1, EntryCalls, ThroughCall
  <2>2. SendEdit(c, {}) /\ draft' = draft /\ draft = None
    BY <1>2 DEF AddRecord
  <2> HIDE DEF c
  <2> QED BY <2>1, <2>2, EditSent DEF IsEdit, SoundAsk
<1>3. CASE PruneRecordValue(n, v)
  BY <1>3, EditSent, EntryCalls DEF PruneRecordValue, IsEdit, SoundAsk
<1>4. CASE ToggleRecordDisabled(n, v, w)
  <2>1. ~Blind => held[n] = copy[n]
    BY DEF Blind, EditorInv, CopyHolds
  <2>2. (copy[n] \ {v}) \cup {w} \in SUBSET Values
    BY <1>1
  <2> DEFINE c == Replace(n, copy[n], (copy[n] \ {v}) \cup {w})
  <2>3. c \in Asks /\ Shaped(c) /\ c.op = "replace" /\ (~Blind => SoundAsk(c))
    BY <1>1, <2>1, <2>2, SetCall
  <2>4. SendEdit(c, BlindIf(Blind)) /\ draft' = draft /\ draft = None
    BY <1>4 DEF ToggleRecordDisabled
  <2> HIDE DEF c
  <2> QED BY <2>3, <2>4, EditSent DEF BlindIf, IsEdit
<1> QED BY <1>2, <1>3, <1>4

\* A set that is removed is removed whatever the page shows.
LEMMA DeleteStep == ASSUME EditorInv, NEW n \in Names, DeleteRRset(n) PROVE EditorInv'
<1>1. held[n] \in SUBSET Values
  BY DEF EditorInv, EditorTypeOK, Sets
<1>2. Values \in SUBSET Values /\ {} \in SUBSET Values /\ Values = Values \ {}
  OBVIOUS
<1> QED BY <1>1, <1>2, EditSent, SetCall DEF DeleteRRset, IsEdit

LEMMA ImportStep == ASSUME EditorInv, NEW f \in Files, ImportZone(f) PROVE EditorInv'
<1>1. /\ Import(f) \in Asks /\ Shaped(Import(f)) /\ IsEdit(Import(f)) /\ SoundAsk(Import(f))
  BY ImportCall DEF IsEdit, SoundAsk
<1> QED BY <1>1, EditSent DEF ImportZone

\* The dialog that is saved shows what the server holds, or was opened blindly.
LEMMA SaveEditStep == ASSUME EditorInv, NEW to \in SUBSET Values, SaveEdit(to) PROVE EditorInv'
<1> DEFINE c == Through(Replace(draft.name, draft.set, to), "edit")
           why == BlindIf(draft.blind)
<1>1. draft \in [name : Names, set : SUBSET Values, blind : BOOLEAN]
  BY DEF SaveEdit, EditorInv, EditorTypeOK
<1>2. c \in Asks /\ Shaped(c) /\ c.op = "replace" /\ c.via = "edit"
      /\ (draft.set = held[draft.name] => SoundAsk(c))
  <2>1. "edit" \in Ways
    BY DEF Ways
  <2> QED BY <1>1, <2>1, SetCall, ThroughCall
<1>3. SendEdit(c, why) /\ draft' = draft /\ draft # None /\ "edit" \notin submitting
  BY DEF SaveEdit
<1>4. ~draft.blind /\ spoiled = {} => draft.set = held[draft.name]
  BY <1>3 DEF EditorInv, DraftHolds
<1>5. why = {} => ~draft.blind
  BY DEF BlindIf
<1>6. why \in SUBSET {"blind"} /\ IsEdit(c)
  BY <1>2 DEF BlindIf, IsEdit
<1> HIDE DEF c, why
<1> QED BY <1>2, <1>3, <1>4, <1>5, <1>6, EditSent

\* Opening and closing the dialog.
LEMMA ModalStep ==
    ASSUME EditorInv, CloseEditModal \/ \E n \in Names : OpenEditModal(n)
    PROVE  EditorInv'
<1>1. /\ UNCHANGED <<tab, held, copy, isLoadingMeta, metadataLoaded, submitting, asked, replies,
                     tries, mishaps, want, dim, spoiled>>
      /\ draft' # None => \E n \in Names :
           tab = "records" /\ draft' = [name |-> n, set |-> copy[n], blind |-> Blind]
  BY DEF CloseEditModal, OpenEditModal
<1>2. Pending' = Pending
  BY <1>1 DEF Pending
<1>3. EditorTypeOK'
  <2>1. draft' \in [name : Names, set : SUBSET Values, blind : BOOLEAN] \cup {None}
    <3>1. Blind \in BOOLEAN /\ copy \in Sets
      BY DEF Blind, EditorInv, EditorTypeOK
    <3>2. \A n \in Names : copy[n] \in SUBSET Values
      BY <3>1 DEF Sets
    <3> QED BY <1>1, <3>1, <3>2
  <2> QED BY <1>1, <2>1 DEF EditorInv, EditorTypeOK
<1>4. SubmittingEnds' /\ AllShaped' /\ EditsHold' /\ CopyHolds'
  BY <1>1, <1>2 DEF EditorInv, SubmittingEnds, AllShaped, EditsHold, Apart, Allowed, Agreed, Sums,
                    Sound, SoundAsk, CopyHolds
<1>5. DraftHolds'
  <2>1. ~Blind => Pending' = {} /\ copy = held'
    BY <1>1, <1>2 DEF EditorInv, CopyHolds, Blind
  <2>2. ASSUME draft' # None
        PROVE  tab' = "records" /\ (~draft'.blind => Pending' = {} /\ draft'.set = held'[draft'.name])
    <3>1. PICK n \in Names : tab = "records" /\ draft' = [name |-> n, set |-> copy[n], blind |-> Blind]
      BY <1>1, <2>2
    <3> QED BY <1>1, <2>1, <3>1
  <2> QED BY <2>2 DEF DraftHolds
<1> QED BY <1>3, <1>4, <1>5 DEF EditorInv

\* What the metadata tabs send.  No dialog is open there.
LEMMA EntryStep ==
    ASSUME EditorInv, MetadataReady, NEW n \in Names, NEW from \in SUBSET Values,
           NEW to \in SUBSET Values, NEW why \in SUBSET {"blind"}, SendEntries(Replace(n, from, to), why),
           why = {} => held[n] = from \/ from = Values \ to
    PROVE  EditorInv'
<1> DEFINE c == Through(Replace(n, from, to), "entry")
<1>1. held[n] \in SUBSET Values
  BY DEF EditorInv, EditorTypeOK, Sets
<1>2. c \in Asks /\ Shaped(c) /\ c.op = "replace" /\ (why = {} => SoundAsk(c))
  <2>1. "entry" \in Ways
    BY DEF Ways
  <2> QED BY <1>1, <2>1, SetCall, ThroughCall
<1>3. draft = None
  BY DEF EditorInv, DraftHolds, MetadataReady
<1>4. SendEdit(c, why) /\ draft' = draft
  BY DEF SendEntries
<1> HIDE DEF c
<1> QED BY <1>2, <1>3, <1>4, EditSent DEF IsEdit

\* A load that is sent changes nothing but what is in flight.
LEMMA LoadSent ==
    ASSUME EditorInv, NEW c \in Asks, c.op = "load", asked' = Append(asked, c), draft = None,
           UNCHANGED <<tab, held, copy, draft, metadataLoaded, replies, tries, mishaps, want, dim, spoiled>>,
           isLoadingMeta' \in BOOLEAN, submitting' \subseteq Ways,
           \A way \in submitting' : way \in submitting \/ c.via = way
    PROVE  EditorInv'
<1> USE DEF EditorInv
<1>1. /\ asked' \in Seq(Asks) /\ Pending' = Pending \cup {c}
      /\ DOMAIN asked = 1..Len(asked) /\ Len(asked) \in Nat
      /\ DOMAIN asked' = 1..Len(asked) + 1 /\ asked'[Len(asked) + 1] = c
      /\ \A i \in DOMAIN asked : i \in DOMAIN asked' /\ asked'[i] = asked[i]
  BY PendingSent
<1>2. EditorTypeOK'
  BY <1>1 DEF EditorTypeOK
<1>3. SubmittingEnds' /\ AllShaped'
  BY <1>1 DEF SubmittingEnds, AllShaped, Shaped, Plain
<1>4. CopyHolds' /\ DraftHolds'
  BY <1>1 DEF CopyHolds, DraftHolds, LoadedSets
<1>5. EditsHold'
  <2> SUFFICES ASSUME spoiled = {} PROVE Apart' /\ (Allowed' => Agreed' /\ Sums' /\ Sound')
    BY DEF EditsHold
  <2>1. Apart'
    BY <1>1 DEF EditsHold, Apart, IsEdit
  <2>2. Allowed' => Agreed' /\ Sums' /\ Sound'
    BY <1>1 DEF EditsHold, Allowed, Agreed, Sums, Sound, SoundAsk
  <2> QED BY <2>1, <2>2
<1> QED BY <1>2, <1>3, <1>4, <1>5

LEMMA LoadCall == LoadSets \in Asks /\ LoadSets.op = "load" /\ LoadSets.via = None
BY DEF LoadSets, Ask0, Asks

LEMMA MetadataStep ==
    ASSUME EditorInv, NEW n \in Names, NEW v \in Values, AddEntry(n, v) \/ RemoveEntry(n, v)
    PROVE  EditorInv'
<1>1. copy[n] \in SUBSET Values /\ copy[n] \cup {v} \in SUBSET Values /\ copy[n] \ {v} \in SUBSET Values
  BY DEF EditorInv, EditorTypeOK, Sets
<1>2. ~Blind => held[n] = copy[n]
  BY DEF Blind, EditorInv, CopyHolds
<1>3. BlindIf(Blind) \in SUBSET {"blind"} /\ (BlindIf(Blind) = {} => ~Blind)
  BY DEF BlindIf
<1>4. CASE AddEntry(n, v) /\ v \in copy[n]
  <2> DEFINE c == Through(LoadSets, "entry")
  <2>1. c \in Asks /\ c.op = "load" /\ c.via = "entry"
    BY LoadCall, ThroughCall DEF Ways
  <2>2. draft = None
    BY <1>4 DEF EditorInv, DraftHolds, AddEntry, MetadataReady
  <2>3. /\ asked' = Append(asked, c) /\ isLoadingMeta' \in BOOLEAN /\ submitting' = {"entry"}
        /\ UNCHANGED <<tab, held, copy, draft, metadataLoaded, replies, tries, mishaps, want, dim, spoiled>>
    BY <1>4 DEF AddEntry
  <2>4. submitting' \subseteq Ways /\ \A way \in submitting' : c.via = way
    BY <2>1, <2>3 DEF Ways
  <2> HIDE DEF c
  <2> QED BY <2>1, <2>2, <2>3, <2>4, LoadSent
<1>5. CASE AddEntry(n, v) /\ v \notin copy[n]
  <2>1. MetadataReady /\ SendEntries(Replace(n, copy[n], copy[n] \cup {v}), BlindIf(Blind))
    BY <1>5 DEF AddEntry
  <2> QED BY <1>1, <1>2, <1>3, <2>1, EntryStep
<1>6. CASE RemoveEntry(n, v)
  <2>1. MetadataReady /\ SendEntries(Replace(n, copy[n], copy[n] \ {v}), BlindIf(Blind))
    BY <1>6 DEF RemoveEntry
  <2> QED BY <1>1, <1>2, <1>3, <2>1, EntryStep
<1> QED BY <1>4, <1>5, <1>6

LEMMA SingleStep ==
    ASSUME EditorInv, NEW n \in Names, NEW to \in SUBSET Values, SaveSingle(n, to)
    PROVE  EditorInv'
<1>1. MetadataReady /\ SendEntries(Replace(n, Values \ to, to), {})
  BY DEF SaveSingle
<1>2. Values \ to \in SUBSET Values /\ {} \in SUBSET {"blind"}
  OBVIOUS
<1> QED BY <1>1, <1>2, EntryStep

-----------------------------------------------------------------------------
(* The answers.                                                            *)

\* The answers that are left when one is taken.
LEMMA ReplyTaken ==
    ASSUME EditorTypeOK, NEW i \in DOMAIN replies, TakeReply(i)
    PROVE  /\ replies[i] \in Replies /\ replies' \in Seq(Replies)
           /\ Len(replies) \in Nat /\ Len(replies') = Len(replies) - 1
           /\ \A k \in DOMAIN replies' : \E a \in DOMAIN replies : a # i /\ replies'[k] = replies[a]
           /\ \A a \in DOMAIN replies : a # i => \E k \in DOMAIN replies' : replies'[k] = replies[a]
           /\ replies[i].call \in Pending /\ replies[i].call \in Asks
           /\ UNCHANGED <<tab, held, tries, mishaps>>
<1>1. replies \in Seq(Replies) /\ replies' = RemoveAt(replies, i) /\ UNCHANGED <<tab, held, tries, mishaps>>
  BY DEF EditorTypeOK, TakeReply
<1>2. replies' \in Seq(Replies) /\ Len(replies) \in Nat /\ Len(replies') = Len(replies) - 1
  BY <1>1, RemovedAt, LenProperties
<1>3. /\ \A k \in DOMAIN replies' : \E a \in DOMAIN replies : a # i /\ replies'[k] = replies[a]
      /\ \A a \in DOMAIN replies : a # i => \E k \in DOMAIN replies' : replies'[k] = replies[a]
  BY <1>1, RemovedApart, RemovedKeeps
<1>4. replies[i] \in Replies
  BY <1>1, ElementOfSeq
<1>5. replies[i].call \in Pending /\ replies[i].call \in Asks
  BY <1>4 DEF Pending, Replies
<1> QED BY <1>1, <1>2, <1>3, <1>4, <1>5

\* What an acknowledged edit means.
LEMMA MeantIs ==
    ASSUME NEW c \in Asks, Shaped(c), IsEdit(c), want \in Sets
    PROVE  /\ Meant(c) \in Sets
           /\ \A n \in Names, v \in Values :
                v \in Meant(c)[n] <=> Adds(c, n, v) \/ (v \in want[n] /\ ~Takes(c, n, v))
<1>1. CASE c.op = "import"
  BY <1>1 DEF Meant, Shaped, Adds, Takes
<1>2. CASE c.op # "import"
  <2>1. Plain(c) /\ c.name \in Names /\ c.plus \in SUBSET Values /\ c.minus \in SUBSET Values
        /\ c.plus \cap c.minus = {}
    BY <1>2 DEF Plain, Shaped, Asks, IsEdit
  <2>2. Meant(c) = [want EXCEPT ![c.name] = (want[c.name] \ c.minus) \cup c.plus]
    BY <1>2 DEF Meant
  <2>3. Meant(c) \in Sets
    BY <2>1, <2>2 DEF Sets
  <2>4. ASSUME NEW n \in Names, NEW v \in Values
        PROVE  v \in Meant(c)[n] <=> Adds(c, n, v) \/ (v \in want[n] /\ ~Takes(c, n, v))
    <3>1. CASE n = c.name
      <4>1. Meant(c)[n] = (want[n] \ c.minus) \cup c.plus
        BY <2>1, <2>2, <3>1 DEF Sets
      <4> QED BY <1>2, <2>1, <3>1, <4>1 DEF Adds, Takes
    <3>2. CASE n # c.name
      <4>1. Meant(c)[n] = want[n]
        BY <2>1, <2>2, <3>2 DEF Sets
      <4> QED BY <1>2, <3>2, <4>1 DEF Adds, Takes
    <3> QED BY <3>1, <3>2
  <2> QED BY <2>3, <2>4
<1> QED BY <1>1, <1>2

\* The answer of a load is neither an edit nor part of one.
LEMMA LoadTaken ==
    ASSUME EditorInv, NEW i \in DOMAIN replies, replies[i].call.op = "load", TakeReply(i),
           asked' = asked, draft' = draft, want' = want, spoiled' = spoiled
    PROVE  EditsHold' /\ DraftHolds'
<1> USE DEF EditorInv
<1>1. /\ \A k \in DOMAIN replies' : \E a \in DOMAIN replies : a # i /\ replies'[k] = replies[a]
      /\ \A a \in DOMAIN replies : a # i => \E k \in DOMAIN replies' : replies'[k] = replies[a]
      /\ replies[i].call \in Pending
      /\ UNCHANGED <<tab, held, tries, mishaps>>
  BY ReplyTaken
<1>2. /\ \A n, v : ~Adds(replies[i].call, n, v) /\ ~Takes(replies[i].call, n, v)
      /\ ~IsEdit(replies[i].call)
  BY DEF Adds, Takes, Plain, IsEdit
<1>3. EditsHold'
  <2> SUFFICES ASSUME spoiled = {} PROVE Apart' /\ (Allowed' => Agreed' /\ Sums' /\ Sound')
    BY DEF EditsHold
  <2>1. Apart'
    BY <1>1 DEF EditsHold, Apart
  <2>2. ASSUME Allowed' PROVE Agreed' /\ Sums' /\ Sound'
    <3>1. Allowed
      BY <1>1, <1>2, <2>2 DEF Allowed
    <3>2. Agreed /\ Sums /\ Sound
      BY <3>1 DEF EditsHold
    <3>3. Agreed'
      BY <1>1, <3>2 DEF Agreed
    <3>4. Sums'
      <4> SUFFICES ASSUME NEW n \in Names, NEW v \in Values
                   PROVE  v \in held[n] <=>
                             \/ \E k \in DOMAIN replies' : Adds(replies'[k].call, n, v)
                             \/ v \in want[n] /\ \A k \in DOMAIN replies' : ~Takes(replies'[k].call, n, v)
        BY <1>1 DEF Sums
      <4>1. (\E k \in DOMAIN replies' : Adds(replies'[k].call, n, v)) <=>
            \E j \in DOMAIN replies : Adds(replies[j].call, n, v)
        BY <1>1, <1>2
      <4>2. (\E k \in DOMAIN replies' : Takes(replies'[k].call, n, v)) <=>
            \E j \in DOMAIN replies : Takes(replies[j].call, n, v)
        BY <1>1, <1>2
      <4> QED BY <3>2, <4>1, <4>2 DEF Sums
    <3>5. Sound'
      BY <1>1, <3>2 DEF Sound, SoundAsk
    <3> QED BY <3>3, <3>4, <3>5
  <2> QED BY <2>1, <2>2
<1>4. DraftHolds'
  BY <1>1 DEF DraftHolds
<1> QED BY <1>3, <1>4

\* What the answer that is taken leaves under way.
LEMMA EndsTaken ==
    ASSUME EditorInv, NEW i \in DOMAIN replies, TakeReply(i),
           \A c \in {asked[k] : k \in DOMAIN asked} : c \in Pending'
    PROVE  /\ \A way \in submitting \ {replies[i].call.via} : \E c \in Pending' : c.via = way
           /\ isLoadingMeta /\ replies[i].call.op # "load" => \E c \in Pending' : c.op = "load"
<1>1. \A a \in DOMAIN replies : a # i => \E k \in DOMAIN replies' : replies'[k] = replies[a]
  BY ReplyTaken DEF EditorInv
<1>2. \A c \in Pending : c # replies[i].call => c \in Pending'
  BY <1>1 DEF Pending
<1> QED BY <1>2 DEF EditorInv, SubmittingEnds

LEMMA ShowStep == ASSUME EditorInv, NEW i \in DOMAIN replies, ShowSets(i) PROVE EditorInv'
<1> USE DEF EditorInv
<1>1. /\ LoadedSets(replies[i]) /\ TakeReply(i) /\ replies[i].call.op = "load"
      /\ copy' = replies[i].sets /\ isLoadingMeta' = FALSE /\ metadataLoaded' = TRUE
      /\ submitting' = submitting \ {replies[i].call.via}
      /\ dim' = (replies[i].behind \/ (~Alone /\ (dim \/ i # 1)))
      /\ UNCHANGED <<draft, asked, want, spoiled>>
  BY DEF ShowSets, LoadedSets
<1>2. /\ replies[i] \in Replies /\ replies' \in Seq(Replies)
      /\ Len(replies) \in Nat /\ Len(replies') = Len(replies) - 1
      /\ \A k \in DOMAIN replies' : \E a \in DOMAIN replies : a # i /\ replies'[k] = replies[a]
      /\ UNCHANGED <<tab, held, tries, mishaps>>
  BY <1>1, ReplyTaken
<1>3. EditorTypeOK'
  <2>1. copy' \in Sets /\ replies[i].behind \in BOOLEAN
    BY <1>1, <1>2 DEF Replies
  <2>2. dim' \in BOOLEAN
    BY <1>1, <2>1 DEF EditorTypeOK
  <2> QED BY <1>1, <1>2, <2>1, <2>2 DEF EditorTypeOK
<1>4. SubmittingEnds'
  BY <1>1, EndsTaken DEF SubmittingEnds, Pending
<1>5. AllShaped'
  <2>1. Pending' \subseteq Pending
    BY <1>1, <1>2 DEF Pending
  <2> QED BY <2>1 DEF AllShaped, Shaped, Plain
<1>6. EditsHold' /\ DraftHolds'
  BY <1>1, LoadTaken
<1>7. CopyHolds'
  <2>1. ASSUME Pending' = {}, ~dim' PROVE copy' = held'
    <3>1. DOMAIN asked = {} /\ DOMAIN replies' = {}
      <4>1. /\ \A k \in DOMAIN asked' : asked'[k] \in Pending'
            /\ \A k \in DOMAIN replies' : replies'[k].call \in Pending'
        BY DEF Pending
      <4> QED BY <1>1, <2>1, <4>1
    <3>2. Len(asked) = 0 /\ Len(replies') = 0
      BY <1>2, <3>1, LenProperties DEF EditorTypeOK
    <3>3. ~replies[i].behind
      BY <1>1, <2>1
    <3> QED BY <1>1, <1>2, <3>3 DEF CopyHolds
  <2>2. \A j \in DOMAIN replies' : LoadedSets(replies'[j]) /\ ~replies'[j].behind => replies'[j].sets = held'
    BY <1>2 DEF CopyHolds
  <2> QED BY <2>1, <2>2 DEF CopyHolds
<1> QED BY <1>3, <1>4, <1>5, <1>6, <1>7

LEMMA FailedStep == ASSUME EditorInv, NEW i \in DOMAIN replies, EditFailed(i) PROVE EditorInv'
<1> USE DEF EditorInv
<1>1. /\ replies[i].status # "ok" /\ TakeReply(i)
      /\ isLoadingMeta' = (isLoadingMeta /\ replies[i].call.op # "load")
      /\ submitting' = submitting \ {replies[i].call.via}
      /\ dim' = TRUE
      /\ spoiled' = spoiled \cup {w \in {"failed"} : replies[i].call.op # "load"}
      /\ UNCHANGED <<copy, draft, metadataLoaded, asked, want>>
  BY DEF EditFailed
<1>2. /\ replies[i] \in Replies /\ replies' \in Seq(Replies)
      /\ \A k \in DOMAIN replies' : \E a \in DOMAIN replies : a # i /\ replies'[k] = replies[a]
      /\ UNCHANGED <<tab, held, tries, mishaps>>
  BY <1>1, ReplyTaken
<1>3. EditorTypeOK'
  BY <1>1, <1>2 DEF EditorTypeOK
<1>4. SubmittingEnds'
  <2>1. \A e \in {asked[k] : k \in DOMAIN asked} : e \in Pending'
    BY <1>1 DEF Pending
  <2> QED BY <1>1, <2>1, EndsTaken DEF SubmittingEnds
<1>5. AllShaped'
  <2>1. Pending' \subseteq Pending
    BY <1>1, <1>2 DEF Pending
  <2> QED BY <2>1 DEF AllShaped, Shaped, Plain
<1>6. EditsHold' /\ DraftHolds'
  <2>1. CASE replies[i].call.op = "load"
    BY <1>1, <2>1, LoadTaken
  <2>2. CASE replies[i].call.op # "load"
    BY <1>1, <1>2, <2>2 DEF EditsHold, DraftHolds
  <2> QED BY <2>1, <2>2
<1>7. CopyHolds'
  BY <1>1, <1>2 DEF CopyHolds
<1> QED BY <1>3, <1>4, <1>5, <1>6, <1>7

LEMMA DoneStep == ASSUME EditorInv, NEW i \in DOMAIN replies, EditDone(i) PROVE EditorInv'
<1> USE DEF EditorInv
<1> DEFINE c == replies[i].call
<1>1. PICK r \in Replies, d \in Asks :
        /\ r = replies[i] /\ r.call.op # "load" /\ r.status = "ok" /\ TakeReply(i)
        /\ d.op = "load" /\ d.via = r.call.via
        /\ want' = Meant(r.call) /\ asked' = Append(asked, d)
        /\ isLoadingMeta' = (tab = "metadata")
        /\ draft' = IF r.call.via = "edit" THEN None ELSE draft
        /\ UNCHANGED <<copy, metadataLoaded, submitting, dim, spoiled>>
        /\ r.call \in Asks /\ r.call \in Pending
  <2>1. replies[i] \in Replies /\ replies[i].call \in Asks /\ replies[i].call \in Pending
    BY ReplyTaken DEF EditDone
  <2>2. replies[i].call.via \in {None} \cup Ways
    BY <2>1 DEF Asks
  <2>3. /\ Through(LoadSets, replies[i].call.via) \in Asks
        /\ Through(LoadSets, replies[i].call.via).op = "load"
        /\ Through(LoadSets, replies[i].call.via).via = replies[i].call.via
    BY <2>2, LoadCall, ThroughCall
  <2> QED BY <2>1, <2>3 DEF EditDone
<1>2. /\ replies' \in Seq(Replies)
      /\ \A k \in DOMAIN replies' : \E a \in DOMAIN replies : a # i /\ replies'[k] = replies[a]
      /\ \A a \in DOMAIN replies : a # i => \E k \in DOMAIN replies' : replies'[k] = replies[a]
      /\ UNCHANGED <<tab, held, tries, mishaps>>
  BY <1>1, ReplyTaken
<1>3. /\ asked' \in Seq(Asks) /\ DOMAIN asked' = 1..Len(asked) + 1 /\ asked'[Len(asked) + 1] = d
      /\ Len(asked) \in Nat /\ DOMAIN asked = 1..Len(asked)
      /\ \A k \in DOMAIN asked : k \in DOMAIN asked' /\ asked'[k] = asked[k]
  BY <1>1, SentShape DEF EditorTypeOK
<1>4. Shaped(r.call) /\ IsEdit(r.call)
  BY <1>1 DEF AllShaped, IsEdit
<1>5. d \in Pending' /\ Pending' \subseteq Pending \cup {d}
  <2>1. Len(asked) + 1 \in DOMAIN asked'
    BY <1>3
  <2>2. \A k \in DOMAIN asked' : k \in DOMAIN asked \/ asked'[k] = d
    BY <1>3
  <2> QED BY <1>2, <1>3, <2>1, <2>2 DEF Pending
<1>6. EditorTypeOK'
  <2>1. want' \in Sets
    BY <1>1, <1>4, MeantIs DEF EditorTypeOK
  <2> QED BY <1>1, <1>2, <1>3, <2>1 DEF EditorTypeOK
<1>7. SubmittingEnds'
  <2>1. \A e \in {asked[k] : k \in DOMAIN asked} : e \in Pending'
    BY <1>3 DEF Pending
  <2>2. \A way \in submitting \ {r.call.via} : \E e \in Pending' : e.via = way
    BY <1>1, <2>1, EndsTaken
  <2> QED BY <1>1, <1>5, <2>2 DEF SubmittingEnds
<1>8. AllShaped'
  <2>1. Shaped(d)
    BY <1>1 DEF Shaped, Plain
  <2> QED BY <1>5, <2>1 DEF AllShaped, Shaped, Plain
<1>9. EditsHold'
  <2> SUFFICES ASSUME spoiled = {} PROVE Apart' /\ (Allowed' => Agreed' /\ Sums' /\ Sound')
    BY <1>1 DEF EditsHold
  <2>1. ~IsEdit(d)
    BY <1>1 DEF IsEdit
  <2>2. Apart'
    <3>1. \A k \in DOMAIN asked' : IsEdit(asked'[k]) => k \in DOMAIN asked /\ asked'[k] = asked[k]
      BY <1>3, <2>1
    <3>2. Apart
      BY DEF EditsHold
    <3>3. \A k, l \in DOMAIN asked' :
            k # l /\ IsEdit(asked'[k]) /\ IsEdit(asked'[l]) => ~Collide(asked'[k], asked'[l])
      BY <3>1, <3>2 DEF Apart
    <3>4. \A k \in DOMAIN asked', l \in DOMAIN replies' :
            IsEdit(asked'[k]) /\ IsEdit(replies'[l].call) => ~Collide(asked'[k], replies'[l].call)
      BY <1>2, <3>1, <3>2 DEF Apart
    <3> QED BY <3>3, <3>4 DEF Apart
  <2>3. ASSUME Allowed' PROVE Agreed' /\ Sums' /\ Sound'
    <3>1. Allowed
      BY <1>1, <1>2, <2>3 DEF Allowed
    <3>2. Agreed /\ Sums /\ Sound
      BY <3>1 DEF EditsHold
    <3>3. Agreed'
      BY <1>2, <3>2 DEF Agreed
    <3>4. Sums'
      <4> SUFFICES ASSUME NEW n \in Names, NEW v \in Values
                   PROVE  v \in held[n] <=>
                             \/ \E k \in DOMAIN replies' : Adds(replies'[k].call, n, v)
                             \/ v \in want'[n] /\ \A k \in DOMAIN replies' : ~Takes(replies'[k].call, n, v)
        BY <1>2 DEF Sums
      <4>1. v \in want'[n] <=> Adds(r.call, n, v) \/ (v \in want[n] /\ ~Takes(r.call, n, v))
        BY <1>1, <1>4, MeantIs DEF EditorTypeOK
      <4>2. /\ (\E j \in DOMAIN replies : Adds(replies[j].call, n, v)) <=>
                 Adds(r.call, n, v) \/ \E k \in DOMAIN replies' : Adds(replies'[k].call, n, v)
            /\ (\E j \in DOMAIN replies : Takes(replies[j].call, n, v)) <=>
                 Takes(r.call, n, v) \/ \E k \in DOMAIN replies' : Takes(replies'[k].call, n, v)
        BY <1>1, <1>2
      <4>3. ~((\E j \in DOMAIN replies : Adds(replies[j].call, n, v)) /\
              \E j \in DOMAIN replies : Takes(replies[j].call, n, v))
        BY <3>2 DEF Agreed
      <4>4. v \in held[n] <=>
               \/ \E j \in DOMAIN replies : Adds(replies[j].call, n, v)
               \/ v \in want[n] /\ ~\E j \in DOMAIN replies : Takes(replies[j].call, n, v)
        BY <3>2 DEF Sums
      <4> QED BY <4>1, <4>2, <4>3, <4>4
    <3>5. Sound'
      BY <1>1, <1>2, <1>3, <3>2 DEF Sound, SoundAsk
    <3> QED BY <3>3, <3>4, <3>5
  <2> QED BY <2>2, <2>3
<1>10. DraftHolds'
  BY <1>1, <1>2 DEF DraftHolds
<1>11. CopyHolds'
  BY <1>1, <1>2, <1>5 DEF CopyHolds
<1> QED BY <1>6, <1>7, <1>8, <1>9, <1>10, <1>11

-----------------------------------------------------------------------------
(* Another tab, and the server.                                            *)

\* The calls as another tab finds them.
SameButVia(c, d) ==
    /\ c.op = d.op /\ c.name = d.name /\ c.set = d.set /\ c.plus = d.plus /\ c.minus = d.minus
    /\ c.saw = d.saw /\ c.file = d.file

LEMMA CollideSame ==
    ASSUME NEW c, NEW d, NEW c1, NEW d1, SameButVia(c1, c), SameButVia(d1, d),
           IsEdit(c1) /\ IsEdit(d1), IsEdit(c) /\ IsEdit(d) => ~Collide(c, d)
    PROVE  ~Collide(c1, d1)
BY DEF SameButVia, IsEdit, Collide

LEMMA TabShape ==
    ASSUME EditorTypeOK, SetTab
    PROVE  /\ asked' \in Seq(Asks) /\ replies' \in Seq(Replies)
           /\ DOMAIN asked \subseteq DOMAIN asked' /\ DOMAIN replies' = DOMAIN replies
           /\ \A k \in DOMAIN asked : SameButVia(asked'[k], asked[k])
           /\ \A k \in DOMAIN asked' : k \in DOMAIN asked \/ asked'[k] = LoadSets
           /\ ~metadataLoaded => \E k \in DOMAIN asked' : asked'[k].op = "load"
           /\ \A j \in DOMAIN replies :
                /\ SameButVia(replies'[j].call, replies[j].call)
                /\ replies'[j].status = replies[j].status /\ replies'[j].sets = replies[j].sets
                /\ replies'[j].behind = replies[j].behind
<1> DEFINE s == Disowned(asked)
<1>1. asked \in Seq(Asks) /\ DOMAIN asked = 1..Len(asked) /\ Len(asked) \in Nat
      /\ replies \in Seq(Replies) /\ DOMAIN replies = 1..Len(replies) /\ Len(replies) \in Nat
  BY DEF EditorTypeOK
<1>2. \A k \in DOMAIN asked : s[k] \in Asks /\ SameButVia(s[k], asked[k])
  <2> SUFFICES ASSUME NEW k \in DOMAIN asked PROVE s[k] \in Asks /\ SameButVia(s[k], asked[k])
    OBVIOUS
  <2>1. asked[k] \in Asks /\ s[k] = Through(asked[k], None)
    BY <1>1 DEF Disowned
  <2> QED BY <2>1, ThroughCall DEF SameButVia
<1>3. s \in Seq(Asks) /\ Len(s) = Len(asked) /\ DOMAIN s = DOMAIN asked
  <2>1. DOMAIN s = 1..Len(asked)
    BY <1>1 DEF Disowned
  <2>2. s \in [1..Len(asked) -> Asks]
    BY <1>1, <1>2, <2>1 DEF Disowned
  <2> HIDE DEF s
  <2>3. s \in Seq(Asks)
    BY <1>1, <2>2, SeqDef
  <2>4. Len(s) = Len(asked)
    BY <1>1, <2>1, <2>3, LenProperties
  <2> QED BY <1>1, <2>1, <2>3, <2>4
<1>4. asked' = s \o (IF metadataLoaded THEN <<>> ELSE <<LoadSets>>)
  BY DEF SetTab
<1> HIDE DEF s
<1>5. /\ asked' \in Seq(Asks) /\ DOMAIN asked \subseteq DOMAIN asked'
      /\ \A k \in DOMAIN asked : SameButVia(asked'[k], asked[k])
      /\ \A k \in DOMAIN asked' : k \in DOMAIN asked \/ asked'[k] = LoadSets
      /\ ~metadataLoaded => \E k \in DOMAIN asked' : asked'[k].op = "load"
  <2>1. CASE metadataLoaded
    <3>1. asked' = s
      BY <1>3, <1>4, <2>1, ConcatEmptySeq
    <3> QED BY <1>2, <1>3, <2>1, <3>1
  <2>2. CASE ~metadataLoaded
    <3>1. asked' = Append(s, LoadSets)
      BY <1>3, <1>4, <2>2, LoadCall, AppendIsConcat
    <3>2. /\ asked' \in Seq(Asks) /\ DOMAIN asked' = 1..Len(s) + 1 /\ DOMAIN s = 1..Len(s)
          /\ Len(s) \in Nat /\ asked'[Len(s) + 1] = LoadSets
          /\ \A k \in DOMAIN s : k \in DOMAIN asked' /\ asked'[k] = s[k]
      BY <1>3, <3>1, LoadCall, SentShape
    <3>3. \A k \in DOMAIN asked' : k \in DOMAIN s \/ k = Len(s) + 1
      BY <3>2
    <3>4. Len(s) + 1 \in DOMAIN asked' /\ asked'[Len(s) + 1].op = "load"
      BY <3>2, LoadCall
    <3> QED BY <1>2, <1>3, <3>2, <3>3, <3>4
  <2> QED BY <2>1, <2>2
<1>6. /\ replies' \in Seq(Replies) /\ DOMAIN replies' = DOMAIN replies
      /\ \A j \in DOMAIN replies :
           /\ SameButVia(replies'[j].call, replies[j].call)
           /\ replies'[j].status = replies[j].status /\ replies'[j].sets = replies[j].sets
           /\ replies'[j].behind = replies[j].behind
  <2>1. replies' = [j \in DOMAIN replies |-> [replies[j] EXCEPT !.call.via = None]]
    BY DEF SetTab
  <2>2. ASSUME NEW j \in DOMAIN replies
        PROVE  /\ replies'[j] \in Replies
               /\ SameButVia(replies'[j].call, replies[j].call)
               /\ replies'[j].status = replies[j].status /\ replies'[j].sets = replies[j].sets
               /\ replies'[j].behind = replies[j].behind
    <3>1. replies[j] \in Replies /\ replies'[j] = [replies[j] EXCEPT !.call = Through(replies[j].call, None)]
      BY <1>1, <2>1 DEF Through
    <3>2. replies[j].call \in Asks
      BY <3>1 DEF Replies
    <3>3. Through(replies[j].call, None) \in Asks /\ SameButVia(Through(replies[j].call, None), replies[j].call)
      BY <3>2, ThroughCall DEF SameButVia
    <3>4. replies'[j].call = Through(replies[j].call, None)
      BY <3>1 DEF Replies
    <3> QED BY <3>1, <3>3, <3>4 DEF Replies
  <2>3. DOMAIN replies' = DOMAIN replies
    BY <2>1
  <2>4. replies' \in [1..Len(replies) -> Replies]
    BY <1>1, <2>1, <2>2, <2>3
  <2>5. replies' \in Seq(Replies)
    BY <1>1, <2>4, SeqDef
  <2> QED BY <2>2, <2>3, <2>5
<1> QED BY <1>5, <1>6

LEMMA TabStep == ASSUME EditorInv, SetTab PROVE EditorInv'
<1> USE DEF EditorInv
<1>1. /\ asked' \in Seq(Asks) /\ replies' \in Seq(Replies)
      /\ DOMAIN asked \subseteq DOMAIN asked' /\ DOMAIN replies' = DOMAIN replies
      /\ \A k \in DOMAIN asked : SameButVia(asked'[k], asked[k])
      /\ \A k \in DOMAIN asked' : k \in DOMAIN asked \/ asked'[k] = LoadSets
      /\ ~metadataLoaded => \E k \in DOMAIN asked' : asked'[k].op = "load"
      /\ \A j \in DOMAIN replies :
           /\ SameButVia(replies'[j].call, replies[j].call)
           /\ replies'[j].status = replies[j].status /\ replies'[j].sets = replies[j].sets
           /\ replies'[j].behind = replies[j].behind
  BY TabShape
<1>2. /\ submitting' = {} /\ isLoadingMeta' = (isLoadingMeta \/ ~metadataLoaded) /\ tab = "metadata"
      /\ UNCHANGED <<tab, held, copy, draft, metadataLoaded, tries, mishaps, want, dim, spoiled>>
  BY DEF SetTab
<1>3. draft' = None
  BY <1>2 DEF DraftHolds
<1>4. EditorTypeOK'
  BY <1>1, <1>2 DEF EditorTypeOK
<1>5. \A c \in Pending : \E d \in Pending' : SameButVia(d, c)
  BY <1>1 DEF Pending
<1>6. \A d \in Pending' : d.op = "load" \/ \E c \in Pending : SameButVia(d, c)
  <2>1. \A k \in DOMAIN asked' : asked'[k].op = "load" \/ \E c \in Pending : SameButVia(asked'[k], c)
    BY <1>1, LoadCall DEF Pending
  <2>2. \A j \in DOMAIN replies' : \E c \in Pending : SameButVia(replies'[j].call, c)
    BY <1>1 DEF Pending
  <2> QED BY <2>1, <2>2 DEF Pending
<1>7. SubmittingEnds'
  <2>1. isLoadingMeta => \E c \in Pending' : c.op = "load"
    BY <1>5 DEF SubmittingEnds, SameButVia
  <2>2. ~metadataLoaded => \E c \in Pending' : c.op = "load"
    BY <1>1 DEF Pending
  <2> QED BY <1>2, <2>1, <2>2 DEF SubmittingEnds
<1>8. AllShaped'
  <2>1. ASSUME NEW d \in Pending' PROVE Shaped(d)
    <3>1. CASE d.op = "load"
      BY <3>1 DEF Shaped, Plain
    <3>2. CASE \E c \in Pending : SameButVia(d, c)
      <4>1. PICK c \in Pending : SameButVia(d, c)
        BY <3>2
      <4> QED BY <4>1 DEF SameButVia, AllShaped, Shaped, Plain
    <3> QED BY <1>6, <3>1, <3>2
  <2> QED BY <2>1 DEF AllShaped, Shaped, Plain
<1>9. EditsHold'
  <2> SUFFICES ASSUME spoiled = {} PROVE Apart' /\ (Allowed' => Agreed' /\ Sums' /\ Sound')
    BY <1>2 DEF EditsHold
  <2>1. \A k \in DOMAIN asked' : IsEdit(asked'[k]) => k \in DOMAIN asked
    BY <1>1, LoadCall DEF IsEdit
  <2>2. Apart'
    <3>1. \A k, l \in DOMAIN asked' :
            k # l /\ IsEdit(asked'[k]) /\ IsEdit(asked'[l]) => ~Collide(asked'[k], asked'[l])
      BY <1>1, <2>1, CollideSame DEF EditsHold, Apart
    <3>2. \A k \in DOMAIN asked', l \in DOMAIN replies' :
            IsEdit(asked'[k]) /\ IsEdit(replies'[l].call) => ~Collide(asked'[k], replies'[l].call)
      BY <1>1, <2>1, CollideSame DEF EditsHold, Apart
    <3> QED BY <3>1, <3>2 DEF Apart
  <2>3. ASSUME Allowed' PROVE Agreed' /\ Sums' /\ Sound'
    <3>1. Allowed
      BY <1>1, <2>3 DEF Allowed, SameButVia, IsEdit
    <3>2. Agreed /\ Sums /\ Sound
      BY <3>1 DEF EditsHold
    <3>3. \A j \in DOMAIN replies, n \in Names, v \in Values :
            /\ Adds(replies'[j].call, n, v) <=> Adds(replies[j].call, n, v)
            /\ Takes(replies'[j].call, n, v) <=> Takes(replies[j].call, n, v)
      BY <1>1 DEF SameButVia, Adds, Takes, Plain
    <3>4. Agreed' /\ Sums'
      BY <1>1, <1>2, <3>2, <3>3 DEF Agreed, Sums
    <3>5. Sound'
      <4>1. ASSUME NEW k \in DOMAIN asked' PROVE SoundAsk(asked'[k])
        <5>1. CASE k \in DOMAIN asked
          BY <1>1, <3>2, <5>1 DEF Sound, SoundAsk, SameButVia
        <5>2. CASE asked'[k] = LoadSets
          BY <5>2, LoadCall DEF SoundAsk
        <5> QED BY <1>1, <5>1, <5>2
      <4> QED BY <1>2, <4>1 DEF Sound, SoundAsk
    <3> QED BY <3>4, <3>5
  <2> QED BY <2>2, <2>3
<1>10. DraftHolds'
  BY <1>3 DEF DraftHolds
<1>11. CopyHolds'
  BY <1>1, <1>2, <1>5 DEF CopyHolds, LoadedSets, SameButVia
<1> QED BY <1>4, <1>7, <1>8, <1>9, <1>10, <1>11

\* The first half of an import sees every name that has values.
LEMMA ReadShape ==
    ASSUME EditorTypeOK, NEW i \in DOMAIN asked, ReadZone(i)
    PROVE  \E c \in Asks :
             /\ asked' = [asked EXCEPT ![i] = c] /\ asked' \in Seq(Asks) /\ DOMAIN asked' = DOMAIN asked
             /\ c.op = "import" /\ asked[i].op = "import"
             /\ c.name = asked[i].name /\ c.set = asked[i].set /\ c.plus = asked[i].plus
             /\ c.minus = asked[i].minus /\ c.file = asked[i].file /\ c.via = asked[i].via
             /\ \A n \in Names \ c.saw : held[n] = {}
             /\ asked'[i] = c /\ \A k \in DOMAIN asked : k # i => asked'[k] = asked[k]
<1> DEFINE saw == {n \in Names : held[n] # {}}
           c == [asked[i] EXCEPT !.saw = saw]
<1>1. asked \in Seq(Asks) /\ asked[i] \in Asks
  BY ElementOfSeq DEF EditorTypeOK
<1>2. saw \in SUBSET Names
  OBVIOUS
<1>3. asked' = [asked EXCEPT ![i] = c]
  BY DEF ReadZone
<1>4. c \in Asks /\ c.saw = saw
  BY <1>1, <1>2 DEF Asks
<1>5. /\ c.op = asked[i].op /\ c.name = asked[i].name /\ c.set = asked[i].set /\ c.plus = asked[i].plus
      /\ c.minus = asked[i].minus /\ c.file = asked[i].file /\ c.via = asked[i].via
  BY <1>1 DEF Asks
<1>6. asked[i].op = "import"
  BY DEF ReadZone
<1>7. \A n \in Names \ saw : held[n] = {}
  OBVIOUS
<1> HIDE DEF saw, c
<1>8. asked' \in Seq(Asks) /\ DOMAIN asked' = DOMAIN asked
  BY <1>1, <1>3, <1>4, ExceptSeq
<1>9. asked'[i] = c /\ \A k \in DOMAIN asked : k # i => asked'[k] = asked[k]
  BY <1>3
<1> QED BY <1>3, <1>4, <1>5, <1>6, <1>7, <1>8, <1>9

LEMMA ReadStep == ASSUME EditorInv, NEW i \in DOMAIN asked, ReadZone(i) PROVE EditorInv'
<1> USE DEF EditorInv
<1>1. PICK c \in Asks :
             /\ asked' = [asked EXCEPT ![i] = c] /\ asked' \in Seq(Asks) /\ DOMAIN asked' = DOMAIN asked
             /\ c.op = "import" /\ asked[i].op = "import"
             /\ c.name = asked[i].name /\ c.set = asked[i].set /\ c.plus = asked[i].plus
             /\ c.minus = asked[i].minus /\ c.file = asked[i].file /\ c.via = asked[i].via
             /\ \A n \in Names \ c.saw : held[n] = {}
             /\ asked'[i] = c /\ \A k \in DOMAIN asked : k # i => asked'[k] = asked[k]
  BY ReadShape
<1>2. UNCHANGED <<tab, held, copy, draft, isLoadingMeta, metadataLoaded, submitting, replies,
                  tries, mishaps, want, dim, spoiled>>
  BY DEF ReadZone
<1>3. /\ \A d \in Pending : \E e \in Pending' : e.op = d.op /\ e.via = d.via
      /\ \A e \in Pending' : e \in Pending \/ e = c
      /\ asked[i] \in Pending
  BY <1>1, <1>2 DEF Pending
<1>4. EditorTypeOK'
  BY <1>1, <1>2 DEF EditorTypeOK
<1>5. SubmittingEnds'
  BY <1>2, <1>3 DEF SubmittingEnds
<1>6. AllShaped'
  <2>1. Shaped(c)
    BY <1>1, <1>3 DEF AllShaped, Shaped, Plain
  <2> QED BY <1>3, <2>1 DEF AllShaped, Shaped, Plain
<1>7. EditsHold'
  <2> SUFFICES ASSUME spoiled = {} PROVE Apart' /\ (Allowed' => Agreed' /\ Sums' /\ Sound')
    BY <1>2 DEF EditsHold
  <2>1. \A k \in DOMAIN asked : asked'[k].op = asked[k].op /\ asked'[k].name = asked[k].name
                             /\ asked'[k].set = asked[k].set
    BY <1>1
  <2>2. Apart'
    BY <1>1, <1>2, <2>1 DEF EditsHold, Apart, Collide, IsEdit
  <2>3. ASSUME Allowed' PROVE Agreed' /\ Sums' /\ Sound'
    <3>1. Agreed /\ Sums /\ Sound
      BY <1>2, <2>3 DEF EditsHold, Allowed
    <3>2. Agreed' /\ Sums'
      BY <1>2, <3>1 DEF Agreed, Sums
    <3>3. SoundAsk(c)
      BY <1>1 DEF SoundAsk
    <3>4. \A k \in DOMAIN asked' : SoundAsk(asked'[k])
      BY <1>1, <3>1, <3>3 DEF Sound
    <3>5. Sound'
      BY <1>2, <3>4 DEF Sound, SoundAsk
    <3> QED BY <3>2, <3>5
  <2> QED BY <2>2, <2>3
<1>8. DraftHolds'
  BY <1>1, <1>2, <1>3 DEF DraftHolds
<1>9. CopyHolds'
  BY <1>2, <1>3 DEF CopyHolds
<1> QED BY <1>4, <1>5, <1>6, <1>7, <1>8, <1>9

\* What the server holds after a call is of the right type.
LEMMA StoredType ==
    ASSUME NEW c \in Asks, Shaped(c), held \in Sets
    PROVE  Stored(c) \in Sets /\ (c.op = "load" => Stored(c) = held)
<1> USE DEF Shaped, Plain, Sets
<1>1. CASE c.op = "load"
  BY <1>1 DEF Stored
<1>2. CASE c.op = "extend"
  BY <1>2 DEF Stored, Asks
<1>3. CASE c.op = "prune"
  BY <1>3 DEF Stored, Asks
<1>4. CASE c.op = "replace"
  BY <1>4 DEF Stored, Asks
<1>5. CASE c.op = "import"
  <2>1. Stored(c) = Imported(c)
    BY <1>5 DEF Stored
  <2> QED BY <1>5, <2>1 DEF Imported
<1> QED BY <1>1, <1>2, <1>3, <1>4, <1>5 DEF Asks

\* The calls and answers in flight when the server is done with one.
LEMMA ReplyShape ==
    ASSUME EditorInv, NEW i \in DOMAIN asked, NEW status \in {"ok", "failed", "denied"},
           Reply(i, status), held' \in Sets
    PROVE  \E r \in Replies :
             /\ r.call \in Asks /\ asked[i] \in Asks /\ asked[i] \in Pending
             /\ r.call.op = asked[i].op /\ r.call.name = asked[i].name /\ r.call.set = asked[i].set
             /\ r.call.plus = asked[i].plus /\ r.call.minus = asked[i].minus
             /\ r.call.file = asked[i].file /\ r.call.via = asked[i].via
             /\ r.status = status /\ (LoadedSets(r) => r.sets = held)
             /\ \A k \in DOMAIN asked' : \E a \in DOMAIN asked : a # i /\ asked'[k] = asked[a]
             /\ \A k, l \in DOMAIN asked' : k # l =>
                  \E a, b \in DOMAIN asked :
                     a # b /\ a # i /\ b # i /\ asked'[k] = asked[a] /\ asked'[l] = asked[b]
             /\ \A a \in DOMAIN asked : a # i => \E k \in DOMAIN asked' : asked'[k] = asked[a]
             /\ DOMAIN replies \subseteq DOMAIN replies'
             /\ \E l \in DOMAIN replies' :
                  /\ l \notin DOMAIN replies /\ replies'[l] = r
                  /\ \A j \in DOMAIN replies' : j \in DOMAIN replies \/ j = l
             /\ \A j \in DOMAIN replies :
                  /\ replies'[j].call = replies[j].call /\ replies'[j].status = replies[j].status
                  /\ replies'[j].sets = replies[j].sets
                  /\ replies'[j].behind = (replies[j].behind \/ (LoadedSets(replies[j]) /\ held' # held))
             /\ EditorTypeOK'
<1> USE DEF EditorInv
<1> DEFINE c == asked[i]
           r == [call |-> [c EXCEPT !.saw = None], status |-> status, behind |-> FALSE,
                 sets |-> IF c.op = "load" /\ status = "ok" THEN held ELSE Empty]
           older == [j \in DOMAIN replies |->
                       [replies[j] EXCEPT !.behind = @ \/ (LoadedSets(replies[j]) /\ held' # held)]]
<1>1. /\ asked \in Seq(Asks) /\ replies \in Seq(Replies) /\ c \in Asks
      /\ DOMAIN replies = 1..Len(replies) /\ Len(replies) \in Nat
  BY ElementOfSeq, LenProperties DEF EditorTypeOK
<1>2. /\ [c EXCEPT !.saw = None] \in Asks
      /\ [c EXCEPT !.saw = None].op = c.op /\ [c EXCEPT !.saw = None].name = c.name
      /\ [c EXCEPT !.saw = None].set = c.set
      /\ [c EXCEPT !.saw = None].plus = c.plus /\ [c EXCEPT !.saw = None].minus = c.minus
      /\ [c EXCEPT !.saw = None].file = c.file /\ [c EXCEPT !.saw = None].via = c.via
  BY <1>1 DEF Asks
<1>3. r \in Replies /\ r.status = status /\ (LoadedSets(r) => r.sets = held)
      /\ r.call = [c EXCEPT !.saw = None]
  <2>1. Empty \in Sets /\ held \in Sets
    BY DEF Empty, Sets, EditorTypeOK
  <2> QED BY <1>2, <2>1 DEF Replies, LoadedSets
<1>4. /\ asked' = RemoveAt(asked, i) /\ replies' = Append(older, r)
      /\ mishaps' \in 0..MaxFaults
      /\ UNCHANGED <<tab, copy, draft, isLoadingMeta, metadataLoaded, submitting, tries, want, dim,
                     spoiled>>
  BY DEF Reply, EditorTypeOK
<1> HIDE DEF r
<1>5. \A j \in DOMAIN replies :
        /\ older[j] \in Replies
        /\ older[j].call = replies[j].call /\ older[j].status = replies[j].status
        /\ older[j].sets = replies[j].sets
        /\ older[j].behind = (replies[j].behind \/ (LoadedSets(replies[j]) /\ held' # held))
  <2> SUFFICES ASSUME NEW j \in DOMAIN replies
               PROVE  /\ older[j] \in Replies
                      /\ older[j].call = replies[j].call /\ older[j].status = replies[j].status
                      /\ older[j].sets = replies[j].sets
                      /\ older[j].behind = (replies[j].behind \/ (LoadedSets(replies[j]) /\ held' # held))
    OBVIOUS
  <2> DEFINE b == replies[j].behind \/ (LoadedSets(replies[j]) /\ held' # held)
  <2>1. replies[j] \in Replies /\ b \in BOOLEAN
    <3>1. replies[j] \in Replies
      BY <1>1
    <3>2. LoadedSets(replies[j]) \in BOOLEAN
      BY DEF LoadedSets
    <3> QED BY <3>1, <3>2 DEF Replies
  <2>2. older[j] = [replies[j] EXCEPT !.behind = b]
    OBVIOUS
  <2> HIDE DEF b, older
  <2>3. /\ older[j] \in Replies
        /\ older[j].call = replies[j].call /\ older[j].status = replies[j].status
        /\ older[j].sets = replies[j].sets /\ older[j].behind = b
    BY <2>1, <2>2 DEF Replies
  <2> QED BY <2>3 DEF b
<1>6. older \in Seq(Replies) /\ Len(older) = Len(replies) /\ DOMAIN older = 1..Len(replies)
  <2>1. DOMAIN older = 1..Len(replies)
    BY <1>1
  <2>2. older \in [1..Len(replies) -> Replies]
    BY <1>1, <1>5, <2>1
  <2> HIDE DEF older
  <2>3. older \in Seq(Replies)
    BY <1>1, <2>2, SeqDef
  <2> QED BY <1>1, <2>1, <2>3, LenProperties
<1> HIDE DEF older
<1>7. /\ replies' \in Seq(Replies) /\ DOMAIN replies' = 1..Len(replies) + 1
      /\ replies'[Len(replies) + 1] = r
      /\ \A j \in 1..Len(replies) : j \in DOMAIN replies' /\ replies'[j] = older[j]
  BY <1>3, <1>4, <1>6, SentShape
<1>8. /\ DOMAIN replies \subseteq DOMAIN replies'
      /\ \E l \in DOMAIN replies' :
           /\ l \notin DOMAIN replies /\ replies'[l] = r
           /\ \A j \in DOMAIN replies' : j \in DOMAIN replies \/ j = l
  <2>1. Len(replies) + 1 \in DOMAIN replies' /\ Len(replies) + 1 \notin DOMAIN replies
    BY <1>1, <1>7
  <2>2. \A j \in DOMAIN replies' : j \in DOMAIN replies \/ j = Len(replies) + 1
    BY <1>1, <1>7
  <2> QED BY <1>1, <1>7, <2>1, <2>2
<1>9. /\ asked' \in Seq(Asks)
      /\ \A k \in DOMAIN asked' : \E a \in DOMAIN asked : a # i /\ asked'[k] = asked[a]
      /\ \A k, l \in DOMAIN asked' : k # l =>
           \E a, b \in DOMAIN asked :
              a # b /\ a # i /\ b # i /\ asked'[k] = asked[a] /\ asked'[l] = asked[b]
      /\ \A a \in DOMAIN asked : a # i => \E k \in DOMAIN asked' : asked'[k] = asked[a]
  <2>1. asked' \in Seq(Asks)
    BY <1>1, <1>4, RemovedAt
  <2>2. \A a \in DOMAIN asked : a # i => \E k \in DOMAIN asked' : asked'[k] = asked[a]
    BY <1>1, <1>4, RemovedKeeps
  <2>3. /\ \A k \in DOMAIN asked' : \E a \in DOMAIN asked : a # i /\ asked'[k] = asked[a]
        /\ \A k, l \in DOMAIN asked' : k # l =>
             \E a, b \in DOMAIN asked :
                a # b /\ a # i /\ b # i /\ asked'[k] = asked[a] /\ asked'[l] = asked[b]
    BY <1>1, <1>4, RemovedApart
  <2> QED BY <2>1, <2>2, <2>3
<1>10. EditorTypeOK'
  BY <1>4, <1>7, <1>9 DEF EditorTypeOK
<1>11. \A j \in DOMAIN replies :
          /\ replies'[j].call = replies[j].call /\ replies'[j].status = replies[j].status
          /\ replies'[j].sets = replies[j].sets
          /\ replies'[j].behind = (replies[j].behind \/ (LoadedSets(replies[j]) /\ held' # held))
  BY <1>1, <1>5, <1>7
<1>12. r.call \in Asks /\ asked[i] \in Pending
  BY <1>2, <1>3 DEF Pending
<1> QED BY <1>1, <1>2, <1>3, <1>8, <1>9, <1>10, <1>11, <1>12

\* An edit that is done adds what it means to what the server holds; one that may have
\* failed is not taken to be done.
LEMMA ReplyStep ==
    ASSUME EditorInv, NEW i \in DOMAIN asked, NEW status \in {"ok", "failed", "denied"},
           Reply(i, status),
           \/ status # "ok" /\ held' = held
           \/ held' = Stored(asked[i]) /\ (asked[i].op = "import" => asked[i].saw # None)
    PROVE  EditorInv'
<1> USE DEF EditorInv
<1>1. asked[i] \in Asks /\ Shaped(asked[i]) /\ held \in Sets
  <2>1. asked[i] \in Asks /\ asked[i] \in Pending
    BY ElementOfSeq DEF EditorTypeOK, Pending
  <2> QED BY <2>1 DEF AllShaped, EditorTypeOK
<1>2. held' \in Sets /\ (asked[i].op = "load" => held' = held)
  BY <1>1, StoredType
<1>3. PICK r \in Replies :
             /\ r.call \in Asks /\ asked[i] \in Asks /\ asked[i] \in Pending
             /\ r.call.op = asked[i].op /\ r.call.name = asked[i].name /\ r.call.set = asked[i].set
             /\ r.call.plus = asked[i].plus /\ r.call.minus = asked[i].minus
             /\ r.call.file = asked[i].file /\ r.call.via = asked[i].via
             /\ r.status = status /\ (LoadedSets(r) => r.sets = held)
             /\ \A k \in DOMAIN asked' : \E a \in DOMAIN asked : a # i /\ asked'[k] = asked[a]
             /\ \A k, l \in DOMAIN asked' : k # l =>
                  \E a, b \in DOMAIN asked :
                     a # b /\ a # i /\ b # i /\ asked'[k] = asked[a] /\ asked'[l] = asked[b]
             /\ \A a \in DOMAIN asked : a # i => \E k \in DOMAIN asked' : asked'[k] = asked[a]
             /\ DOMAIN replies \subseteq DOMAIN replies'
             /\ \E l \in DOMAIN replies' :
                  /\ l \notin DOMAIN replies /\ replies'[l] = r
                  /\ \A j \in DOMAIN replies' : j \in DOMAIN replies \/ j = l
             /\ \A j \in DOMAIN replies :
                  /\ replies'[j].call = replies[j].call /\ replies'[j].status = replies[j].status
                  /\ replies'[j].sets = replies[j].sets
                  /\ replies'[j].behind = (replies[j].behind \/ (LoadedSets(replies[j]) /\ held' # held))
             /\ EditorTypeOK'
  BY <1>2, ReplyShape
<1>4. UNCHANGED <<tab, copy, draft, isLoadingMeta, metadataLoaded, submitting, tries, want, dim, spoiled>>
  BY DEF Reply
<1>5. PICK l \in DOMAIN replies' :
        /\ l \notin DOMAIN replies /\ replies'[l] = r
        /\ \A j \in DOMAIN replies' : j \in DOMAIN replies \/ j = l
  BY <1>3
<1>6. /\ \A d \in Pending : \E e \in Pending' : e.op = d.op /\ e.via = d.via
      /\ \A e \in Pending' : e \in Pending \/ e = r.call
  <2>1. \A d \in Pending : \E e \in Pending' : e.op = d.op /\ e.via = d.via
    <3>1. \A a \in DOMAIN asked : \E e \in Pending' : e.op = asked[a].op /\ e.via = asked[a].via
      <4>1. r.call \in Pending'
        BY <1>5 DEF Pending
      <4>2. \A a \in DOMAIN asked : a # i => asked[a] \in Pending'
        BY <1>3 DEF Pending
      <4> QED BY <1>3, <4>1, <4>2
    <3>2. \A j \in DOMAIN replies : replies[j].call \in Pending'
      BY <1>3 DEF Pending
    <3> QED BY <3>1, <3>2 DEF Pending
  <2>2. \A e \in Pending' : e \in Pending \/ e = r.call
    <3>1. \A k \in DOMAIN asked' : asked'[k] \in Pending
      BY <1>3 DEF Pending
    <3>2. \A j \in DOMAIN replies' : replies'[j].call \in Pending \/ replies'[j].call = r.call
      BY <1>3, <1>5 DEF Pending
    <3> QED BY <3>1, <3>2 DEF Pending
  <2> QED BY <2>1, <2>2
<1>7. SubmittingEnds'
  BY <1>4, <1>6 DEF SubmittingEnds
<1>8. Shaped(r.call)
  BY <1>1, <1>3 DEF Shaped, Plain
<1>9. AllShaped'
  BY <1>6, <1>8 DEF AllShaped, Shaped, Plain
<1>10. DraftHolds'
  BY <1>3, <1>4, <1>6 DEF DraftHolds
<1>11. CopyHolds'
  <2>1. \A j \in DOMAIN replies' : LoadedSets(replies'[j]) /\ ~replies'[j].behind => replies'[j].sets = held'
    <3>1. ASSUME NEW j \in DOMAIN replies, LoadedSets(replies'[j]), ~replies'[j].behind
          PROVE  replies'[j].sets = held'
      <4>1. LoadedSets(replies[j])
        BY <1>3, <3>1 DEF LoadedSets
      <4>2. held' = held /\ ~replies[j].behind
        BY <1>3, <3>1, <4>1
      <4> QED BY <1>3, <3>1, <4>1, <4>2 DEF CopyHolds
    <3>2. LoadedSets(r) => r.sets = held'
      BY <1>2, <1>3 DEF LoadedSets
    <3> QED BY <1>5, <3>1, <3>2
  <2> QED BY <1>3, <1>6, <2>1 DEF CopyHolds
<1>12. EditsHold'
  <2> SUFFICES ASSUME spoiled = {} PROVE Apart' /\ (Allowed' => Agreed' /\ Sums' /\ Sound')
    BY <1>4 DEF EditsHold
  <2>1. Apart
    BY DEF EditsHold
  <2>2. Apart'
    <3>1. \A a, b \in DOMAIN asked' :
            a # b /\ IsEdit(asked'[a]) /\ IsEdit(asked'[b]) => ~Collide(asked'[a], asked'[b])
      BY <1>3, <2>1 DEF Apart
    <3>2. ASSUME NEW k \in DOMAIN asked', NEW j \in DOMAIN replies',
                 IsEdit(asked'[k]), IsEdit(replies'[j].call)
          PROVE  ~Collide(asked'[k], replies'[j].call)
      <4>1. PICK a \in DOMAIN asked : a # i /\ asked'[k] = asked[a]
        BY <1>3
      <4>2. CASE j \in DOMAIN replies
        BY <1>3, <2>1, <3>2, <4>1, <4>2 DEF Apart
      <4>3. CASE replies'[j] = r
        BY <1>3, <2>1, <3>2, <4>1, <4>3 DEF Apart, IsEdit, Collide
      <4> QED BY <1>5, <4>2, <4>3
    <3> QED BY <3>1, <3>2 DEF Apart
  <2>3. ASSUME Allowed' PROVE Agreed' /\ Sums' /\ Sound'
    <3>1. Allowed /\ (IsEdit(asked[i]) => status = "ok")
      BY <1>3, <1>5, <2>3 DEF Allowed, IsEdit
    <3>2. Agreed /\ Sums /\ Sound
      BY <3>1 DEF EditsHold
    <3>3. IsEdit(asked[i]) =>
            /\ held' = Stored(asked[i])
            /\ \A n \in Names, v \in Values :
                 v \in held'[n] <=> Adds(asked[i], n, v) \/ (v \in held[n] /\ ~Takes(asked[i], n, v))
      <4> SUFFICES ASSUME IsEdit(asked[i])
                   PROVE  /\ held' = Stored(asked[i])
                          /\ \A n \in Names, v \in Values :
                               v \in held'[n] <=>
                                 Adds(asked[i], n, v) \/ (v \in held[n] /\ ~Takes(asked[i], n, v))
        OBVIOUS
      <4>1. held' = Stored(asked[i]) /\ (asked[i].op = "import" => asked[i].saw # None)
        BY <3>1
      <4>2. SoundAsk(asked[i])
        BY <3>2 DEF Sound
      <4> QED BY <1>1, <4>1, <4>2, StoredIsMeant
    <3>4. ~IsEdit(asked[i]) =>
            /\ held' = held
            /\ \A n, v : ~Adds(asked[i], n, v) /\ ~Takes(asked[i], n, v)
      BY <1>2 DEF IsEdit, Adds, Takes, Plain
    <3>5. \A n \in Names, v \in Values :
            v \in held'[n] <=> Adds(asked[i], n, v) \/ (v \in held[n] /\ ~Takes(asked[i], n, v))
      BY <3>3, <3>4
    <3>6. \A n \in Names, v \in Values :
            /\ Adds(r.call, n, v) <=> Adds(asked[i], n, v)
            /\ Takes(r.call, n, v) <=> Takes(asked[i], n, v)
            /\ ~(Adds(r.call, n, v) /\ Takes(r.call, n, v))
      BY <1>3, <1>8 DEF Adds, Takes, Plain, Shaped
    <3>7. ASSUME NEW n \in Names, NEW v \in Values, NEW j \in DOMAIN replies
          PROVE  /\ ~(Adds(asked[i], n, v) /\ Takes(replies[j].call, n, v))
                 /\ ~(Takes(asked[i], n, v) /\ Adds(replies[j].call, n, v))
      <4>1. Shaped(replies[j].call)
        BY DEF AllShaped, Pending
      <4>2. CASE IsEdit(asked[i]) /\ IsEdit(replies[j].call)
        <5>1. ~Collide(asked[i], replies[j].call)
          BY <2>1, <4>2 DEF Apart
        <5> QED BY <1>1, <4>1, <4>2, <5>1, Compatible
      <4>3. CASE ~IsEdit(replies[j].call)
        BY <4>3 DEF IsEdit, Adds, Takes, Plain
      <4> QED BY <3>4, <4>2, <4>3
    <3>8. \A n \in Names, v \in Values :
            /\ (\E j \in DOMAIN replies' : Adds(replies'[j].call, n, v)) <=>
                 Adds(asked[i], n, v) \/ \E j \in DOMAIN replies : Adds(replies[j].call, n, v)
            /\ (\E j \in DOMAIN replies' : Takes(replies'[j].call, n, v)) <=>
                 Takes(asked[i], n, v) \/ \E j \in DOMAIN replies : Takes(replies[j].call, n, v)
      BY <1>3, <1>5, <3>6
    <3>9. \A n \in Names, v \in Values :
            ~((\E j \in DOMAIN replies' : Adds(replies'[j].call, n, v)) /\
              \E j \in DOMAIN replies' : Takes(replies'[j].call, n, v))
      <4>1. \A n \in Names, v \in Values :
              ~((\E j \in DOMAIN replies : Adds(replies[j].call, n, v)) /\
                \E j \in DOMAIN replies : Takes(replies[j].call, n, v))
        BY <3>2 DEF Agreed
      <4> QED BY <3>6, <3>7, <3>8, <4>1
    <3>10. Agreed'
      BY <3>9 DEF Agreed
    <3>11. Sums'
      <4>1. ASSUME NEW n \in Names, NEW v \in Values
            PROVE  v \in held'[n] <=>
                     \/ \E j \in DOMAIN replies' : Adds(replies'[j].call, n, v)
                     \/ v \in want[n] /\ ~\E j \in DOMAIN replies' : Takes(replies'[j].call, n, v)
        <5>1. v \in held[n] <=>
                 \/ \E j \in DOMAIN replies : Adds(replies[j].call, n, v)
                 \/ v \in want[n] /\ ~\E j \in DOMAIN replies : Takes(replies[j].call, n, v)
          BY <3>2 DEF Sums
        <5> QED BY <3>5, <3>8, <3>9, <5>1
      <4> QED BY <1>4, <4>1 DEF Sums
    <3>12. Sound'
      <4>1. ASSUME NEW k \in DOMAIN asked'
            PROVE  /\ asked'[k].op = "replace" =>
                        asked'[k].set = (held'[asked'[k].name] \ asked'[k].minus) \cup asked'[k].plus
                   /\ asked'[k].op = "import" /\ asked'[k].saw # None =>
                        \A n \in Names \ asked'[k].saw : held'[n] = {}
        <5>1. PICK a \in DOMAIN asked : a # i /\ asked'[k] = asked[a]
          BY <1>3
        <5>2. SoundAsk(asked[a])
          BY <3>2 DEF Sound
        <5>3. CASE held' = held
          BY <5>1, <5>2, <5>3 DEF SoundAsk
        <5>4. CASE IsEdit(asked[i]) /\ asked[a].op \in {"replace", "import"}
          <6>1. ~Collide(asked[a], asked[i])
            BY <2>1, <5>1, <5>4 DEF Apart, IsEdit
          <6>2. asked[a].op = "replace" /\ asked[i].op # "import" /\ asked[i].name # asked[a].name
            BY <5>4, <6>1 DEF Collide
          <6>3. asked[a].name \in Names /\ asked[i].name \in Names /\ Plain(asked[i])
            <7>1. Shaped(asked[a])
              BY DEF AllShaped, Pending
            <7> QED BY <1>1, <5>4, <6>2, <7>1 DEF Shaped, Plain, Asks, IsEdit
          <6>4. held'[asked[a].name] = held[asked[a].name]
            BY <1>1, <3>3, <5>4, <6>2, <6>3 DEF Stored, Plain, Sets
          <6> QED BY <5>1, <5>2, <6>2, <6>4 DEF SoundAsk
        <5> QED BY <3>4, <5>1, <5>3, <5>4
      <4> QED BY <4>1 DEF Sound, SoundAsk
    <3> QED BY <3>10, <3>11, <3>12
  <2> QED BY <2>2, <2>3
<1> QED BY <1>3, <1>7, <1>9, <1>10, <1>11, <1>12

-----------------------------------------------------------------------------
(* The whole page.                                                         *)

LEMMA EditorInitInvariant == EditorInit => EditorInv
<1> SUFFICES ASSUME EditorInit PROVE EditorInv
  OBVIOUS
<1>1. /\ tab \in {"records", "metadata"} /\ held \in Sets /\ copy = Empty /\ draft = None
      /\ isLoadingMeta \in BOOLEAN /\ metadataLoaded = FALSE /\ submitting = {}
      /\ asked = <<LoadSets>> /\ replies = <<>> /\ tries = 0 /\ mishaps = 0
      /\ want = held /\ dim = FALSE /\ spoiled = {}
  BY DEF EditorInit
<1>2. asked \in Seq(Asks) /\ DOMAIN asked = {1} /\ asked[1] = LoadSets /\ LoadSets.op = "load"
  BY <1>1, LoadCall
<1>3. replies \in Seq(Replies) /\ DOMAIN replies = {}
  BY <1>1, EmptySeq
<1>4. Pending = {LoadSets}
  BY <1>2, <1>3 DEF Pending
<1>5. EditorTypeOK
  <2>1. Empty \in Sets
    BY DEF Empty, Sets
  <2>2. 0 \in 0..MaxEdits /\ 0 \in 0..MaxFaults
    OBVIOUS
  <2> QED BY <1>1, <1>2, <1>3, <2>1, <2>2 DEF EditorTypeOK
<1>6. SubmittingEnds /\ AllShaped
  BY <1>1, <1>2, <1>4 DEF SubmittingEnds, AllShaped, Shaped, Plain
<1>7. EditsHold
  BY <1>1, <1>2, <1>3 DEF EditsHold, Apart, Agreed, Sums, Sound, SoundAsk, IsEdit
<1>8. DraftHolds /\ CopyHolds
  BY <1>1, <1>3, <1>4 DEF DraftHolds, CopyHolds
<1> QED BY <1>5, <1>6, <1>7, <1>8 DEF EditorInv

LEMMA EditorStepInvariant == EditorInv /\ [EditorNext]_editorVars => EditorInv'
<1> SUFFICES ASSUME EditorInv, [EditorNext]_editorVars PROVE EditorInv'
  OBVIOUS
<1>1. CASE EditorUser
  <2>1. ASSUME NEW n \in Names, NEW v \in Values,
               AddRecord(n, v) \/ PruneRecordValue(n, v) \/ \E w \in Values : ToggleRecordDisabled(n, v, w)
        PROVE  EditorInv'
    BY <2>1, RecordsStep
  <2>2. ASSUME NEW n \in Names, NEW v \in Values, AddEntry(n, v) \/ RemoveEntry(n, v) PROVE EditorInv'
    BY <2>2, MetadataStep
  <2>3. ASSUME NEW n \in Names, DeleteRRset(n) PROVE EditorInv'
    BY <2>3, DeleteStep
  <2>4. ASSUME NEW n \in Names, OpenEditModal(n) PROVE EditorInv'
    BY <2>4, ModalStep
  <2>5. ASSUME NEW n \in Names, NEW to \in SUBSET Values, SaveSingle(n, to) PROVE EditorInv'
    BY <2>5, SingleStep
  <2> QED BY <1>1, <2>1, <2>2, <2>3, <2>4, <2>5, ModalStep, SaveEditStep, ImportStep, TabStep DEF EditorUser
<1>2. ASSUME NEW i \in DOMAIN asked, ReadZone(i) PROVE EditorInv'
  BY <1>2, ReadStep
<1>3. ASSUME NEW i \in DOMAIN asked, Do(i) PROVE EditorInv'
  BY <1>3, ReplyStep DEF Do
<1>4. ASSUME NEW i \in DOMAIN asked, NEW status \in {"failed", "denied"}, Deny(i, status) PROVE EditorInv'
  BY <1>4, ReplyStep DEF Deny
<1>5. ASSUME NEW i \in DOMAIN replies, EditorAnswer(i) PROVE EditorInv'
  BY <1>5, ShowStep, DoneStep, FailedStep DEF EditorAnswer
<1>6. CASE UNCHANGED editorVars
  <2> USE <1>6 DEF editorVars, EditorInv
  <2>1. Pending' = Pending
    BY DEF Pending
  <2>2. EditorTypeOK'
    BY DEF EditorTypeOK
  <2>3. SubmittingEnds' /\ DraftHolds' /\ CopyHolds' /\ AllShaped'
    BY <2>1 DEF SubmittingEnds, DraftHolds, CopyHolds, AllShaped, Shaped, Plain
  <2>4. EditsHold'
    BY DEF EditsHold, Apart, Allowed, Agreed, Sums, Sound, SoundAsk
  <2> QED BY <2>2, <2>3, <2>4
<1> QED BY <1>1, <1>2, <1>3, <1>4, <1>5, <1>6 DEF EditorNext

LEMMA EditorInvariant == EditorSpec => []EditorInv
BY EditorInitInvariant, EditorStepInvariant, PTL DEF EditorSpec

\* The variables of the zone page keep their types.
THEOREM EditorTypeCorrect == EditorSpec => []EditorTypeOK
<1>1. EditorInv => EditorTypeOK
  BY DEF EditorInv
<1> QED BY <1>1, EditorInvariant, PTL

\* Nothing stays disabled on the zone page: what is said to be under way has a call in
\* flight, whatever fails and whichever tab is left meanwhile.
THEOREM EditorsEnd == EditorSpec => []SubmittingEnds
<1>1. EditorInv => SubmittingEnds
  BY DEF EditorInv
<1> QED BY <1>1, EditorInvariant, PTL

\* No edit of the zone undoes another edit of the same user, unless one failed, two whose
\* order matters were in flight together, or one was computed from a copy that was out of date.
THEOREM OwnEditsKept == EditorSpec => []OwnEditsStand
<1>1. EditorInv => OwnEditsStand
  <2> SUFFICES ASSUME EditorInv, Pending = {}, spoiled = {} PROVE held = want
    BY DEF OwnEditsStand
  <2>1. DOMAIN replies = {}
    <3>1. \A j \in DOMAIN replies : replies[j].call \in Pending
      BY DEF Pending
    <3> QED BY <3>1
  <2>2. Sums
    BY <2>1 DEF EditorInv, EditsHold, Allowed
  <2>3. held \in Sets /\ want \in Sets
    BY DEF EditorInv, EditorTypeOK
  <2>4. \A n \in Names : held[n] = want[n]
    BY <2>1, <2>2, <2>3 DEF Sums, Sets
  <2> QED BY <2>3, <2>4 DEF Sets
<1> QED BY <1>1, EditorInvariant, PTL

-----------------------------------------------------------------------------
(* The dialog that assigns zones.                                          *)

HIDE TablePageAssumption
USE AccountZonesAssumption

\* The opening under way has been saved.
Tried == attempt # None /\ attempt.opening = openings

\* The zone is stored as the last save would have it.
Kept(z) == owner[z] = zonesTarget <=> z \in attempt.zones

\* Calls are numbered by the openings and saves there have been.
Ordered ==
    /\ loadedAt <= openings
    /\ attempt # None => attempt.opening <= openings
    /\ saves > 0 => attempt # None
    /\ openings > 0 => zonesTarget \in Accounts
    /\ showZonesModal => openings > 0
    /\ \A c \in Waiting : 0 < c.nr /\ c.nr <= IF c.op = "zones" THEN openings ELSE saves

\* A call is either on its way or answered, once.
Single ==
    /\ \A r \in responses : r.request \notin requests
    /\ \A r, s \in responses : r.request = s.request => r = s

\* Readings in flight are of this opening, which has not been loaded, and of what holds.
ReadingsMatch ==
    /\ \A c \in Waiting : c.op = "zones" => c = Reading(zonesTarget, openings) /\ loadedAt # openings
    /\ \A r \in responses : r.request.op = "zones" /\ r.ok =>
         OfAccount(r.owners, zonesTarget) = OfAccount(owner, zonesTarget)

\* Changes in flight, of whichever attempt, are towards what the last one would store.
PutsAgree ==
    \A c \in Waiting : c.op = "put" =>
        /\ Tried /\ c.account = zonesTarget /\ c.zone \in Zones
        /\ c.to = IF c.zone \in attempt.zones THEN zonesTarget ELSE None

\* The save under way has yet to change the zone, or to learn that it could not.
UnderWay(z) ==
    \/ \E c \in requests : c.op = "put" /\ c.zone = z /\ c.nr = saves
    \/ \E r \in responses : r.request.op = "put" /\ r.request.zone = z /\ r.request.nr = saves /\ ~r.ok

\* The zones of the dialog are those of the account until it is saved.  What a save does
\* not change is stored already, and what it does is stored or under way.
LoadedFirst == Tried => loadedAt = openings
LoadedTrue ==
    openings > 0 /\ loadedAt = openings /\ ~Tried => originalZones = OfAccount(owner, zonesTarget)
RestKept == Tried => \A z \in Zones \ Changed(originalZones, attempt.zones) : Kept(z)
ChangesPursued ==
    Tried /\ isSavingZones => \A z \in Changed(originalZones, attempt.zones) : Kept(z) \/ UnderWay(z)
ToldIsKept ==
    told # None =>
        /\ Tried /\ told = [account |-> zonesTarget, zones |-> attempt.zones]
        /\ \A z \in Zones : Kept(z)

Faithful ==
    mixed = {} =>
        ReadingsMatch /\ PutsAgree /\ LoadedFirst /\ LoadedTrue /\ RestKept /\ ChangesPursued /\ ToldIsKept

ZonesInv == ZonesTypeOK /\ DialogEnds /\ Ordered /\ Single /\ Faithful

LEMMA WaitingTyped == ASSUME ZonesTypeOK PROVE Waiting \subseteq Requests
BY DEF ZonesTypeOK, Waiting, Requests, Responses

LEMMA OpenStep == ASSUME ZonesInv, NEW a \in Accounts, OpenZones(a) PROVE ZonesInv'
<1> DEFINE x == Reading(a, openings')
<1> USE DEF ZonesInv
<1>0. openings \in Nat /\ openings' = openings + 1 /\ a # None /\ openings' # openings /\ openings' > 0
  BY DEF ZonesTypeOK, OpenZones
<1>1. /\ x \in Requests /\ x.op = "zones" /\ x.nr = openings'
      /\ requests' = requests \cup {x} /\ responses' = responses
  BY <1>0 DEF OpenZones, Reading, Requests
<1>2. Waiting' = Waiting \cup {x}
  BY <1>1 DEF Waiting
<1>3. ZonesTypeOK'
  BY <1>0, <1>1 DEF OpenZones, ZonesTypeOK, serverVars
<1>4. DialogEnds'
  <2>1. Unanswered \subseteq Unanswered'
    BY <1>2 DEF Unanswered, OpenZones
  <2> QED BY <1>1, <1>2, <2>1 DEF DialogEnds, OpenZones
<1>5. Ordered'
  <2>1. \A c \in Waiting : 0 < c.nr /\ c.nr <= IF c.op = "zones" THEN openings' ELSE saves
    BY <1>0, WaitingTyped DEF Ordered, Requests, ZonesTypeOK
  <2>2. attempt # None => attempt.opening <= openings'
    BY <1>0 DEF Ordered, ZonesTypeOK
  <2> QED BY <1>0, <1>1, <1>2, <2>1, <2>2 DEF Ordered, OpenZones, ZonesTypeOK
<1>6. Single'
  <2>1. x \notin Waiting
    BY <1>0, <1>1, WaitingTyped DEF Ordered, Requests
  <2> QED BY <1>1, <2>1 DEF Single, Waiting
<1>7. ASSUME mixed' = {} PROVE ReadingsMatch' /\ PutsAgree'
  <2>1. \A c \in Waiting : c.op = "accounts"
    BY <1>7 DEF OpenZones
  <2>2. loadedAt' # openings'
    BY <1>0 DEF OpenZones, Ordered, ZonesTypeOK
  <2> QED BY <1>1, <1>2, <2>1, <2>2 DEF ReadingsMatch, PutsAgree, OpenZones, Waiting
<1>8. ~Tried' /\ loadedAt' # openings' /\ told' = None
  BY <1>0 DEF OpenZones, Ordered, ZonesTypeOK, Tried
<1>9. Faithful'
  BY <1>7, <1>8 DEF Faithful, LoadedFirst, LoadedTrue, RestKept, ChangesPursued, ToldIsKept
<1> QED BY <1>3, <1>4, <1>5, <1>6, <1>9

\* The boxes and the display enter none of this.
LEMMA BoxesStep ==
    ASSUME ZonesInv, CloseZones \/ \E z \in Zones : ToggleZone(z)
    PROVE  ZonesInv'
<1> USE DEF CloseZones, ToggleZone, serverVars, historyVars
<1>1. ZonesTypeOK'
  BY DEF ZonesInv, ZonesTypeOK
<1>2. Waiting' = Waiting /\ (showZonesModal' => showZonesModal)
  BY DEF Waiting
<1>3. DialogEnds' /\ Ordered' /\ Single'
  BY <1>2 DEF ZonesInv, DialogEnds, Ordered, Single, Unanswered
<1>4. Faithful'
  BY <1>2 DEF ZonesInv, Faithful, ReadingsMatch, PutsAgree, LoadedFirst, LoadedTrue, RestKept,
              ChangesPursued, ToldIsKept, Tried, Kept, UnderWay
<1> QED BY <1>1, <1>3, <1>4 DEF ZonesInv

LEMMA ReassignStep ==
    ASSUME ZonesInv, NEW z \in Zones, NEW a \in Accounts \cup {None}, OthersAssign(z, a)
    PROVE  ZonesInv'
<1> USE DEF OthersAssign, dialogVars
<1>1. ZonesTypeOK'
  BY DEF ZonesInv, ZonesTypeOK, Owners
<1>2. Waiting' = Waiting
  BY DEF Waiting
<1>3. DialogEnds' /\ Ordered' /\ Single'
  BY <1>2 DEF ZonesInv, DialogEnds, Ordered, Single, Unanswered
<1>4. Faithful'
  BY DEF Faithful
<1> QED BY <1>1, <1>3, <1>4 DEF ZonesInv

\* A save that has something to change changes it towards what is ticked; what it leaves
\* alone was stored by an earlier attempt, or is as it was loaded.
LEMMA SaveStep == ASSUME ZonesInv, SaveZones PROVE ZonesInv'
<1> DEFINE puts == Puts(zonesTarget, originalZones, selectedZones, saves')
           new == IF puts = {} THEN {Relisting(zonesTarget, saves')} ELSE puts
<1>0. /\ saves \in Nat /\ saves' = saves + 1 /\ saves < MaxEdits /\ saves' > 0 /\ saves' \in Nat
      /\ requests' = requests \cup new /\ responses' = responses
      /\ zonesTarget \in Accounts /\ openings > 0 /\ openings \in Nat
      /\ selectedZones \subseteq Zones /\ originalZones \subseteq Zones
  BY DEF SaveZones, ZonesInv, ZonesTypeOK, Ordered
<1>1. /\ attempt' = [opening |-> openings, zones |-> selectedZones] /\ attempt' # None
      /\ openings' = openings /\ zonesTarget' = zonesTarget /\ Tried'
  BY <1>0 DEF SaveZones, Tried
<1>2. /\ new # {}
      /\ \A c \in new : c \in Requests /\ c.nr = saves' /\ c.op # "zones"
  <2>1. new # {}
    <3>1. CASE puts = {}
      BY <3>1
    <3>2. CASE puts # {}
      BY <3>2
    <3> QED BY <3>1, <3>2
  <2>2. \A c \in new : c \in Requests /\ c.nr = saves' /\ c.op # "zones"
    BY <1>0 DEF Puts, Putting, Relisting, Requests, Changed
  <2> QED BY <2>1, <2>2
<1>3. \A c \in new : c.op = "put" =>
        /\ c.account = zonesTarget /\ c.zone \in Zones
        /\ c.to = IF c.zone \in attempt'.zones THEN zonesTarget ELSE None
  BY <1>0, <1>1 DEF Puts, Putting, Relisting, Changed
<1>4. \A z \in Changed(originalZones, selectedZones) : \E c \in new : c.op = "put" /\ c.zone = z
  <2> SUFFICES ASSUME NEW z \in Changed(originalZones, selectedZones)
               PROVE  \E c \in new : c.op = "put" /\ c.zone = z
    OBVIOUS
  <2>1. Putting(zonesTarget, z, IF z \in selectedZones THEN zonesTarget ELSE None, saves') \in puts
    BY DEF Puts
  <2> QED BY <2>1 DEF Putting
<1>5. Waiting' = Waiting \cup new
  BY <1>0 DEF Waiting
<1> HIDE DEF new
<1>6. ZonesTypeOK'
  <2>1. attempt' \in [opening : Nat, zones : SUBSET Zones] \cup {None}
    BY <1>0, <1>1
  <2>2. told' \in [account : Accounts, zones : SUBSET Zones] \cup {None}
    BY <1>0 DEF SaveZones
  <2>3. saves' \in 0..MaxEdits /\ requests' \subseteq Requests
    BY <1>0, <1>2 DEF ZonesInv, ZonesTypeOK
  <2> QED BY <1>0, <2>1, <2>2, <2>3 DEF ZonesInv, ZonesTypeOK, SaveZones, serverVars
<1>7. DialogEnds'
  BY <1>2, <1>5 DEF ZonesInv, DialogEnds, Unanswered, SaveZones
<1>8. Ordered'
  <2>1. \A c \in Waiting : 0 < c.nr /\ c.nr <= IF c.op = "zones" THEN openings' ELSE saves'
    BY <1>0, <1>1, WaitingTyped DEF ZonesInv, Ordered, Requests
  <2>2. loadedAt' <= openings' /\ attempt'.opening <= openings'
    BY <1>0, <1>1 DEF ZonesInv, Ordered, SaveZones
  <2> QED BY <1>0, <1>1, <1>2, <1>5, <2>1, <2>2 DEF Ordered
<1>9. Single'
  <2>1. \A c \in new : c \notin Waiting
    BY <1>0, <1>2, WaitingTyped DEF ZonesInv, Ordered, Requests
  <2> QED BY <1>0, <2>1 DEF ZonesInv, Single, Waiting
<1>10. ASSUME mixed' = {} PROVE ReadingsMatch' /\ PutsAgree'
  <2>1. mixed = {} /\ loadedAt' = loadedAt /\ owner' = owner /\ (Tried => attempt.zones = selectedZones)
    BY <1>10 DEF SaveZones, Tried, serverVars
  <2>2. ReadingsMatch'
    BY <1>0, <1>1, <1>2, <1>5, <2>1 DEF ZonesInv, Faithful, ReadingsMatch
  <2>3. PutsAgree'
    BY <1>1, <1>3, <1>5, <2>1 DEF ZonesInv, Faithful, PutsAgree
  <2> QED BY <2>2, <2>3
<1>11. ASSUME mixed' = {}
       PROVE  LoadedFirst' /\ LoadedTrue' /\ RestKept' /\ ChangesPursued' /\ ToldIsKept'
  <2>1. /\ mixed = {} /\ loadedAt = openings /\ loadedAt' = loadedAt /\ owner' = owner
        /\ originalZones' = originalZones /\ (Tried => attempt.zones = selectedZones)
    BY <1>11 DEF SaveZones, Tried, serverVars
  <2>2. \A z \in Zones : Kept(z)' <=> (owner[z] = zonesTarget <=> z \in selectedZones)
    BY <1>1, <2>1 DEF Kept
  <2>3. \A z \in Zones \ Changed(originalZones, selectedZones) : Kept(z)'
    <3>1. CASE Tried
      BY <2>1, <2>2, <3>1 DEF ZonesInv, Faithful, RestKept, Kept
    <3>2. CASE ~Tried
      <4>1. originalZones = OfAccount(owner, zonesTarget)
        BY <1>0, <2>1, <3>2 DEF ZonesInv, Faithful, LoadedTrue
      <4> QED BY <2>2, <4>1 DEF Changed, OfAccount
    <3> QED BY <3>1, <3>2
  <2>4. RestKept'
    BY <1>1, <2>1, <2>3 DEF RestKept
  <2>5. ChangesPursued'
    BY <1>0, <1>1, <1>2, <1>4, <2>1 DEF ChangesPursued, UnderWay
  <2>6. ToldIsKept'
    <3>1. CASE puts = {}
      <4>1. Changed(originalZones, selectedZones) = {}
        BY <3>1 DEF Puts
      <4> QED BY <1>1, <2>3, <3>1, <4>1 DEF ToldIsKept, SaveZones
    <3>2. CASE puts # {}
      BY <3>2 DEF ToldIsKept, SaveZones
    <3> QED BY <3>1, <3>2
  <2> QED BY <1>1, <2>1, <2>4, <2>5, <2>6 DEF LoadedFirst, LoadedTrue
<1> QED BY <1>6, <1>7, <1>8, <1>9, <1>10, <1>11 DEF ZonesInv, Faithful

-----------------------------------------------------------------------------

\* Whatever the server answers, the call is answered instead of on its way.
LEMMA AttendShape ==
    ASSUME ZonesInv, NEW c \in requests, NEW ok \in BOOLEAN, Attend(c, ok), owner' \in Owners
    PROVE  ZonesTypeOK' /\ DialogEnds' /\ Ordered' /\ Single' /\ Waiting' = Waiting
<1> DEFINE r == [request |-> c, ok |-> ok, owners |-> IF ok /\ c.op = "zones" THEN owner ELSE NoOwners]
<1>1. requests' = requests \ {c} /\ responses' = responses \cup {r} /\ r.request = c /\ c \in Requests
  BY DEF Attend, ZonesInv, ZonesTypeOK
<1>2. r \in Responses
  BY <1>1 DEF Responses, NoOwners, Owners, ZonesInv, ZonesTypeOK
<1>3. ZonesTypeOK'
  <2>1. troubles' \in 0..MaxFaults
    BY DEF Attend, ZonesInv, ZonesTypeOK
  <2> QED BY <1>1, <1>2, <2>1 DEF Attend, ZonesInv, ZonesTypeOK, dialogVars, historyVars
<1> HIDE DEF r
<1>4. Waiting' = Waiting
  BY <1>1 DEF Waiting
<1>5. DialogEnds' /\ Ordered'
  BY <1>4 DEF Attend, ZonesInv, DialogEnds, Ordered, Unanswered, dialogVars, historyVars
<1>6. Single'
  BY <1>1 DEF ZonesInv, Single
<1> QED BY <1>3, <1>4, <1>5, <1>6

\* A call that changes nothing, be it a reading or a change that is refused, leaves what
\* was under way to be learnt of.
LEMMA NothingChanges ==
    ASSUME ZonesInv, NEW c \in requests, NEW ok \in BOOLEAN, Attend(c, ok), owner' = owner,
           c.op = "put" => ~ok
    PROVE  ZonesInv'
<1> DEFINE r == [request |-> c, ok |-> ok, owners |-> IF ok /\ c.op = "zones" THEN owner ELSE NoOwners]
<1>1. ZonesTypeOK' /\ DialogEnds' /\ Ordered' /\ Single' /\ Waiting' = Waiting
  <2>1. owner' \in Owners
    BY DEF ZonesInv, ZonesTypeOK
  <2> QED BY <2>1, AttendShape
<1>2. /\ requests' = requests \ {c} /\ responses' = responses \cup {r} /\ r.request = c /\ r.ok = ok
      /\ (c.op = "zones" /\ ok => r.owners = owner)
  BY DEF Attend
<1> HIDE DEF r
<1>3. /\ mixed' = mixed /\ zonesTarget' = zonesTarget /\ openings' = openings /\ loadedAt' = loadedAt
      /\ attempt' = attempt /\ saves' = saves /\ told' = told /\ originalZones' = originalZones
      /\ isSavingZones' = isSavingZones /\ (Tried' <=> Tried)
  BY DEF Attend, dialogVars, historyVars, Tried
<1>4. \A z : (Kept(z)' <=> Kept(z)) /\ (UnderWay(z) => UnderWay(z)')
  BY <1>2, <1>3 DEF Kept, UnderWay
<1>5. Faithful'
  <2> SUFFICES ASSUME mixed' = {}
               PROVE  /\ ReadingsMatch' /\ PutsAgree' /\ LoadedFirst' /\ LoadedTrue' /\ RestKept'
                      /\ ChangesPursued' /\ ToldIsKept'
    BY DEF Faithful
  <2>1. /\ ReadingsMatch /\ PutsAgree /\ LoadedFirst /\ LoadedTrue /\ RestKept
        /\ ChangesPursued /\ ToldIsKept
    BY <1>3 DEF ZonesInv, Faithful
  <2>2. ReadingsMatch'
    BY <1>1, <1>2, <1>3, <2>1 DEF ReadingsMatch
  <2>3. PutsAgree'
    BY <1>1, <1>3, <2>1 DEF PutsAgree
  <2>4. LoadedFirst' /\ LoadedTrue' /\ RestKept' /\ ChangesPursued' /\ ToldIsKept'
    BY <1>3, <1>4, <2>1 DEF LoadedFirst, LoadedTrue, RestKept, ChangesPursued, ToldIsKept
  <2> QED BY <2>2, <2>3, <2>4
<1> QED BY <1>1, <1>5 DEF ZonesInv

\* A change that is served makes its zone what the last save would have it.
LEMMA ChangeServed ==
    ASSUME ZonesInv, NEW c \in requests, NEW ok \in BOOLEAN, Attend(c, ok), c.op = "put",
           owner' = [owner EXCEPT ![c.zone] = c.to]
    PROVE  ZonesInv'
<1> DEFINE r == [request |-> c, ok |-> ok, owners |-> IF ok /\ c.op = "zones" THEN owner ELSE NoOwners]
<1>1. c \in Waiting /\ c \in Requests /\ owner \in Owners /\ owner' \in Owners
  BY DEF Waiting, ZonesInv, ZonesTypeOK, Owners, Requests
<1>2. ZonesTypeOK' /\ DialogEnds' /\ Ordered' /\ Single' /\ Waiting' = Waiting
  BY <1>1, AttendShape
<1>3. requests' = requests \ {c} /\ responses' = responses \cup {r} /\ r.request = c
  BY DEF Attend
<1> HIDE DEF r
<1>4. /\ mixed' = mixed /\ zonesTarget' = zonesTarget /\ openings' = openings /\ loadedAt' = loadedAt
      /\ attempt' = attempt /\ saves' = saves /\ told' = told /\ originalZones' = originalZones
      /\ isSavingZones' = isSavingZones /\ (Tried' <=> Tried)
  BY DEF Attend, dialogVars, historyVars, Tried
<1>5. Faithful'
  <2> SUFFICES ASSUME mixed' = {}
               PROVE  /\ ReadingsMatch' /\ PutsAgree' /\ LoadedFirst' /\ LoadedTrue' /\ RestKept'
                      /\ ChangesPursued' /\ ToldIsKept'
    BY DEF Faithful
  <2>1. /\ ReadingsMatch /\ PutsAgree /\ LoadedFirst /\ LoadedTrue /\ RestKept
        /\ ChangesPursued /\ ToldIsKept
    BY <1>4 DEF ZonesInv, Faithful
  <2>2. /\ Tried /\ loadedAt = openings /\ c.zone \in Zones /\ zonesTarget # None
        /\ c.to = IF c.zone \in attempt.zones THEN zonesTarget ELSE None
    <3>1. /\ Tried /\ c.account = zonesTarget /\ c.zone \in Zones
          /\ c.to = IF c.zone \in attempt.zones THEN zonesTarget ELSE None
      BY <1>1, <2>1 DEF PutsAgree
    <3> QED BY <1>1, <2>1, <3>1 DEF LoadedFirst, Requests
  <2>3. (\A z \in Zones : Kept(z) => Kept(z)') /\ Kept(c.zone)'
    BY <1>1, <1>4, <2>2 DEF Kept, Owners
  <2>4. \A z \in Zones : UnderWay(z) => Kept(z)' \/ UnderWay(z)'
    BY <1>3, <1>4, <2>3 DEF UnderWay
  <2>5. ReadingsMatch'
    <3>1. \A d \in Waiting : d.op # "zones"
      BY <2>1, <2>2 DEF ReadingsMatch
    <3> QED BY <1>2, <3>1 DEF ReadingsMatch, Waiting
  <2>6. PutsAgree'
    BY <1>2, <1>4, <2>1 DEF PutsAgree
  <2>7. LoadedFirst' /\ LoadedTrue' /\ RestKept' /\ ToldIsKept'
    BY <1>4, <2>1, <2>2, <2>3 DEF LoadedFirst, LoadedTrue, RestKept, ToldIsKept
  <2>8. ChangesPursued'
    <3>1. Changed(originalZones, attempt.zones) \subseteq Zones
      BY <2>2 DEF Changed, Tried, ZonesInv, ZonesTypeOK
    <3> QED BY <1>4, <2>1, <2>3, <2>4, <3>1 DEF ChangesPursued
  <2> QED BY <2>5, <2>6, <2>7, <2>8
<1> QED BY <1>2, <1>5 DEF ZonesInv

LEMMA ServeStep == ASSUME ZonesInv, NEW c \in requests, Grant(c) \/ Reject(c) PROVE ZonesInv'
<1>1. CASE Grant(c)
  <2>1. PICK ok \in BOOLEAN : Attend(c, ok)
    BY <1>1 DEF Grant
  <2>2. CASE c.op = "put"
    BY <1>1, <2>1, <2>2, ChangeServed DEF Grant
  <2>3. CASE c.op # "put"
    BY <1>1, <2>1, <2>3, NothingChanges DEF Grant
  <2> QED BY <2>2, <2>3
<1>2. CASE Reject(c)
  BY <1>2, NothingChanges DEF Reject
<1> QED BY <1>1, <1>2

-----------------------------------------------------------------------------

\* An answer that is taken leaves the others in flight.
LEMMA TakeShape ==
    ASSUME ZonesInv, NEW r \in responses, responses' = responses \ {r}, requests' = requests
    PROVE  /\ Waiting' = Waiting \ {r.request} /\ r \in Responses /\ r.request \in Waiting
           /\ Single'
BY DEF ZonesInv, ZonesTypeOK, Single, Waiting

LEMMA ZonesReadStep == ASSUME ZonesInv, NEW r \in responses, ZonesRead(r) PROVE ZonesInv'
<1> USE DEF ZonesRead, TakeResponse, serverVars
<1>1. Waiting' = Waiting \ {r.request} /\ r \in Responses /\ r.request \in Waiting /\ Single'
  BY TakeShape
<1>2. r.request.nr \in Nat /\ r.request.nr <= openings /\ openings \in Nat /\ openings <= MaxOpenings
  BY <1>1, WaitingTyped DEF ZonesInv, Ordered, ZonesTypeOK, Requests
<1>3. ZonesTypeOK'
  <2>1. loadedAt' \in 0..MaxOpenings /\ originalZones' \subseteq Zones
    BY <1>2 DEF OfAccount, ZonesInv, ZonesTypeOK
  <2> QED BY <2>1 DEF ZonesInv, ZonesTypeOK
<1>4. DialogEnds'
  BY <1>1 DEF ZonesInv, DialogEnds, Unanswered
<1>5. Ordered'
  BY <1>1, <1>2 DEF ZonesInv, Ordered
<1>6. Faithful'
  <2> SUFFICES ASSUME mixed' = {}
               PROVE  /\ ReadingsMatch' /\ PutsAgree' /\ LoadedFirst' /\ LoadedTrue' /\ RestKept'
                      /\ ChangesPursued' /\ ToldIsKept'
    BY DEF Faithful
  <2>1. ReadingsMatch /\ PutsAgree /\ LoadedFirst /\ ToldIsKept
    BY DEF ZonesInv, Faithful
  <2>2. r.request = Reading(zonesTarget, openings) /\ loadedAt # openings
    BY <1>1, <2>1 DEF ReadingsMatch
  <2>3. loadedAt' = openings /\ ~Tried' /\ told' = None
    BY <2>1, <2>2 DEF Reading, LoadedFirst, ToldIsKept, Tried
  <2>4. originalZones' = OfAccount(owner, zonesTarget)
    BY <2>1, <2>2 DEF ReadingsMatch, Reading
  <2>5. ReadingsMatch'
    <3>1. \A c \in Waiting' : c.op # "zones"
      BY <1>1, <2>1, <2>2 DEF ReadingsMatch
    <3> QED BY <3>1 DEF ReadingsMatch, Waiting
  <2>6. PutsAgree'
    BY <1>1, <2>1 DEF PutsAgree, Tried
  <2> QED BY <2>3, <2>4, <2>5, <2>6 DEF LoadedFirst, LoadedTrue, RestKept, ChangesPursued, ToldIsKept, OfAccount
<1> QED BY <1>1, <1>3, <1>4, <1>5, <1>6 DEF ZonesInv

\* An answer that only ends a spinner, or nothing.
LEMMA QuietStep ==
    ASSUME ZonesInv, NEW r \in responses, ZonesUnread(r) \/ PutFailed(r) \/ SaveEnded(r)
    PROVE  ZonesInv'
<1> USE DEF ZonesUnread, PutFailed, SaveEnded, TakeResponse, serverVars
<1>1. Waiting' = Waiting \ {r.request} /\ r \in Responses /\ r.request \in Waiting /\ Single'
  BY TakeShape
<1>2. ZonesTypeOK'
  BY DEF ZonesInv, ZonesTypeOK
<1>3. DialogEnds'
  <2>1. isSavingZones' => Unanswered' # {}
    <3>1. isSavingZones' => isSavingZones /\ r.request \notin Unanswered
      BY DEF Unanswered, ZonesInv, ZonesTypeOK
    <3> QED BY <1>1, <3>1 DEF ZonesInv, DialogEnds, Unanswered
  <2>2. isLoadingZones' => isLoadingZones /\ r.request.op # "zones"
    OBVIOUS
  <2> QED BY <1>1, <2>1, <2>2 DEF ZonesInv, DialogEnds
<1>4. Ordered'
  BY <1>1 DEF ZonesInv, Ordered
<1>5. /\ mixed' = mixed /\ owner' = owner /\ zonesTarget' = zonesTarget /\ openings' = openings
      /\ loadedAt' = loadedAt /\ attempt' = attempt /\ saves' = saves /\ told' = told
      /\ originalZones' = originalZones /\ requests' = requests /\ (Tried' <=> Tried)
  BY DEF Tried
<1>6. \A z : Kept(z)' <=> Kept(z)
  BY <1>5 DEF Kept
<1>7. isSavingZones' => isSavingZones /\ \A z : UnderWay(z) => UnderWay(z)'
  BY <1>5 DEF UnderWay, ZonesInv, ZonesTypeOK
<1>8. Faithful'
  <2> SUFFICES ASSUME mixed' = {}
               PROVE  /\ ReadingsMatch' /\ PutsAgree' /\ LoadedFirst' /\ LoadedTrue' /\ RestKept'
                      /\ ChangesPursued' /\ ToldIsKept'
    BY DEF Faithful
  <2>1. /\ ReadingsMatch /\ PutsAgree /\ LoadedFirst /\ LoadedTrue /\ RestKept
        /\ ChangesPursued /\ ToldIsKept
    BY <1>5 DEF ZonesInv, Faithful
  <2>2. ReadingsMatch' /\ PutsAgree'
    BY <1>1, <1>5, <2>1 DEF ReadingsMatch, PutsAgree
  <2>3. LoadedFirst' /\ LoadedTrue' /\ RestKept' /\ ChangesPursued' /\ ToldIsKept'
    BY <1>5, <1>6, <1>7, <2>1 DEF LoadedFirst, LoadedTrue, RestKept, ChangesPursued, ToldIsKept
  <2> QED BY <2>2, <2>3
<1> QED BY <1>1, <1>2, <1>3, <1>4, <1>8 DEF ZonesInv

\* The last change of a save comes back: no zone is under way, so all are kept.
LEMMA PutDoneStep == ASSUME ZonesInv, NEW r \in responses, PutDone(r) PROVE ZonesInv'
<1> USE DEF PutDone, TakeResponse, serverVars
<1> DEFINE last == isSavingZones /\ r.request.nr = saves /\ Unanswered = {r.request}
           x == Relisting(r.request.account, saves)
<1>0. /\ mixed' = mixed /\ owner' = owner /\ zonesTarget' = zonesTarget /\ openings' = openings
      /\ loadedAt' = loadedAt /\ attempt' = attempt /\ saves' = saves
      /\ originalZones' = originalZones /\ (Tried' <=> Tried) /\ \A z : Kept(z)' <=> Kept(z)
  BY DEF Tried, Kept
<1>1. r.request \in Requests /\ r.request \in Waiting /\ r.request.op = "put" /\ r.ok
  BY WaitingTyped DEF Waiting, ZonesInv
<1>2. CASE ~last
  <2>1. requests' = requests /\ told' = told /\ showZonesModal' = showZonesModal
    BY <1>2
  <2>2. Waiting' = Waiting \ {r.request} /\ Single'
    BY <2>1, TakeShape
  <2>3. ZonesTypeOK' /\ Ordered'
    BY <2>1, <2>2 DEF ZonesInv, ZonesTypeOK, Ordered
  <2>4. DialogEnds'
    <3>1. isSavingZones => Unanswered' # {}
      BY <1>1, <1>2, <2>2 DEF ZonesInv, DialogEnds, Unanswered
    <3> QED BY <1>1, <2>2, <3>1 DEF ZonesInv, DialogEnds
  <2>5. \A z : UnderWay(z) => UnderWay(z)'
    BY <1>1, <2>1 DEF UnderWay
  <2>6. Faithful'
    <3> SUFFICES ASSUME mixed' = {}
                 PROVE  /\ ReadingsMatch' /\ PutsAgree' /\ LoadedFirst' /\ LoadedTrue' /\ RestKept'
                        /\ ChangesPursued' /\ ToldIsKept'
      BY DEF Faithful
    <3>1. /\ ReadingsMatch /\ PutsAgree /\ LoadedFirst /\ LoadedTrue /\ RestKept
          /\ ChangesPursued /\ ToldIsKept
      BY <1>0 DEF ZonesInv, Faithful
    <3>2. ReadingsMatch' /\ PutsAgree'
      BY <1>0, <2>2, <3>1 DEF ReadingsMatch, PutsAgree
    <3>3. LoadedFirst' /\ LoadedTrue' /\ RestKept' /\ ChangesPursued' /\ ToldIsKept'
      BY <1>0, <2>1, <2>5, <3>1 DEF LoadedFirst, LoadedTrue, RestKept, ChangesPursued, ToldIsKept
    <3> QED BY <3>2, <3>3
  <2> QED BY <2>2, <2>3, <2>4, <2>6 DEF ZonesInv
<1>3. CASE last
  <2>1. /\ requests' = requests \cup {x} /\ showZonesModal' = FALSE
        /\ told' = [account |-> r.request.account, zones |-> attempt.zones]
    BY <1>3
  <2>2. saves \in Nat /\ saves > 0 /\ attempt # None /\ attempt.zones \subseteq Zones
    BY <1>1, <1>3 DEF ZonesInv, ZonesTypeOK, Ordered
  <2>3. x \in Requests /\ x.op = "accounts" /\ x.nr = saves /\ x \notin Waiting
    <3>1. x \in Requests /\ x.op = "accounts" /\ x.nr = saves
      BY <1>1, <2>2 DEF Relisting, Requests
    <3> QED BY <1>1, <1>3, <3>1 DEF Unanswered
  <2> HIDE DEF x
  <2>4. Waiting' = (Waiting \ {r.request}) \cup {x} /\ Single'
    BY <2>1, <2>3 DEF ZonesInv, Single, Waiting
  <2>5. ZonesTypeOK'
    BY <1>1, <2>1, <2>2, <2>3 DEF ZonesInv, ZonesTypeOK, Requests
  <2>6. DialogEnds'
    BY <1>1, <2>3, <2>4, <1>0 DEF ZonesInv, DialogEnds, Unanswered
  <2>7. Ordered'
    BY <1>0, <2>1, <2>2, <2>3, <2>4 DEF ZonesInv, Ordered
  <2>8. Faithful'
    <3> SUFFICES ASSUME mixed' = {}
                 PROVE  /\ ReadingsMatch' /\ PutsAgree' /\ LoadedFirst' /\ LoadedTrue' /\ RestKept'
                        /\ ChangesPursued' /\ ToldIsKept'
      BY DEF Faithful
    <3>1. ReadingsMatch /\ PutsAgree /\ LoadedFirst /\ LoadedTrue /\ RestKept /\ ChangesPursued
      BY <1>0 DEF ZonesInv, Faithful
    <3>2. Tried /\ r.request.account = zonesTarget
      BY <1>1, <3>1 DEF PutsAgree
    <3>3. \A z : ~UnderWay(z)
      <4> SUFFICES ASSUME NEW z, UnderWay(z) PROVE FALSE
        OBVIOUS
      <4>1. ASSUME NEW c \in requests, c.op = "put", c.nr = saves PROVE FALSE
        <5>1. c \in Unanswered
          BY <4>1 DEF Unanswered, Waiting
        <5> QED BY <1>3, <5>1 DEF ZonesInv, Single
      <4>2. ASSUME NEW s \in responses, s.request.op = "put", s.request.nr = saves, ~s.ok PROVE FALSE
        <5>1. s.request \in Unanswered
          BY <4>2 DEF Unanswered, Waiting
        <5> QED BY <1>1, <1>3, <4>2, <5>1 DEF ZonesInv, Single
      <4> QED BY <4>1, <4>2 DEF UnderWay
    <3>4. \A z \in Zones : Kept(z)
      BY <1>3, <3>1, <3>2, <3>3 DEF RestKept, ChangesPursued
    <3>5. ReadingsMatch' /\ PutsAgree'
      BY <1>0, <2>1, <2>3, <2>4, <3>1 DEF ReadingsMatch, PutsAgree
    <3>6. Changed(originalZones, attempt.zones) \subseteq Zones
      BY <2>2 DEF Changed, ZonesInv, ZonesTypeOK
    <3> QED BY <1>0, <2>1, <3>1, <3>2, <3>4, <3>5, <3>6
            DEF LoadedFirst, LoadedTrue, RestKept, ChangesPursued, ToldIsKept
  <2> QED BY <2>4, <2>5, <2>6, <2>7, <2>8 DEF ZonesInv
<1> QED BY <1>2, <1>3

-----------------------------------------------------------------------------

LEMMA ZonesInitInvariant == ZonesInit => ZonesInv
<1> SUFFICES ASSUME ZonesInit PROVE ZonesInv
  OBVIOUS
<1> USE DEF ZonesInit
<1>1. ZonesTypeOK
  <2>1. 0 \in 0..MaxOpenings /\ 0 \in 0..MaxEdits /\ 0 \in 0..MaxFaults
    <3>1. MaxOpenings \in Nat /\ MaxEdits \in Nat /\ MaxFaults \in Nat
      OBVIOUS
    <3> QED BY <3>1
  <2> QED BY <2>1 DEF ZonesTypeOK
<1>2. Waiting = {}
  BY DEF Waiting
<1>3. DialogEnds /\ Ordered /\ Single
  BY <1>2 DEF DialogEnds, Ordered, Single
<1>4. Faithful
  BY <1>2 DEF Faithful, ReadingsMatch, PutsAgree, LoadedFirst, LoadedTrue, RestKept, ChangesPursued,
              ToldIsKept, Tried
<1> QED BY <1>1, <1>3, <1>4 DEF ZonesInv

LEMMA ZonesStepInvariant == ZonesInv /\ [ZonesNext]_zonesVars => ZonesInv'
<1> SUFFICES ASSUME ZonesInv, [ZonesNext]_zonesVars PROVE ZonesInv'
  OBVIOUS
<1>1. CASE UNCHANGED zonesVars
  BY <1>1 DEF zonesVars, ZonesInv, ZonesTypeOK, DialogEnds, Unanswered, Waiting, Ordered, Single,
              Faithful, ReadingsMatch, PutsAgree, LoadedFirst, LoadedTrue, RestKept, ChangesPursued,
              ToldIsKept, Tried, Kept, UnderWay
<1>2. CASE ZonesNext
  BY <1>2, OpenStep, BoxesStep, SaveStep, ServeStep, ReassignStep, ZonesReadStep, QuietStep, PutDoneStep
     DEF ZonesNext
<1> QED BY <1>1, <1>2

LEMMA ZonesInvariant == ZonesSpec => []ZonesInv
BY ZonesInitInvariant, ZonesStepInvariant, PTL DEF ZonesSpec

\* The dialog's state keeps its types.
THEOREM ZonesTypeCorrect == ZonesSpec => []ZonesTypeOK
<1>1. ZonesInv => ZonesTypeOK
  BY DEF ZonesInv
<1> QED BY <1>1, ZonesInvariant, PTL

\* The spinners of the dialog end, however many calls a save sends and whichever of them
\* fail (SavedSelectionHolds is about what they store).
THEOREM DialogsEnd == ZonesSpec => []DialogEnds
<1>1. ZonesInv => DialogEnds
  BY DEF ZonesInv
<1> QED BY <1>1, ZonesInvariant, PTL

\* A save that said it succeeded has stored what was ticked, for any number of zones and
\* of attempts with the same boxes ticked, unless others assigned zones too, calls of
\* another opening were in flight, or the zones had not been read when it was sent.
THEOREM SavesHold == ZonesSpec => []SavedSelectionHolds
<1>1. ZonesInv => SavedSelectionHolds
  <2> SUFFICES ASSUME ZonesInv, told # None, mixed = {}
               PROVE  OfAccount(owner, told.account) = told.zones
    BY DEF SavedSelectionHolds
  <2>1. ToldIsKept
    BY DEF ZonesInv, Faithful
  <2>2. attempt.zones \subseteq Zones
    BY <2>1 DEF ToldIsKept, Tried, ZonesInv, ZonesTypeOK
  <2> QED BY <2>1, <2>2 DEF ToldIsKept, Kept, OfAccount
<1> QED BY <1>1, ZonesInvariant, PTL

-----------------------------------------------------------------------------
(* The parts, one at a time.                                               *)

\* Every part moves as its own specification says: what is proved about the parts holds
\* of the application they are checked in.
THEOREM PartsBehave == Spec => SessionSpec /\ TableSpec /\ EditorSpec /\ ZonesSpec /\ PtrSpec
<1>1. Init => SessionInit /\ TableInit /\ EditorInit /\ ZonesInit /\ PtrInit
  BY DEF Init
<1>2. [Next]_vars => /\ [SessionNext]_sessionVars /\ [TableNext]_tableVars
                     /\ [EditorNext]_editorVars /\ [ZonesNext]_zonesVars /\ [PtrNext]_ptrVars
  BY DEF Next, vars
<1> QED
  BY <1>1, <1>2, PTL DEF Spec, SessionSpec, TableSpec, EditorSpec, ZonesSpec, PtrSpec

\* The application's state keeps its shape.
THEOREM BrowserTypeCorrect == Spec => []TypeOK
<1>1. SessionTypeOK /\ TableTypeOK /\ EditorTypeOK /\ ZonesTypeOK /\ PtrTypeOK => TypeOK
  BY DEF TypeOK
<1> QED
  BY <1>1, PartsBehave, SessionTypeCorrect, TableTypeCorrect, EditorTypeCorrect, ZonesTypeCorrect,
     PtrTypeCorrect, PTL

====

----------------------------- MODULE SessionStore -----------------------------
(***************************************************************************)
(* What users may take their sessions for: rows of a table of sessions.    *)
(* An account's sessions begin, all of them end at once, and a session     *)
(* that was ended is not opened again.  The account is the field born of a *)
(* session.                                                                *)
(***************************************************************************)
CONSTANT Accounts

VARIABLES
    open,   \* the sessions that are accepted
    closed  \* those that were ended, as long as anybody may remember them

\* Sessions of an account begin, and nothing else changes.
Begin(a) ==
    /\ open \subseteq open'
    /\ \A s \in open' \ open : s.born = a /\ s \notin closed
    /\ UNCHANGED closed

\* All sessions of an account end; others may begin in their place.
EndAll(a) ==
    /\ closed' = closed \cup {s \in open : s.born = a}
    /\ {s \in open' : s.born # a} = {s \in open : s.born # a}
    /\ \A s \in open' : s.born = a => s \notin closed'

\* A session is too old, and is forgotten.
Expire(s) ==
    /\ open' = open \ {s}
    /\ closed' = closed \ {s}

Init == open = {} /\ closed = {}

Next ==
    \/ \E a \in Accounts : Begin(a) \/ EndAll(a)
    \/ \E s \in open \cup closed : Expire(s)

Spec == Init /\ [][Next]_<<open, closed>>
===============================================================================

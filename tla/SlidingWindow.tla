---------------------------- MODULE SlidingWindow ----------------------------
(***************************************************************************)
(* What a limit of so many hits in a window of so long promises: a hit is  *)
(* granted exactly when the window that ends with it has room, and whoever *)
(* is denied is told a time at which it will have.  Only what was granted  *)
(* counts, and it counts as long as it lies in the window.                 *)
(***************************************************************************)
EXTENDS Naturals, Sequences

CONSTANTS
    Keys,
    Limit,   \* key -> hits in a window
    Window   \* key -> its length

VARIABLES
    now,      \* the time
    granted,  \* key -> the hits granted, in the order of their times
    told      \* key -> when to come back, or 0

\* The last Limit hits granted lie within the window that ends at time s.
Full(k, s) ==
    LET n == Len(granted[k])
    IN  n >= Limit[k] /\ granted[k][n - Limit[k] + 1] + Window[k] > s

\* A hit that came at time s is granted; those out of its window may be forgotten.
Grant(k, s) ==
    /\ told' = [told EXCEPT ![k] = 0]
    /\ \A i \in 1 .. Len(granted[k]) : granted[k][i] <= s
    /\ ~Full(k, s)
    /\ \E d \in 0 .. Len(granted[k]) :
         /\ \A i \in 1 .. d : granted[k][i] + Window[k] <= s
         /\ granted' = [granted EXCEPT ![k] = SubSeq(Append(@, s), d + 1, Len(@) + 1)]
    /\ UNCHANGED now

Deny(k, s) ==
    /\ UNCHANGED <<now, granted>>
    /\ Full(k, s)
    /\ told'[k] > s /\ ~Full(k, told'[k])
    /\ told' = [told EXCEPT ![k] = told'[k]]

Tick ==
    /\ now' = now + 1
    /\ UNCHANGED <<granted, told>>

Init ==
    /\ now = 0
    /\ granted = [k \in Keys |-> <<>>]
    /\ told = [k \in Keys |-> 0]

\* A hit may be answered some time after it came; an answer that leaves everything as it
\* was is no step.
Answer ==
    /\ <<granted, told>>' # <<granted, told>>
    /\ \E k \in Keys, s \in 0 .. now : Grant(k, s) \/ Deny(k, s)

Next == Tick \/ Answer

Spec == Init /\ [][Next]_<<now, granted, told>>
===============================================================================

------------------------------- MODULE WriteOnce -------------------------------
(***************************************************************************)
(* What the workers need of the session signing key: one of them decides    *)
(* it, the others learn it, and it never becomes another key.  A worker that *)
(* dies forgets it; the store may lose it, and then nobody has it.          *)
(***************************************************************************)
EXTENDS Naturals

CONSTANTS
    Workers,
    Values    \* the keys that can be drawn, None excepted

None == 0

VARIABLES
    value,  \* the key in the store, or None
    known   \* the key each worker has taken from the store or put there, or None

Decide(w, v) ==
    /\ value = None
    /\ value' = v
    /\ known' = [known EXCEPT ![w] = v]

Learn(w) ==
    /\ value # None
    /\ known' = [known EXCEPT ![w] = value]
    /\ UNCHANGED value

Forget(w) ==
    /\ known' = [known EXCEPT ![w] = None]
    /\ UNCHANGED value

\* Everybody dies at once; the store keeps the key or has lost it.
Lose ==
    /\ value' \in {value, None}
    /\ known' = [w \in Workers |-> None]

Init == value = None /\ known = [w \in Workers |-> None]

Next ==
    \/ \E w \in Workers, v \in Values : Decide(w, v)
    \/ \E w \in Workers : Learn(w) \/ Forget(w)
    \/ Lose

Spec == Init /\ [][Next]_<<value, known>>
================================================================================

-------------------------------- MODULE MCGate --------------------------------
(***************************************************************************)
(* What a request of the backend passes before its route, for TLC: the     *)
(* rate limiter, then the check of its credentials.  The limiter knows a    *)
(* client by its address and decides before any credential is read, and    *)
(* the sessions keep nothing of it: they share no state, so each is        *)
(* checked by itself.  `part` says which is at work; the other stays as it *)
(* begins.                                                                 *)
(***************************************************************************)
EXTENDS MCSessions, RateLimiter

VARIABLE part

gateVars == <<part, vars, limiterVars>>

\* A second is two ticks.
MCLimit == [ip |-> 2, login |-> 1]
MCWindow == [ip |-> 2, login |-> 4]

\* Handlers are interchangeable, and so are clients.
GateSymmetry == Permutations(Workers) \cup Permutations(Clients)

GateInit ==
    /\ part \in {"sessions", "limiter"}
    /\ Init
    /\ LimiterInit

GateNext ==
    \/ part = "sessions" /\ Next /\ UNCHANGED <<part, limiterVars>>
    \/ part = "limiter" /\ LimiterNext /\ UNCHANGED <<part, vars>>

GateSpec == GateInit /\ [][GateNext]_gateVars
===============================================================================

---- MODULE Page ----
(***************************************************************************)
(* What the modules of the browser application share: a value that stands  *)
(* for nothing, and the bounds on what a page does.                        *)
(***************************************************************************)
EXTENDS Naturals

CONSTANTS
    None,
    MaxCalls,   \* bound: calls in flight
    MaxEdits,   \* bound: edits, or saves, sent
    MaxFaults   \* bound: calls that failed and changes by others

ASSUME PageAssumption ==
    /\ None \notin Nat
    /\ {MaxCalls, MaxEdits, MaxFaults} \subseteq Nat

====

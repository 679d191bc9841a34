------------------------------ MODULE MCSessions ------------------------------
(* Instances of Sessions for TLC. *)
EXTENDS Sessions, TLC

\* Handlers are interchangeable: nothing orders or singles out one.
MCSymmetry == Permutations(Workers)
=============================================================================

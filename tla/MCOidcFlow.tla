---------------------------- MODULE MCOidcFlow ----------------------------
(* Instance of OidcFlow for TLC. *)
EXTENDS OidcFlow, TLC

MCSymmetry == Permutations(Handlers) \cup Permutations(Browsers) \cup Permutations(Providers)
=============================================================================

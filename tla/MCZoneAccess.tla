----------------------------- MODULE MCZoneAccess -----------------------------
(* Instances of ZoneAccess for TLC. *)
EXTENDS ZoneAccess, TLC

\* Handlers, account names and zones are interchangeable (when all of the zones are in
\* Catalogues).
MCSymmetry == Permutations(Workers) \cup Permutations(Names) \cup Permutations(Zones)
=============================================================================

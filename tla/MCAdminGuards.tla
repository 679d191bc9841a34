---------------------------- MODULE MCAdminGuards ----------------------------
(***************************************************************************)
(* Two parts of the administration for TLC: the guards over the users, and *)
(* the ACME keys of users.  They meet in delete_user alone, whose guards    *)
(* do not look at keys and whose handling of keys does not look at roles,  *)
(* so each is checked by itself and `part` says which.                     *)
(***************************************************************************)
EXTENDS AdminGuards, AcmeKeys, TLC

VARIABLE part

allVars == <<part, vars, acmeVars>>

\* The environment pins nothing.
Unpinned == [f \in {} |-> TRUE]

MCSymmetry == Permutations(Users \ {BuiltIn}) \cup Permutations(Workers) \cup Permutations(KeyIds)

MCInit ==
    /\ part \in {"guards", "keys"}
    /\ Init
    /\ part # "guards" => stored = [enabled |-> FALSE, localOff |-> FALSE]
    /\ AcmeInit

MCNext ==
    \/ part = "guards" /\ Next /\ UNCHANGED <<part, acmeVars>>
    \/ part = "keys" /\ AcmeNext /\ UNCHANGED <<part, vars>>

MCSpec == MCInit /\ [][MCNext]_allVars

MCTypeOK == TypeOK /\ AcmeTypeOK
=============================================================================

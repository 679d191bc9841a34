-------------------------------- MODULE SignIns --------------------------------
(***************************************************************************)
(* What users may take a sign-in through a provider for: a sign-in begun in *)
(* a browser, proven by somebody at the provider it was sent to, opens one  *)
(* session there, of an account that belongs to whoever proved it.  A local *)
(* account belongs to no one at a provider, and an owner is never replaced. *)
(***************************************************************************)
EXTENDS Sequences

CONSTANTS
    Accounts,
    Starts,     \* what a sign-in begins with: a browser, the provider it is sent at
    Identities, \* who may prove one: somebody, of a provider
    Nobody

VARIABLES
    begun,  \* the sign-ins, in the order they were begun
    proven, \* those somebody proved: [flow, who]
    opened, \* the sessions: [flow, browser, who, account]
    owner,  \* the identity each account belongs to, or Nobody
    local   \* the accounts with a password

\* A sign-in is begun.
Begin(start) ==
    /\ begun' = Append(begun, start)
    /\ UNCHANGED <<proven, opened, owner, local>>

\* Somebody proves, once, who they are to the provider the sign-in was sent to.
Prove(f, who) ==
    /\ who.of = begun[f].at
    /\ \A p \in proven : p.flow # f
    /\ proven' = proven \cup {[flow |-> f, who |-> who]}
    /\ UNCHANGED <<begun, opened, owner, local>>

\* An account that is nobody's may go to an identity that has none.
MayLink(who, a) ==
    /\ owner[a] = Nobody /\ a \notin local
    /\ \A b \in Accounts : owner[b] # who

\* What was proven opens its session, in the browser it was begun in.
Open(p, a) ==
    /\ \A s \in opened : s.flow # p.flow
    /\ owner[a] = p.who \/ MayLink(p.who, a)
    /\ owner' = [owner EXCEPT ![a] = p.who]
    /\ opened' = opened \cup {[flow |-> p.flow, browser |-> begun[p.flow].browser,
                               who |-> p.who, account |-> a]}
    /\ UNCHANGED <<begun, proven, local>>

Init ==
    /\ begun = <<>> /\ proven = {} /\ opened = {}
    /\ owner = [a \in Accounts |-> Nobody]
    /\ local \subseteq Accounts

Next ==
    \/ \E start \in Starts : Begin(start)
    \/ \E f \in DOMAIN begun, who \in Identities : Prove(f, who)
    \/ \E p \in proven, a \in Accounts : Open(p, a)

Spec == Init /\ [][Next]_<<begun, proven, opened, owner, local>>
================================================================================

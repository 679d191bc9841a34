---- MODULE ReversePtr ----
(***************************************************************************)
(* The PTR record that the zone page may create with an address record:    *)
(* in which of the reverse zones the page has listed it is put, and what   *)
(* the server makes of it.                                                 *)
(*                                                                         *)
(* A name is the sequence of the characters of its labels, each label      *)
(* followed by Dot; what all reverse names end with, in-addr.arpa. or      *)
(* ip6.arpa., is left out.  An address is spelled as it was typed, and the *)
(* hexadecimal digits of IPv6 may be typed in either case; the server      *)
(* keeps the names of its zones in lower case and tells none from another  *)
(* by case.  The list of zones is loaded once, when the page is opened,    *)
(* and has only the zones the user may see.                                *)
(***************************************************************************)
EXTENDS Page, FiniteSets, Sequences, SequencesExt

CONSTANTS
    Dot,
    Labels,     \* the numbers of an address, each a sequence of digits, as typed
    Lower,      \* the same number in lower case
    Depth,      \* numbers in an address: 4, or 32 nibbles
    ReverseSets \* sets of reverse zones the server may hold

\* An address as typed, or the zone of a network: its numbers, the most significant first.
Addresses == [1..Depth -> Labels]
Subnets == UNION {[1..d -> Range(Lower)] : d \in 1..Depth}

ASSUME ReversePtrAssumption ==
    /\ Depth \in Nat \ {0}
    /\ None \notin Subnets /\ None \notin [address : Addresses, zone : Subnets]
    /\ \A label \in Labels :
          label \in Seq(Range(label)) /\ label # <<>> /\ Dot \notin Range(label)
    /\ Lower \in [Labels -> Labels]
    /\ \A label \in Labels : Lower[Lower[label]] = Lower[label]
    /\ \A zones \in ReverseSets : zones \subseteq Subnets

VARIABLES
    reverse,  \* the server's reverse zones
    listed,   \* those the page has listed, None before the answer
    adding,   \* the address record being added, and the zone asked to take its PTR record
    ptrs,     \* the PTR records stored: address and zone
    alerts,   \* addresses for which a message said that no PTR record was created
    settled,  \* history: for each address added, the zones the page had listed
    changes   \* zones created and deleted by others so far

ptrVars == <<reverse, listed, adding, ptrs, alerts, settled, changes>>

-----------------------------------------------------------------------------
(* Names. *)

\* ip.split(".").reverse().join("."), letters as they were typed, and the name of the
\* zone of a network.
ArpaName(numbers) == FlattenSeq([i \in DOMAIN numbers |-> Append(Reverse(numbers)[i], Dot)])

\* Mutant: the lengths are compared the wrong way round.
WidestReverseZone(address, zones) ==
    LET matching == {z \in zones : IsSuffix(ArpaName(z), ArpaName(address))}
    IN  IF matching = {} THEN {}
        ELSE {z \in matching : \A y \in matching : Len(ArpaName(z)) <= Len(ArpaName(y))}

\* The zones of greatest length among those whose names end the name: at most one.
FindBestReverseZone(address, zones) ==
    LET matching == {z \in zones : IsSuffix(ArpaName(z), ArpaName(address))}
    IN  {z \in matching : \A y \in matching : Len(ArpaName(z)) >= Len(ArpaName(y))}

Lowered(address) == [i \in DOMAIN address |-> Lower[address[i]]]

\* A network contains an address when its numbers begin the address.
Covers(zone, address) == IsPrefix(zone, Lowered(address))

Deepest(address, zones) ==
    {z \in zones : Covers(z, address)
                   /\ \A y \in zones : Covers(y, address) => Len(y) <= Len(z)}

-----------------------------------------------------------------------------

\* getZones answers with the zones the user may see.
ZonesListed(visible) ==
    /\ listed = None
    /\ visible \subseteq reverse
    /\ listed' = visible
    /\ UNCHANGED <<reverse, adding, ptrs, alerts, settled, changes>>

\* The address record is stored; the dialog waits for the PTR record, if a zone for it
\* is known.
AddressAdded(address) ==
    /\ adding = None
    /\ address \notin DOMAIN settled
    /\ Cardinality(DOMAIN settled) < MaxEdits
    /\ LET zones == IF listed = None THEN {} ELSE listed
           best == FindBestReverseZone(address, zones)
       IN  /\ adding' = IF best = {} THEN None
                        ELSE [address |-> address, zone |-> CHOOSE z \in best : TRUE]
           /\ settled' = [a \in DOMAIN settled \cup {address} |->
                            IF a = address THEN zones ELSE settled[a]]
    /\ UNCHANGED <<reverse, listed, ptrs, alerts, changes>>

\* The server takes a record whose name belongs to the zone.
PtrCreated ==
    /\ adding # None
    /\ adding.zone \in reverse
    /\ Covers(adding.zone, adding.address)
    /\ ptrs' = ptrs \cup {adding}
    /\ adding' = None
    /\ UNCHANGED <<reverse, listed, alerts, settled, changes>>

\* It refuses the record, or there is no such zone, or the call is lost.
PtrNotCreated ==
    /\ adding # None
    /\ alerts' = alerts \cup {adding.address}
    /\ adding' = None
    /\ UNCHANGED <<reverse, listed, ptrs, settled, changes>>

\* Others create or delete a zone.
OthersChange(zone) ==
    /\ changes < MaxFaults
    /\ changes' = changes + 1
    /\ reverse' = SymDiff(reverse, {zone})
    /\ UNCHANGED <<listed, adding, ptrs, alerts, settled>>

PtrInit ==
    /\ reverse \in ReverseSets
    /\ listed = None
    /\ adding = None
    /\ ptrs = {}
    /\ alerts = {}
    /\ settled = <<>>
    /\ changes = 0

PtrNext ==
    \/ \E visible \in SUBSET reverse : ZonesListed(visible)
    \/ \E address \in Addresses : AddressAdded(address)
    \/ PtrCreated \/ PtrNotCreated
    \/ \E zone \in Subnets : OthersChange(zone)

PtrSpec == PtrInit /\ [][PtrNext]_ptrVars

-----------------------------------------------------------------------------

PtrTypeOK ==
    /\ reverse \subseteq Subnets
    /\ listed = None \/ listed \subseteq Subnets
    /\ adding \in [address : Addresses, zone : Subnets] \cup {None}
    /\ ptrs \subseteq [address : Addresses, zone : Subnets]
    /\ alerts \subseteq Addresses
    /\ DOMAIN settled \subseteq Addresses
    /\ \A a \in DOMAIN settled : settled[a] \subseteq Subnets
    /\ changes \in 0..MaxFaults

\* When zones that have the address are listed, the one asked to take the PTR record is the
\* most specific of them (findBestReverseZone; its comment, and the help of the page).
AskedZoneIsMostSpecific ==
    adding # None =>
        LET fitting == Deepest(adding.address, settled[adding.address])
        IN  fitting # {} => adding.zone \in fitting

\* Whichever zone comparing names as strings chooses, the PTR record of an address typed in
\* lower case is never stored where no resolver looks while a better zone was in the list:
\* when the zone of the smallest network was not asked, the server refuses the record, and
\* once the dialog is closed a message has said that there is none.
PtrPlacedOrReported ==
    \A a \in DOMAIN settled : a = Lowered(a) =>
        LET fitting == Deepest(a, settled[a])
            under == {p \in ptrs : p.address = a}
        IN  /\ \A p \in under : p.zone \in fitting
            /\ fitting # {} /\ adding = None => under # {} \/ a \in alerts

====

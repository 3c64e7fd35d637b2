------------------------------ MODULE MCLedgers ------------------------------
(***************************************************************************)
(* Instances, for TLC, of the probe of the members in place, of the        *)
(* accounts of the domains, of the candidates, and of the guard of the     *)
(* switches.  They share no state at this level of detail: a behaviour     *)
(* studies one of them and leaves the others at rest.                      *)
(***************************************************************************)
EXTENDS ThroneProbe, DomainLedger, CandidateSupply, SwitchGuard

CONSTANTS i1, i2, d1, a1, a2, a3

TwoIPs    == {i1, i2}
OneIP     == {i1}
OneDomain == {d1}
Nobody    == {}

ThreeAddresses == {a1, a2, a3}
TwoURLs        == <<"first", "second">>
NoneOrOwn      == {<<>>, <<a1>>}
Scanned        == {<<>>, <<a2, a1>>}
Subscribed     == {<<>>, <<a2, a3>>}
Listed         == {<<a1, a3>>, <<a3, a2>>}

VARIABLE studied

ProbeRests == Init /\ pool.members = Member

MCInit ==
    \/ studied = "probe" /\ Init /\ DomainInit /\ SupplyInit /\ GuardInit
    \/ studied = "domains" /\ DomainInit /\ ProbeRests /\ SupplyInit /\ GuardInit
    \/ studied = "supply" /\ SupplyInit /\ ProbeRests /\ DomainInit /\ GuardInit
    \/ studied = "guard" /\ GuardInit /\ ProbeRests /\ DomainInit /\ SupplyInit

MCNext ==
    /\ UNCHANGED studied
    /\ \/ studied = "probe" /\ Next /\ UNCHANGED <<domainVars, supplyVars, guardVars>>
       \/ studied = "domains" /\ DomainNext /\ UNCHANGED <<vars, supplyVars, guardVars>>
       \/ studied = "supply" /\ SupplyNext /\ UNCHANGED <<vars, domainVars, guardVars>>
       \/ studied = "guard" /\ GuardNext /\ UNCHANGED <<vars, domainVars, supplyVars>>

MCSpec == MCInit /\ [][MCNext]_<<vars, domainVars, supplyVars, guardVars, studied>>

=============================================================================

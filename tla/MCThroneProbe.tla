---------------------------- MODULE MCThroneProbe ----------------------------
(* An instance of ThroneProbe for TLC.                                     *)
EXTENDS ThroneProbe

CONSTANTS i1, i2, d1

TwoIPs    == {i1, i2}
OneIP     == {i1}
OneDomain == {d1}
Nobody    == {}

=============================================================================

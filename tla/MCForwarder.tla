----------------------------- MODULE MCForwarder -----------------------------
(* An instance of Forwarder for TLC.                                       *)
EXTENDS Forwarder

CONSTANTS e1, e2, e3

OneOrTwo == {<<e1>>, <<e1, e2>>}
Backup   == <<e3>>

=============================================================================

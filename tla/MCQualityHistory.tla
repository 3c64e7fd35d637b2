------------------------ MODULE MCQualityHistory ------------------------
(* Values for the constants of QualityHistory.                           *)
EXTENDS QualityHistory

Slow   == [mbps |-> 0, latency |-> 100, ok |-> TRUE]
Quick  == [mbps |-> 0, latency |-> 60, ok |-> TRUE]

GoodProbes == {Slow, Quick}
=============================================================================

------------------------ MODULE MCQualityScheduler ------------------------
(* Values for the constants of QualityScheduler.                           *)
EXTENDS QualityScheduler

Failed  == [mbps |-> 0, latency |-> 0, ok |-> FALSE]
Slow    == [mbps |-> 0, latency |-> 100, ok |-> TRUE]
Quick   == [mbps |-> 0, latency |-> 60, ok |-> TRUE]

LatencyProbes == {Failed, Slow, Quick}

TwoProbes == {Failed, Slow}
=============================================================================

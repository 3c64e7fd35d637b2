--------------------------- MODULE QualityHistory ---------------------------
(***************************************************************************)
(* QualityScheduler with a history variable: for every line, the Actives   *)
(* it beat in its latest observations, for as long as it has beaten the    *)
(* Active of the moment every time.  The counter of the code,              *)
(* ConsecutiveSuperior, keeps only how many they are.                      *)
(***************************************************************************)
EXTENDS QualityScheduler

VARIABLE beaten

HistoryInit == Init /\ beaten = [ip \in IPs |-> <<>>]

Observed == IF phase = "batch" /\ phase' = "batch" THEN batch \ batch' ELSE {}

Latest(s) ==
    IF Len(s) > RequiredSuperiorRounds
    THEN SubSeq(s, Len(s) - RequiredSuperiorRounds + 1, Len(s)) ELSE s

HistoryNext ==
    /\ Next
    /\ beaten' = [ip \in IPs |->
                    CASE ledger'.rec[ip].superior = 0 -> <<>>
                      [] ledger'.rec[ip].superior > 0 /\ ip \in Observed ->
                            Latest(Append(beaten[ip], ledger.activeIP))
                      [] OTHER -> beaten[ip]]

HistorySpec == HistoryInit /\ [][HistoryNext]_<<vars, beaten>>

(***************************************************************************)
(* quality_scheduler.go:31 and quality_runtime.go:239: a standby is        *)
(* promoted over a live Active only if in each of its latest               *)
(* RequiredSuperiorRounds rounds it proved superior to that Active.        *)
(***************************************************************************)
PromotionProvedAgainstActive ==
    [][phase = "batch" /\ pending'.event = "PROMOTION" /\ pending'.from # NoIP
        => beaten[pending'.to] =
               [round \in 1..RequiredSuperiorRounds |-> pending'.from]]_<<vars, beaten>>
=============================================================================

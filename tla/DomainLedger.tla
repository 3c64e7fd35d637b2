----------------------------- MODULE DomainLedger -----------------------------
(***************************************************************************)
(* The examinations of the preferred domains and the accounts that decide  *)
(* whether a domain may be forwarded to (domain_latency.go).  A round      *)
(* copies its targets, probes them without a lock, and records all the     *)
(* samples at once.  What the pool makes of the accounts is in             *)
(* PoolControl; which domains are in the pool or on offer, and so are      *)
(* targets of a round, is a choice here.                                   *)
(*                                                                         *)
(* A sample is kept as how far it came: a speed was measured, the domain   *)
(* was only reached (all that can be said when there is no template for    *)
(* the speed probe), or it failed.  Speeds are left out: whether they      *)
(* scatter too much is a choice where there are enough of them.  The       *)
(* counters saturate at their thresholds.  The file is written in the same *)
(* critical section as the accounts, so a restart finds what memory held.  *)
(***************************************************************************)
EXTENDS Integers, Sequences, FiniteSets

CONSTANTS
    Examined,          \* domains that are ever examined
    SampleCap,         \* domainQualitySampleCap
    MinSamples,        \* domainQualityMinSamples
    DeadFailures,      \* domainDeadFailures
    RecoveryStreak,    \* domainRecoveryStreak
    SuccessFloorPct    \* domainSuccessFloor in percent

ASSUME DomainAssumption ==
    /\ IsFiniteSet(Examined)
    /\ SampleCap \in Nat \ {0} /\ MinSamples \in Nat
    /\ DeadFailures \in Nat \ {0} /\ RecoveryStreak \in 1..SampleCap
    /\ SuccessFloorPct \in 0..100

Sample == {"speed", "reach", "fail"}

VARIABLES
    domainQuality,    \* the account of each domain
    round,            \* the targets of the round under way, {} between rounds
    okRounds,         \* history: rounds in a row that a domain came through
    provenFails       \* history: failures since then while another domain was measured

domainVars == <<domainQuality, round, okRounds, provenFails>>

NoAccount == [samples |-> <<>>, failures |-> 0, successes |-> 0, state |-> "none"]

AtMost(bound, n) == IF n < bound THEN n ELSE bound

-----------------------------------------------------------------------------
(* Accounts.                                                               *)

\* The last n samples.
Latest(samples, n) ==
    IF Len(samples) > n THEN SubSeq(samples, Len(samples) - n + 1, Len(samples)) ELSE samples

Came(samples, how) == {i \in DOMAIN samples : samples[i] \in how}

\* Below the floor of the success rate.
Low(samples) ==
    Cardinality(Came(samples, {"speed", "reach"})) * 100 < SuccessFloorPct * Len(samples)

\* P95 and P50 are different speeds only when there are enough of them.
MayScatter(samples) ==
    LET n == Cardinality(Came(samples, {"speed"}))
    IN  ((n - 1) * 95) \div 100 > n \div 2

\* A mutant: the window is never cut.
WindowKept(samples, successes) == samples

\* After enough successes the samples before them are forgotten.
Window(samples, successes) ==
    IF successes >= RecoveryStreak THEN Latest(samples, RecoveryStreak) ELSE samples

\* The state that recalculate finds.
Judged(samples, failures, scattered) ==
    IF Len(samples) < MinSamples THEN "testing"
    ELSE IF failures >= DeadFailures THEN "dead"
    ELSE IF Low(samples) \/ (scattered /\ MayScatter(samples)) THEN "unstable"
    ELSE "healthy"

\* A mutant: every failure counts.
EveryFailureCounts(results) == TRUE

\* Failures count only in a round that has measured somebody.
ProbeHealthy(results) == \E d \in DOMAIN results : results[d] = "speed"

\* recordDomainProbeResults and recalculate, for one domain.
Account(old, sample, healthy, scattered) ==
    LET ok        == sample # "fail"
        failures  == IF ok THEN 0 ELSE IF healthy THEN AtMost(DeadFailures, old.failures + 1)
                                                  ELSE old.failures
        successes == IF ok THEN AtMost(RecoveryStreak, old.successes + 1)
                     ELSE IF healthy THEN 0 ELSE old.successes
        samples   == Window(Latest(Append(old.samples, sample), SampleCap), successes)
    IN  [samples |-> samples, failures |-> failures, successes |-> successes,
         state |-> Judged(samples, failures, scattered)]

-----------------------------------------------------------------------------
(* Rounds.                                                                 *)

\* domainProbeTargets: the domains of the pool and those on offer at the moment.
BeginRound ==
    /\ round = {}
    /\ round' \in (SUBSET Examined) \ {{}}
    /\ UNCHANGED <<domainQuality, okRounds, provenFails>>

\* The outcomes of a round, with and without a template for the speed probe.
Outcomes == [round -> {"speed", "fail"}] \cup [round -> {"reach", "fail"}]

\* recordDomainProbeResults: whoever was not a target loses its account.
RecordRound ==
    /\ round # {}
    /\ \E results \in Outcomes, scattered \in SUBSET round :
        LET witness == \E d \in round : results[d] = "speed"
        IN  /\ domainQuality' = [d \in Examined |->
                  IF d \in round
                  THEN Account(domainQuality[d], results[d], ProbeHealthy(results), d \in scattered)
                  ELSE NoAccount]
            /\ okRounds' = [d \in Examined |->
                  IF d \notin round THEN okRounds[d]
                  ELSE IF results[d] = "fail" THEN 0 ELSE AtMost(RecoveryStreak, okRounds[d] + 1)]
            /\ provenFails' = [d \in Examined |->
                  IF d \notin round \/ (results[d] = "fail" /\ ~witness) THEN provenFails[d]
                  ELSE IF results[d] # "fail" THEN 0 ELSE AtMost(DeadFailures, provenFails[d] + 1)]
    /\ round' = {}

\* The program restarts, or the round finds nothing to examine.
LeaveRound ==
    /\ round # {} /\ round' = {}
    /\ UNCHANGED <<domainQuality, okRounds, provenFails>>

DomainInit ==
    /\ domainQuality = [d \in Examined |-> NoAccount]
    /\ round = {}
    /\ okRounds = [d \in Examined |-> 0] /\ provenFails = [d \in Examined |-> 0]

DomainNext == BeginRound \/ RecordRound \/ LeaveRound

DomainSpec == DomainInit /\ [][DomainNext]_domainVars

-----------------------------------------------------------------------------
(* Properties.                                                             *)

\* Types of the accounts: they hold no more samples than the cap.
DomainTypes ==
    /\ \A d \in Examined :
          /\ domainQuality[d].samples \in Seq(Sample) /\ Len(domainQuality[d].samples) <= SampleCap
          /\ domainQuality[d].failures \in 0..DeadFailures
          /\ domainQuality[d].successes \in 0..RecoveryStreak
          /\ domainQuality[d].state \in {"none", "testing", "healthy", "unstable", "dead"}
    /\ round \subseteq Examined
    /\ okRounds \in [Examined -> 0..RecoveryStreak]
    /\ provenFails \in [Examined -> 0..DeadFailures]

(***************************************************************************)
(* Nobody is judged dead on the evidence of rounds that measured nobody:   *)
(* a dead domain has failed DeadFailures rounds, each of which measured    *)
(* another domain, and has come through none since (the comment of         *)
(* recordDomainProbeResults), whatever joined or left the list meanwhile.  *)
(***************************************************************************)
DeadProven ==
    \A d \in Examined : domainQuality[d].state = "dead" => provenFails[d] = DeadFailures

(***************************************************************************)
(* A round that judges a domain dead leaves another one alive: the list    *)
(* as a whole does not die at once when the probe itself is broken.        *)
(***************************************************************************)
RoundLeavesOne ==
    [][(\E d \in Examined : domainQuality[d].state # "dead" /\ domainQuality'[d].state = "dead")
         => \E d \in Examined : domainQuality'[d].state \notin {"none", "dead"}]_domainVars

(***************************************************************************)
(* An outage that is over is forgotten: a domain that came through         *)
(* RecoveryStreak rounds in a row is not below the success floor for what  *)
(* it failed before (domainRecoveryStreak).                                *)
(***************************************************************************)
RecoveryForgets ==
    \A d \in Examined :
        okRounds[d] = RecoveryStreak => /\ ~Low(domainQuality[d].samples)
                                        /\ domainQuality[d].state # "dead"

=============================================================================

-------------------------- MODULE DomainLedgerProofs --------------------------
(***************************************************************************)
(* Proofs about the accounts of the domains, for any domains and bounds.   *)
(***************************************************************************)
EXTENDS DomainLedger, SequenceTheorems, FiniteSetTheorems, TLAPS

States == {"none", "testing", "healthy", "unstable", "dead"}

AccountTypes(q) ==
    /\ q.samples \in Seq(Sample) /\ Len(q.samples) <= SampleCap
    /\ q.failures \in 0..DeadFailures
    /\ q.successes \in 0..RecoveryStreak
    /\ q.state \in States

(***************************************************************************)
(* What ties the fields of an account together: there is a sample for      *)
(* every failure that counts, none of them counts while successes do, and  *)
(* the state is dead exactly when the failures are enough.                 *)
(***************************************************************************)
AccountInv(q) ==
    /\ q.failures <= Len(q.samples)
    /\ q.failures = 0 \/ q.successes = 0
    /\ q.state = "dead" <=> q.failures = DeadFailures

\* Enough failures are enough samples (3, 3 and 12 in the code).
EnoughSamples == MinSamples <= DeadFailures /\ DeadFailures <= SampleCap

\* The inductive invariant.
DomainInv ==
    /\ DomainTypes
    /\ \A d \in Examined : AccountInv(domainQuality[d]) /\ domainQuality[d].failures <= provenFails[d]

-----------------------------------------------------------------------------
(* Samples.                                                                *)

LEMMA LatestType ==
    ASSUME NEW s \in Seq(Sample), NEW n \in Nat
    PROVE  /\ Latest(s, n) \in Seq(Sample)
           /\ Len(Latest(s, n)) = AtMost(n, Len(s))
<1>1. CASE Len(s) > n
  <2> DEFINE m == Len(s) - n + 1
  <2>1. Len(s) \in Nat /\ m \in Nat /\ m >= 1 /\ m <= Len(s) + 1
    BY <1>1
  <2>2. /\ SubSeq(s, m, Len(s)) \in Seq(Sample)
        /\ Len(SubSeq(s, m, Len(s))) = IF m <= Len(s) THEN Len(s) - m + 1 ELSE 0
    BY <2>1, SubSeqProperties
  <2>3. Len(SubSeq(s, m, Len(s))) = n
    BY <1>1, <2>1, <2>2
  <2> QED BY <1>1, <2>2, <2>3 DEF Latest, AtMost
<1>2. CASE ~(Len(s) > n)
  <2>1. Len(s) \in Nat
    OBVIOUS
  <2> QED BY <1>2, <2>1 DEF Latest, AtMost
<1> QED BY <1>1, <1>2

LEMMA WindowType ==
    ASSUME NEW s \in Seq(Sample), NEW n \in Nat
    PROVE  /\ Window(s, n) \in Seq(Sample) /\ Len(Window(s, n)) <= Len(s)
           /\ n = 0 => Window(s, n) = s
<1>1. RecoveryStreak \in Nat /\ RecoveryStreak # 0 /\ Len(s) \in Nat
  BY DomainAssumption
<1>2. /\ Latest(s, RecoveryStreak) \in Seq(Sample)
      /\ Len(Latest(s, RecoveryStreak)) <= Len(s)
  BY <1>1, LatestType DEF AtMost
<1> QED BY <1>1, <1>2 DEF Window

LEMMA JudgedFacts ==
    ASSUME NEW samples \in Seq(Sample), NEW failures \in Nat, NEW scattered \in BOOLEAN
    PROVE  /\ Judged(samples, failures, scattered) \in States \ {"none"}
           /\ Judged(samples, failures, scattered) = "dead"
                <=> Len(samples) >= MinSamples /\ failures >= DeadFailures
<1>1. Len(samples) \in Nat /\ MinSamples \in Nat /\ DeadFailures \in Nat
  BY DomainAssumption
<1> QED BY <1>1 DEF Judged, States

-----------------------------------------------------------------------------
(* Accounts.                                                               *)

\* What a round makes of one account.
LEMMA AccountFacts ==
    ASSUME EnoughSamples, NEW old, AccountTypes(old), AccountInv(old),
           NEW sample \in Sample, NEW healthy \in BOOLEAN, NEW scattered \in BOOLEAN
    PROVE  LET q == Account(old, sample, healthy, scattered)
           IN  /\ AccountTypes(q) /\ AccountInv(q) /\ q.state # "none"
               /\ sample # "fail" => q.failures = 0
               /\ sample = "fail" => q.failures = IF healthy THEN AtMost(DeadFailures, old.failures + 1)
                                                             ELSE old.failures
<1> DEFINE ok        == sample # "fail"
           failures  == IF ok THEN 0 ELSE IF healthy THEN AtMost(DeadFailures, old.failures + 1)
                                                    ELSE old.failures
           successes == IF ok THEN AtMost(RecoveryStreak, old.successes + 1)
                        ELSE IF healthy THEN 0 ELSE old.successes
           longer    == Append(old.samples, sample)
           latest    == Latest(longer, SampleCap)
           samples   == Window(latest, successes)
           state     == Judged(samples, failures, scattered)
<1>1. /\ SampleCap \in Nat /\ DeadFailures \in Nat /\ DeadFailures # 0 /\ MinSamples \in Nat
      /\ RecoveryStreak \in Nat /\ RecoveryStreak # 0
  BY DomainAssumption
<1>2. /\ old.samples \in Seq(Sample) /\ Len(old.samples) \in Nat /\ Len(old.samples) <= SampleCap
      /\ old.failures \in 0..DeadFailures /\ old.successes \in 0..RecoveryStreak
  BY DEF AccountTypes
<1>3. failures \in 0..DeadFailures /\ successes \in 0..RecoveryStreak
  BY <1>1, <1>2 DEF AtMost
<1>4. longer \in Seq(Sample) /\ Len(longer) = Len(old.samples) + 1
  BY <1>2
<1>5. latest \in Seq(Sample) /\ Len(latest) = AtMost(SampleCap, Len(old.samples) + 1)
  <2> HIDE DEF longer
  <2> QED BY <1>1, <1>4, LatestType
<1>6. /\ samples \in Seq(Sample) /\ Len(samples) <= Len(latest)
      /\ successes = 0 => samples = latest
  <2> HIDE DEF latest, successes
  <2> QED BY <1>1, <1>3, <1>5, WindowType
<1>7. Len(samples) \in Nat /\ Len(samples) <= SampleCap
  <2>1. Len(latest) <= SampleCap
    BY <1>1, <1>2, <1>5 DEF AtMost
  <2> HIDE DEF latest, samples
  <2> QED BY <1>1, <1>5, <1>6, <2>1
<1>8. failures = 0 \/ successes = 0
  BY <1>1, <1>2 DEF AccountInv
<1>9. failures <= Len(samples)
  <2>1. CASE failures = 0
    <3> HIDE DEF failures, samples
    <3> QED BY <1>7, <2>1
  <2>2. CASE failures # 0
    <3>1. samples = latest
      BY <1>6, <1>8, <2>2
    <3>2. failures <= old.failures + 1 /\ failures <= DeadFailures
      BY <1>1, <1>2 DEF AtMost
    <3>3. old.failures <= Len(old.samples) /\ DeadFailures <= SampleCap
      BY DEF AccountInv, EnoughSamples
    <3> HIDE DEF failures, samples, latest
    <3> QED BY <1>1, <1>2, <1>3, <1>5, <3>1, <3>2, <3>3 DEF AtMost
  <2> QED BY <2>1, <2>2
<1>10. state \in States \ {"none"} /\ (state = "dead" <=> failures = DeadFailures)
  <2> HIDE DEF failures, samples
  <2>1. MinSamples <= DeadFailures
    BY DEF EnoughSamples
  <2>2. /\ state \in States \ {"none"}
        /\ state = "dead" <=> Len(samples) >= MinSamples /\ failures >= DeadFailures
    BY <1>1, <1>3, <1>6, JudgedFacts
  <2> HIDE DEF state
  <2> QED BY <1>1, <1>3, <1>7, <1>9, <2>1, <2>2
<1>11. Account(old, sample, healthy, scattered)
         = [samples |-> samples, failures |-> failures, successes |-> successes, state |-> state]
  BY DEF Account
<1>12. sample = "fail" => failures = IF healthy THEN AtMost(DeadFailures, old.failures + 1)
                                                ELSE old.failures
  OBVIOUS
<1>13. sample # "fail" => failures = 0
  OBVIOUS
<1> HIDE DEF samples, failures, successes, state, ok
<1> QED BY <1>3, <1>6, <1>7, <1>8, <1>9, <1>10, <1>11, <1>12, <1>13 DEF AccountTypes, AccountInv

-----------------------------------------------------------------------------
(* The steps.                                                              *)

LEMMA NoAccountFacts == AccountTypes(NoAccount) /\ AccountInv(NoAccount)
BY DomainAssumption DEF NoAccount, AccountTypes, AccountInv, States

LEMMA DomainInvInit == DomainInit => DomainInv
<1> SUFFICES ASSUME DomainInit PROVE DomainInv
  OBVIOUS
<1>1. \A d \in Examined : domainQuality[d] = NoAccount /\ provenFails[d] = 0
  BY DEF DomainInit
<1>2. DomainTypes
  BY <1>1, NoAccountFacts, DomainAssumption
     DEF DomainInit, DomainTypes, AccountTypes, States
<1> QED BY <1>1, <1>2, NoAccountFacts DEF DomainInv, NoAccount

\* What recordDomainProbeResults does to one domain.
LEMMA RecordFacts ==
    ASSUME EnoughSamples, DomainInv, NEW results \in Outcomes, NEW scattered \in SUBSET round,
           NEW d \in Examined,
           NEW q, q = (IF d \in round
                       THEN Account(domainQuality[d], results[d], ProbeHealthy(results), d \in scattered)
                       ELSE NoAccount)
    PROVE  /\ AccountTypes(q) /\ AccountInv(q)
           /\ d \in round => /\ q.state # "none"
                             /\ results[d] # "fail" => q.failures = 0
                             /\ results[d] = "fail" => q.failures =
                                   IF ProbeHealthy(results)
                                   THEN AtMost(DeadFailures, domainQuality[d].failures + 1)
                                   ELSE domainQuality[d].failures
           /\ d \notin round => q = NoAccount
<1>1. CASE d \notin round
  BY <1>1, NoAccountFacts
<1>2. CASE d \in round
  <2> DEFINE healthy == ProbeHealthy(results)  old == domainQuality[d]
             sample == results[d]  wide == d \in scattered
  <2>1. AccountTypes(old) /\ AccountInv(old)
    BY DEF DomainInv, DomainTypes, AccountTypes, States
  <2>2. sample \in Sample
    BY <1>2 DEF Outcomes, Sample
  <2>3. healthy \in BOOLEAN /\ wide \in BOOLEAN
    BY DEF ProbeHealthy
  <2>4. q = Account(old, sample, healthy, wide)
    BY <1>2
  <2> HIDE DEF healthy, old, sample, wide
  <2>5. /\ AccountTypes(q) /\ AccountInv(q) /\ q.state # "none"
        /\ sample # "fail" => q.failures = 0
        /\ sample = "fail" => q.failures = IF healthy THEN AtMost(DeadFailures, old.failures + 1)
                                                      ELSE old.failures
    BY <2>1, <2>2, <2>3, <2>4, AccountFacts
  <2> QED BY <1>2, <2>5 DEF healthy, old, sample
<1> QED BY <1>1, <1>2

\* A round that is recorded, seen from one domain.
LEMMA RecordRoundFacts ==
    ASSUME EnoughSamples, DomainInv, RecordRound
    PROVE  \E results \in Outcomes :
              \A d \in Examined :
                 /\ AccountTypes(domainQuality'[d]) /\ AccountInv(domainQuality'[d])
                 /\ domainQuality'[d].failures <= provenFails'[d]
                 /\ provenFails'[d] \in 0..DeadFailures
                 /\ d \in round => domainQuality'[d].state # "none"
                 /\ d \in round /\ results[d] = "speed" => domainQuality'[d].failures = 0
                 /\ domainQuality'[d].failures > domainQuality[d].failures =>
                       \E e \in round : results[e] = "speed"
<1>1. PICK results \in Outcomes, scattered \in SUBSET round :
         /\ domainQuality' = [d \in Examined |->
                  IF d \in round
                  THEN Account(domainQuality[d], results[d], ProbeHealthy(results), d \in scattered)
                  ELSE NoAccount]
         /\ provenFails' = [d \in Examined |->
                  IF d \notin round \/ (results[d] = "fail" /\ ~\E e \in round : results[e] = "speed")
                  THEN provenFails[d]
                  ELSE IF results[d] # "fail" THEN 0 ELSE AtMost(DeadFailures, provenFails[d] + 1)]
  BY DEF RecordRound
<1>2. DOMAIN results = round
  BY DEF Outcomes
<1>3. ProbeHealthy(results) <=> \E e \in round : results[e] = "speed"
  BY <1>2 DEF ProbeHealthy
<1>4. ASSUME NEW d \in Examined
      PROVE  /\ AccountTypes(domainQuality'[d]) /\ AccountInv(domainQuality'[d])
             /\ domainQuality'[d].failures <= provenFails'[d]
             /\ provenFails'[d] \in 0..DeadFailures
             /\ d \in round => domainQuality'[d].state # "none"
             /\ d \in round /\ results[d] = "speed" => domainQuality'[d].failures = 0
             /\ domainQuality'[d].failures > domainQuality[d].failures =>
                   \E e \in round : results[e] = "speed"
  <2> DEFINE q == domainQuality'[d]  old == domainQuality[d]
  <2>1. q = IF d \in round
            THEN Account(domainQuality[d], results[d], ProbeHealthy(results), d \in scattered)
            ELSE NoAccount
    BY <1>1
  <2>2. /\ old.failures \in 0..DeadFailures /\ provenFails[d] \in 0..DeadFailures
        /\ old.failures <= provenFails[d] /\ DeadFailures \in Nat
    BY DomainAssumption DEF DomainInv, DomainTypes
  <2>3. /\ AccountTypes(q) /\ AccountInv(q)
        /\ d \in round => /\ q.state # "none"
                          /\ results[d] # "fail" => q.failures = 0
                          /\ results[d] = "fail" => q.failures =
                                IF ProbeHealthy(results)
                                THEN AtMost(DeadFailures, old.failures + 1) ELSE old.failures
        /\ d \notin round => q = NoAccount
    <3> HIDE DEF q
    <3> QED BY <2>1, RecordFacts
  <2>4. provenFails'[d] =
           IF d \notin round \/ (results[d] = "fail" /\ ~\E e \in round : results[e] = "speed")
           THEN provenFails[d]
           ELSE IF results[d] # "fail" THEN 0 ELSE AtMost(DeadFailures, provenFails[d] + 1)
    BY <1>1
  <2>5. d \notin round => q.failures = 0
    BY <2>3 DEF NoAccount
  <2> HIDE DEF q, old
  <2>6. provenFails'[d] \in 0..DeadFailures /\ q.failures <= provenFails'[d]
    BY <1>3, <2>2, <2>3, <2>4, <2>5 DEF AtMost
  <2>7. q.failures > old.failures => \E e \in round : results[e] = "speed"
    BY <1>3, <2>2, <2>3, <2>5
  <2> QED BY <2>3, <2>6, <2>7 DEF q, old
<1> QED BY <1>4

LEMMA RecordRoundKeeps == ASSUME EnoughSamples, DomainInv, RecordRound PROVE DomainInv'
<1>1. \A d \in Examined :
         /\ AccountTypes(domainQuality'[d]) /\ AccountInv(domainQuality'[d])
         /\ domainQuality'[d].failures <= provenFails'[d]
         /\ provenFails'[d] \in 0..DeadFailures
  BY RecordRoundFacts
<1>2. round' = {} /\ provenFails' \in [Examined -> 0..DeadFailures]
  <2>1. provenFails' = [d \in Examined |-> provenFails'[d]]
    BY DEF RecordRound
  <2> QED BY <1>1, <2>1 DEF RecordRound
<1>3. okRounds' \in [Examined -> 0..RecoveryStreak]
  <2>1. RecoveryStreak \in Nat /\ \A d \in Examined : okRounds[d] \in 0..RecoveryStreak
    BY DomainAssumption DEF DomainInv, DomainTypes
  <2> QED BY <2>1 DEF RecordRound, AtMost
<1>4. DomainTypes'
  BY <1>1, <1>2, <1>3 DEF DomainTypes, AccountTypes, States
<1> QED BY <1>1, <1>4 DEF DomainInv

LEMMA DomainInvNext == ASSUME EnoughSamples, DomainInv, [DomainNext]_domainVars PROVE DomainInv'
<1>1. CASE BeginRound
  BY <1>1 DEF BeginRound, DomainInv, DomainTypes, AccountInv
<1>2. CASE RecordRound
  BY <1>2, RecordRoundKeeps
<1>3. CASE LeaveRound
  BY <1>3 DEF LeaveRound, DomainInv, DomainTypes, AccountInv
<1>4. CASE UNCHANGED domainVars
  BY <1>4 DEF domainVars, DomainInv, DomainTypes, AccountInv
<1> QED BY <1>1, <1>2, <1>3, <1>4 DEF DomainNext

-----------------------------------------------------------------------------
(* The results.                                                            *)

\* The inductive invariant holds in every reachable state.
THEOREM DomainInvHolds ==
    ASSUME EnoughSamples
    PROVE  DomainSpec => []DomainInv
BY DomainInvInit, DomainInvNext, PTL DEF DomainSpec

\* A domain is judged dead only for as many failures as it takes, each of them in a
\* round that measured another domain.
THEOREM DeadProvenCorrect ==
    ASSUME EnoughSamples
    PROVE  DomainSpec => []DeadProven
<1>1. DomainInv => DeadProven
  <2>1. DeadFailures \in Nat
    BY DomainAssumption
  <2> QED BY <2>1 DEF DomainInv, DomainTypes, AccountInv, DeadProven
<1> QED BY <1>1, DomainInvHolds, PTL

\* A round never judges all of its domains dead that were not dead before.
THEOREM RoundLeavesOneCorrect ==
    ASSUME EnoughSamples
    PROVE  DomainSpec => RoundLeavesOne
<1> DEFINE Leaves ==
      (\E d \in Examined : domainQuality[d].state # "dead" /\ domainQuality'[d].state = "dead")
        => \E d \in Examined : domainQuality'[d].state \notin {"none", "dead"}
<1>1. ASSUME DomainInv, [DomainNext]_domainVars PROVE [Leaves]_domainVars
  <2> SUFFICES ASSUME NEW d \in Examined, domainQuality[d].state # "dead",
                      domainQuality'[d].state = "dead"
               PROVE  \E e \in Examined : domainQuality'[e].state \notin {"none", "dead"}
    OBVIOUS
  <2>1. RecordRound
    BY <1>1 DEF DomainNext, BeginRound, LeaveRound, domainVars
  <2>2. PICK results \in Outcomes :
          \A e \in Examined :
             /\ AccountInv(domainQuality'[e])
             /\ e \in round => domainQuality'[e].state # "none"
             /\ e \in round /\ results[e] = "speed" => domainQuality'[e].failures = 0
             /\ domainQuality'[e].failures > domainQuality[e].failures =>
                   \E f \in round : results[f] = "speed"
    BY <1>1, <2>1, RecordRoundFacts
  <2>3. domainQuality'[d].failures > domainQuality[d].failures
    <3>1. DeadFailures \in Nat /\ domainQuality[d].failures \in 0..DeadFailures
      BY <1>1, DomainAssumption DEF DomainInv, DomainTypes
    <3>2. domainQuality'[d].failures = DeadFailures /\ domainQuality[d].failures # DeadFailures
      BY <1>1, <2>2 DEF DomainInv, AccountInv
    <3> QED BY <3>1, <3>2
  <2>4. PICK e \in round : results[e] = "speed"
    BY <2>2, <2>3
  <2>5. e \in Examined
    BY <1>1 DEF DomainInv, DomainTypes
  <2>6. domainQuality'[e].failures = 0 /\ domainQuality'[e].state # "none" /\ DeadFailures # 0
    BY <2>2, <2>4, <2>5, DomainAssumption
  <2>7. domainQuality'[e].state # "dead"
    BY <2>2, <2>5, <2>6 DEF AccountInv
  <2> QED BY <2>5, <2>6, <2>7
<1> QED BY <1>1, DomainInvHolds, PTL DEF DomainSpec, RoundLeavesOne

-----------------------------------------------------------------------------
(***************************************************************************)
(* Recovery.  With n rounds come through in a row, the last n samples are  *)
(* good (or all of them, for an account that has been started anew since); *)
(* the successes keep up with that, and once they are enough there are no  *)
(* more samples than the streak.                                           *)
(***************************************************************************)
Recovers(q, n) ==
    /\ \A i \in 1..Len(q.samples) : i > Len(q.samples) - n => q.samples[i] # "fail"
    /\ q.successes >= AtMost(n, Len(q.samples))
    /\ q.successes = RecoveryStreak => Len(q.samples) <= RecoveryStreak

RecoveryInv == \A d \in Examined : Recovers(domainQuality[d], okRounds[d])

\* The latest samples are the end of the list.
LEMMA LatestIsSuffix ==
    ASSUME NEW s \in Seq(Sample), NEW n \in Nat, NEW i \in 1..Len(Latest(s, n))
    PROVE  Latest(s, n)[i] = s[i + Len(s) - Len(Latest(s, n))]
<1>1. Len(s) \in Nat /\ Len(Latest(s, n)) = AtMost(n, Len(s))
  BY LatestType
<1>2. CASE Len(s) > n
  <2> DEFINE m == Len(s) - n + 1
  <2>1. m \in Int /\ Len(s) \in Int /\ Latest(s, n) = SubSeq(s, m, Len(s)) /\ m >= 1
    BY <1>1, <1>2 DEF Latest
  <2>2. \A j \in m..Len(s) : s[j] \in Sample
    BY <1>1, <2>1
  <2>3. \A j \in 1..(Len(s) - m + 1) : SubSeq(s, m, Len(s))[j] = s[m + j - 1]
    <3> HIDE DEF m
    <3> QED BY <2>1, <2>2, SubSeqProperties
  <2>4. i \in 1..(Len(s) - m + 1) /\ m + i - 1 = i + Len(s) - Len(Latest(s, n))
    <3> DEFINE a == Len(s)  b == Len(Latest(s, n))
    <3>1. b = n
      BY <1>1, <1>2 DEF AtMost
    <3>2. a \in Nat /\ a > n /\ i \in 1..b /\ m = a - n + 1
      BY <1>1, <1>2
    <3> HIDE DEF a, b, m
    <3>3. i \in 1..(a - m + 1) /\ m + i - 1 = i + a - b
      BY <3>1, <3>2
    <3> QED BY <3>3 DEF a, b
  <2> QED BY <2>1, <2>3, <2>4
<1>3. CASE ~(Len(s) > n)
  BY <1>1, <1>3 DEF Latest, AtMost
<1> QED BY <1>2, <1>3

\* Good samples are never below the floor.
LEMMA AllGood ==
    ASSUME NEW s \in Seq(Sample), \A i \in 1..Len(s) : s[i] # "fail"
    PROVE  ~Low(s)
<1>1. Len(s) \in Nat /\ SuccessFloorPct \in 0..100
  BY DomainAssumption
<1>2. Came(s, {"speed", "reach"}) = 1..Len(s)
  BY DEF Came, Sample
<1>3. Cardinality(1..Len(s)) = Len(s)
  BY <1>1, FS_Interval
<1>4. \A n \in Nat, pct \in 0..100 : pct * n <= n * 100
  OBVIOUS
<1> DEFINE n == Len(s)
<1>5. n \in Nat /\ SuccessFloorPct * n <= n * 100
  BY <1>1, <1>4
<1> QED BY <1>1, <1>2, <1>3, <1>5 DEF Low

\* What a good sample makes of an account on its way to recovery, or a bad one.
LEMMA AccountRecovers ==
    ASSUME NEW old, AccountTypes(old), NEW n \in 0..RecoveryStreak, Recovers(old, n),
           NEW sample \in Sample, NEW healthy \in BOOLEAN, NEW scattered \in BOOLEAN,
           NEW more, more = IF sample = "fail" THEN 0 ELSE AtMost(RecoveryStreak, n + 1)
    PROVE  Recovers(Account(old, sample, healthy, scattered), more)
<1> DEFINE ok        == sample # "fail"
           successes == IF ok THEN AtMost(RecoveryStreak, old.successes + 1)
                        ELSE IF healthy THEN 0 ELSE old.successes
           longer    == Append(old.samples, sample)
           latest    == Latest(longer, SampleCap)
           samples   == Window(latest, successes)
<1>1. /\ SampleCap \in Nat /\ SampleCap # 0 /\ RecoveryStreak \in Nat /\ RecoveryStreak # 0
  BY DomainAssumption
<1>2. /\ old.samples \in Seq(Sample) /\ Len(old.samples) \in Nat
      /\ old.successes \in 0..RecoveryStreak
  BY DEF AccountTypes
<1>3. successes \in 0..RecoveryStreak /\ more \in 0..RecoveryStreak
  BY <1>1, <1>2 DEF AtMost
<1>4. /\ longer \in Seq(Sample) /\ Len(longer) = Len(old.samples) + 1
      /\ longer[Len(longer)] = sample
      /\ \A i \in 1..Len(old.samples) : longer[i] = old.samples[i]
  BY <1>2
<1>5. /\ latest \in Seq(Sample) /\ Len(latest) \in Nat /\ Len(latest) <= Len(longer)
      /\ \A i \in 1..Len(latest) : latest[i] = longer[i + Len(longer) - Len(latest)]
  <2> HIDE DEF longer
  <2>1. latest \in Seq(Sample) /\ Len(latest) = AtMost(SampleCap, Len(longer))
    BY <1>1, <1>4, LatestType
  <2>2. \A i \in 1..Len(latest) : latest[i] = longer[i + Len(longer) - Len(latest)]
    BY <1>1, <1>4, LatestIsSuffix
  <2>3. Len(latest) \in Nat /\ Len(longer) \in Nat
    BY <1>4, <2>1
  <2> HIDE DEF latest
  <2>4. Len(latest) <= Len(longer)
    BY <1>1, <2>1, <2>3 DEF AtMost
  <2> QED BY <2>1, <2>2, <2>3, <2>4
<1>6. /\ samples \in Seq(Sample) /\ Len(samples) \in Nat /\ Len(samples) <= Len(latest)
      /\ \A i \in 1..Len(samples) : samples[i] = latest[i + Len(latest) - Len(samples)]
      /\ successes = RecoveryStreak => Len(samples) <= RecoveryStreak
  <2> HIDE DEF latest, successes
  <2>1. CASE successes >= RecoveryStreak
    <3>1. samples = Latest(latest, RecoveryStreak)
      BY <2>1 DEF Window
    <3>2. samples \in Seq(Sample) /\ Len(samples) = AtMost(RecoveryStreak, Len(latest))
      BY <1>1, <1>5, <3>1, LatestType
    <3>3. \A i \in 1..Len(samples) : samples[i] = latest[i + Len(latest) - Len(samples)]
      BY <1>1, <1>5, <3>1, LatestIsSuffix
    <3>4. Len(samples) \in Nat
      BY <3>2
    <3> HIDE DEF samples
    <3>5. Len(samples) <= Len(latest) /\ Len(samples) <= RecoveryStreak
      BY <1>1, <1>5, <3>2, <3>4 DEF AtMost
    <3> QED BY <3>2, <3>3, <3>4, <3>5
  <2>2. CASE ~(successes >= RecoveryStreak)
    <3>1. samples = latest
      BY <2>2 DEF Window
    <3>2. successes # RecoveryStreak
      BY <1>1, <2>2
    <3>3. \A i \in 1..Len(latest) : i + Len(latest) - Len(latest) = i
      BY <1>5
    <3> HIDE DEF samples
    <3> QED BY <1>5, <3>1, <3>2, <3>3
  <2> QED BY <2>1, <2>2
<1>7. \A i \in 1..Len(samples) : samples[i] = longer[i + Len(longer) - Len(samples)]
  <2> HIDE DEF samples, latest, longer
  <2> DEFINE a == Len(longer)  b == Len(latest)  c == Len(samples)
  <2>1. a \in Nat /\ b \in Nat /\ c \in Nat /\ b <= a /\ c <= b
    BY <1>4, <1>5, <1>6
  <2>2. ASSUME NEW i \in 1..c PROVE samples[i] = longer[i + a - c]
    <3>1. samples[i] = latest[i + b - c]
      BY <1>6
    <3>2. i + b - c \in 1..b /\ (i + b - c) + a - b = i + a - c
      <4> HIDE DEF a, b, c
      <4> QED BY <2>1
    <3>3. latest[i + b - c] = longer[(i + b - c) + a - b]
      BY <1>5, <3>2
    <3> QED BY <3>1, <3>2, <3>3
  <2> QED BY <2>2
<1>8. ASSUME NEW i \in 1..Len(samples), i > Len(samples) - more PROVE samples[i] # "fail"
  <2> DEFINE j == i + Len(longer) - Len(samples)
  <2>1. ok /\ more <= n + 1
    BY <1>1, <1>3, <1>6, <1>8 DEF AtMost
  <2>2. samples[i] = longer[j] /\ j \in 1..Len(longer) /\ j > Len(longer) - more
    <3> HIDE DEF samples, latest, longer
    <3> DEFINE a == Len(longer)  c == Len(samples)
    <3>1. samples[i] = longer[j]
      BY <1>7
    <3>2. a \in Nat /\ c \in Nat /\ c <= a /\ i \in 1..c /\ i > c - more /\ j = i + a - c /\ more \in Nat
      BY <1>3, <1>4, <1>5, <1>6, <1>8
    <3> HIDE DEF a, c, j
    <3>3. j \in 1..a /\ j > a - more
      BY <3>2
    <3> QED BY <3>1, <3>3 DEF a
  <2>3. CASE j = Len(longer)
    BY <1>4, <2>1, <2>2, <2>3
  <2>4. CASE j # Len(longer)
    <3>1. j \in 1..Len(old.samples) /\ j > Len(old.samples) - n
      <4> HIDE DEF j, longer, samples
      <4> DEFINE a == Len(longer)  b == Len(old.samples)
      <4>1. a = b + 1 /\ b \in Nat /\ j \in 1..a /\ j > a - more /\ j # a
        BY <1>2, <1>4, <2>2, <2>4
      <4>2. more <= n + 1 /\ more \in Nat /\ n \in Nat
        BY <1>3, <2>1
      <4> HIDE DEF a, b
      <4>3. j \in 1..b /\ j > b - n
        BY <4>1, <4>2
      <4> QED BY <4>3 DEF b
    <3>2. old.samples[j] # "fail" /\ longer[j] = old.samples[j]
      <4> HIDE DEF j
      <4> QED BY <1>4, <3>1 DEF Recovers
    <3> QED BY <2>2, <3>2
  <2> QED BY <2>3, <2>4
<1>9. successes >= AtMost(more, Len(samples))
  <2>1. CASE ok
    <3>1. /\ successes = AtMost(RecoveryStreak, old.successes + 1)
          /\ more = AtMost(RecoveryStreak, n + 1)
          /\ old.successes >= AtMost(n, Len(old.samples))
          /\ Len(samples) <= Len(old.samples) + 1
      <4>1. old.successes >= AtMost(n, Len(old.samples))
        BY DEF Recovers
      <4>2. Len(samples) <= Len(old.samples) + 1
        <5> HIDE DEF samples, latest, longer
        <5> QED BY <1>2, <1>4, <1>5, <1>6
      <4> QED BY <2>1, <4>1, <4>2
    <3> HIDE DEF samples, successes
    <3> QED BY <1>1, <1>2, <1>3, <1>6, <3>1 DEF AtMost
  <2>2. CASE ~ok
    <3>1. more = 0
      BY <2>2
    <3> HIDE DEF samples, successes
    <3> QED BY <1>3, <1>6, <3>1 DEF AtMost
  <2> QED BY <2>1, <2>2
<1>10. /\ Account(old, sample, healthy, scattered).samples = samples
       /\ Account(old, sample, healthy, scattered).successes = successes
  BY DEF Account
<1> HIDE DEF samples, successes
<1> QED BY <1>6, <1>8, <1>9, <1>10 DEF Recovers

LEMMA RecoveryInvNext ==
    ASSUME DomainInv, RecoveryInv, [DomainNext]_domainVars
    PROVE  RecoveryInv'
<1>1. CASE BeginRound \/ LeaveRound \/ UNCHANGED domainVars
  BY <1>1 DEF BeginRound, LeaveRound, domainVars, RecoveryInv, Recovers
<1>2. CASE RecordRound
  <2>1. PICK results \in Outcomes, scattered \in SUBSET round :
          /\ domainQuality' = [d \in Examined |->
                  IF d \in round
                  THEN Account(domainQuality[d], results[d], ProbeHealthy(results), d \in scattered)
                  ELSE NoAccount]
          /\ okRounds' = [d \in Examined |->
                  IF d \notin round THEN okRounds[d]
                  ELSE IF results[d] = "fail" THEN 0 ELSE AtMost(RecoveryStreak, okRounds[d] + 1)]
    BY <1>2 DEF RecordRound
  <2>2. ASSUME NEW d \in Examined PROVE Recovers(domainQuality'[d], okRounds'[d])
    <3>1. CASE d \notin round
      <4>1. domainQuality'[d] = NoAccount /\ okRounds'[d] = okRounds[d]
        BY <2>1, <3>1
      <4>2. okRounds[d] \in Nat /\ RecoveryStreak \in Nat
        BY DomainAssumption DEF DomainInv, DomainTypes
      <4> QED BY <4>1, <4>2 DEF Recovers, NoAccount, AtMost
    <3>2. CASE d \in round
      <4> DEFINE healthy == ProbeHealthy(results)  old == domainQuality[d]
                 sample == results[d]  wide == d \in scattered  n == okRounds[d]
      <4>1. AccountTypes(old) /\ Recovers(old, n) /\ n \in 0..RecoveryStreak
        BY DEF DomainInv, DomainTypes, AccountTypes, States, RecoveryInv
      <4>2. sample \in Sample /\ healthy \in BOOLEAN /\ wide \in BOOLEAN
        BY <3>2 DEF Outcomes, Sample, ProbeHealthy
      <4>3. /\ domainQuality'[d] = Account(old, sample, healthy, wide)
            /\ okRounds'[d] = IF sample = "fail" THEN 0 ELSE AtMost(RecoveryStreak, n + 1)
        BY <2>1, <3>2
      <4> HIDE DEF healthy, old, sample, wide, n
      <4> QED BY <4>1, <4>2, <4>3, AccountRecovers
    <3> QED BY <3>1, <3>2
  <2> QED BY <2>2 DEF RecoveryInv
<1> QED BY <1>1, <1>2 DEF DomainNext

\* A domain that has come through the streak is not below the floor for its old failures,
\* and not dead, also when it left the list and came back in between.
THEOREM RecoveryForgetsCorrect ==
    ASSUME EnoughSamples
    PROVE  DomainSpec => []RecoveryForgets
<1>1. DomainInit => RecoveryInv
  BY DomainAssumption DEF DomainInit, RecoveryInv, Recovers, NoAccount, AtMost
<1>2. ASSUME DomainInv, RecoveryInv PROVE RecoveryForgets
  <2> SUFFICES ASSUME NEW d \in Examined, okRounds[d] = RecoveryStreak
               PROVE  ~Low(domainQuality[d].samples) /\ domainQuality[d].state # "dead"
    BY DEF RecoveryForgets
  <2> DEFINE q == domainQuality[d]
  <2>1. AccountTypes(q) /\ AccountInv(q) /\ Recovers(q, RecoveryStreak)
    BY <1>2 DEF DomainInv, DomainTypes, AccountTypes, States, RecoveryInv
  <2>2. /\ RecoveryStreak \in Nat /\ Len(q.samples) \in Nat /\ q.samples \in Seq(Sample)
        /\ DeadFailures \in Nat /\ DeadFailures # 0 /\ q.successes \in 0..RecoveryStreak
        /\ q.failures \in 0..DeadFailures /\ RecoveryStreak # 0
    BY <2>1, DomainAssumption DEF AccountTypes
  <2>3. Len(q.samples) <= RecoveryStreak
    BY <2>1, <2>2 DEF Recovers, AtMost
  <2>4. \A i \in 1..Len(q.samples) : q.samples[i] # "fail"
    BY <2>1, <2>2, <2>3 DEF Recovers
  <2>5. ~Low(q.samples)
    BY <2>2, <2>4, AllGood
  <2>6. q.successes = 0 => Len(q.samples) = 0
    BY <2>1, <2>2 DEF Recovers, AtMost
  <2>7. q.failures = 0
    <3>1. q.failures <= Len(q.samples) /\ (q.failures = 0 \/ q.successes = 0)
      BY <2>1 DEF AccountInv
    <3> QED BY <2>2, <2>6, <3>1
  <2>8. q.state # "dead"
    BY <2>1, <2>2, <2>7 DEF AccountInv
  <2> QED BY <2>5, <2>8
<1> QED BY <1>1, <1>2, RecoveryInvNext, DomainInvHolds, PTL DEF DomainSpec

==============================================================================

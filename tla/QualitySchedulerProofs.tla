----------------------- MODULE QualitySchedulerProofs -----------------------
(***************************************************************************)
(* Proofs about QualityScheduler, for any set of addresses, any probe      *)
(* results and any policy.                                                 *)
(***************************************************************************)
EXTENDS QualityScheduler, FiniteSetTheorems, SequenceTheorems, TLAPS

-----------------------------------------------------------------------------
(* The operators the ledger operations are built from.                     *)

\* Appending a probe keeps a window of probes, the new one last.
LEMMA AppendedType ==
    ASSUME NEW s \in Seq(Probe), NEW p \in Probe
    PROVE  /\ Appended(s, p) \in Seq(Probe)
           /\ Appended(s, p) # <<>>
           /\ Appended(s, p)[Len(Appended(s, p))].ok = p.ok
<1> DEFINE q == [p EXCEPT !.mbps = EffectiveMbps(@)]
           t == Append(s, q)
<1>1. q \in Probe /\ q.ok = p.ok
  BY PolicyAssumption DEF Probe, EffectiveMbps
<1>2. t \in Seq(Probe) /\ Len(t) = Len(s) + 1 /\ t[Len(t)] = q /\ Len(s) \in Nat
  BY <1>1
<1>3. Appended(s, p) = IF Len(t) > Window THEN SubSeq(t, Len(t) - Window + 1, Len(t)) ELSE t
  BY DEF Appended
<1> HIDE DEF q, t
<1>4. CASE Len(t) > Window
  <2> DEFINE u == SubSeq(t, Len(t) - Window + 1, Len(t))
  <2>1. /\ Len(t) \in Nat /\ Window \in Nat /\ Window >= 1
        /\ Len(t) - Window + 1 \in 1..Len(t)
        /\ Len(t) - (Len(t) - Window + 1) + 1 = Window
    BY <1>2, <1>4, PolicyAssumption
  <2>2. \A i \in (Len(t) - Window + 1)..Len(t) : t[i] \in Probe
    BY <1>2, <2>1
  <2>3. u \in Seq(Probe) /\ Len(u) = Window /\ u[Window] = t[Len(t)]
    BY <2>1, <2>2, <1>2
  <2> HIDE DEF u
  <2>4. Appended(s, p) = u
    BY <1>3, <1>4 DEF u
  <2>5. Len(u) >= 1 /\ u[Len(u)].ok = p.ok
    BY <2>1, <2>3, <1>1, <1>2
  <2> QED
    BY <2>3, <2>4, <2>5
<1>5. CASE ~(Len(t) > Window)
  BY <1>1, <1>2, <1>3, <1>5
<1> QED
  BY <1>4, <1>5

\* Re-ranking keeps a rank for every address.
LEMMA TouchedType ==
    ASSUME NEW rank \in [IPs -> Int], NEW S \in SUBSET IPs
    PROVE  Touched(rank, S) \in [IPs -> Int]
<1>1. \A T \in SUBSET IPs : Cardinality(T) \in Nat
  BY IPsAssumption, FS_Subset, FS_CardinalityType
<1>2. ASSUME NEW j \in IPs
      PROVE  /\ Cardinality({k \in S : k > j}) \in Nat
             /\ Cardinality({k \in S : rank[k] < rank[j]}) \in Nat
  BY <1>1
<1>3. Cardinality(IPs) \in Nat
  BY <1>1
<1> QED
  BY <1>2, <1>3 DEF Touched

-----------------------------------------------------------------------------
(* What each ledger operation preserves.                                   *)

\* Two versions of a record with the same probes behind them.
SameEvidence(new, old) ==
    /\ new.fails = old.fails
    /\ new.samples = old.samples
    /\ old.state # "ABSENT" => new.state # "ABSENT"

\* Demoting the orphans leaves keep as the only ACTIVE and touches states only.
LEMMA DemoteOrphanActivesEffect ==
    ASSUME NEW rec \in [IPs -> Record], NEW keep \in IPs \cup {NoIP}
    PROVE  LET new == DemoteOrphanActives(rec, keep)
           IN  /\ new \in [IPs -> Record]
               /\ \A ip \in IPs : new[ip].state = "ACTIVE" => ip = keep
               /\ keep \in IPs => new[keep] = rec[keep]
               /\ \A ip \in IPs : SameEvidence(new[ip], rec[ip])
<1>1. ASSUME NEW ip \in IPs
      PROVE  /\ rec[ip] \in Record
             /\ [rec[ip] EXCEPT !.state = "STANDBY"] \in Record
             /\ [rec[ip] EXCEPT !.state = "STANDBY"].state = "STANDBY"
             /\ [rec[ip] EXCEPT !.state = "STANDBY"].fails = rec[ip].fails
             /\ [rec[ip] EXCEPT !.state = "STANDBY"].samples = rec[ip].samples
  BY DEF Record, LineState
<1> QED
  BY <1>1 DEF DemoteOrphanActives, SameEvidence

\* A ledger whose records keep their evidence keeps what depends on it.
LEMMA EvidenceKept ==
    ASSUME NEW l, NEW new \in Ledger,
           \A ip \in IPs : RecordHistory(l.rec[ip]),
           \A ip \in IPs : SameEvidence(new.rec[ip], l.rec[ip]),
           SingleActiveIn(new), ActiveRecordedIn(new)
    PROVE  /\ LedgerInv(new)
           /\ \A ip \in IPs : Committable(l, ip) => Committable(new, ip)
<1>1. ASSUME NEW ip \in IPs PROVE RecordHistory(new.rec[ip])
  BY DEF RecordHistory, LatestProbeOk, SameEvidence
<1> QED
  BY <1>1 DEF LedgerInv, Committable, Present, SameEvidence

\* Adopting the lone ACTIVE and demoting the others repairs an inherited ledger.
LEMMA ReconcileActiveInv ==
    ASSUME NEW l \in Ledger, ActiveRecordedIn(l),
           \A ip \in IPs : RecordHistory(l.rec[ip])
    PROVE  LedgerInv(ReconcileActive(l))
<1> DEFINE actives == {ip \in IPs : l.rec[ip].state = "ACTIVE"}
           active == IF l.activeIP = NoIP /\ Cardinality(actives) = 1
                     THEN CHOOSE ip \in actives : TRUE ELSE l.activeIP
           rec == DemoteOrphanActives(l.rec, active)
           rank == TouchedUnprobed(l, rec, Changed(l.rec, rec))
           new == [l EXCEPT !.activeIP = active, !.rec = rec, !.rank = rank]
<1>1. ReconcileActive(l) = new
  BY DEF ReconcileActive
<1>2. l.rec \in [IPs -> Record] /\ l.rank \in [IPs -> Int] /\ l.activeIP \in IPs \cup {NoIP}
  BY DEF Ledger
<1>3. Cardinality(actives) = 1 => actives # {}
  BY FS_EmptySet
<1>4. active \in IPs \cup {NoIP} /\ (active # NoIP => active \in Present(l.rec))
  BY <1>2, <1>3 DEF ActiveRecordedIn, HasActive, Present
<1> HIDE DEF active
<1>5. /\ rec \in [IPs -> Record]
      /\ \A ip \in IPs : rec[ip].state = "ACTIVE" => ip = active
      /\ \A ip \in IPs : SameEvidence(rec[ip], l.rec[ip])
  BY <1>2, <1>4, DemoteOrphanActivesEffect
<1> HIDE DEF rec
<1>6. rank \in [IPs -> Int]
  BY <1>2, TouchedType DEF TouchedUnprobed, Changed
<1> HIDE DEF rank
<1>7. new \in Ledger /\ new.rec = rec /\ new.activeIP = active
  BY <1>4, <1>5, <1>6 DEF Ledger
<1> HIDE DEF new
<1>8. SingleActiveIn(new) /\ ActiveRecordedIn(new)
  BY <1>4, <1>5, <1>7
  DEF SingleActiveIn, ActiveRecordedIn, HasActive, Present, SameEvidence
<1> QED
  BY <1>1, <1>5, <1>7, <1>8, EvidenceKept

\* seedActive installs ip whatever its record said, and keeps the evidence.
LEMMA SeedActiveInv ==
    ASSUME NEW l, LedgerInv(l), NEW ip \in IPs
    PROVE  /\ LedgerInv(SeedActive(l, ip))
           /\ \A j \in IPs : Committable(l, j) => Committable(SeedActive(l, ip), j)
<1> DEFINE prev == l.activeIP
           rec1 == IF HasActive(l) /\ prev # ip /\ l.rec[prev].state = "ACTIVE"
                   THEN [l.rec EXCEPT ![prev].state = "STANDBY"] ELSE l.rec
           rec2 == [EnsureRecord(rec1, ip) EXCEPT ![ip].state = "ACTIVE"]
           rec == DemoteOrphanActives(rec2, ip)
           rank == TouchedUnprobed(l, rec, Changed(l.rec, rec) \cup {ip})
           new == [l EXCEPT !.activeIP = ip, !.rec = rec, !.rank = rank]
<1>1. SeedActive(l, ip) = new
  BY DEF SeedActive
<1>2. /\ l \in Ledger
      /\ l.rec \in [IPs -> Record] /\ l.rank \in [IPs -> Int]
      /\ \A j \in IPs : RecordHistory(l.rec[j])
  BY DEF LedgerInv, Ledger
<1>3. /\ rec1 \in [IPs -> Record]
      /\ \A j \in IPs : SameEvidence(rec1[j], l.rec[j])
  BY <1>2 DEF HasActive, Present, Record, LineState, SameEvidence
<1> HIDE DEF rec1
<1>4. /\ rec2 \in [IPs -> Record]
      /\ \A j \in IPs : SameEvidence(rec2[j], rec1[j])
      /\ rec2[ip].state = "ACTIVE"
  BY <1>3 DEF EnsureRecord, Record, LineState, SameEvidence
<1> HIDE DEF rec2
<1>5. /\ rec \in [IPs -> Record]
      /\ \A j \in IPs : rec[j].state = "ACTIVE" => j = ip
      /\ rec[ip] = rec2[ip]
      /\ \A j \in IPs : SameEvidence(rec[j], rec2[j])
  BY <1>4, DemoteOrphanActivesEffect
<1> HIDE DEF rec
<1>6. rank \in [IPs -> Int]
  BY <1>2, TouchedType DEF TouchedUnprobed, Changed
<1> HIDE DEF rank
<1>7. new \in Ledger /\ new.rec = rec /\ new.activeIP = ip
  BY <1>2, <1>5, <1>6 DEF Ledger
<1>8. \A j \in IPs : SameEvidence(rec[j], l.rec[j])
  BY <1>3, <1>4, <1>5 DEF SameEvidence
<1>9. SingleActiveIn(new) /\ ActiveRecordedIn(new)
  BY <1>4, <1>5, <1>7 DEF SingleActiveIn, ActiveRecordedIn, HasActive, Present
<1> QED
  BY <1>1, <1>2, <1>7, <1>8, <1>9, EvidenceKept

\* commitSwitch demotes whoever is ACTIVE and installs the target it finds.
LEMMA CommitSwitchInv ==
    ASSUME NEW l, LedgerInv(l), NEW d \in Decision, Committable(l, d.to)
    PROVE  /\ LedgerInv(CommitSwitch(l, d))
           /\ Committable(CommitSwitch(l, d), d.to)
           /\ CommitSwitch(l, d).activeIP = d.to
<1> DEFINE rec1 == IF d.from \in Present(l.rec)
                   THEN [l.rec EXCEPT ![d.from].state = "STANDBY"] ELSE l.rec
           rec2 == IF d.to \in Present(l.rec)
                   THEN [rec1 EXCEPT ![d.to].state = "ACTIVE", ![d.to].superior = 0] ELSE rec1
           rec == DemoteOrphanActives(rec2, d.to)
           rank == TouchedUnprobed(l, rec, Changed(l.rec, rec))
           new == [l EXCEPT !.activeIP = d.to, !.rec = rec, !.sinceSwitch = 0, !.rank = rank]
<1>1. CommitSwitch(l, d) = new
  BY DEF CommitSwitch
<1>2. /\ l \in Ledger
      /\ l.rec \in [IPs -> Record] /\ l.rank \in [IPs -> Int]
      /\ \A j \in IPs : RecordHistory(l.rec[j])
      /\ d.to \in IPs /\ d.to \in Present(l.rec)
  BY DEF LedgerInv, Ledger, Committable, Present
<1>3. /\ rec1 \in [IPs -> Record]
      /\ \A j \in IPs : SameEvidence(rec1[j], l.rec[j])
  BY <1>2 DEF Present, Record, LineState, SameEvidence
<1> HIDE DEF rec1
<1>4. /\ rec2 \in [IPs -> Record]
      /\ \A j \in IPs : SameEvidence(rec2[j], rec1[j])
      /\ rec2[d.to].state = "ACTIVE"
  <2> DEFINE r == [rec1[d.to] EXCEPT !.state = "ACTIVE", !.superior = 0]
  <2>1. rec2 = [rec1 EXCEPT ![d.to] = r]
    BY <1>2, <1>3 DEF Record
  <2>2. r \in Record /\ r.state = "ACTIVE" /\ SameEvidence(r, rec1[d.to])
    <3>1. 0 \in 0..RequiredSuperiorRounds
      BY PolicyAssumption
    <3>2. rec1[d.to] \in Record
      BY <1>2, <1>3
    <3> QED
      BY <3>1, <3>2 DEF Record, LineState, SameEvidence
  <2> HIDE DEF r, rec2
  <2> QED
    BY <1>2, <1>3, <2>1, <2>2 DEF SameEvidence
<1> HIDE DEF rec2
<1>5. /\ rec \in [IPs -> Record]
      /\ \A j \in IPs : rec[j].state = "ACTIVE" => j = d.to
      /\ rec[d.to] = rec2[d.to]
      /\ \A j \in IPs : SameEvidence(rec[j], rec2[j])
  BY <1>2, <1>4, DemoteOrphanActivesEffect
<1> HIDE DEF rec
<1>6. rank \in [IPs -> Int]
  BY <1>2, TouchedType DEF TouchedUnprobed, Changed
<1> HIDE DEF rank
<1>7. new \in Ledger /\ new.rec = rec /\ new.activeIP = d.to
  <2>1. 0 \in 0..SwitchInterval
    BY PolicyAssumption
  <2> QED
    BY <1>2, <1>5, <1>6, <2>1 DEF Ledger
<1>8. \A j \in IPs : SameEvidence(rec[j], l.rec[j])
  BY <1>3, <1>4, <1>5 DEF SameEvidence
<1>9. SingleActiveIn(new) /\ ActiveRecordedIn(new)
  BY <1>2, <1>4, <1>5, <1>7 DEF SingleActiveIn, ActiveRecordedIn, HasActive, Present
<1> HIDE DEF new
<1>10. LedgerInv(new) /\ Committable(new, d.to)
  BY <1>2, <1>7, <1>8, <1>9, EvidenceKept
<1> QED
  BY <1>1, <1>7, <1>10

\* A saturating counter stays in range and is positive once bumped.
LEMMA BumpType ==
    ASSUME NEW limit \in Nat \ {0}, NEW n \in 0..limit
    PROVE  Bump(n, limit) \in 0..limit /\ Bump(n, limit) # 0
BY DEF Bump

\* pruneRecordsLocked empties records, never that of the Active.
LEMMA PruneRecordsInv ==
    ASSUME NEW l, LedgerInv(l)
    PROVE  LedgerInv(PruneRecords(l))
<1> DEFINE evictable == {ip \in Present(l.rec) : ip # l.activeIP /\ l.rec[ip].state # "ACTIVE"}
           excess == Cardinality(Present(l.rec)) - RecordsCap
           victims == {ip \in evictable :
                         Cardinality({j \in evictable : l.rank[j] < l.rank[ip]}) < excess}
           rec == [ip \in IPs |-> IF ip \in victims THEN Absent ELSE l.rec[ip]]
           new == [l EXCEPT !.rec = rec]
<1>1. PruneRecords(l) = new
  BY DEF PruneRecords
<1>2. /\ l \in Ledger /\ l.rec \in [IPs -> Record]
      /\ SingleActiveIn(l) /\ ActiveRecordedIn(l)
      /\ \A j \in IPs : RecordHistory(l.rec[j])
  BY DEF LedgerInv, Ledger
<1>3. l.activeIP \notin victims
  OBVIOUS
<1> HIDE DEF victims
<1>4. Absent \in Record /\ Absent.state = "ABSENT" /\ RecordHistory(Absent)
  BY PolicyAssumption DEF Absent, Record, RecordHistory
<1>5. /\ rec \in [IPs -> Record]
      /\ \A j \in IPs : rec[j] = l.rec[j] \/ rec[j] = Absent
      /\ l.activeIP \in IPs => rec[l.activeIP] = l.rec[l.activeIP]
  BY <1>2, <1>3, <1>4
<1> HIDE DEF rec
<1>6. new \in Ledger /\ new.rec = rec /\ new.activeIP = l.activeIP
  BY <1>2, <1>5 DEF Ledger
<1>7. SingleActiveIn(new)
  BY <1>2, <1>4, <1>5, <1>6 DEF SingleActiveIn
<1>8. ActiveRecordedIn(new)
  BY <1>2, <1>5, <1>6 DEF ActiveRecordedIn, HasActive, Present
<1>9. ASSUME NEW j \in IPs PROVE RecordHistory(new.rec[j])
  BY <1>2, <1>4, <1>5, <1>6
<1> QED
  BY <1>1, <1>6, <1>7, <1>8, <1>9 DEF LedgerInv

\* Replacing one record by the outcome of a probe of it.
LEMMA ProbedInv ==
    ASSUME NEW l, LedgerInv(l), NEW ip \in IPs, NEW r \in Record,
           r.state # "ABSENT", RecordHistory(r),
           r.state = "ACTIVE" => ip = l.activeIP
    PROVE  LedgerInv([l EXCEPT !.rec[ip] = r, !.rank = Touched(@, {ip})])
<1> DEFINE rank == Touched(l.rank, {ip})
           rec == [l.rec EXCEPT ![ip] = r]
           new == [l EXCEPT !.rec = rec, !.rank = rank]
<1>1. /\ l \in Ledger /\ l.rec \in [IPs -> Record] /\ l.rank \in [IPs -> Int]
      /\ SingleActiveIn(l) /\ ActiveRecordedIn(l)
      /\ \A j \in IPs : RecordHistory(l.rec[j])
  BY DEF LedgerInv, Ledger
<1>2. rank \in [IPs -> Int]
  BY <1>1, TouchedType
<1> HIDE DEF rank
<1>3. rec \in [IPs -> Record] /\ \A j \in IPs : rec[j] = IF j = ip THEN r ELSE l.rec[j]
  BY <1>1
<1> HIDE DEF rec
<1>4. new \in Ledger /\ new.rec = rec /\ new.activeIP = l.activeIP
  BY <1>1, <1>2, <1>3 DEF Ledger
<1>5. SingleActiveIn(new) /\ ActiveRecordedIn(new)
  BY <1>1, <1>3, <1>4 DEF SingleActiveIn, ActiveRecordedIn, HasActive, Present
<1>6. ASSUME NEW j \in IPs PROVE RecordHistory(new.rec[j])
  BY <1>1, <1>3, <1>4
<1>7. LedgerInv(new)
  BY <1>4, <1>5, <1>6 DEF LedgerInv
<1> QED
  BY <1>1, <1>7 DEF Ledger, rec, rank

\* observe, before it prunes: a success clears the failures, a failure counts, the
\* superior rounds do not matter here.
LEMMA ProbedRecordInv ==
    ASSUME NEW l, LedgerInv(l), NEW ip \in IPs, NEW p \in Probe
    PROVE  LedgerInv([l EXCEPT !.rec[ip] = UpdateSuperior(l, ip, ObservedRecord(l, ip, p)),
                               !.rank = Touched(@, {ip})])
<1> DEFINE old == EnsureRecord(l.rec, ip)[ip]
           started == IF old.state \in {"UNKNOWN", "STANDBY", "FAILED"} THEN "PROBING"
                      ELSE old.state
           fails == IF p.ok THEN 0 ELSE Bump(old.fails, FailureThreshold)
           state == IF p.ok THEN IF ip # l.activeIP THEN "STANDBY" ELSE started
                    ELSE IF fails >= FailureThreshold THEN "FAILED" ELSE started
           samples == Appended(old.samples, p)
           obs == [old EXCEPT !.state = state, !.fails = fails, !.samples = samples]
           r == UpdateSuperior(l, ip, obs)
<1>1. ObservedRecord(l, ip, p) = obs
  BY DEF ObservedRecord
<1>2. l \in Ledger /\ l.rec \in [IPs -> Record] /\ SingleActiveIn(l)
  BY DEF LedgerInv, Ledger
<1>3. /\ old \in Record /\ old.state # "ABSENT"
      /\ old.state = "ACTIVE" => ip = l.activeIP
  BY <1>2 DEF EnsureRecord, Record, LineState, SingleActiveIn
<1> HIDE DEF old
<1>4. started \in LineState /\ (started = "ACTIVE" => ip = l.activeIP)
  BY <1>3 DEF Record, LineState
<1> HIDE DEF started
<1>5. fails \in 0..FailureThreshold /\ (fails = 0 <=> p.ok = TRUE)
  <2>1. old.fails \in 0..FailureThreshold /\ p.ok \in BOOLEAN
    BY <1>3 DEF Record, Probe
  <2> DEFINE bumped == Bump(old.fails, FailureThreshold)
  <2>2. bumped \in 0..FailureThreshold /\ bumped # 0
    BY <2>1, BumpType, PolicyAssumption
  <2>3. fails = IF p.ok THEN 0 ELSE bumped
    OBVIOUS
  <2>4. 0 \in 0..FailureThreshold
    BY PolicyAssumption
  <2> HIDE DEF bumped
  <2> QED
    BY <2>1, <2>2, <2>3, <2>4
<1> HIDE DEF fails
<1>6. state \in LineState /\ (state = "ACTIVE" => ip = l.activeIP)
  BY <1>4 DEF LineState
<1> HIDE DEF state
<1>7. samples \in Seq(Probe) /\ samples # <<>> /\ samples[Len(samples)].ok = p.ok
  BY <1>3, AppendedType DEF Record
<1> HIDE DEF samples
<1>8. /\ obs \in Record /\ obs.state = state
      /\ obs.fails = fails /\ obs.samples = samples
  BY <1>3, <1>5, <1>6, <1>7 DEF Record
<1> HIDE DEF obs
<1>9. /\ r \in Record /\ r.state = state
      /\ r.fails = fails /\ r.samples = samples
  <2>1. /\ 0 \in 0..RequiredSuperiorRounds
        /\ Bump(obs.superior, RequiredSuperiorRounds) \in 0..RequiredSuperiorRounds
    BY <1>8, BumpType, PolicyAssumption DEF Record
  <2> QED
    BY <1>8, <2>1 DEF UpdateSuperior, Record
<1> HIDE DEF r
<1>10. r.state # "ABSENT" /\ RecordHistory(r) /\ (r.state = "ACTIVE" => ip = l.activeIP)
  BY <1>5, <1>6, <1>7, <1>9 DEF LineState, RecordHistory, LatestProbeOk
<1>11. LedgerInv([l EXCEPT !.rec[ip] = r, !.rank = Touched(@, {ip})])
  BY <1>9, <1>10, ProbedInv
<1> QED
  BY <1>1, <1>11 DEF r

LEMMA ObserveInv ==
    ASSUME NEW l, LedgerInv(l), NEW ip \in IPs, NEW p \in Probe
    PROVE  LedgerInv(Observe(l, ip, p))
BY ProbedRecordInv, PruneRecordsInv DEF Observe

\* observeActiveHealth concerns the record of the Active alone.
LEMMA ObserveActiveHealthInv ==
    ASSUME NEW l, LedgerInv(l), HasActive(l), NEW p \in Probe
    PROVE  LedgerInv(ObserveActiveHealth(l, p))
<1> DEFINE ip == l.activeIP
           old == l.rec[ip]
           fails == IF p.ok THEN 0 ELSE Bump(old.fails, FailureThreshold)
           state == IF p.ok THEN IF old.state = "DEGRADED" THEN "ACTIVE" ELSE old.state
                    ELSE IF fails >= FailureThreshold THEN "FAILED" ELSE "DEGRADED"
           health == [p EXCEPT !.mbps = 0]
           samples == Appended(old.samples, health)
           r == [old EXCEPT !.state = state, !.fails = fails, !.samples = samples]
<1>1. HealthRecord(old, p) = r
  BY DEF HealthRecord
<1>2. ip \in IPs /\ old \in Record /\ old.state # "ABSENT"
  BY DEF HasActive, Present, LedgerInv, Ledger
<1> HIDE DEF old
<1>3. fails \in 0..FailureThreshold /\ (fails = 0 <=> p.ok = TRUE)
  <2>1. old.fails \in 0..FailureThreshold /\ p.ok \in BOOLEAN
    BY <1>2 DEF Record, Probe
  <2> DEFINE bumped == Bump(old.fails, FailureThreshold)
  <2>2. bumped \in 0..FailureThreshold /\ bumped # 0
    BY <2>1, BumpType, PolicyAssumption
  <2>3. fails = IF p.ok THEN 0 ELSE bumped
    OBVIOUS
  <2>4. 0 \in 0..FailureThreshold
    BY PolicyAssumption
  <2> HIDE DEF bumped
  <2> QED
    BY <2>1, <2>2, <2>3, <2>4
<1>4. health \in Probe /\ health.ok = p.ok
  BY DEF Probe
<1>5. samples \in Seq(Probe) /\ samples # <<>> /\ samples[Len(samples)].ok = p.ok
  BY <1>2, <1>4, AppendedType DEF Record
<1>6. state \in LineState
  BY <1>2 DEF LineState, Record
<1> HIDE DEF fails, state, samples
<1>7. /\ r \in Record /\ r.state = state
      /\ r.fails = fails /\ r.samples = samples
  BY <1>2, <1>3, <1>5, <1>6 DEF Record
<1> HIDE DEF r
<1>8. r.state # "ABSENT" /\ RecordHistory(r)
  BY <1>3, <1>5, <1>6, <1>7 DEF LineState, RecordHistory, LatestProbeOk
<1>9. LedgerInv([l EXCEPT !.rec[ip] = r, !.rank = Touched(@, {ip})])
  BY <1>2, <1>7, <1>8, ProbedInv
<1> QED
  BY <1>1, <1>9 DEF ObserveActiveHealth, old

-----------------------------------------------------------------------------
(* The inductive invariant.                                                *)

LEMMA InitInv == Init => IInv
<1> SUFFICES ASSUME Init PROVE IInv
  OBVIOUS
<1>1. PICK l \in InheritedLedger : ledger = ReconcileActive(l)
  BY DEF Init
<1> DEFINE standby == [Absent EXCEPT !.state = "STANDBY"]
           active  == [Absent EXCEPT !.state = "ACTIVE"]
<1>2. \A r \in {Absent, standby, active} : r \in Record /\ RecordHistory(r)
  <2>1. /\ 0 \in 0..FailureThreshold /\ 0 \in 0..RequiredSuperiorRounds
        /\ <<>> \in Seq(Probe)
    BY PolicyAssumption
  <2>2. Absent \in Record /\ Absent.samples = <<>>
    BY <2>1 DEF Absent, Record, LineState
  <2>3. standby \in Record /\ standby.samples = <<>>
    BY <2>2 DEF Record, LineState
  <2>4. active \in Record /\ active.samples = <<>>
    BY <2>2 DEF Record, LineState
  <2> QED
    BY <2>2, <2>3, <2>4 DEF RecordHistory
<1>3. /\ l.rec \in [IPs -> {Absent, standby, active}]
      /\ l.activeIP # NoIP => l.rec[l.activeIP].state = "ACTIVE"
  BY DEF InheritedLedger
<1> HIDE DEF standby, active
<1>4. l \in Ledger
  <2>1. ASSUME NEW ip \in IPs PROVE Cardinality({j \in IPs : j <= ip}) \in Int
    BY IPsAssumption, FS_Subset, FS_CardinalityType
  <2>2. l.rec \in [IPs -> Record] /\ SwitchInterval \in 0..SwitchInterval
    BY <1>2, <1>3, PolicyAssumption
  <2> DEFINE order == [ip \in IPs |-> Cardinality({j \in IPs : j <= ip})]
  <2>3. /\ l \in [rec : [IPs -> {Absent, standby, active}], activeIP : IPs \cup {NoIP},
                  rank : {order}, sinceSwitch : {SwitchInterval}]
    BY DEF InheritedLedger, standby, active
  <2>4. order \in [IPs -> Int]
    BY <2>1
  <2> HIDE DEF order
  <2> QED
    BY <2>2, <2>3, <2>4 DEF Ledger
<1>5. ActiveRecordedIn(l)
  BY <1>3, <1>4 DEF ActiveRecordedIn, HasActive, Present, Ledger
<1>6. \A ip \in IPs : RecordHistory(l.rec[ip])
  BY <1>2, <1>3
<1>7. LedgerInv(ledger)
  BY <1>1, <1>4, <1>5, <1>6, ReconcileActiveInv
<1> QED
  BY <1>7 DEF Init, IInv, TypeOK, LedgerInv, NoDecision, Decision

\* A save leaves the disk with the new ledger or the previous file.
LEMMA SaveInv ==
    ASSUME NEW l, LedgerInv(l), LedgerInv(disk), Save(l)
    PROVE  ledger' = l /\ LedgerInv(ledger') /\ LedgerInv(disk')
BY DEF Save

\* Only the clock moves.
LEMMA TickInv ==
    ASSUME NEW l, LedgerInv(l)
    PROVE  LET new == [l EXCEPT !.sinceSwitch = Bump(@, SwitchInterval)]
           IN  /\ LedgerInv(new)
               /\ \A ip \in IPs : Committable(l, ip) => Committable(new, ip)
<1> DEFINE since == Bump(l.sinceSwitch, SwitchInterval)
           new == [l EXCEPT !.sinceSwitch = since]
<1>1. l \in Ledger /\ l.sinceSwitch \in 0..SwitchInterval
  BY DEF LedgerInv, Ledger
<1>2. since \in 0..SwitchInterval
  BY <1>1, PolicyAssumption DEF Bump
<1> HIDE DEF since
<1>3. new \in Ledger /\ new.rec = l.rec /\ new.activeIP = l.activeIP
  BY <1>1, <1>2 DEF Ledger
<1> HIDE DEF new
<1>4. LedgerInv(new) /\ \A ip \in IPs : Committable(l, ip) => Committable(new, ip)
  BY <1>3 DEF LedgerInv, SingleActiveIn, ActiveRecordedIn, HasActive, Present, Committable
<1> QED
  BY <1>4 DEF new, since

\* A decision names a recorded line whose latest observations it trusts.
LEMMA DecideLineSwitchType ==
    ASSUME NEW l \in Ledger, NEW d \in DecideLineSwitch(l)
    PROVE  d \in Decision /\ (d.event # "NONE" => Committable(l, d.to))
<1>1. CASE d = NoDecision
  BY <1>1 DEF NoDecision, Decision
<1>2. CASE \E ip \in First(l, Choice(l)) : d = SwitchTo(l, ip)
  <2>1. PICK ip \in First(l, Choice(l)) : d = SwitchTo(l, ip)
    BY <1>2
  <2>2. ip \in EligibleStandby(l)
    BY DEF First, Choice, Proven
  <2>3. ip \in IPs /\ Committable(l, ip)
    <3>1. ip \in IPs /\ ip \in Present(l.rec) /\ l.rec[ip].fails = 0
      BY <2>2 DEF EligibleStandby, Present
    <3>2. l.rec[ip].samples # <<>>
      BY <2>2 DEF EligibleStandby, Successes
    <3> QED
      BY <3>1, <3>2 DEF Committable
  <2>4. d \in Decision /\ d.to = ip
    BY <2>1, <2>3 DEF SwitchTo, Decision, Ledger
  <2> QED
    BY <2>3, <2>4
<1> QED
  BY <1>1, <1>2 DEF DecideLineSwitch

LEMMA NextInv == IInv /\ [Next]_vars => IInv'
<1> SUFFICES ASSUME IInv, [Next]_vars PROVE IInv'
  OBVIOUS
<1> USE DEF IInv
<1>1. ASSUME NEW p \in Probes, Health(p) PROVE IInv'
  <2>1. LedgerInv(ObserveActiveHealth(ledger, p))
    BY <1>1, ObserveActiveHealthInv, ProbesAssumption DEF Health
  <2>2. LedgerInv(ledger') /\ LedgerInv(disk')
    BY <1>1, <2>1, SaveInv DEF Health
  <2> QED
    BY <1>1, <2>2 DEF Health, TypeOK, LedgerInv
<1>2. ASSUME NEW b \in SUBSET IPs, StartBatch(b) PROVE IInv'
  BY <1>2 DEF StartBatch, TypeOK
<1>3. CASE RoundFails \/ Probed
  BY <1>3 DEF RoundFails, Probed, TypeOK
<1>4. ASSUME NEW ip \in IPs, NEW p \in Probes, ObserveCandidate(ip, p) PROVE IInv'
  <2>1. LedgerInv(Observe(ledger, ip, p))
    BY ObserveInv, ProbesAssumption
  <2>2. LedgerInv(ledger') /\ LedgerInv(disk')
    BY <1>4, <2>1, SaveInv DEF ObserveCandidate
  <2> QED
    BY <1>4, <2>2 DEF ObserveCandidate, TypeOK, LedgerInv
<1>5. CASE Decide
  <2>1. pending' \in Decision /\ (pending'.event # "NONE" => Committable(ledger, pending'.to))
    BY <1>5, DecideLineSwitchType DEF Decide, TypeOK
  <2>2. ledger' = ledger /\ LedgerInv(ledger') /\ LedgerInv(disk')
    BY <1>5, SaveInv DEF Decide
  <2> QED
    BY <1>5, <2>1, <2>2 DEF Decide, TypeOK, LedgerInv
<1>6. CASE Abandon
  BY <1>6 DEF Abandon, TypeOK, NoDecision, Decision
<1>7. ASSUME NEW ip \in IPs, Apply(ip) PROVE IInv'
  <2>1. /\ LedgerInv(SeedActive(ledger, ip))
        /\ \A j \in IPs : Committable(ledger, j) => Committable(SeedActive(ledger, ip), j)
    BY SeedActiveInv
  <2>2. ledger' = SeedActive(ledger, ip) /\ LedgerInv(ledger') /\ LedgerInv(disk')
    BY <1>7, <2>1, SaveInv DEF Apply
  <2>3. pending' = pending /\ phase = "apply" /\ phase' = "commit" /\ batch' = batch
    BY <1>7 DEF Apply
  <2>4. Committable(ledger', pending.to)
    BY <2>1, <2>2, <2>3 DEF Committable, Present
  <2> QED
    BY <2>2, <2>3, <2>4 DEF TypeOK, LedgerInv
<1>8. CASE Commit
  <2>1. LedgerInv(CommitSwitch(ledger, pending))
    BY <1>8, CommitSwitchInv DEF Commit, TypeOK
  <2>2. LedgerInv(ledger') /\ LedgerInv(disk')
    BY <1>8, <2>1, SaveInv DEF Commit
  <2> QED
    BY <1>8, <2>2 DEF Commit, TypeOK, LedgerInv, NoDecision, Decision
<1>9. ASSUME NEW ip \in IPs, SeedFromPool(ip) PROVE IInv'
  <2>1. /\ LedgerInv(SeedActive(ledger, ip))
        /\ \A j \in IPs : Committable(ledger, j) => Committable(SeedActive(ledger, ip), j)
    BY SeedActiveInv
  <2>2. ledger' = SeedActive(ledger, ip) /\ LedgerInv(ledger') /\ LedgerInv(disk')
    BY <1>9, <2>1, SaveInv DEF SeedFromPool
  <2>3. UNCHANGED <<phase, batch, pending>>
    BY <1>9 DEF SeedFromPool
  <2>4. pending.event # "NONE" => Committable(ledger', pending.to)
    BY <2>1, <2>2 DEF Committable, Present
  <2> QED
    BY <2>2, <2>3, <2>4 DEF TypeOK, LedgerInv
<1>10. CASE Tick
  <2>1. /\ LedgerInv(ledger') /\ LedgerInv(disk')
        /\ \A j \in IPs : Committable(ledger, j) => Committable(ledger', j)
    BY <1>10, TickInv DEF Tick
  <2>2. UNCHANGED <<phase, batch, pending>>
    BY <1>10 DEF Tick
  <2>3. pending.event # "NONE" => Committable(ledger', pending.to)
    BY <2>1 DEF Committable, Present
  <2> QED
    BY <2>1, <2>2, <2>3 DEF TypeOK, LedgerInv
<1>11. CASE Restart
  <2>1. LedgerInv(ReconcileActive(disk))
    BY ReconcileActiveInv DEF LedgerInv
  <2>2. LedgerInv(ledger') /\ LedgerInv(disk')
    BY <1>11, <2>1, SaveInv DEF Restart
  <2> QED
    BY <1>11, <2>2 DEF Restart, TypeOK, LedgerInv, NoDecision, Decision
<1>12. CASE FirstRound
  BY <1>12 DEF FirstRound, TypeOK
<1>13. CASE UNCHANGED vars
  BY <1>13 DEF vars, TypeOK
<1> QED
  BY <1>1, <1>2, <1>3, <1>4, <1>5, <1>6, <1>7, <1>8, <1>9, <1>10, <1>11, <1>12, <1>13 DEF Next

(***************************************************************************)
(* The inductive invariant holds of every reachable state of the scheduler *)
(* round and the ledger under it (quality_runtime.go).                     *)
(***************************************************************************)
THEOREM InvHolds == Spec => []IInv
BY InitInv, NextInv, PTL DEF Spec

(***************************************************************************)
(* Every ledger, in memory and on disk, is well formed.                    *)
(***************************************************************************)
THEOREM TypeCorrect == Spec => []TypeOK
<1>1. IInv => TypeOK
  BY DEF IInv
<1> QED
  BY <1>1, InvHolds, PTL

(***************************************************************************)
(* At most one record is ACTIVE, the one ActiveIP names: whatever the      *)
(* inherited file, the interleaving of seedActive with a round, the lost   *)
(* writes and the restarts.                                                *)
(***************************************************************************)
THEOREM SingleActiveCorrect == Spec => []SingleActive
<1>1. IInv => SingleActive
  BY DEF IInv, LedgerInv, SingleActive
<1> QED
  BY <1>1, InvHolds, PTL

(***************************************************************************)
(* Pruning never loses the Active, nor the target of a pending switch.     *)
(***************************************************************************)
THEOREM ActiveRecordedCorrect == Spec => []ActiveRecorded
<1>1. IInv => ActiveRecorded
  BY DEF IInv, LedgerInv, ActiveRecorded, Committable
<1> QED
  BY <1>1, InvHolds, PTL

(***************************************************************************)
(* commitSwitch only ever installs a line whose latest probe succeeded.    *)
(***************************************************************************)
THEOREM OnlyProvenCommittedCorrect == Spec => OnlyProvenCommitted
<1>1. IInv /\ [Next]_vars /\ Commit =>
        /\ LatestProbeOk(ledger'.rec[ledger'.activeIP])
        /\ ledger'.rec[ledger'.activeIP].fails = 0
  <2> SUFFICES ASSUME IInv, [Next]_vars, Commit
               PROVE  /\ LatestProbeOk(ledger'.rec[ledger'.activeIP])
                      /\ ledger'.rec[ledger'.activeIP].fails = 0
    OBVIOUS
  <2>1. ledger' = CommitSwitch(ledger, pending)
    BY DEF Commit, Save
  <2>2. /\ LedgerInv(ledger')
        /\ Committable(ledger', pending.to)
        /\ ledger'.activeIP = pending.to
    BY <2>1, CommitSwitchInv DEF IInv, TypeOK, Commit
  <2> QED
    BY <2>2 DEF LedgerInv, Committable, Present, RecordHistory
<1> QED
  BY <1>1, InvHolds, PTL DEF Spec, OnlyProvenCommitted

-----------------------------------------------------------------------------
(***************************************************************************)
(* The ages of the records.  What pruneRecordsLocked evicts is counted by  *)
(* rank, so the bound needs an order: no two records of the same age, none *)
(* newer than the number of addresses (Ordered).  Touched, which every     *)
(* ledger operation re-ranks with, keeps it.                               *)
(***************************************************************************)
Ordered(rank) ==
    /\ rank \in [IPs -> Int]
    /\ \A i, j \in IPs : rank[i] = rank[j] => i = j
    /\ \A i \in IPs : rank[i] <= Cardinality(IPs)

LEMMA SubsetsCounted ==
    ASSUME NEW T \in SUBSET IPs
    PROVE  IsFiniteSet(T) /\ Cardinality(T) \in Nat /\ Cardinality(T) <= Cardinality(IPs)
           /\ Cardinality(IPs) \in Nat
BY IPsAssumption, FS_Subset, FS_CardinalityType

\* Records whose ranks lie between two numbers are no more than fit between them.
LEMMA BetweenRanks ==
    ASSUME NEW rank, Ordered(rank), NEW T \in SUBSET IPs, NEW a \in Int, NEW b \in Int, a <= b,
           \A k \in T : a < rank[k] /\ rank[k] <= b
    PROVE  Cardinality(T) <= b - a
<1> DEFINE f == [k \in T |-> rank[k]]
<1>1. f \in Injection(T, (a + 1)..b)
  BY DEF Ordered, Injection, IsInjective
<1> HIDE DEF f
<1>2. IsFiniteSet((a + 1)..b) /\ Cardinality((a + 1)..b) = b - a
  <2> DEFINE low == a + 1
  <2>1. low \in Int
    OBVIOUS
  <2> HIDE DEF low
  <2>2. IsFiniteSet(low..b) /\ Cardinality(low..b) = IF low > b THEN 0 ELSE b - low + 1
    BY <2>1, FS_Interval
  <2> QED BY <2>2 DEF low
<1> QED BY <1>1, <1>2, FS_Injection

\* A record of S, once touched, is newer than any that was not.
LEMMA TouchedNewest ==
    ASSUME NEW rank, Ordered(rank), NEW S \in SUBSET IPs, NEW i \in S, NEW j \in IPs \ S
    PROVE  /\ Touched(rank, S)[j] < Touched(rank, S)[i]
           /\ Touched(rank, S)[i] <= Cardinality(IPs)
<1> DEFINE n == Cardinality(IPs)
           above == {k \in S : k > i}
           older == {k \in S : rank[k] < rank[j]}
           newer == S \ older
<1>1. /\ Cardinality(above) \in Nat /\ Cardinality(older) \in Nat /\ Cardinality(newer) \in Nat
      /\ Cardinality(S) \in Nat /\ n \in Nat /\ IsFiniteSet(S)
  BY SubsetsCounted
<1>2. Cardinality(above) <= Cardinality(S) - 1
  <2>1. i \in Nat /\ ~(i > i)
    BY IPsAssumption
  <2>2. above \in SUBSET (S \ {i})
    BY <2>1
  <2>3. IsFiniteSet(S \ {i}) /\ Cardinality(S \ {i}) = Cardinality(S) - 1
    BY <1>1, FS_RemoveElement
  <2> HIDE DEF above
  <2>4. Cardinality(above) <= Cardinality(S \ {i})
    BY <2>2, <2>3, FS_Subset
  <2> QED BY <2>3, <2>4
<1>3. Cardinality(newer) = Cardinality(S) - Cardinality(older)
  <2>1. S \cap older = older
    OBVIOUS
  <2> QED BY <1>1, <2>1, FS_Difference
<1>4. Cardinality(newer) <= n - rank[j]
  <2>1. rank[j] \in Int /\ rank[j] <= n
    BY DEF Ordered
  <2>2. \A k \in newer : rank[j] < rank[k] /\ rank[k] <= n
    BY DEF Ordered
  <2>3. newer \in SUBSET IPs
    OBVIOUS
  <2> HIDE DEF newer
  <2> QED BY <1>1, <2>1, <2>2, <2>3, BetweenRanks
<1>5. Touched(rank, S)[i] = n - Cardinality(above) /\ Touched(rank, S)[j] = rank[j] - Cardinality(older)
  BY DEF Touched
<1>6. rank[j] \in Int
  BY DEF Ordered
<1> HIDE DEF above, older, newer, n
<1>7. Touched(rank, S)[j] < Touched(rank, S)[i] /\ Touched(rank, S)[i] <= n
  BY <1>1, <1>2, <1>3, <1>4, <1>5, <1>6
<1> QED BY <1>7 DEF n

\* Touched keeps the order of the records of S by address.
LEMMA TouchedInOrder ==
    ASSUME NEW rank, NEW S \in SUBSET IPs, NEW i \in S, NEW j \in S, i < j
    PROVE  Touched(rank, S)[i] < Touched(rank, S)[j]
<1> DEFINE aboveI == {k \in S : k > i}
           aboveJ == {k \in S : k > j}
<1>1. /\ Cardinality(aboveI) \in Nat /\ Cardinality(aboveJ) \in Nat /\ Cardinality(IPs) \in Nat
      /\ IsFiniteSet(aboveI) /\ IsFiniteSet(aboveJ)
  BY SubsetsCounted
<1>2. aboveJ \cup {j} \in SUBSET aboveI /\ j \notin aboveJ
  <2>1. \A k \in S : (k > j => k > i) /\ (k = j => k > i /\ ~(k > j))
    BY IPsAssumption
  <2> QED BY <2>1
<1>3. Cardinality(aboveJ) + 1 <= Cardinality(aboveI)
  <2> HIDE DEF aboveI, aboveJ
  <2>1. Cardinality(aboveJ \cup {j}) = Cardinality(aboveJ) + 1
    BY <1>1, <1>2, FS_AddElement
  <2> QED BY <1>1, <1>2, <2>1, FS_Subset
<1>4. /\ Touched(rank, S)[i] = Cardinality(IPs) - Cardinality(aboveI)
      /\ Touched(rank, S)[j] = Cardinality(IPs) - Cardinality(aboveJ)
  BY DEF Touched
<1> QED BY <1>1, <1>3, <1>4

\* Touched keeps the order of the other records.
LEMMA OthersInOrder ==
    ASSUME NEW rank, Ordered(rank), NEW S \in SUBSET IPs, NEW i \in IPs \ S, NEW j \in IPs \ S,
           rank[i] < rank[j]
    PROVE  Touched(rank, S)[i] < Touched(rank, S)[j]
<1> DEFINE olderI == {k \in S : rank[k] < rank[i]}
           olderJ == {k \in S : rank[k] < rank[j]}
           middle == olderJ \ olderI
<1>1. /\ Cardinality(olderI) \in Nat /\ Cardinality(olderJ) \in Nat /\ Cardinality(middle) \in Nat
      /\ IsFiniteSet(olderJ)
  BY SubsetsCounted
<1>2. rank[i] \in Int /\ rank[j] \in Int
  BY DEF Ordered
<1>3. Cardinality(middle) <= rank[j] - 1 - rank[i]
  <2>1. \A k \in middle : rank[i] < rank[k] /\ rank[k] <= rank[j] - 1
    BY DEF Ordered
  <2>2. middle \in SUBSET IPs
    OBVIOUS
  <2> HIDE DEF middle
  <2> QED BY <1>2, <2>1, <2>2, BetweenRanks
<1>4. Cardinality(middle) = Cardinality(olderJ) - Cardinality(olderI)
  <2>1. olderJ \cap olderI = olderI
    BY <1>2 DEF Ordered
  <2> QED BY <1>1, <2>1, FS_Difference
<1>5. /\ Touched(rank, S)[i] = rank[i] - Cardinality(olderI)
      /\ Touched(rank, S)[j] = rank[j] - Cardinality(olderJ)
  BY DEF Touched
<1> HIDE DEF olderI, olderJ, middle
<1> QED BY <1>1, <1>2, <1>3, <1>4, <1>5

LEMMA TouchedOrdered ==
    ASSUME NEW rank, Ordered(rank), NEW S \in SUBSET IPs
    PROVE  Ordered(Touched(rank, S))
<1> DEFINE new == Touched(rank, S)
<1>1. new \in [IPs -> Int] /\ rank \in [IPs -> Int]
  BY TouchedType DEF Ordered
<1>2. ASSUME NEW i \in IPs, NEW j \in IPs, i # j PROVE new[i] # new[j]
  <2>1. new[i] \in Int /\ new[j] \in Int /\ rank[i] \in Int /\ rank[j] \in Int
    BY <1>1
  <2>2. i < j \/ j < i
    BY <1>2, IPsAssumption
  <2>3. rank[i] < rank[j] \/ rank[j] < rank[i]
    BY <1>2, <2>1 DEF Ordered
  <2>4. CASE i \in S /\ j \in S
    BY <2>1, <2>2, <2>4, TouchedInOrder
  <2>5. CASE i \in S /\ j \notin S
    BY <2>1, <2>5, TouchedNewest
  <2>6. CASE i \notin S /\ j \in S
    BY <2>1, <2>6, TouchedNewest
  <2>7. CASE i \notin S /\ j \notin S
    BY <2>1, <2>3, <2>7, OthersInOrder
  <2> QED BY <2>4, <2>5, <2>6, <2>7
<1>3. ASSUME NEW i \in IPs PROVE new[i] <= Cardinality(IPs)
  <2>1. Cardinality(IPs) \in Nat /\ rank[i] \in Int /\ rank[i] <= Cardinality(IPs)
    BY SubsetsCounted DEF Ordered
  <2>2. CASE i \in S
    <3>1. new[i] = Cardinality(IPs) - Cardinality({k \in S : k > i})
      BY <2>2 DEF Touched
    <3>2. Cardinality({k \in S : k > i}) \in Nat
      BY SubsetsCounted
    <3> QED BY <2>1, <3>1, <3>2
  <2>3. CASE i \notin S
    <3>1. new[i] = rank[i] - Cardinality({k \in S : rank[k] < rank[i]})
      BY <2>3 DEF Touched
    <3>2. Cardinality({k \in S : rank[k] < rank[i]}) \in Nat
      BY SubsetsCounted
    <3> QED BY <2>1, <3>1, <3>2
  <2> QED BY <2>2, <2>3
<1> QED BY <1>1, <1>2, <1>3 DEF Ordered

\* The ranks of a first start, where nothing was probed yet, go by address.
LEMMA InitialOrdered ==
    ASSUME NEW l \in InheritedLedger
    PROVE  Ordered(l.rank)
<1> DEFINE upTo(ip) == {j \in IPs : j <= ip}
           order == [ip \in IPs |-> Cardinality(upTo(ip))]
<1>1. \A ip \in IPs : /\ Cardinality(upTo(ip)) \in Nat /\ IsFiniteSet(upTo(ip))
                      /\ Cardinality(upTo(ip)) <= Cardinality(IPs)
  BY SubsetsCounted
<1>2. ASSUME NEW i \in IPs, NEW j \in IPs, i < j PROVE order[i] < order[j]
  <2>1. upTo(i) \cup {j} \in SUBSET upTo(j) /\ j \notin upTo(i)
    <3>1. \A k \in IPs : (k <= i => k <= j) /\ (k = j => k <= j /\ ~(k <= i))
      BY <1>2, IPsAssumption
    <3> QED BY <3>1
  <2>2. Cardinality(upTo(i) \cup {j}) = Cardinality(upTo(i)) + 1
    BY <1>1, <2>1, FS_AddElement
  <2>3. Cardinality(upTo(i)) + 1 <= Cardinality(upTo(j))
    BY <1>1, <2>1, <2>2, FS_Subset
  <2> QED BY <1>1, <2>3
<1>3. Ordered(order)
  <2>1. \A i, j \in IPs : i < j \/ j < i \/ i = j
    BY IPsAssumption
  <2>2. order \in [IPs -> Int] /\ \A i \in IPs : order[i] <= Cardinality(IPs)
    BY <1>1
  <2> HIDE DEF order
  <2>3. \A i, j \in IPs : order[i] = order[j] => i = j
    BY <1>2, <2>1, <2>2
  <2> QED BY <2>2, <2>3 DEF Ordered
<1>4. l.rank = order
  BY DEF InheritedLedger
<1> QED BY <1>3, <1>4

\* Every ledger operation leaves the ranks or touches some records.
LEMMA OperationsOrdered ==
    ASSUME NEW l \in Ledger, Ordered(l.rank)
    PROVE  /\ Ordered(ReconcileActive(l).rank)
           /\ \A ip \in IPs : Ordered(SeedActive(l, ip).rank)
           /\ \A d \in Decision : Ordered(CommitSwitch(l, d).rank)
           /\ \A ip \in IPs, p \in Probe : Ordered(Observe(l, ip, p).rank)
           /\ \A p \in Probe : HasActive(l) => Ordered(ObserveActiveHealth(l, p).rank)
           /\ Ordered([l EXCEPT !.sinceSwitch = Bump(@, SwitchInterval)].rank)
<1>1. \A rec, S : S \subseteq IPs => Ordered(TouchedUnprobed(l, rec, S))
  BY TouchedOrdered DEF TouchedUnprobed
<1>2. \A old, new : Changed(old, new) \subseteq IPs
  BY DEF Changed
<1>3. \A ip \in IPs : Ordered(Touched(l.rank, {ip}))
  BY TouchedOrdered
<1>4. Ordered(ReconcileActive(l).rank)
  BY <1>1, <1>2 DEF ReconcileActive, Ledger
<1>5. ASSUME NEW ip \in IPs PROVE Ordered(SeedActive(l, ip).rank)
  BY <1>1, <1>2 DEF SeedActive, Ledger
<1>6. ASSUME NEW d \in Decision PROVE Ordered(CommitSwitch(l, d).rank)
  BY <1>1, <1>2 DEF CommitSwitch, Ledger
<1>7. ASSUME NEW ip \in IPs, NEW p \in Probe PROVE Ordered(Observe(l, ip, p).rank)
  BY <1>3 DEF Observe, PruneRecords, Ledger
<1>8. ASSUME NEW p \in Probe, HasActive(l) PROVE Ordered(ObserveActiveHealth(l, p).rank)
  BY <1>3, <1>8 DEF ObserveActiveHealth, HasActive, Present, Ledger
<1>9. Ordered([l EXCEPT !.sinceSwitch = Bump(@, SwitchInterval)].rank)
  BY DEF Ledger
<1> QED BY <1>4, <1>5, <1>6, <1>7, <1>8, <1>9

\* The invariant, in memory and in the file.
RankInv == Ordered(ledger.rank) /\ Ordered(disk.rank)

LEMMA RankInvNext == ASSUME IInv, RankInv, [Next]_vars PROVE RankInv'
<1>1. ledger \in Ledger /\ disk \in Ledger
  BY DEF IInv, TypeOK
<1>2. ASSUME NEW l, Ordered(l.rank), Save(l) PROVE RankInv'
  BY <1>2 DEF Save, RankInv
<1>3. ASSUME NEW p \in Probes, Health(p) PROVE RankInv'
  BY <1>1, <1>2, <1>3, OperationsOrdered, ProbesAssumption DEF Health, RankInv
<1>4. ASSUME NEW ip \in IPs, NEW p \in Probes, ObserveCandidate(ip, p) PROVE RankInv'
  BY <1>1, <1>2, <1>4, OperationsOrdered, ProbesAssumption DEF ObserveCandidate, RankInv
<1>5. CASE Decide
  BY <1>2, <1>5 DEF Decide, RankInv
<1>6. ASSUME NEW ip \in IPs, Apply(ip) \/ SeedFromPool(ip) PROVE RankInv'
  BY <1>1, <1>2, <1>6, OperationsOrdered DEF Apply, SeedFromPool, RankInv
<1>7. CASE Commit
  BY <1>1, <1>2, <1>7, OperationsOrdered DEF Commit, RankInv, IInv, TypeOK
<1>8. CASE Tick
  BY <1>1, <1>8, OperationsOrdered DEF Tick, RankInv
<1>9. CASE Restart
  BY <1>1, <1>2, <1>9, OperationsOrdered DEF Restart, RankInv
<1>10. CASE UNCHANGED <<ledger, disk>>
  BY <1>10 DEF RankInv
<1> QED
  BY <1>3, <1>4, <1>5, <1>6, <1>7, <1>8, <1>9, <1>10
  DEF Next, vars, FirstRound, StartBatch, RoundFails, Probed, Abandon

LEMMA RankInvInit == Init => RankInv
<1> SUFFICES ASSUME Init PROVE RankInv
  OBVIOUS
<1>1. PICK l \in InheritedLedger : ledger = ReconcileActive(l)
  BY DEF Init
<1>2. Ordered(l.rank)
  BY <1>1, InitialOrdered
<1>3. Ordered(ReconcileActive(l).rank)
  BY <1>2, TouchedOrdered DEF ReconcileActive, InheritedLedger, TouchedUnprobed, Changed
<1> QED BY <1>1, <1>3 DEF Init, RankInv

(***************************************************************************)
(* pruneRecordsLocked.  The evictable records are numbered from 0 by age   *)
(* (Age); those with the first numbers go, so that the others fit.         *)
(***************************************************************************)
Age(l, E, ip) == Cardinality({j \in E : l.rank[j] < l.rank[ip]})

LEMMA AgesDiffer ==
    ASSUME NEW l, Ordered(l.rank), NEW E \in SUBSET IPs
    PROVE  /\ \A i \in E : Age(l, E, i) \in 0..(Cardinality(E) - 1)
           /\ \A i, j \in E : Age(l, E, i) = Age(l, E, j) => i = j
<1> DEFINE older(i) == {j \in E : l.rank[j] < l.rank[i]}
<1>0. \A i \in E : l.rank[i] \in Int
  BY DEF Ordered
<1>1. \A i \in E : Cardinality(older(i)) \in Nat /\ IsFiniteSet(older(i))
  BY SubsetsCounted
<1>2. Cardinality(E) \in Nat /\ IsFiniteSet(E)
  BY SubsetsCounted
<1>3. ASSUME NEW i \in E PROVE Cardinality(older(i)) <= Cardinality(E) - 1
  <2>1. older(i) \in SUBSET (E \ {i})
    BY <1>0
  <2> QED BY <1>1, <1>2, <2>1, FS_RemoveElement, FS_Subset
<1>4. ASSUME NEW i \in E, NEW j \in E, l.rank[i] < l.rank[j]
      PROVE  Cardinality(older(i)) < Cardinality(older(j))
  <2>1. older(i) \cup {i} \in SUBSET older(j) /\ i \notin older(i)
    BY <1>0, <1>4
  <2>2. Cardinality(older(i) \cup {i}) = Cardinality(older(i)) + 1
    BY <1>1, <2>1, FS_AddElement
  <2> QED BY <1>1, <2>1, <2>2, FS_Subset
<1>5. \A i \in E : Age(l, E, i) = Cardinality(older(i))
  BY DEF Age
<1>6. \A i, j \in E : i # j => l.rank[i] < l.rank[j] \/ l.rank[j] < l.rank[i]
  BY <1>0 DEF Ordered
<1> HIDE DEF older
<1>7. \A i \in E : Age(l, E, i) \in 0..(Cardinality(E) - 1)
  BY <1>1, <1>2, <1>3, <1>5
<1>8. \A i, j \in E : Age(l, E, i) = Age(l, E, j) => i = j
  BY <1>1, <1>4, <1>5, <1>6
<1> QED BY <1>7, <1>8

LEMMA PruneBounds ==
    ASSUME NEW l, LedgerInv(l), Ordered(l.rank)
    PROVE  Cardinality(Present(PruneRecords(l).rec)) <= RecordsCap
<1> DEFINE all == Present(l.rec)
           E == {ip \in all : ip # l.activeIP /\ l.rec[ip].state # "ACTIVE"}
           kept == all \ E
           excess == Cardinality(all) - RecordsCap
           victims == {ip \in E : Age(l, E, ip) < excess}
           left == E \ victims
<1>1. l.rec \in [IPs -> Record] /\ SingleActiveIn(l) /\ l \in Ledger
  BY DEF LedgerInv, Ledger
<1>2. Present(PruneRecords(l).rec) = kept \cup left
  <2>1. PruneRecords(l) =
          [l EXCEPT !.rec = [ip \in IPs |-> IF ip \in victims THEN Absent ELSE l.rec[ip]]]
    BY DEF PruneRecords, Age
  <2> DEFINE rec == [ip \in IPs |-> IF ip \in victims THEN Absent ELSE l.rec[ip]]
  <2>2. PruneRecords(l).rec = rec
    BY <1>1, <2>1 DEF Ledger
  <2>3. \A ip \in IPs : rec[ip].state # "ABSENT" <=> ip \in all /\ ip \notin victims
    <3> HIDE DEF victims
    <3> QED BY DEF Present, Absent
  <2>4. kept \cup left = {ip \in IPs : ip \in all /\ ip \notin victims}
    BY DEF Present
  <2> HIDE DEF rec
  <2> QED BY <2>2, <2>3, <2>4 DEF Present
<1>3. all \in SUBSET IPs /\ E \in SUBSET IPs /\ kept \in SUBSET IPs /\ left \in SUBSET IPs
  BY DEF Present
<1>4. /\ Cardinality(all) \in Nat /\ Cardinality(E) \in Nat /\ Cardinality(kept) \in Nat
      /\ Cardinality(left) \in Nat
      /\ IsFiniteSet(all) /\ IsFiniteSet(E) /\ IsFiniteSet(kept) /\ IsFiniteSet(left)
  BY <1>3, SubsetsCounted
<1>5. Cardinality(kept) <= 1
  <2>1. kept \in SUBSET {l.activeIP}
    BY <1>1 DEF SingleActiveIn, Present
  <2>2. IsFiniteSet({l.activeIP}) /\ Cardinality({l.activeIP}) = 1
    BY FS_Singleton
  <2> HIDE DEF kept
  <2>3. Cardinality(kept) <= Cardinality({l.activeIP})
    BY <2>1, <2>2, FS_Subset
  <2> QED BY <2>2, <2>3
<1>6. Cardinality(kept) = Cardinality(all) - Cardinality(E)
  <2>1. all \cap E = E
    OBVIOUS
  <2> QED BY <1>4, <2>1, FS_Difference
<1>7. Cardinality(kept \cup left) <= Cardinality(kept) + Cardinality(left)
  <2>1. kept \cap left = {}
    OBVIOUS
  <2> HIDE DEF kept, left
  <2>2. Cardinality(kept \cup left) =
           Cardinality(kept) + Cardinality(left) - Cardinality(kept \cap left)
    BY <1>4, FS_Union
  <2>3. Cardinality(kept \cap left) = 0
    BY <2>1, FS_EmptySet
  <2> QED BY <1>4, <2>2, <2>3
<1>8. \/ Cardinality(left) <= Cardinality(E) - excess
      \/ Cardinality(left) = 0
      \/ excess <= 0
  <2> SUFFICES ASSUME excess > 0
               PROVE  Cardinality(left) <= Cardinality(E) - excess \/ Cardinality(left) = 0
    BY <1>4, PolicyAssumption
  <2> DEFINE f == [ip \in left |-> Age(l, E, ip)]
  <2>1. excess \in Int /\ Cardinality(E) \in Int
    BY <1>4, PolicyAssumption
  <2>2. \A ip \in left : Age(l, E, ip) \in excess..(Cardinality(E) - 1)
    <3>1. \A ip \in left : ip \in E /\ ~(Age(l, E, ip) < excess)
      OBVIOUS
    <3> HIDE DEF left, excess, E
    <3> QED BY <2>1, <1>3, <3>1, AgesDiffer
  <2>3. \A i, j \in left : Age(l, E, i) = Age(l, E, j) => i = j
    <3>1. left \subseteq E
      OBVIOUS
    <3> HIDE DEF left, E
    <3> QED BY <1>3, <3>1, AgesDiffer
  <2> HIDE DEF left, excess, E
  <2>4. f \in Injection(left, excess..(Cardinality(E) - 1))
    BY <2>2, <2>3 DEF Injection, IsInjective
  <2>5. Cardinality(left) <= Cardinality(excess..(Cardinality(E) - 1))
    <3> HIDE DEF f
    <3>1. IsFiniteSet(excess..(Cardinality(E) - 1))
      BY <2>1, FS_Interval
    <3> QED BY <2>4, <3>1, FS_Injection
  <2>6. Cardinality(excess..(Cardinality(E) - 1)) =
           IF excess > Cardinality(E) - 1 THEN 0 ELSE Cardinality(E) - excess
    BY <2>1, FS_Interval
  <2> QED BY <1>4, <2>1, <2>5, <2>6
<1>9. excess <= 0 => Cardinality(kept \cup left) <= RecordsCap
  <2>1. kept \cup left \in SUBSET all
    OBVIOUS
  <2>2. Cardinality(kept \cup left) <= Cardinality(all) /\ Cardinality(kept \cup left) \in Nat
    BY <1>3, <1>4, <2>1, FS_Subset, SubsetsCounted
  <2> QED BY <1>4, <2>2, PolicyAssumption
<1>10. Cardinality(kept \cup left) <= RecordsCap
  <2>1. RecordsCap \in Nat /\ RecordsCap >= 1
    BY PolicyAssumption
  <2>2. Cardinality(kept \cup left) \in Nat
    BY <1>3, SubsetsCounted
  <2>3. excess = Cardinality(all) - RecordsCap
    OBVIOUS
  <2> HIDE DEF all, E, kept, left, excess
  <2> QED BY <1>4, <1>5, <1>6, <1>7, <1>8, <1>9, <2>1, <2>2, <2>3
<1> QED BY <1>2, <1>10

\* The ledger that observe prunes is a ledger with one ACTIVE and ordered ranks.
LEMMA ObserveBounds ==
    ASSUME NEW l, LedgerInv(l), Ordered(l.rank), NEW ip \in IPs, NEW p \in Probe
    PROVE  Cardinality(Present(Observe(l, ip, p).rec)) <= RecordsCap
<1> DEFINE r == UpdateSuperior(l, ip, ObservedRecord(l, ip, p))
           probed == [l EXCEPT !.rec[ip] = r, !.rank = Touched(@, {ip})]
<1>1. LedgerInv(probed)
  BY ProbedRecordInv
<1>2. Ordered(probed.rank)
  BY TouchedOrdered DEF LedgerInv, Ledger
<1> QED BY <1>1, <1>2, PruneBounds DEF Observe

\* Every observation leaves at most RecordsCap records in the ledger.
THEOREM ObservationBoundsCorrect == Spec => ObservationBounds
<1> DEFINE Bounded == batch' # batch /\ phase = "batch" /\ phase' = "batch"
                      => Cardinality(Present(ledger'.rec)) <= RecordsCap
<1>1. ASSUME IInv, RankInv, [Next]_vars PROVE [Bounded]_vars
  <2> SUFFICES ASSUME batch' # batch, phase = "batch", phase' = "batch"
               PROVE  Cardinality(Present(ledger'.rec)) <= RecordsCap
    OBVIOUS
  <2>1. PICK ip \in IPs, p \in Probes : ObserveCandidate(ip, p)
    BY <1>1 DEF Next, vars, FirstRound, Health, StartBatch, RoundFails, Probed, Decide, Abandon,
       Apply, Commit, SeedFromPool, Tick, Restart
  <2>2. ledger' = Observe(ledger, ip, p) /\ p \in Probe
    BY <2>1, ProbesAssumption DEF ObserveCandidate, Save
  <2> QED BY <1>1, <2>2, ObserveBounds DEF IInv, RankInv
<1> QED BY <1>1, RankInvInit, RankInvNext, InvHolds, PTL DEF Spec, ObservationBounds

=============================================================================

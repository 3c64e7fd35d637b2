-------------------------- MODULE QualityScheduler --------------------------
(***************************************************************************)
(* The line-quality ledger of the control plane: the decision algorithm of *)
(* web/quality_scheduler.go, the ledger that feeds it                      *)
(* (web/quality_runtime.go) and the round that drives both                 *)
(* (runQualitySchedulerProbe in web/main.go).                              *)
(*                                                                         *)
(* The ledger holds one record per probed exit IP.  One goroutine runs     *)
(* rounds: it probes the Active, then a batch of candidates, then decides  *)
(* whether to switch, applies the new pool and commits the switch.  Every  *)
(* ledger call is one critical section of qualitySchedulerRuntime.mu and   *)
(* one action here; between two of them any other path that replaces the   *)
(* pool may call seedActive.  Each call rewrites proxy-quality.json and    *)
(* ignores a failed write, and the process may restart at any time.        *)
(***************************************************************************)
EXTENDS Integers, Sequences, FiniteSetsExt

CONSTANTS
    IPs,                      \* exit addresses, numbered: the code breaks ties by address
    Probes,                   \* what a candidate probe may report
    Window,                   \* samples kept per record (12 in the code)
    FailureThreshold,         \* policy.FailureThreshold (3)
    RequiredSuperiorRounds,   \* policy.RequiredSuperiorRounds (3)
    SwitchInterval,           \* policy.MinimumSwitchInterval, in clock ticks
    RelativeGainPct,          \* policy.RelativePromotionGain, in percent (25)
    AbsoluteGainMbps,         \* policy.AbsolutePromotionGainMbps (80)
    AbsoluteGainMs,           \* policy.AbsolutePromotionGainMs (15)
    CapacityMbps,             \* policy.CapacityMbps (1024)
    RecordsCap,               \* qualityRecordsCap (1500)
    SaveCanFail               \* whether a write of proxy-quality.json may fail

Probe == [mbps : Nat, latency : Nat, ok : BOOLEAN]

ASSUME IPsAssumption == IsFiniteSet(IPs) /\ IPs \subseteq Nat \ {0}
ASSUME ProbesAssumption == Probes \subseteq Probe
ASSUME PolicyAssumption ==
    /\ Window \in Nat \ {0}
    /\ FailureThreshold \in Nat \ {0}
    /\ RequiredSuperiorRounds \in Nat \ {0}
    /\ {SwitchInterval, RelativeGainPct, AbsoluteGainMbps, AbsoluteGainMs} \subseteq Nat
    /\ CapacityMbps \in Nat \ {0}
    /\ RecordsCap \in Nat \ {0}
    /\ SaveCanFail \in BOOLEAN

NoIP == 0   \* the empty string in ActiveIP, FromIP and ToIP

LineState == {"UNKNOWN", "PROBING", "STANDBY", "ACTIVE", "DEGRADED", "FAILED"}

(***************************************************************************)
(* A record.  "ABSENT" stands for an address with no entry in the map.     *)
(* The counters saturate at the threshold they are compared with, which no *)
(* comparison of the code can tell from counting on.                       *)
(***************************************************************************)
Record == [state    : LineState \cup {"ABSENT"},
           fails    : 0..FailureThreshold,
           superior : 0..RequiredSuperiorRounds,
           samples  : Seq(Probe)]

Absent == [state |-> "ABSENT", fails |-> 0, superior |-> 0, samples |-> <<>>]

(***************************************************************************)
(* The persisted data.  rank orders the records by when they were last     *)
(* probed (or, never probed, last changed state): a larger rank is newer.  *)
(* sinceSwitch is the time since LastSwitchAt, saturating at the interval; *)
(* a zero LastSwitchAt is as good as an elapsed interval.                  *)
(***************************************************************************)
Ledger == [rec         : [IPs -> Record],
           activeIP    : IPs \cup {NoIP},
           rank        : [IPs -> Int],
           sinceSwitch : 0..SwitchInterval]

Decision == [event : {"NONE", "PROMOTION", "FAILOVER"},
             from  : IPs \cup {NoIP},
             to    : IPs \cup {NoIP}]

NoDecision == [event |-> "NONE", from |-> NoIP, to |-> NoIP]

VARIABLES
    ledger,    \* qualitySchedulerRuntime.data
    disk,      \* the contents of proxy-quality.json
    phase,     \* where the scheduler goroutine is in its round
    batch,     \* candidates of this round not yet observed
    pending    \* the decision being applied

vars == <<ledger, disk, phase, batch, pending>>

-----------------------------------------------------------------------------
(* Statistics of a record, recomputed from its window of samples.          *)

EffectiveMbps(speed) == IF speed > CapacityMbps THEN CapacityMbps ELSE speed

Successes(s) == {i \in DOMAIN s : s[i].ok}
Speeds(s)    == {i \in Successes(s) : s[i].mbps > 0}
Latencies(s) == {i \in Successes(s) : s[i].latency > 0}

SpeedSum(s)   == MapThenSumSet(LAMBDA i : s[i].mbps, Speeds(s))
LatencySum(s) == MapThenSumSet(LAMBDA i : s[i].latency, Latencies(s))
PeakMbps(s)   == Max({0} \cup {s[i].mbps : i \in Speeds(s)})

\* The element at index int((n-1) * 0.95) of the sorted speeds.
P95Mbps(s) ==
    LET index == ((Cardinality(Speeds(s)) - 1) * 95) \div 100
    IN  IF Speeds(s) = {} THEN 0
        ELSE CHOOSE v \in {s[i].mbps : i \in Speeds(s)} :
                /\ Cardinality({i \in Speeds(s) : s[i].mbps < v}) <= index
                /\ Cardinality({i \in Speeds(s) : s[i].mbps <= v}) > index

(***************************************************************************)
(* superiorTo.  Averages are rationals, compared by cross-multiplication.  *)
(* With a speed on both sides only speed counts; otherwise both need a     *)
(* latency, and the candidate must not succeed less often.                 *)
(***************************************************************************)
SuperiorTo(c, a) ==
    LET nc == Cardinality(Speeds(c))
        na == Cardinality(Speeds(a))
        lc == Cardinality(Latencies(c))
        la == Cardinality(Latencies(a))
        gain == LatencySum(a) * lc - LatencySum(c) * la
    IN  IF nc > 0 /\ na > 0
        THEN /\ 100 * SpeedSum(c) * na >= (100 + RelativeGainPct) * SpeedSum(a) * nc
             /\ SpeedSum(c) * na >= SpeedSum(a) * nc + AbsoluteGainMbps * na * nc
        ELSE /\ lc > 0 /\ la > 0
             /\ Cardinality(Successes(c)) * Len(a) >= Cardinality(Successes(a)) * Len(c)
             /\ 100 * gain >= RelativeGainPct * LatencySum(a) * lc
             /\ gain >= AbsoluteGainMs * la * lc

(***************************************************************************)
(* lineQualityScore, times ten, as a fraction: 0.6 average + 0.2 p95 +     *)
(* 0.1 peak + 0.1 success rate * capacity.                                 *)
(***************************************************************************)
Score(s) ==
    LET n == Max({1, Cardinality(Speeds(s))})
    IN  [num |-> 6 * SpeedSum(s) * Len(s)
                 + (2 * P95Mbps(s) + PeakMbps(s)) * n * Len(s)
                 + Cardinality(Successes(s)) * CapacityMbps * n,
         den |-> n * Len(s)]

Better(l, x, y) ==
    LET sx == Score(l.rec[x].samples)
        sy == Score(l.rec[y].samples)
    IN  \/ sx.num * sy.den > sy.num * sx.den
        \/ sx.num * sy.den = sy.num * sx.den /\ x < y

\* The head of the sorted list (a singleton, or empty if S is).
First(l, S) == {x \in S : \A y \in S \ {x} : Better(l, x, y)}

-----------------------------------------------------------------------------
(* The decision.                                                           *)

Present(rec)  == {ip \in IPs : rec[ip].state # "ABSENT"}
HasActive(l)  == l.activeIP \in Present(l.rec)

EligibleStandbyTrustsState(l) ==
    {ip \in IPs : /\ l.rec[ip].state = "STANDBY"
                  /\ Successes(l.rec[ip].samples) # {}}

EligibleStandby(l) ==
    {ip \in IPs : /\ l.rec[ip].state = "STANDBY"
                  /\ l.rec[ip].fails = 0
                  /\ Successes(l.rec[ip].samples) # {}}

ActiveDead(l) ==
    /\ HasActive(l)
    /\ \/ l.rec[l.activeIP].state = "FAILED"
       \/ l.rec[l.activeIP].fails >= FailureThreshold

\* Eligible lines that may replace a live Active.
Proven(l) ==
    {ip \in EligibleStandby(l) :
        /\ l.rec[ip].superior >= RequiredSuperiorRounds
        /\ SuperiorTo(l.rec[ip].samples, l.rec[l.activeIP].samples)}

ChoiceAlwaysProven(l) ==
    IF ~HasActive(l) THEN EligibleStandby(l)
    ELSE IF l.sinceSwitch < SwitchInterval /\ ~ActiveDead(l) THEN {} ELSE Proven(l)

Choice(l) ==
    CASE ~HasActive(l)  -> EligibleStandby(l)
      [] ActiveDead(l)  -> EligibleStandby(l)
      [] OTHER          -> IF l.sinceSwitch < SwitchInterval THEN {} ELSE Proven(l)

SwitchTo(l, ip) ==
    [event |-> IF ActiveDead(l) THEN "FAILOVER" ELSE "PROMOTION",
     from  |-> IF HasActive(l) THEN l.activeIP ELSE NoIP,
     to    |-> ip]

\* The outcome of decideLineSwitch, as the set it is the only element of.
DecideLineSwitch(l) ==
    IF Choice(l) = {} THEN {NoDecision}
    ELSE {SwitchTo(l, ip) : ip \in First(l, Choice(l))}

-----------------------------------------------------------------------------
(* Ledger operations, as functions of the ledger.                          *)

Bump(n, limit) == IF n < limit THEN n + 1 ELSE limit

Appended(samples, p) ==
    LET s == Append(samples, [p EXCEPT !.mbps = EffectiveMbps(@)])
    IN  IF Len(s) > Window THEN SubSeq(s, Len(s) - Window + 1, Len(s)) ELSE s

\* Makes the records of S the newest, the smaller address first.
Touched(rank, S) ==
    [j \in IPs |->
        IF j \in S THEN Cardinality(IPs) - Cardinality({k \in S : k > j})
        ELSE rank[j] - Cardinality({k \in S : rank[k] < rank[j]})]

\* A state change dates a record only while it was never probed.
TouchedUnprobed(l, rec, S) ==
    Touched(l.rank, {ip \in S : rec[ip].samples = <<>>})

EnsureRecord(rec, ip) ==
    IF rec[ip].state = "ABSENT" THEN [rec EXCEPT ![ip].state = "UNKNOWN"] ELSE rec

DemoteNothing(rec, keep) == rec

DemoteOrphanActives(rec, keep) ==
    [ip \in IPs |-> IF ip # keep /\ rec[ip].state = "ACTIVE"
                    THEN [rec[ip] EXCEPT !.state = "STANDBY"]
                    ELSE rec[ip]]

Changed(old, new) == {ip \in IPs : old[ip] # new[ip]}

ReconcileKeepsOrphans(l) ==
    LET actives == {ip \in IPs : l.rec[ip].state = "ACTIVE"}
    IN  IF l.activeIP = NoIP /\ Cardinality(actives) = 1
        THEN [l EXCEPT !.activeIP = CHOOSE ip \in actives : TRUE] ELSE l

ReconcileActive(l) ==
    LET actives == {ip \in IPs : l.rec[ip].state = "ACTIVE"}
        active  == IF l.activeIP = NoIP /\ Cardinality(actives) = 1
                   THEN CHOOSE ip \in actives : TRUE ELSE l.activeIP
        rec     == DemoteOrphanActives(l.rec, active)
    IN  [l EXCEPT !.activeIP = active,
                  !.rec = rec,
                  !.rank = TouchedUnprobed(l, rec, Changed(l.rec, rec))]

SeedActive(l, ip) ==
    LET prev  == l.activeIP
        rec1  == IF HasActive(l) /\ prev # ip /\ l.rec[prev].state = "ACTIVE"
                 THEN [l.rec EXCEPT ![prev].state = "STANDBY"] ELSE l.rec
        rec2  == [EnsureRecord(rec1, ip) EXCEPT ![ip].state = "ACTIVE"]
        rec   == DemoteOrphanActives(rec2, ip)
    IN  [l EXCEPT !.activeIP = ip,
                  !.rec = rec,
                  !.rank = TouchedUnprobed(l, rec, Changed(l.rec, rec) \cup {ip})]

UpdateSuperior(l, ip, r) ==
    IF \/ ip = l.activeIP \/ ~HasActive(l) \/ r.state # "STANDBY"
       \/ ~SuperiorTo(r.samples, l.rec[l.activeIP].samples)
    THEN [r EXCEPT !.superior = 0]
    ELSE [r EXCEPT !.superior = Bump(@, RequiredSuperiorRounds)]

PruneByStateOnly(l) ==
    LET evictable == {ip \in Present(l.rec) : l.rec[ip].state # "ACTIVE"}
        excess    == Cardinality(Present(l.rec)) - RecordsCap
        victims   == {ip \in evictable :
                        Cardinality({j \in evictable : l.rank[j] < l.rank[ip]}) < excess}
    IN  [l EXCEPT !.rec = [ip \in IPs |-> IF ip \in victims THEN Absent ELSE l.rec[ip]]]

PruneOnlyOne(l) ==
    LET evictable == {ip \in Present(l.rec) : ip # l.activeIP /\ l.rec[ip].state # "ACTIVE"}
        excess    == IF Cardinality(Present(l.rec)) > RecordsCap + 1 THEN 1 ELSE 0
        victims   == {ip \in evictable :
                        Cardinality({j \in evictable : l.rank[j] < l.rank[ip]}) < excess}
    IN  [l EXCEPT !.rec = [ip \in IPs |-> IF ip \in victims THEN Absent ELSE l.rec[ip]]]

PruneRecords(l) ==
    LET evictable == {ip \in Present(l.rec) : ip # l.activeIP /\ l.rec[ip].state # "ACTIVE"}
        excess    == Cardinality(Present(l.rec)) - RecordsCap
        victims   == {ip \in evictable :
                        Cardinality({j \in evictable : l.rank[j] < l.rank[ip]}) < excess}
    IN  [l EXCEPT !.rec = [ip \in IPs |-> IF ip \in victims THEN Absent ELSE l.rec[ip]]]

ObservedRecord(l, ip, p) ==
    LET old     == EnsureRecord(l.rec, ip)[ip]
        started == IF old.state \in {"UNKNOWN", "STANDBY", "FAILED"} THEN "PROBING" ELSE old.state
        fails   == IF p.ok THEN 0 ELSE Bump(old.fails, FailureThreshold)
        state   == IF p.ok THEN IF ip # l.activeIP THEN "STANDBY" ELSE started
                   ELSE IF fails >= FailureThreshold THEN "FAILED" ELSE started
    IN  [old EXCEPT !.state = state, !.fails = fails, !.samples = Appended(@, p)]

Observe(l, ip, p) ==
    LET r == UpdateSuperior(l, ip, ObservedRecord(l, ip, p))
    IN  PruneRecords([l EXCEPT !.rec[ip] = r, !.rank = Touched(@, {ip})])

\* The health sample carries no speed; FAILED is left only by a switch or observe.
HealthRecord(old, p) ==
    LET fails == IF p.ok THEN 0 ELSE Bump(old.fails, FailureThreshold)
        state == IF p.ok THEN IF old.state = "DEGRADED" THEN "ACTIVE" ELSE old.state
                 ELSE IF fails >= FailureThreshold THEN "FAILED" ELSE "DEGRADED"
    IN  [old EXCEPT !.state = state, !.fails = fails,
                    !.samples = Appended(@, [p EXCEPT !.mbps = 0])]

ObserveActiveHealth(l, p) ==
    [l EXCEPT !.rec[l.activeIP] = HealthRecord(@, p),
              !.rank = Touched(@, {l.activeIP})]

CommitSwitch(l, d) ==
    LET rec1 == IF d.from \in Present(l.rec)
                THEN [l.rec EXCEPT ![d.from].state = "STANDBY"] ELSE l.rec
        rec2 == IF d.to \in Present(l.rec)
                THEN [rec1 EXCEPT ![d.to].state = "ACTIVE", ![d.to].superior = 0] ELSE rec1
        rec  == DemoteOrphanActives(rec2, d.to)
    IN  [l EXCEPT !.activeIP = d.to,
                  !.rec = rec,
                  !.sinceSwitch = 0,
                  !.rank = TouchedUnprobed(l, rec, Changed(l.rec, rec))]

-----------------------------------------------------------------------------
(* The actions.  Save is saveLocked: its error is dropped by every caller. *)

Save(l) ==
    /\ ledger' = l
    /\ disk' \in {l} \cup (IF SaveCanFail THEN {disk} ELSE {})

\* The first round of runBackgroundOptimizerLoop, 90 seconds after the start.
FirstRound ==
    /\ phase = "boot"
    /\ phase' = "health"
    /\ UNCHANGED <<ledger, disk, batch, pending>>

Health(p) ==
    /\ phase = "health"
    /\ HasActive(ledger)
    /\ Save(ObserveActiveHealth(ledger, p))
    /\ UNCHANGED <<phase, batch, pending>>

\* The candidates of the round are chosen and probed.
StartBatch(b) ==
    /\ phase = "health"
    /\ phase' = "scan"
    /\ batch' = b
    /\ UNCHANGED <<ledger, disk, pending>>

\* No candidates, or no template of VLESS: the round ends before its first observation.
RoundFails ==
    /\ phase = "scan"
    /\ phase' = "health"
    /\ batch' = {}
    /\ UNCHANGED <<ledger, disk, pending>>

Probed ==
    /\ phase = "scan"
    /\ phase' = "batch"
    /\ UNCHANGED <<ledger, disk, batch, pending>>

ObserveCandidate(ip, p) ==
    /\ phase = "batch"
    /\ ip \in batch
    /\ Save(Observe(ledger, ip, p))
    /\ batch' = batch \ {ip}
    /\ UNCHANGED <<phase, pending>>

Decide ==
    /\ phase = "batch"
    /\ batch = {}
    /\ pending' \in DecideLineSwitch(ledger)
    /\ phase' = IF pending'.event = "NONE" THEN "health" ELSE "apply"
    /\ Save(ledger)
    /\ UNCHANGED batch

\* A gate of the pool refuses the switch, or applying the pool fails.
Abandon ==
    /\ phase = "apply"
    /\ phase' = "health"
    /\ pending' = NoDecision
    /\ UNCHANGED <<ledger, disk, batch>>

\* applyProxyPool seeds the first member of the pool it has started.
Apply(ip) ==
    /\ phase = "apply"
    /\ phase' = "commit"
    /\ Save(SeedActive(ledger, ip))
    /\ UNCHANGED <<batch, pending>>

Commit ==
    /\ phase = "commit"
    /\ phase' = "health"
    /\ Save(CommitSwitch(ledger, pending))
    /\ pending' = NoDecision
    /\ UNCHANGED batch

\* Another path (manual adoption, kick, revalidation, ...) starts a pool.
SeedFromPool(ip) ==
    /\ Save(SeedActive(ledger, ip))
    /\ UNCHANGED <<phase, batch, pending>>

Tick ==
    /\ ledger.sinceSwitch < SwitchInterval \/ disk.sinceSwitch < SwitchInterval
    /\ ledger' = [ledger EXCEPT !.sinceSwitch = Bump(@, SwitchInterval)]
    /\ disk' = [disk EXCEPT !.sinceSwitch = Bump(@, SwitchInterval)]
    /\ UNCHANGED <<phase, batch, pending>>

Restart ==
    /\ Save(ReconcileActive(disk))
    /\ phase' = "boot"
    /\ batch' = {}
    /\ pending' = NoDecision

(***************************************************************************)
(* The first start finds no file, or one an earlier version left behind,   *)
(* which may hold any number of ACTIVE records.                            *)
(***************************************************************************)
InheritedLedger ==
    {l \in [rec : [IPs -> {Absent, [Absent EXCEPT !.state = "STANDBY"],
                                   [Absent EXCEPT !.state = "ACTIVE"]}],
            activeIP : IPs \cup {NoIP},
            rank : {[ip \in IPs |-> Cardinality({j \in IPs : j <= ip})]},
            sinceSwitch : {SwitchInterval}] :
        l.activeIP # NoIP => l.rec[l.activeIP].state = "ACTIVE"}

Init ==
    /\ \E l \in InheritedLedger : ledger = ReconcileActive(l)
    /\ disk = ledger
    /\ phase = "boot"
    /\ batch = {}
    /\ pending = NoDecision

Next ==
    \/ FirstRound
    \/ \E p \in Probes : Health(p)
    \/ \E b \in SUBSET IPs : StartBatch(b)
    \/ RoundFails
    \/ Probed
    \/ \E ip \in IPs, p \in Probes : ObserveCandidate(ip, p)
    \/ Decide
    \/ Abandon
    \/ \E ip \in IPs : Apply(ip)
    \/ Commit
    \/ \E ip \in IPs : SeedFromPool(ip)
    \/ Tick
    \/ Restart

Spec == Init /\ [][Next]_vars

(***************************************************************************)
(* Once its probes are back, a round runs to its decision without waiting  *)
(* for anything but the ledger's own mutex.  Nothing makes a round get     *)
(* that far: it is skipped while the optimizer is disabled or another      *)
(* holder keeps proxyScanMu, and RoundFails may end every one of them.     *)
(***************************************************************************)
Fairness ==
    /\ WF_vars(\E ip \in IPs, p \in Probes : ObserveCandidate(ip, p))
    /\ WF_vars(Decide)

FairSpec == Spec /\ Fairness

-----------------------------------------------------------------------------
(* Properties.                                                             *)

(***************************************************************************)
(* Types of the state: qualityStoreData in memory and in the file, and the *)
(* place of runQualitySchedulerProbe in its round.                         *)
(***************************************************************************)
TypeOK ==
    /\ ledger \in Ledger
    /\ disk \in Ledger
    /\ phase \in {"boot", "health", "scan", "batch", "apply", "commit"}
    /\ batch \subseteq IPs
    /\ pending \in Decision

(***************************************************************************)
(* At most one record is ACTIVE, and it is the one ActiveIP names, in      *)
(* memory and in the file a restart would load (README.md:139).            *)
(***************************************************************************)
SingleActiveIn(l) ==
    \A ip \in IPs : l.rec[ip].state = "ACTIVE" => ip = l.activeIP

SingleActive == SingleActiveIn(ledger) /\ SingleActiveIn(disk)

(***************************************************************************)
(* Pruning never evicts the Active, DEGRADED and FAILED ones included, and *)
(* a decision in flight never names an evicted line: once an Active was    *)
(* chosen, ActiveIP always finds its record (pruneRecordsLocked).          *)
(***************************************************************************)
ActiveRecordedIn(l) == l.activeIP # NoIP => HasActive(l)

ActiveRecorded ==
    /\ ActiveRecordedIn(ledger)
    /\ ActiveRecordedIn(disk)
    /\ pending.event # "NONE" => pending.to \in Present(ledger.rec)

LatestProbeOk(r) == r.samples # <<>> /\ r.samples[Len(r.samples)].ok

(***************************************************************************)
(* The inductive invariant: a ledger in memory or on disk is well formed,  *)
(* has one ACTIVE, knows its Active, and counts no failure on a record     *)
(* only if the latest probe of it succeeded; and the target of a decision  *)
(* in flight is a recorded line without failures, whatever seedActive does *)
(* between the decision and the commit.                                    *)
(***************************************************************************)
RecordHistory(r) == r.fails = 0 /\ r.samples # <<>> => LatestProbeOk(r)

LedgerInv(l) ==
    /\ l \in Ledger
    /\ SingleActiveIn(l)
    /\ ActiveRecordedIn(l)
    /\ \A ip \in IPs : RecordHistory(l.rec[ip])

Committable(l, ip) ==
    /\ ip \in Present(l.rec)
    /\ l.rec[ip].fails = 0
    /\ l.rec[ip].samples # <<>>

IInv ==
    /\ TypeOK
    /\ LedgerInv(ledger)
    /\ LedgerInv(disk)
    /\ pending.event # "NONE" <=> phase \in {"apply", "commit"}
    /\ pending.event # "NONE" => Committable(ledger, pending.to)

(***************************************************************************)
(* The scheduler never installs a line whose latest probe failed: in       *)
(* particular the line a failover left does not come back before a probe   *)
(* of it succeeded, whatever seedActive did to its state meanwhile.        *)
(***************************************************************************)
OnlyProvenCommitted ==
    [][Commit => /\ LatestProbeOk(ledger'.rec[ledger'.activeIP])
                 /\ ledger'.rec[ledger'.activeIP].fails = 0]_vars

(***************************************************************************)
(* An observation leaves at most RecordsCap records behind, however many   *)
(* seedActive added in between: no phantom ACTIVE holds a place for ever   *)
(* (the reason demoteOrphanActivesLocked gives for itself).                *)
(***************************************************************************)
ObservationBounds ==
    [][batch' # batch /\ phase = "batch" /\ phase' = "batch"
        => Cardinality(Present(ledger'.rec)) <= RecordsCap]_vars

(***************************************************************************)
(* A dead Active with an eligible standby does not stay in place for want  *)
(* of a decision: as long as rounds again and again get as far as their    *)
(* observations, one decides a failover unless one of the two recovers or  *)
(* goes away first.  The hypothesis is not the code's to guarantee: every  *)
(* round may be skipped, lack candidates or fail to load its template      *)
(* (runQualitySchedulerProbe), and a process may keep restarting.          *)
(***************************************************************************)
FailoverDecided ==
    <>[](phase # "boot") /\ []<>(phase = "batch") =>
        (ActiveDead(ledger) /\ EligibleStandby(ledger) # {}
            ~> \/ pending.event = "FAILOVER"
               \/ ~ActiveDead(ledger)
               \/ EligibleStandby(ledger) = {})

=============================================================================

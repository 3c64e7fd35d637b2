-------------------------- MODULE ThroneProbeProofs --------------------------
(* Proofs about ThroneProbe: types, that members are taken out only after  *)
(* enough probes in a row, and that a busy lock is followed by a recheck,  *)
(* for any members and thresholds.                                         *)
EXTENDS ThroneProbe, TLAPS

Stat == [fails : 0..FailThreshold, slow : 0..SlowStrikeLimit, recheck : BOOLEAN, held : BOOLEAN]

LEMMA NoStatTyped == NoStat \in Stat
  BY ThresholdsAssumption DEF NoStat, Stat

LEMMA UpToTyped ==
  \A bound, n \in Nat : UpTo(bound, n) \in 0..bound /\ UpTo(bound, n) <= n
  BY DEF UpTo

LEMMA CountedTyped ==
  ASSUME throneProbe \in [Member -> Stat], NEW m \in Member, NEW outcome
  PROVE  Counted(throneProbe[m], outcome) \in Stat
<1>1. throneProbe[m] \in Stat
  OBVIOUS
<1>2. /\ UpTo(FailThreshold, throneProbe[m].fails + 1) \in 0..FailThreshold
      /\ UpTo(SlowStrikeLimit, throneProbe[m].slow + 1) \in 0..SlowStrikeLimit
      /\ 0 \in 0..FailThreshold /\ 0 \in 0..SlowStrikeLimit
  BY <1>1, ThresholdsAssumption DEF Stat, UpTo
<1> QED
  BY <1>1, <1>2 DEF Counted, Stat

LEMMA ObservedTyped ==
  ASSUME throneProbe \in [Member -> Stat], NEW m \in Member, NEW outcome \in Outcome
  PROVE  Observed(m, outcome) \in Stat
<1> DEFINE st == Counted(throneProbe[m], outcome)
<1>1. st \in Stat
  BY CountedTyped
<1>2. Observed(m, outcome) =
        [st EXCEPT !.held = @ /\ (st.fails > 0 \/ st.slow > 0),
                   !.recheck = Suspect(m, st) /\ State(st) = "ok"]
  BY DEF Observed
<1> HIDE DEF st
<1> QED
  BY <1>1, <1>2 DEF Stat, Suspect

LEMMA LedgerTyped ==
  ASSUME NEW ledger \in [Member -> Stat], NEW members
  PROVE  /\ Rescheduled(ledger, members) \in [Member -> Stat]
         /\ Held(ledger, members) \in [Member -> Stat]
         /\ Forgotten(ledger, members) \in [Member -> Stat]
  BY NoStatTyped DEF Rescheduled, Held, Forgotten, Stat

LEMMA PrependedTyped ==
  ASSUME NEW o \in Seq(Outcome), NEW r \in Outcome
  PROVE  /\ Prepended(r, o) \in Seq(Outcome)
         /\ Len(Prepended(r, o)) = UpTo(Depth, Len(o) + 1)
         /\ Len(Prepended(r, o)) <= Depth
<1>1. Depth \in Nat
  BY ThresholdsAssumption DEF Depth
<1> DEFINE n == UpTo(Depth, Len(o) + 1)
<1>2. n \in Nat /\ n <= Len(o) + 1 /\ n <= Depth
  <2>1. Len(o) + 1 \in Nat
    OBVIOUS
  <2>2. n \in 0..Depth /\ n <= Len(o) + 1
    BY <1>1, <2>1, UpToTyped
  <2> HIDE DEF n
  <2> QED
    BY <1>1, <2>2
<1>3. Prepended(r, o) = [i \in 1..n |-> IF i = 1 THEN r ELSE o[i - 1]]
  BY DEF Prepended
<1> HIDE DEF n
<1>4. \A i \in 1..n : (IF i = 1 THEN r ELSE o[i - 1]) \in Outcome
  BY <1>2
<1>5. Prepended(r, o) \in [1..n -> Outcome]
  BY <1>3, <1>4
<1>6. Prepended(r, o) \in Seq(Outcome) /\ Len(Prepended(r, o)) = n
  BY <1>2, <1>3, <1>5
<1> QED
  BY <1>2, <1>6 DEF n

\* The victims are members of the pool that are not explicit: dead ones, or
\* slow addresses that are not pinned.
LEMMA VictimsAre ==
  ASSUME NEW ledger, NEW p, NEW victims \in VictimChoices(ledger, p), NEW m \in victims
  PROVE  /\ m \in p.members \ Explicit
         /\ \/ State(ledger[m]) = "dead"
            \/ m \in IPs /\ m \notin p.priority /\ State(ledger[m]) = "slow"
<1> DEFINE known == p.members \ Explicit
           slow  == InState(ledger, known \cap IPs, "slow") \ p.priority
<1>1. known # {}
  BY DEF VictimChoices
<1>2. PICK dead \in DeadChoices(ledger, known) : victims = dead \cup slow
  BY <1>1 DEF VictimChoices
<1>3. dead \subseteq InState(ledger, known, "dead")
  BY <1>2 DEF DeadChoices
<1>4. CASE m \in dead
  BY <1>3, <1>4 DEF InState
<1>5. CASE m \in slow
  BY <1>5 DEF InState
<1> QED
  BY <1>2, <1>4, <1>5

-----------------------------------------------------------------------------
(* Types.                                                                  *)

\* What TypeOK says of the pool, the ledger, the round and the history.
PoolTyped == pool \in [members : SUBSET Member, priority : SUBSET Member]
LedgerOK == throneProbe \in [Member -> Stat]
RoundTyped ==
    /\ pc \in {"sleep", "probe", "scan", "ctl"} /\ delay \in {"normal", "fast"}
    /\ current.members \subseteq Member /\ current.priority \subseteq Member
    /\ targets \subseteq current.members
    /\ \E victims \in SUBSET (targets \cap IPs) : replacements \in [victims -> IPs]
    /\ pc # "ctl" => replacements = <<>>
HistoryTyped == \A m \in Member : outcomes[m] \in Seq(Outcome) /\ Len(outcomes[m]) <= Depth

LEMMA TypeParts ==
  TypeOK <=> PoolTyped /\ LedgerOK /\ RoundTyped /\ deferred \subseteq Member /\ HistoryTyped
  BY DEF TypeOK, PoolTyped, LedgerOK, RoundTyped, HistoryTyped, Stat

LEMMA TypePartsNext ==
  /\ PoolTyped' /\ LedgerOK' /\ RoundTyped' /\ deferred' \subseteq Member /\ HistoryTyped'
  => TypeOK'
  BY DEF TypeOK, PoolTyped, LedgerOK, RoundTyped, HistoryTyped, Stat

LEMMA NothingFound ==
  ASSUME NEW S
  PROVE  \E found \in SUBSET S : <<>> \in [found -> IPs]
<1>1. <<>> \in [{} -> IPs]
  OBVIOUS
<1> QED
  BY <1>1

LEMMA SleepTypes ==
  ASSUME NEW ledger \in [Member -> Stat], Sleep(ledger)
  PROVE  LedgerOK' /\ RoundTyped'
<1>1. \E victims \in SUBSET (targets' \cap IPs) : replacements' \in [victims -> IPs]
  BY NothingFound DEF Sleep
<1>2. current' = [members |-> {}, priority |-> {}] /\ targets' = {}
  BY DEF Sleep, EmptyPool
<1>3. pc' = "sleep" /\ delay' \in {"normal", "fast"}
  BY DEF Sleep, NextDelay
<1> QED
  BY <1>1, <1>2, <1>3 DEF Sleep, LedgerOK, RoundTyped

LEMMA RecordTypes ==
  ASSUME TypeOK, Record
  PROVE  TypeOK'
<1>1. PICK result \in [targets -> Outcome] :
        LET ledger == [m \in Member |-> IF m \in targets THEN Observed(m, result[m])
                                                         ELSE throneProbe[m]]
        IN  /\ outcomes' = [m \in Member |->
                  IF m \in targets THEN Prepended(result[m], outcomes[m]) ELSE outcomes[m]]
            /\ \E victims \in VictimChoices(ledger, current) :
                  IF victims = {} THEN Sleep(ledger)
                  ELSE /\ throneProbe' = ledger
                       /\ targets' = victims
                       /\ pc' = IF victims \cap IPs = {} THEN "ctl" ELSE "scan"
                       /\ UNCHANGED <<delay, current, replacements>>
  BY DEF Record
<1> DEFINE ledger == [m \in Member |-> IF m \in targets THEN Observed(m, result[m])
                                                        ELSE throneProbe[m]]
<1>2. ledger \in [Member -> Stat]
  BY ObservedTyped, TypeParts DEF LedgerOK
<1>3. HistoryTyped'
  <2> SUFFICES ASSUME NEW m \in Member
               PROVE  outcomes'[m] \in Seq(Outcome) /\ Len(outcomes'[m]) <= Depth
    BY DEF HistoryTyped
  <2>1. CASE m \in targets
    BY <1>1, <2>1, PrependedTyped, TypeParts DEF HistoryTyped
  <2>2. CASE m \notin targets
    BY <1>1, <2>2, TypeParts DEF HistoryTyped
  <2> QED
    BY <2>1, <2>2
<1>4. PICK victims \in VictimChoices(ledger, current) :
        IF victims = {} THEN Sleep(ledger)
        ELSE /\ throneProbe' = ledger
             /\ targets' = victims
             /\ pc' = IF victims \cap IPs = {} THEN "ctl" ELSE "scan"
             /\ UNCHANGED <<delay, current, replacements>>
  BY <1>1
<1> HIDE DEF ledger
<1>5. pool' = pool /\ deferred' = deferred /\ pc = "probe"
  BY DEF Record
<1>6. PoolTyped' /\ deferred' \subseteq Member
  BY <1>5, TypeParts DEF PoolTyped
<1>7. LedgerOK' /\ RoundTyped'
  <2>1. CASE victims = {}
    BY <1>2, <1>4, <2>1, SleepTypes
  <2>2. CASE victims # {}
    <3>1. victims \subseteq current.members
      BY VictimsAre
    <3>2. replacements' = <<>>
      BY <1>4, <1>5, <2>2, TypeParts DEF RoundTyped
    <3>3. \E found \in SUBSET (targets' \cap IPs) : replacements' \in [found -> IPs]
      BY <3>2, NothingFound
    <3>4. /\ throneProbe' = ledger /\ targets' = victims /\ pc' \in {"ctl", "scan"}
          /\ delay' = delay /\ current' = current
      BY <1>4, <2>2
    <3>5. LedgerOK'
      BY <1>2, <3>4 DEF LedgerOK
    <3> QED
      BY <3>1, <3>2, <3>3, <3>4, <3>5, TypeParts DEF RoundTyped
  <2> QED
    BY <2>1, <2>2
<1> QED
  BY <1>3, <1>6, <1>7, TypePartsNext

LEMMA ScanDoneTypes ==
  ASSUME TypeOK, ScanDone
  PROVE  TypeOK'
<1>1. /\ pc' = "ctl"
      /\ UNCHANGED <<pool, throneProbe, delay, current, targets, deferred, outcomes>>
  BY DEF ScanDone
<1>2. PICK found \in SUBSET (targets \cap IPs) :
        \E f \in [found -> IPs \ current.members] : replacements' = f
  BY DEF ScanDone
<1>3. replacements' \in [found -> IPs]
  BY <1>2
<1>4. RoundTyped'
  BY <1>1, <1>2, <1>3, TypeParts DEF RoundTyped
<1> QED
  BY <1>1, <1>4, TypeParts, TypePartsNext DEF PoolTyped, LedgerOK, HistoryTyped

LEMMA ScanBusyTypes ==
  ASSUME TypeOK, ScanBusy
  PROVE  TypeOK'
<1> DEFINE ledger == Rescheduled(throneProbe, targets \cap IPs)
<1>1. ledger \in [Member -> Stat]
  BY LedgerTyped, TypeParts DEF LedgerOK
<1>2. /\ deferred' = targets \cap IPs /\ UNCHANGED <<pool, outcomes>> /\ pc = "scan"
      /\ IF targets \subseteq IPs THEN Sleep(ledger)
         ELSE /\ throneProbe' = ledger
              /\ targets' = targets \ IPs /\ pc' = "ctl"
              /\ UNCHANGED <<delay, current, replacements>>
  BY DEF ScanBusy
<1> HIDE DEF ledger
<1>3. PoolTyped' /\ deferred' \subseteq Member /\ HistoryTyped'
  BY <1>2, TypeParts DEF PoolTyped, RoundTyped, HistoryTyped, Member
<1>4. LedgerOK' /\ RoundTyped'
  <2>1. CASE targets \subseteq IPs
    BY <1>1, <1>2, <2>1, SleepTypes
  <2>2. CASE ~(targets \subseteq IPs)
    <3>1. replacements' = <<>>
      BY <1>2, <2>2, TypeParts DEF RoundTyped
    <3>2. \E found \in SUBSET (targets' \cap IPs) : replacements' \in [found -> IPs]
      BY <3>1, NothingFound
    <3> QED
      BY <1>1, <1>2, <2>2, <3>1, <3>2, TypeParts DEF LedgerOK, RoundTyped
  <2> QED
    BY <2>1, <2>2
<1> QED
  BY <1>3, <1>4, TypePartsNext

LEMMA ReapTypes ==
  ASSUME TypeOK, Reap
  PROVE  TypeOK'
<1>1. throneProbe \in [Member -> Stat]
  BY TypeParts DEF LedgerOK
<1>2. \A held, removed : /\ Held(throneProbe, held) \in [Member -> Stat]
                         /\ Held(Forgotten(throneProbe, removed), held) \in [Member -> Stat]
  BY <1>1, LedgerTyped
<1>3. UNCHANGED <<deferred, outcomes>>
  BY DEF Reap
<1>4. PoolTyped'
  <2>1. PICK victims \in VictimsNow :
          LET swapped == victims \cap DOMAIN replacements
              removed == swapped \cup (victims \cap Domains)
              members == (pool.members \ removed) \cup {replacements[v] : v \in swapped}
          IN  \/ UNCHANGED pool
              \/ pool' = [members |-> members, priority |-> pool.priority \ removed]
    BY DEF Reap
  <2> DEFINE swapped == victims \cap DOMAIN replacements
             removed == swapped \cup (victims \cap Domains)
             found   == {replacements[v] : v \in swapped}
  <2>2. PICK S \in SUBSET (targets \cap IPs) : replacements \in [S -> IPs]
    BY TypeParts DEF RoundTyped
  <2>3. \A v \in swapped : replacements[v] \in IPs
    BY <2>2
  <2>4. found \subseteq Member
    BY <2>3 DEF Member
  <2>5. \/ pool' = pool
        \/ pool' = [members |-> (pool.members \ removed) \cup found,
                    priority |-> pool.priority \ removed]
    BY <2>1
  <2> HIDE DEF removed, found
  <2> QED
    BY <2>4, <2>5, TypeParts DEF PoolTyped
<1>5. \E ledger \in [Member -> Stat] : Sleep(ledger)
  BY <1>2 DEF Reap
<1>6. LedgerOK' /\ RoundTyped'
  BY <1>5, SleepTypes
<1> QED
  BY <1>3, <1>4, <1>6, TypeParts, TypePartsNext DEF HistoryTyped

LEMMA MeddleTypes ==
  ASSUME TypeOK, Meddle
  PROVE  TypeOK'
<1>1. UNCHANGED <<throneProbe, pc, delay, current, targets, replacements, deferred, outcomes>>
  BY DEF Meddle
<1>2. PoolTyped'
  <2>1. CASE pool' \in Departures
    BY <2>1, TypeParts DEF PoolTyped, Departures
  <2>2. CASE pool' \in Arrivals
    BY <2>2, TypeParts DEF PoolTyped, Arrivals
  <2>3. CASE pool' \in Endorsements
    BY <2>3, TypeParts, MembersAssumption DEF PoolTyped, Endorsements
  <2>4. CASE pool' \in Selections
    BY <2>4, TypeParts DEF PoolTyped, Selections
  <2> QED
    BY <2>1, <2>2, <2>3, <2>4 DEF Meddle
<1> QED
  BY <1>1, <1>2, TypeParts, TypePartsNext DEF LedgerOK, RoundTyped, HistoryTyped

LEMMA InitTypes == Init => TypeOK
<1> SUFFICES ASSUME Init PROVE TypeOK
  OBVIOUS
<1>1. PoolTyped
  BY DEF Init, PoolTyped
<1>2. LedgerOK
  BY NoStatTyped DEF Init, LedgerOK
<1>3. RoundTyped
  <2>1. \E victims \in SUBSET (targets \cap IPs) : replacements \in [victims -> IPs]
    BY NothingFound DEF Init
  <2>2. current = [members |-> {}, priority |-> {}] /\ targets = {}
    BY DEF Init, EmptyPool
  <2> QED
    BY <2>1, <2>2 DEF Init, RoundTyped
<1>4. deferred \subseteq Member
  BY DEF Init
<1>5. HistoryTyped
  BY ThresholdsAssumption DEF Init, HistoryTyped, Depth
<1> QED
  BY <1>1, <1>2, <1>3, <1>4, <1>5, TypeParts

LEMMA StepTypes == TypeOK /\ [Next]_vars => TypeOK'
<1> SUFFICES ASSUME TypeOK, [Next]_vars PROVE TypeOK'
  OBVIOUS
<1>1. CASE Wake
  <2>1. /\ pool' = pool /\ throneProbe' = throneProbe /\ outcomes' = outcomes
        /\ delay' = delay /\ replacements' = <<>>
        /\ pc' = "probe" /\ current' = pool /\ targets' \subseteq pool.members /\ deferred' = {}
    BY <1>1, TypeParts DEF Wake, RoundTyped
  <2>2. \E found \in SUBSET (targets' \cap IPs) : replacements' \in [found -> IPs]
    BY <2>1, NothingFound
  <2>3. RoundTyped'
    BY <2>1, <2>2, TypeParts DEF PoolTyped, RoundTyped
  <2>4. PoolTyped' /\ LedgerOK' /\ HistoryTyped' /\ deferred' \subseteq Member
    BY <2>1, TypeParts DEF PoolTyped, LedgerOK, HistoryTyped
  <2> QED
    BY <2>3, <2>4, TypePartsNext
<1>2. CASE Skip
  <2>1. LedgerOK' /\ RoundTyped'
    BY <1>2, TypeParts, SleepTypes DEF Skip, LedgerOK
  <2>2. PoolTyped' /\ HistoryTyped' /\ deferred' \subseteq Member
    BY <1>2, TypeParts DEF Skip, PoolTyped, HistoryTyped
  <2> QED
    BY <2>1, <2>2, TypePartsNext
<1>3. CASE CtlBusy
  <2>1. Rescheduled(throneProbe, targets) \in [Member -> Stat]
    BY TypeParts, LedgerTyped DEF LedgerOK
  <2>2. LedgerOK' /\ RoundTyped'
    BY <1>3, <2>1, SleepTypes DEF CtlBusy
  <2>3. PoolTyped' /\ HistoryTyped' /\ deferred' \subseteq Member
    BY <1>3, TypeParts DEF CtlBusy, PoolTyped, HistoryTyped, RoundTyped
  <2> QED
    BY <2>2, <2>3, TypePartsNext
<1>4. CASE UNCHANGED vars
  BY <1>4, TypeParts, TypePartsNext
    DEF vars, PoolTyped, LedgerOK, RoundTyped, HistoryTyped
<1> QED
  BY <1>1, <1>2, <1>3, <1>4, RecordTypes, ScanBusyTypes, ScanDoneTypes, ReapTypes, MeddleTypes
    DEF Next, Round

(***************************************************************************)
(* Types of the state of the probe, through every change of the pool that  *)
(* the probe and other tasks make.                                         *)
(***************************************************************************)
THEOREM ThroneTypes == Spec => []TypeOK
  BY InitTypes, StepTypes, PTL DEF Spec

-----------------------------------------------------------------------------
(* Why members are taken out.                                              *)

\* The counters of the ledger are backed by the latest outcomes.
CountersTrue ==
    \A m \in Member : /\ InARow(m, "fail", throneProbe[m].fails)
                      /\ InARow(m, "slow", throneProbe[m].slow)

\* What a longer count means for the latest outcomes.
LEMMA PrependedInARow ==
  ASSUME NEW o \in Seq(Outcome), NEW r \in Outcome, NEW c \in Nat,
         NEW bound \in 1..Depth,
         Len(o) >= c, \A i \in 1..c : o[i] = r
  PROVE  /\ Len(Prepended(r, o)) >= UpTo(bound, c + 1)
         /\ \A i \in 1..UpTo(bound, c + 1) : Prepended(r, o)[i] = r
<1>1. Depth \in Nat
  BY ThresholdsAssumption DEF Depth
<1> DEFINE n == UpTo(Depth, Len(o) + 1)
           k == UpTo(bound, c + 1)
<1>2. Len(o) \in Nat /\ n \in Nat /\ k \in Nat /\ k <= n /\ k <= c + 1
  <2>1. Len(o) \in Nat
    OBVIOUS
  <2> QED
    BY <1>1, <2>1 DEF UpTo
<1>3. Len(Prepended(r, o)) = n
  BY PrependedTyped
<1>4. Prepended(r, o) = [i \in 1..n |-> IF i = 1 THEN r ELSE o[i - 1]]
  BY DEF Prepended
<1> HIDE DEF n, k
<1>5. \A i \in 1..k : Prepended(r, o)[i] = r
  BY <1>2, <1>4
<1> QED
  BY <1>2, <1>3, <1>5 DEF k

LEMMA CountersTrueRecord ==
  ASSUME TypeOK, CountersTrue, Record
  PROVE  CountersTrue'
<1>1. PICK result \in [targets -> Outcome] :
        LET ledger == [m \in Member |-> IF m \in targets THEN Observed(m, result[m])
                                                         ELSE throneProbe[m]]
        IN  /\ outcomes' = [m \in Member |->
                  IF m \in targets THEN Prepended(result[m], outcomes[m]) ELSE outcomes[m]]
            /\ throneProbe' = ledger
  BY DEF Record, Sleep
<1> SUFFICES ASSUME NEW m \in Member
             PROVE  InARow(m, "fail", throneProbe[m].fails)'
                    /\ InARow(m, "slow", throneProbe[m].slow)'
  BY DEF CountersTrue
<1>2. throneProbe[m] \in Stat /\ outcomes[m] \in Seq(Outcome)
  BY TypeParts DEF LedgerOK, HistoryTyped
<1>3. CASE m \notin targets
  BY <1>1, <1>3 DEF CountersTrue, InARow
<1>4. CASE m \in targets
  <2> DEFINE r == result[m]
             st == Counted(throneProbe[m], r)
  <2>1. r \in Outcome /\ outcomes'[m] = Prepended(r, outcomes[m])
    BY <1>1, <1>4
  <2>2. throneProbe'[m].fails = st.fails /\ throneProbe'[m].slow = st.slow
    BY <1>1, <1>2, <1>4 DEF Observed, Counted, Stat
  <2>3. /\ st.fails = IF r = "fail" THEN UpTo(FailThreshold, throneProbe[m].fails + 1) ELSE 0
        /\ st.slow = IF r = "slow" THEN UpTo(SlowStrikeLimit, throneProbe[m].slow + 1) ELSE 0
    BY <1>2 DEF Counted, Stat
  <2>4. Len(outcomes'[m]) >= 0
    BY <1>2, <2>1, PrependedTyped
  <2>5. FailThreshold \in 1..Depth /\ SlowStrikeLimit \in 1..Depth
    BY ThresholdsAssumption DEF Depth
  <2>6. throneProbe[m].fails \in Nat /\ throneProbe[m].slow \in Nat
    BY <1>2 DEF Stat
  <2> HIDE DEF r, st
  <2>7. ASSUME NEW c \in Nat, NEW bound \in 1..Depth,
               Len(outcomes[m]) >= c, \A i \in 1..c : outcomes[m][i] = r
        PROVE  /\ Len(outcomes'[m]) >= UpTo(bound, c + 1)
               /\ \A i \in 1..UpTo(bound, c + 1) : outcomes'[m][i] = r
    BY <1>2, <2>1, <2>7, PrependedInARow
  <2>8. InARow(m, "fail", throneProbe[m].fails)'
    <3>1. CASE r = "fail"
      <4>1. /\ Len(outcomes[m]) >= throneProbe[m].fails
            /\ \A i \in 1..throneProbe[m].fails : outcomes[m][i] = r
        BY <3>1 DEF CountersTrue, InARow
      <4>2. /\ Len(outcomes'[m]) >= UpTo(FailThreshold, throneProbe[m].fails + 1)
            /\ \A i \in 1..UpTo(FailThreshold, throneProbe[m].fails + 1) : outcomes'[m][i] = r
        BY <2>5, <2>6, <2>7, <4>1
      <4> QED
        BY <2>2, <2>3, <3>1, <4>2 DEF InARow
    <3>2. CASE r # "fail"
      BY <2>2, <2>3, <2>4, <3>2 DEF InARow
    <3> QED
      BY <3>1, <3>2
  <2>9. InARow(m, "slow", throneProbe[m].slow)'
    <3>1. CASE r = "slow"
      <4>1. /\ Len(outcomes[m]) >= throneProbe[m].slow
            /\ \A i \in 1..throneProbe[m].slow : outcomes[m][i] = r
        BY <3>1 DEF CountersTrue, InARow
      <4>2. /\ Len(outcomes'[m]) >= UpTo(SlowStrikeLimit, throneProbe[m].slow + 1)
            /\ \A i \in 1..UpTo(SlowStrikeLimit, throneProbe[m].slow + 1) : outcomes'[m][i] = r
        BY <2>5, <2>6, <2>7, <4>1
      <4> QED
        BY <2>2, <2>3, <3>1, <4>2 DEF InARow
    <3>2. CASE r # "slow"
      BY <2>2, <2>3, <2>4, <3>2 DEF InARow
    <3> QED
      BY <3>1, <3>2
  <2> QED
    BY <2>8, <2>9
<1> QED
  BY <1>3, <1>4

LEMMA CountersTrueStep == TypeOK /\ CountersTrue /\ [Next]_vars => CountersTrue'
<1> SUFFICES ASSUME TypeOK, CountersTrue, [Next]_vars PROVE CountersTrue'
  OBVIOUS
<1>1. ASSUME outcomes' = outcomes,
             \A m \in Member : /\ throneProbe'[m].fails \in {0, throneProbe[m].fails}
                               /\ throneProbe'[m].slow \in {0, throneProbe[m].slow}
      PROVE  CountersTrue'
  <2> SUFFICES ASSUME NEW m \in Member
               PROVE  InARow(m, "fail", throneProbe[m].fails)'
                      /\ InARow(m, "slow", throneProbe[m].slow)'
    BY DEF CountersTrue
  <2>1. outcomes[m] \in Seq(Outcome)
    BY TypeParts DEF HistoryTyped
  <2>2. Len(outcomes[m]) >= 0
    BY <2>1
  <2> QED
    BY <1>1, <2>2 DEF CountersTrue, InARow
<1>2. \A members : \A m \in Member :
        /\ Rescheduled(throneProbe, members)[m].fails = throneProbe[m].fails
        /\ Rescheduled(throneProbe, members)[m].slow = throneProbe[m].slow
  BY TypeParts DEF LedgerOK, Stat, Rescheduled
<1>3. \A held, removed : \A m \in Member :
        /\ Held(throneProbe, held)[m].fails = throneProbe[m].fails
        /\ Held(throneProbe, held)[m].slow = throneProbe[m].slow
        /\ Held(Forgotten(throneProbe, removed), held)[m].fails \in {0, throneProbe[m].fails}
        /\ Held(Forgotten(throneProbe, removed), held)[m].slow \in {0, throneProbe[m].slow}
  BY TypeParts DEF LedgerOK, Stat, Held, Forgotten, NoStat
<1>4. CASE Wake \/ ScanDone \/ Meddle
  BY <1>1, <1>4 DEF Wake, ScanDone, Meddle
<1>5. CASE Skip
  BY <1>1, <1>5 DEF Skip, Sleep
<1>6. CASE ScanBusy
  <2>1. outcomes' = outcomes /\ throneProbe' = Rescheduled(throneProbe, targets \cap IPs)
    BY <1>6 DEF ScanBusy, Sleep
  <2> QED
    BY <1>1, <1>2, <2>1
<1>7. CASE CtlBusy
  <2>1. outcomes' = outcomes /\ throneProbe' = Rescheduled(throneProbe, targets)
    BY <1>7 DEF CtlBusy, Sleep
  <2> QED
    BY <1>1, <1>2, <2>1
<1>8. CASE Reap
  <2>1. /\ outcomes' = outcomes
        /\ \E held, removed : \/ throneProbe' = Held(throneProbe, held)
                              \/ throneProbe' = Held(Forgotten(throneProbe, removed), held)
    BY <1>8 DEF Reap, Sleep
  <2> QED
    BY <1>1, <1>3, <2>1
<1>9. CASE UNCHANGED vars
  BY <1>1, <1>9 DEF vars
<1> QED
  BY <1>4, <1>5, <1>6, <1>7, <1>8, <1>9, CountersTrueRecord DEF Next, Round

LEMMA CountersTrueInit == Init => CountersTrue
  BY DEF Init, CountersTrue, InARow, NoStat

LEMMA CountersAlwaysTrue == Spec => []CountersTrue
  BY CountersTrueInit, CountersTrueStep, ThroneTypes, PTL DEF Spec

\* Only the change of reapThroneMembers takes members out, and only victims
\* of the plan that it makes then.
LEMMA ReapedAreVictims ==
  ASSUME TypeOK, [Next]_vars, NEW m \in Reaped
  PROVE  \E victims \in VictimChoices(throneProbe, pool) : m \in victims
<1>1. pc = "ctl" /\ pc' = "sleep" /\ m \in pool.members /\ m \notin pool'.members
  BY DEF Reaped
<1>2. Reap
  BY <1>1 DEF Next, Round, Wake, Skip, Record, ScanBusy, ScanDone, CtlBusy, Meddle, vars
<1>3. PICK victims \in VictimsNow :
        LET swapped == victims \cap DOMAIN replacements
            removed == swapped \cup (victims \cap Domains)
            members == (pool.members \ removed) \cup {replacements[v] : v \in swapped}
        IN  \/ pool' = pool
            \/ pool' = [members |-> members, priority |-> pool.priority \ removed]
  BY <1>2 DEF Reap
<1>4. m \in victims
  BY <1>1, <1>3
<1> QED
  BY <1>3, <1>4 DEF VictimsNow

LEMMA StateSays ==
  ASSUME TypeOK, CountersTrue, NEW m \in Member
  PROVE  /\ State(throneProbe[m]) = "dead" => InARow(m, "fail", FailThreshold)
         /\ State(throneProbe[m]) = "slow" => InARow(m, "slow", SlowStrikeLimit)
<1>1. /\ throneProbe[m].fails \in 0..FailThreshold
      /\ throneProbe[m].slow \in 0..SlowStrikeLimit
  BY TypeParts DEF LedgerOK, Stat
<1>2. State(throneProbe[m]) = "dead" => throneProbe[m].fails = FailThreshold
  BY <1>1, ThresholdsAssumption DEF State
<1>3. State(throneProbe[m]) = "slow" => throneProbe[m].slow = SlowStrikeLimit
  BY <1>1, ThresholdsAssumption DEF State
<1> QED
  BY <1>2, <1>3 DEF CountersTrue

LEMMA ReapedFor ==
  ASSUME TypeOK, CountersTrue, [Next]_vars, NEW m \in Reaped
  PROVE  /\ m \notin Explicit
         /\ \/ InARow(m, "fail", FailThreshold)
            \/ m \in IPs /\ m \notin pool.priority /\ InARow(m, "slow", SlowStrikeLimit)
<1>1. PICK victims \in VictimChoices(throneProbe, pool) : m \in victims
  BY ReapedAreVictims
<1>2. /\ m \in pool.members \ Explicit
      /\ \/ State(throneProbe[m]) = "dead"
         \/ m \in IPs /\ m \notin pool.priority /\ State(throneProbe[m]) = "slow"
  BY <1>1, VictimsAre
<1>3. m \in Member
  BY <1>2, TypeParts DEF PoolTyped
<1> QED
  BY <1>2, <1>3, StateSays

(***************************************************************************)
(* No member is taken out for a jitter: whatever other tasks did to the    *)
(* pool meanwhile, its latest probes, as many as the threshold says, have  *)
(* all failed, or it is an address and they were all slow.                 *)
(***************************************************************************)
THEOREM FirmReapHolds == Spec => FirmReap
<1>1. TypeOK /\ CountersTrue /\ [Next]_vars =>
        [\A m \in Reaped : \/ InARow(m, "fail", FailThreshold)
                           \/ m \in IPs /\ InARow(m, "slow", SlowStrikeLimit)]_vars
  BY ReapedFor
<1> QED
  BY <1>1, ThroneTypes, CountersAlwaysTrue, PTL DEF Spec, FirmReap

(***************************************************************************)
(* A member that is pinned at the moment of the change goes only if it is  *)
(* dead, and an explicit domain never.                                     *)
(***************************************************************************)
THEOREM PinnedHolds == Spec => PinnedOnlyForDeath
<1>1. TypeOK /\ CountersTrue /\ [Next]_vars =>
        [/\ Reaped \cap Explicit = {}
         /\ \A m \in Reaped \cap pool.priority : InARow(m, "fail", FailThreshold)]_vars
  BY ReapedFor
<1> QED
  BY <1>1, ThroneTypes, CountersAlwaysTrue, PTL DEF Spec, PinnedOnlyForDeath

-----------------------------------------------------------------------------
(* The marks of the ledger.                                                *)

Bad(st) == st.fails > 0 \/ st.slow > 0

\* Whoever has a mark, and whoever is waiting to be replaced, has a bad entry.
MarksBacked ==
    /\ \A m \in Member : throneProbe[m].recheck \/ throneProbe[m].held => Bad(throneProbe[m])
    /\ pc \in {"scan", "ctl"} => \A m \in targets : Bad(throneProbe[m])

LEMMA MarkedAreBad ==
  ASSUME NEW ledger \in [Member -> Stat],
         \A m \in Member : ledger[m].recheck \/ ledger[m].held => Bad(ledger[m]),
         NEW members, \A m \in members \cap Member : Bad(ledger[m]),
         NEW out, members \cap out = {},
         NEW new, new \in {Rescheduled(ledger, members), Held(ledger, members),
                           Held(Forgotten(ledger, out), members)},
         NEW m \in Member
  PROVE  /\ new[m].recheck \/ new[m].held => Bad(new[m])
         /\ m \notin out /\ Bad(ledger[m]) => Bad(new[m])
<1>1. ledger[m] \in Stat
  OBVIOUS
<1>2. CASE new = Rescheduled(ledger, members)
  BY <1>1, <1>2 DEF Rescheduled, Bad, Stat
<1>3. CASE new = Held(ledger, members)
  BY <1>1, <1>3 DEF Held, Bad, Stat
<1>4. CASE new = Held(Forgotten(ledger, out), members)
  <2>1. CASE m \in out
    BY <1>1, <1>4, <2>1 DEF Held, Forgotten, NoStat, Bad, Stat
  <2>2. CASE m \notin out
    BY <1>1, <1>4, <2>2 DEF Held, Forgotten, Bad, Stat
  <2> QED
    BY <2>1, <2>2
<1> QED
  BY <1>2, <1>3, <1>4

LEMMA RecordMarks ==
  ASSUME TypeOK, MarksBacked, Record
  PROVE  MarksBacked'
<1>1. PICK result \in [targets -> Outcome] :
        LET ledger == [m \in Member |-> IF m \in targets THEN Observed(m, result[m])
                                                         ELSE throneProbe[m]]
        IN  \E victims \in VictimChoices(ledger, current) :
              /\ throneProbe' = ledger
              /\ pc' # "sleep" => targets' = victims
  BY DEF Record, Sleep
<1>2. throneProbe \in [Member -> Stat] /\ \A m \in Member : throneProbe'[m] \in Stat
  BY <1>1, TypeParts, ObservedTyped DEF LedgerOK
<1>3. ASSUME NEW m \in Member, throneProbe'[m].recheck \/ throneProbe'[m].held
      PROVE  Bad(throneProbe'[m])
  <2>1. CASE m \in targets
    <3> DEFINE st == Counted(throneProbe[m], result[m])
    <3>1. st \in Stat
      BY <1>2, CountedTyped
    <3>2. throneProbe'[m] = [st EXCEPT !.held = @ /\ (st.fails > 0 \/ st.slow > 0),
                                       !.recheck = Suspect(m, st) /\ State(st) = "ok"]
      BY <1>1, <2>1 DEF Observed
    <3> HIDE DEF st
    <3> QED
      BY <1>3, <3>1, <3>2 DEF Stat, Suspect, Bad
  <2>2. CASE m \notin targets
    BY <1>1, <1>3, <2>2 DEF MarksBacked
  <2> QED
    BY <2>1, <2>2
<1>4. ASSUME pc' \in {"scan", "ctl"}, NEW m \in targets' PROVE Bad(throneProbe'[m])
  <2>1. PICK victims \in VictimChoices(throneProbe', current) : m \in victims
    BY <1>1, <1>4
  <2>2. m \in Member /\ State(throneProbe'[m]) \in {"dead", "slow"}
    BY <2>1, VictimsAre, TypeParts DEF RoundTyped
  <2> QED
    BY <1>2, <2>2, ThresholdsAssumption DEF State, Bad, Stat
<1> QED
  BY <1>3, <1>4 DEF MarksBacked

LEMMA ReapMarks ==
  ASSUME TypeOK, MarksBacked, Reap
  PROVE  MarksBacked'
<1>1. PICK victims \in VictimsNow :
        LET swapped == victims \cap DOMAIN replacements
            removed == swapped \cup (victims \cap Domains)
            held    == (victims \cap pool.members \cap IPs) \ swapped
        IN  \/ Sleep(Held(throneProbe, held))
            \/ Sleep(Held(Forgotten(throneProbe, removed), held))
  BY DEF Reap
<1> DEFINE swapped == victims \cap DOMAIN replacements
           removed == swapped \cup (victims \cap Domains)
           held    == (victims \cap pool.members \cap IPs) \ swapped
<1>2. throneProbe \in [Member -> Stat]
  BY TypeParts DEF LedgerOK
<1>3. \A m \in held \cap Member : Bad(throneProbe[m])
  <2> SUFFICES ASSUME NEW m \in held \cap Member PROVE Bad(throneProbe[m])
    OBVIOUS
  <2>1. PICK choice \in VictimChoices(throneProbe, pool) : m \in choice
    BY DEF VictimsNow
  <2>2. State(throneProbe[m]) \in {"dead", "slow"}
    BY <2>1, VictimsAre
  <2> QED
    BY <1>2, <2>2, ThresholdsAssumption DEF State, Bad, Stat
<1>4. held \cap removed = {}
  BY MembersAssumption
<1>5. pc' = "sleep" /\ throneProbe' \in {Held(throneProbe, held),
                                         Held(Forgotten(throneProbe, removed), held)}
  BY <1>1 DEF Sleep
<1>6. \A m \in Member : throneProbe[m].recheck \/ throneProbe[m].held => Bad(throneProbe[m])
  BY DEF MarksBacked
<1> HIDE DEF held, removed
<1>7. ASSUME NEW m \in Member, throneProbe'[m].recheck \/ throneProbe'[m].held
      PROVE  Bad(throneProbe'[m])
  BY <1>2, <1>3, <1>4, <1>5, <1>6, <1>7, MarkedAreBad
<1> QED
  BY <1>5, <1>7 DEF MarksBacked

LEMMA MarksStep == TypeOK /\ MarksBacked /\ [Next]_vars => MarksBacked'
<1> SUFFICES ASSUME TypeOK, MarksBacked, [Next]_vars PROVE MarksBacked'
  OBVIOUS
<1>1. throneProbe \in [Member -> Stat]
  BY TypeParts DEF LedgerOK
<1>2. \A m \in Member : throneProbe[m].recheck \/ throneProbe[m].held => Bad(throneProbe[m])
  BY DEF MarksBacked
<1>3. ASSUME NEW members \in SUBSET targets, pc \in {"scan", "ctl"},
             throneProbe' = Rescheduled(throneProbe, members), targets' \subseteq targets
      PROVE  MarksBacked'
  <2>1. \A m \in members \cap Member : Bad(throneProbe[m])
    BY <1>3 DEF MarksBacked
  <2>2. ASSUME NEW m \in Member
        PROVE  /\ throneProbe'[m].recheck \/ throneProbe'[m].held => Bad(throneProbe'[m])
               /\ Bad(throneProbe[m]) => Bad(throneProbe'[m])
    <3>1. members \cap {} = {} /\ m \notin {}
      OBVIOUS
    <3>2. throneProbe' \in {Rescheduled(throneProbe, members), Held(throneProbe, members),
                            Held(Forgotten(throneProbe, {}), members)}
      BY <1>3
    <3> QED
      BY <1>1, <1>2, <2>1, <3>1, <3>2, MarkedAreBad
  <2>3. \A m \in targets' : m \in Member /\ Bad(throneProbe[m])
    BY <1>3, TypeParts DEF MarksBacked, RoundTyped
  <2> QED
    BY <2>2, <2>3 DEF MarksBacked
<1>4. CASE Wake \/ Skip \/ Meddle \/ ScanDone \/ UNCHANGED vars
  BY <1>4 DEF Wake, Skip, Sleep, Meddle, ScanDone, vars, MarksBacked
<1>5. CASE ScanBusy
  BY <1>3, <1>5 DEF ScanBusy, Sleep
<1>6. CASE CtlBusy
  BY <1>3, <1>6 DEF CtlBusy, Sleep
<1> QED
  BY <1>4, <1>5, <1>6, RecordMarks, ReapMarks DEF Next, Round

(***************************************************************************)
(* Whoever is marked as held or for a recheck failed or was slow the last  *)
(* time it was probed, whatever the pool has gone through since.           *)
(***************************************************************************)
THEOREM MarksHold == Spec => []MarksEarned
<1>1. Init => MarksBacked
  BY DEF Init, MarksBacked, NoStat
<1>2. TypeOK /\ CountersTrue /\ MarksBacked => MarksEarned
  <2> SUFFICES ASSUME TypeOK, CountersTrue, MarksBacked, NEW m \in Member,
                      throneProbe[m].recheck \/ throneProbe[m].held
               PROVE  outcomes[m] # <<>> /\ outcomes[m][1] # "ok"
    BY DEF MarksEarned
  <2>1. throneProbe[m].fails \in Nat /\ throneProbe[m].slow \in Nat
    BY TypeParts, ThresholdsAssumption DEF LedgerOK, Stat
  <2>2. Bad(throneProbe[m])
    BY DEF MarksBacked
  <2>3. CASE throneProbe[m].fails > 0
    <3>1. Len(outcomes[m]) > 0 /\ outcomes[m][1] = "fail"
      BY <2>1, <2>3, TypeParts DEF CountersTrue, InARow, HistoryTyped
    <3> QED
      BY <3>1
  <2>4. CASE throneProbe[m].slow > 0
    <3>1. Len(outcomes[m]) > 0 /\ outcomes[m][1] = "slow"
      BY <2>1, <2>4, TypeParts DEF CountersTrue, InARow, HistoryTyped
    <3> QED
      BY <3>1
  <2> QED
    BY <2>2, <2>3, <2>4 DEF Bad
<1> QED
  BY <1>1, <1>2, MarksStep, ThroneTypes, CountersAlwaysTrue, PTL DEF Spec

-----------------------------------------------------------------------------
(* A busy lock is followed by a recheck.                                   *)

\* Whoever was deferred in this round has an entry that asks for a recheck,
\* until the round has gone to sleep with the fast rhythm.
DeferredMarked ==
    /\ pc \in {"probe", "scan"} => deferred = {}
    /\ pc = "ctl" => \A m \in deferred : throneProbe[m].recheck
    /\ BusyRetriedSoon

LEMMA SleepFast ==
  ASSUME NEW ledger, Sleep(ledger), deferred' \subseteq Member,
         \A m \in deferred' : ledger[m].recheck
  PROVE  DeferredMarked'
<1>1. pc' = "sleep" /\ delay' = NextDelay(ledger)
  BY DEF Sleep
<1>2. deferred' # {} => NextDelay(ledger) = "fast"
  BY DEF NextDelay
<1> QED
  BY <1>1, <1>2 DEF DeferredMarked, BusyRetriedSoon

\* The victims of the change are not among those that were deferred, so their
\* marks stay.
LEMMA ReapKeepsMarks ==
  ASSUME TypeOK, DeferredMarked, Reap
  PROVE  DeferredMarked'
<1>1. pc = "ctl" /\ deferred' = deferred
  BY DEF Reap
<1>2. PICK victims \in VictimsNow :
        LET swapped == victims \cap DOMAIN replacements
            removed == swapped \cup (victims \cap Domains)
            held    == (victims \cap pool.members \cap IPs) \ swapped
        IN  \/ Sleep(Held(throneProbe, held))
            \/ Sleep(Held(Forgotten(throneProbe, removed), held))
  BY DEF Reap
<1>3. victims \cap deferred = {}
  BY DEF VictimsNow
<1>4. PICK held \in SUBSET victims, removed \in SUBSET victims :
        \/ Sleep(Held(throneProbe, held))
        \/ Sleep(Held(Forgotten(throneProbe, removed), held))
  BY <1>2
<1>5. \A m \in deferred :
        /\ Held(throneProbe, held)[m].recheck
        /\ Held(Forgotten(throneProbe, removed), held)[m].recheck
  BY <1>1, <1>3, TypeParts DEF DeferredMarked, Held, Forgotten
<1>6. deferred' \subseteq Member
  BY <1>1, TypeParts
<1> QED
  BY <1>1, <1>4, <1>5, <1>6, SleepFast

LEMMA DeferredMarkedStep == TypeOK /\ DeferredMarked /\ [Next]_vars => DeferredMarked'
<1> SUFFICES ASSUME TypeOK, DeferredMarked, [Next]_vars PROVE DeferredMarked'
  OBVIOUS
<1>1. \A members : \A m \in members \cap Member : Rescheduled(throneProbe, members)[m].recheck
  BY TypeParts DEF LedgerOK, Stat, Rescheduled
<1>2. targets \subseteq Member
  BY TypeParts DEF RoundTyped
<1>3. CASE Wake
  BY <1>3 DEF Wake, DeferredMarked, BusyRetriedSoon
<1>4. CASE Skip
  BY <1>4, SleepFast DEF Skip
<1>5. CASE Record
  <2>1. deferred = {} /\ deferred' = {}
    BY <1>5 DEF Record, DeferredMarked
  <2> QED
    BY <2>1 DEF DeferredMarked, BusyRetriedSoon
<1>6. CASE ScanBusy
  <2> DEFINE ledger == Rescheduled(throneProbe, targets \cap IPs)
  <2>1. deferred' \subseteq Member /\ \A m \in deferred' : ledger[m].recheck
    BY <1>1, <1>2, <1>6 DEF ScanBusy
  <2>2. Sleep(ledger) \/ (throneProbe' = ledger /\ pc' = "ctl")
    BY <1>6 DEF ScanBusy
  <2> HIDE DEF ledger
  <2>3. CASE Sleep(ledger)
    BY <2>1, <2>3, SleepFast
  <2>4. CASE throneProbe' = ledger /\ pc' = "ctl"
    BY <2>1, <2>4 DEF DeferredMarked, BusyRetriedSoon
  <2> QED
    BY <2>2, <2>3, <2>4
<1>7. CASE ScanDone
  BY <1>7 DEF ScanDone, DeferredMarked, BusyRetriedSoon
<1>8. CASE CtlBusy
  <2> DEFINE ledger == Rescheduled(throneProbe, targets)
  <2>1. deferred' = deferred \cup targets /\ Sleep(ledger) /\ pc = "ctl"
    BY <1>8 DEF CtlBusy
  <2>2. deferred' \subseteq Member
    BY <1>2, <2>1, TypeParts
  <2>3. \A m \in deferred' : ledger[m].recheck
    BY <1>1, <2>1, <2>2, TypeParts DEF DeferredMarked, Rescheduled
  <2> HIDE DEF ledger
  <2> QED
    BY <2>1, <2>2, <2>3, SleepFast
<1>9. CASE Meddle \/ UNCHANGED vars
  BY <1>9 DEF Meddle, vars, DeferredMarked, BusyRetriedSoon
<1> QED
  BY <1>3, <1>4, <1>5, <1>6, <1>7, <1>8, <1>9, ReapKeepsMarks DEF Next, Round

(***************************************************************************)
(* A victim that had to wait because a lock was busy is looked at again    *)
(* soon, whatever becomes of the other victims of the same round.          *)
(***************************************************************************)
THEOREM BusyHolds == Spec => []BusyRetriedSoon
<1>1. Init => DeferredMarked
  BY DEF Init, DeferredMarked, BusyRetriedSoon
<1>2. DeferredMarked => BusyRetriedSoon
  BY DEF DeferredMarked
<1> QED
  BY <1>1, <1>2, DeferredMarkedStep, ThroneTypes, PTL DEF Spec

=============================================================================

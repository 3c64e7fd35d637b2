----------------------------- MODULE ThroneProbe -----------------------------
(***************************************************************************)
(* The liveness probe of the members in place, throne_probe.go: one        *)
(* goroutine probes the members of the active pool, keeps a ledger of      *)
(* failures and slow answers in a row, and replaces or takes out the       *)
(* members that have had too many.  Between its copy of the pool, the      *)
(* probes, the search for replacements and the change, other tasks change  *)
(* the pool (PoolControl has those tasks and the locks in detail).         *)
(*                                                                         *)
(* The order of members is left out, the counters saturate at their        *)
(* thresholds, and the texts and times of the ledger are left out except   *)
(* for the two marks Held and RecheckAt, which are Booleans here.          *)
(***************************************************************************)
EXTENDS Integers, Sequences, FiniteSets

CONSTANTS
    IPs,               \* addresses that may be in the pool or replace a member
    Domains,           \* domains that may be in the pool
    Explicit,          \* PROXY_DOMAIN_FORWARD: domains that the probe leaves alone
    Pinnable,          \* bounds the members that other tasks pin
    FailThreshold,     \* throneProbeFailThreshold
    SlowStrikeLimit    \* throneProbeSlowStrikeLimit

Member == IPs \cup Domains

ASSUME MembersAssumption ==
    /\ IsFiniteSet(Member) /\ IPs \cap Domains = {}
    /\ Explicit \subseteq Domains /\ Pinnable \subseteq Member
ASSUME ThresholdsAssumption == FailThreshold \in Nat \ {0} /\ SlowStrikeLimit \in Nat \ {0}

Outcome == {"ok", "slow", "fail"}

VARIABLES
    pool,            \* the active pool: members, and names that are pinned
    throneProbe,     \* the ledger
    pc,              \* where the goroutine is
    delay,           \* what throneNextDelay has returned
    current,         \* the copy of the pool it works from
    targets,         \* what it probes
    replacements,    \* the replacement found for a victim
    deferred,        \* victims that were not examined, because of a busy lock
    outcomes         \* history: the latest outcomes of a member, newest first

vars == <<pool, throneProbe, pc, delay, current, targets, replacements, deferred, outcomes>>

EmptyPool == [members |-> {}, priority |-> {}]

NoStat == [fails |-> 0, slow |-> 0, recheck |-> FALSE, held |-> FALSE]

Depth == IF FailThreshold > SlowStrikeLimit THEN FailThreshold ELSE SlowStrikeLimit

UpTo(bound, n) == IF n < bound THEN n ELSE bound

-----------------------------------------------------------------------------
(* The ledger.  A member without an entry has NoStat.                      *)

\* throneMemberState: dead before slow.
State(st) == IF st.fails >= FailThreshold THEN "dead"
             ELSE IF st.slow >= SlowStrikeLimit THEN "slow"
             ELSE "ok"

\* A mutant: slow answers need not be in a row.
CountSlowThroughFailures(st, outcome) ==
    [st EXCEPT !.fails = IF outcome = "fail" THEN UpTo(FailThreshold, @ + 1) ELSE 0,
               !.slow  = CASE outcome = "slow" -> UpTo(SlowStrikeLimit, @ + 1)
                           [] outcome = "ok"   -> 0
                           [] OTHER            -> @]

\* A mutant: no recheck.
RescheduledNever(ledger, members) == ledger

\* The counters after a probe.
Counted(st, outcome) ==
    [st EXCEPT !.fails = IF outcome = "fail" THEN UpTo(FailThreshold, @ + 1) ELSE 0,
               !.slow  = IF outcome = "slow" THEN UpTo(SlowStrikeLimit, @ + 1) ELSE 0]

\* Slowness is held against addresses only.
Suspect(m, st) == st.fails > 0 \/ (m \in IPs /\ st.slow > 0)

\* A mutant: a member stays held when it has recovered.
ObservedStillHeld(m, outcome) ==
    LET st == Counted(throneProbe[m], outcome)
    IN  [st EXCEPT !.recheck = Suspect(m, st) /\ State(st) = "ok"]

\* The entry of a member after a probe, with both of its marks.
Observed(m, outcome) ==
    LET st == Counted(throneProbe[m], outcome)
    IN  [st EXCEPT !.held = @ /\ (st.fails > 0 \/ st.slow > 0),
                   !.recheck = Suspect(m, st) /\ State(st) = "ok"]

\* scheduleThroneRecheck.
Rescheduled(ledger, members) ==
    [m \in Member |-> IF m \in members THEN [ledger[m] EXCEPT !.recheck = TRUE] ELSE ledger[m]]

\* markThroneHeld.
Held(ledger, members) ==
    [m \in Member |-> IF m \in members THEN [ledger[m] EXCEPT !.held = TRUE, !.recheck = FALSE]
                                       ELSE ledger[m]]

\* Members taken out have no entry any more.
Forgotten(ledger, members) ==
    [m \in Member |-> IF m \in members THEN NoStat ELSE ledger[m]]

\* The latest outcomes with one more.
Prepended(outcome, latest) ==
    [i \in 1..UpTo(Depth, Len(latest) + 1) |-> IF i = 1 THEN outcome ELSE latest[i - 1]]

InState(ledger, members, state) == {m \in members : State(ledger[m]) = state}

\* The dead among members: of an all dead pool one stays, the one with the
\* fewest failures, which is a choice here.
DeadChoices(ledger, members) ==
    LET dead == InState(ledger, members, "dead")
    IN  IF dead = members THEN {dead \ {m} : m \in dead} ELSE {dead}

\* planThroneAction: the sets of members that may be the victims.
VictimChoices(ledger, p) ==
    LET known == p.members \ Explicit
        slow  == InState(ledger, known \cap IPs, "slow") \ p.priority
    IN  IF known = {} THEN {{}} ELSE {dead \cup slow : dead \in DeadChoices(ledger, known)}

\* throneNextDelay looks at every entry.
NextDelay(ledger) == IF \E m \in Member : ledger[m].recheck THEN "fast" ELSE "normal"

-----------------------------------------------------------------------------
(* Rounds of the probe.                                                    *)

\* The end of a round, with the ledger as it is then.
Sleep(ledger) ==
    /\ throneProbe' = ledger
    /\ pc' = "sleep" /\ delay' = NextDelay(ledger)
    /\ current' = EmptyPool /\ targets' = {} /\ replacements' = <<>>

\* probeThroneOnce: a copy of the pool, and whom to probe (throneProbeTargets).
Wake ==
    /\ pc = "sleep" /\ pool.members # {}
    /\ LET suspects == {m \in pool.members : throneProbe[m].recheck}
       IN  targets' = IF suspects = {} THEN pool.members ELSE suspects
    /\ current' = pool /\ pc' = "probe" /\ deferred' = {}
    /\ UNCHANGED <<pool, throneProbe, delay, replacements, outcomes>>

\* There is nothing to probe.
Skip ==
    /\ pc = "sleep" /\ pool.members = {}
    /\ deferred' = {}
    /\ Sleep(throneProbe)
    /\ UNCHANGED <<pool, outcomes>>

\* recordThroneProbeResults, and the first plan of reapThroneMembers.
Record ==
    /\ pc = "probe"
    /\ \E result \in [targets -> Outcome] :
        LET ledger == [m \in Member |-> IF m \in targets THEN Observed(m, result[m])
                                                         ELSE throneProbe[m]]
        IN  /\ outcomes' = [m \in Member |->
                  IF m \in targets THEN Prepended(result[m], outcomes[m]) ELSE outcomes[m]]
            /\ \E victims \in VictimChoices(ledger, current) :
                  IF victims = {} THEN Sleep(ledger)
                  ELSE /\ throneProbe' = ledger
                       /\ targets' = victims
                       /\ pc' = IF victims \cap IPs = {} THEN "ctl" ELSE "scan"
                       /\ UNCHANGED <<delay, current, replacements>>
    /\ UNCHANGED <<pool, deferred>>

\* proxyScanMu was held by others for 30 s: the addresses wait for a recheck,
\* the domains go on without them.
ScanBusy ==
    /\ pc = "scan"
    /\ deferred' = targets \cap IPs
    /\ LET ledger == Rescheduled(throneProbe, targets \cap IPs)
       IN  IF targets \subseteq IPs THEN Sleep(ledger)
           ELSE /\ throneProbe' = ledger
                /\ targets' = targets \ IPs /\ pc' = "ctl"
                /\ UNCHANGED <<delay, current, replacements>>
    /\ UNCHANGED <<pool, outcomes>>

\* findThroneReplacements: candidates outside of the copy, each for one victim.
ScanDone ==
    /\ pc = "scan"
    /\ \E found \in SUBSET (targets \cap IPs) : \E f \in [found -> IPs \ current.members] :
          /\ \A v, w \in found : f[v] = f[w] => v = w
          /\ replacements' = f
    /\ pc' = "ctl"
    /\ UNCHANGED <<pool, throneProbe, delay, current, targets, deferred, outcomes>>

\* cfnatCtlMu was held by others for 10 s.
CtlBusy ==
    /\ pc = "ctl"
    /\ deferred' = deferred \cup targets
    /\ Sleep(Rescheduled(throneProbe, targets))
    /\ UNCHANGED <<pool, outcomes>>

\* A mutant: the plan that was made before the waits.
VictimsPlanned == {targets}

\* The victims once cfnatCtlMu is held, in the pool as it is then.
VictimsNow == {victims \ deferred : victims \in VictimChoices(throneProbe, pool)}

\* The rest of reapThroneMembers.  What applyPoolLocked does is detailed in
\* PoolControl; here the change is made, or refused by it or by planFixedMembers
\* (which refuses a pool that leaves nothing to forward to).  Domains that its
\* gate takes out in passing count as a change by another task.
Reap ==
    /\ pc = "ctl"
    /\ \E victims \in VictimsNow :
        LET swapped == victims \cap DOMAIN replacements
            removed == swapped \cup (victims \cap Domains)
            held    == (victims \cap pool.members \cap IPs) \ swapped
            members == (pool.members \ removed) \cup {replacements[v] : v \in swapped}
        IN  \/ /\ Sleep(Held(throneProbe, held))
               /\ UNCHANGED pool
            \/ /\ removed # {} /\ members # {}
               /\ pool' = [members |-> members, priority |-> pool.priority \ removed]
               /\ Sleep(Held(Forgotten(throneProbe, removed), held))
    /\ UNCHANGED <<deferred, outcomes>>

\* What other tasks make of the pool.  Nobody takes the last member.  A kick, a
\* promotion or a replacement leaves the name of a departed member pinned.
Departures ==
    UNION {{[pool EXCEPT !.members = @ \ {m}],
            [members |-> pool.members \ {m}, priority |-> pool.priority \ {m}]} :
              m \in {m \in pool.members : pool.members # {m}}}

Arrivals == {[pool EXCEPT !.members = @ \cup {m}] : m \in Member \ pool.members}

Endorsements ==
    {[members |-> pool.members \cup {m}, priority |-> pool.priority \cup {m}] : m \in Pinnable}

Selections == {[pool EXCEPT !.priority = P] : P \in SUBSET (pool.members \cap Pinnable)}

\* Another task changes the pool or its pins.
Meddle ==
    /\ pool' \in Departures \cup Arrivals \cup Endorsements \cup Selections
    /\ UNCHANGED <<throneProbe, pc, delay, current, targets, replacements, deferred, outcomes>>

Init ==
    /\ pool \in [members : SUBSET Member, priority : {{}}]
    /\ throneProbe = [m \in Member |-> NoStat]
    /\ pc = "sleep" /\ delay = "normal"
    /\ current = EmptyPool /\ targets = {} /\ replacements = <<>> /\ deferred = {}
    /\ outcomes = [m \in Member |-> <<>>]

Round == Wake \/ Skip \/ Record \/ ScanBusy \/ ScanDone \/ CtlBusy \/ Reap

Next == Round \/ Meddle

Spec == Init /\ [][Next]_vars

\* The loop has a timer, and the probes, the scan and both waits time out.
FairSpec == Spec /\ WF_vars(Round)

-----------------------------------------------------------------------------
(* Properties.                                                             *)

\* Types of the state.
TypeOK ==
    /\ pool \in [members : SUBSET Member, priority : SUBSET Member]
    /\ throneProbe \in [Member -> [fails : 0..FailThreshold, slow : 0..SlowStrikeLimit,
                                   recheck : BOOLEAN, held : BOOLEAN]]
    /\ pc \in {"sleep", "probe", "scan", "ctl"} /\ delay \in {"normal", "fast"}
    /\ current.members \subseteq Member /\ current.priority \subseteq Member
    /\ targets \subseteq current.members /\ deferred \subseteq Member
    /\ \E victims \in SUBSET (targets \cap IPs) : replacements \in [victims -> IPs]
    /\ pc # "ctl" => replacements = <<>>
    /\ \A m \in Member : outcomes[m] \in Seq(Outcome) /\ Len(outcomes[m]) <= Depth

InARow(m, outcome, n) ==
    Len(outcomes[m]) >= n /\ \A i \in 1..n : outcomes[m][i] = outcome

Reaped == IF pc = "ctl" /\ pc' = "sleep" THEN pool.members \ pool'.members ELSE {}

(***************************************************************************)
(* No member is taken out for a jitter: its latest probes, as many as the  *)
(* threshold says, have all failed, or it is an address and they were all  *)
(* slow (recordThroneProbeResults, planThroneAction).  Other tasks may put *)
(* members in and take them out between the probes and the change, and the *)
(* rounds that probe suspects only leave the others' entries as they were. *)
(***************************************************************************)
FirmReap ==
    [][\A m \in Reaped :
        \/ InARow(m, "fail", FailThreshold)
        \/ m \in IPs /\ InARow(m, "slow", SlowStrikeLimit)]_vars

(***************************************************************************)
(* A member that is pinned at the moment of the change goes only if it is  *)
(* dead, and an explicit domain never (throneActionPlan under the lock),   *)
(* whatever was pinned when the victims were chosen the first time.        *)
(***************************************************************************)
PinnedOnlyForDeath ==
    [][/\ Reaped \cap Explicit = {}
       /\ \A m \in Reaped \cap pool.priority : InARow(m, "fail", FailThreshold)]_vars

(***************************************************************************)
(* A mark says that the latest probe of the member was bad: a member that  *)
(* was held, deferred or suspected and is well again loses both marks,     *)
(* and neither a round of suspects nor a change of the pool in between     *)
(* leaves one on it (recordThroneProbeResults, markThroneHeld).            *)
(***************************************************************************)
MarksEarned ==
    \A m \in Member : throneProbe[m].recheck \/ throneProbe[m].held
                        => outcomes[m] # <<>> /\ outcomes[m][1] # "ok"

(***************************************************************************)
(* A victim that had to wait because a lock was busy is looked at again    *)
(* soon, not at the normal interval (scheduleThroneRecheck), though other  *)
(* victims of the same round may be held or replaced afterwards.           *)
(***************************************************************************)
BusyRetriedSoon == pc = "sleep" /\ deferred # {} => delay = "fast"

(***************************************************************************)
(* The fast rhythm ends once no member is under suspicion, as the comment  *)
(* of throneNextDelay says.  The code does not keep it: the entry of a     *)
(* suspect that another task takes out of the pool keeps its mark.         *)
(***************************************************************************)
RhythmReturns ==
    ~<>[](/\ delay = "fast" /\ pool.members # {}
          /\ \A m \in pool.members : ~throneProbe[m].recheck)

=============================================================================

------------------------------ MODULE SwitchGuard ------------------------------
(***************************************************************************)
(* The guard in front of automatic switches of the pool (allowPoolSwitch)  *)
(* and the time of the last switch that it goes by.  Scheduler and         *)
(* re-election run under proxyScanMu, so one of them at a time: it stamps  *)
(* its time, asks the guard, waits for cfnatCtlMu, applies a pool, and     *)
(* marks the switch with its stamp.  Whoever else changes the pool asks    *)
(* nobody, and marks with a stamp of its own, some of them before a scan   *)
(* or a wait.  A restart takes the time that the saved pool carries.       *)
(*                                                                         *)
(* Times are ages that saturate where the guard cannot tell them apart.    *)
(* Whether all members are dead or all are healthy is a choice; what is in *)
(* the pool is left out but for the number of addresses.  Pools and locks  *)
(* are in PoolControl.                                                     *)
(***************************************************************************)
EXTENDS Integers

CONSTANTS
    Cooldown,      \* PROXY_POOL_SWITCH_COOLDOWN_MINUTES, in ticks
    Lag,           \* bounds the time from the stamp of a switch to its mark
    MinSize,       \* PROXY_AUTO_MIN_POOL
    MaxSize        \* bounds the addresses in the pool

ASSUME GuardAssumption ==
    /\ Cooldown \in Nat /\ Lag \in Nat /\ Lag < Cooldown
    /\ MinSize \in Nat \ {0} /\ MaxSize \in Nat /\ MinSize <= MaxSize

VARIABLES
    size,            \* addresses in the pool
    lastSwitch,      \* age of lastPoolSwitchAt
    savedAt,         \* age of UpdatedAt in the saved pool
    automatic,       \* the automatic switch under way: where it is, age of its stamp, verdict
    manual,          \* another change of the pool that is applied and not marked
    sinceAuto        \* history: age of the last automatic switch

guardVars == <<size, lastSwitch, savedAt, automatic, manual, sinceAuto>>

Forever == Cooldown + Lag
Older(age) == IF age < Forever THEN age + 1 ELSE age

NoSwitch == [pc |-> "idle", stamp |-> 0, verdict |-> "none"]
NoChange == [busy |-> FALSE, stamp |-> 0]

-----------------------------------------------------------------------------
\* A mutant: a restart forgets the last switch.
ForgetsCooldown == lastSwitch' = Forever

\* seedPoolGuardFromActive.
SeedGuard == lastSwitch' = savedAt

\* allowPoolSwitch, for a caller whose time is stamp ago.
Verdict(allDead, healthy, stamp) ==
    CASE allDead /\ size > 0                 -> "rescue"
      [] size < MinSize                      -> "understaffed"
      [] lastSwitch - stamp < Cooldown       -> "cooldown"
      [] healthy                             -> "healthy"
      [] OTHER                               -> "ok"

\* proxyScanMu is taken, the candidates are examined, and the time is read.
StampSwitch ==
    /\ automatic.pc = "idle"
    /\ automatic' = [NoSwitch EXCEPT !.pc = "stamped"]
    /\ UNCHANGED <<size, lastSwitch, savedAt, manual, sinceAuto>>

AskGuard ==
    /\ automatic.pc = "stamped"
    /\ \E allDead, healthy \in BOOLEAN :
        LET verdict == Verdict(allDead, healthy, automatic.stamp)
        IN  automatic' = IF verdict \in {"rescue", "understaffed", "ok"}
                         THEN [automatic EXCEPT !.pc = "allowed", !.verdict = verdict]
                         ELSE NoSwitch
    /\ UNCHANGED <<size, lastSwitch, savedAt, manual, sinceAuto>>

\* A re-election finds the pool as it is: saved with a new time, and not marked.
SaveReverified ==
    /\ automatic.pc = "stamped"
    /\ savedAt' = automatic.stamp
    /\ automatic' = NoSwitch
    /\ UNCHANGED <<size, lastSwitch, manual, sinceAuto>>

ApplySwitch ==
    /\ automatic.pc = "allowed"
    /\ size' \in 1..MaxSize
    /\ savedAt' = automatic.stamp
    /\ sinceAuto' = 0
    /\ automatic' = [automatic EXCEPT !.pc = "applied"]
    /\ UNCHANGED <<lastSwitch, manual>>

\* Nothing passed, or cfnat or the file failed.
DropSwitch ==
    /\ automatic.pc \in {"stamped", "allowed"}
    /\ automatic' = NoSwitch
    /\ UNCHANGED <<size, lastSwitch, savedAt, manual, sinceAuto>>

\* markPoolSwitched.
MarkSwitch ==
    /\ automatic.pc = "applied"
    /\ lastSwitch' = automatic.stamp
    /\ automatic' = NoSwitch
    /\ UNCHANGED <<size, savedAt, manual, sinceAuto>>

\* A handler, a refill, a reap or a revalidation, with a stamp that may be old.
ApplyChange ==
    /\ ~manual.busy
    /\ \E stamp \in 0..Lag :
          savedAt' = stamp /\ manual' = [busy |-> TRUE, stamp |-> stamp]
    /\ size' \in 0..MaxSize
    /\ UNCHANGED <<lastSwitch, automatic, sinceAuto>>

MarkChange ==
    /\ manual.busy
    /\ lastSwitch' = manual.stamp
    /\ manual' = NoChange
    /\ UNCHANGED <<size, savedAt, automatic, sinceAuto>>

\* reconcilePoolDomains saves the pool with a new time and marks nothing.
ApplyDomains ==
    /\ savedAt' = 0
    /\ UNCHANGED <<size, lastSwitch, automatic, manual, sinceAuto>>

RestartGuard ==
    /\ SeedGuard
    /\ automatic' = NoSwitch /\ manual' = NoChange
    /\ UNCHANGED <<size, savedAt, sinceAuto>>

GuardTick ==
    /\ automatic.pc = "idle" \/ automatic.stamp < Lag
    /\ ~manual.busy \/ manual.stamp < Lag
    /\ lastSwitch' = Older(lastSwitch) /\ savedAt' = Older(savedAt)
    /\ sinceAuto' = Older(sinceAuto)
    /\ automatic' = IF automatic.pc = "idle" THEN automatic
                    ELSE [automatic EXCEPT !.stamp = @ + 1]
    /\ manual' = IF manual.busy THEN [manual EXCEPT !.stamp = @ + 1] ELSE manual
    /\ UNCHANGED size

GuardInit ==
    /\ size = 0
    /\ lastSwitch = Forever /\ savedAt = Forever /\ sinceAuto = Forever
    /\ automatic = NoSwitch /\ manual = NoChange

GuardNext ==
    \/ StampSwitch \/ AskGuard \/ SaveReverified \/ ApplySwitch \/ DropSwitch \/ MarkSwitch
    \/ ApplyChange \/ MarkChange \/ ApplyDomains \/ RestartGuard \/ GuardTick

GuardSpec == GuardInit /\ [][GuardNext]_guardVars

-----------------------------------------------------------------------------
\* Types of the guard.
GuardTypes ==
    /\ size \in 0..MaxSize
    /\ {lastSwitch, savedAt, sinceAuto} \subseteq 0..Forever
    /\ automatic \in [pc : {"idle", "stamped", "allowed", "applied"}, stamp : 0..Lag,
                      verdict : {"none", "rescue", "understaffed", "ok"}]
    /\ manual \in [busy : BOOLEAN, stamp : 0..Lag]

(***************************************************************************)
(* Automatic switches keep their distance (poolSwitchCooldown): unless the *)
(* pool was dead or understaffed when the guard was asked, the last one is *)
(* a cooldown ago, less what its stamp or that of a change in between was  *)
(* late, whatever marks, restarts and other changes came in between.       *)
(***************************************************************************)
CooldownKept ==
    [][automatic.pc = "allowed" /\ automatic'.pc = "applied" /\ automatic.verdict = "ok"
         => sinceAuto >= Cooldown - Lag]_guardVars

=============================================================================

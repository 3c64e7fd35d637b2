----------------------------- MODULE SwitchProofs -----------------------------
(***************************************************************************)
(* Proofs about what a replacement of the pool relies on: the bookkeeping  *)
(* of the processes that are stopped and started, for any number of        *)
(* callers, and the guard in front of automatic switches, for any cooldown *)
(* and any lag.  The two share no state.                                   *)
(***************************************************************************)
EXTENDS ManagedProcess, SwitchGuard, TLAPS

Call == [pc : Steps, op : Ops, proc : Procs \cup {NoProc}]

InStop(k) == call[k].pc \in {"cancel", "grace", "await"}

\* A stop has a process to end, and one of cfnat knows of everything that is still there.
StopKnowsAll ==
    \A k \in Callers :
        InStop(k) => /\ call[k].proc # NoProc
                     /\ binary = "cfnat" => unwaited \subseteq {call[k].proc}

\* The inductive invariant.
ProcInv == ProcessTypes /\ OneProcess /\ CtlCovers /\ PortFree /\ StopKnowsAll

\* What the invariant says of one caller.
CallerSafe(k) ==
    /\ call[k].pc # "idle" => IF binary = "cfnat" THEN ctlHolder = k ELSE call[k].op \in {"stop", "start"}
    /\ binary = "cfnat" /\ call[k].pc \in {"start", "rollback"} => unwaited = {}
    /\ InStop(k) => call[k].proc # NoProc /\ (binary = "cfnat" => unwaited \subseteq {call[k].proc})

LEMMA ProcInvInit == ProcessInit => ProcInv
<1> SUFFICES ASSUME ProcessInit PROVE ProcInv
  OBVIOUS
<1>1. ProcessTypes
  BY DEF ProcessInit, ProcessTypes, Resting, Steps, Ops
<1>2. \A k \in Callers : call[k].pc = "idle"
  BY DEF ProcessInit, Resting
<1>3. OneProcess
  BY DEF ProcessInit, OneProcess
<1> QED BY <1>1, <1>2, <1>3 DEF ProcInv, CtlCovers, PortFree, StopKnowsAll, InStop

-----------------------------------------------------------------------------
(* The steps of a caller.                                                  *)

\* What a caller does with the processes as they are.
LEMMA CallerMoves ==
    ASSUME ProcInv, NEW k \in Callers, NEW pc \in Steps, NEW op \in Ops,
           NEW proc \in Procs \cup {NoProc},
           Moves(k, pc, op, proc),
           pc # "idle" => IF binary = "cfnat" THEN ctlHolder' = k ELSE op \in {"stop", "start"},
           binary = "cfnat" /\ pc \in {"start", "rollback"} => unwaited = {},
           pc \in {"cancel", "grace", "await"} =>
               proc # NoProc /\ (binary = "cfnat" => unwaited \subseteq {proc}),
           \/ ctlHolder' = ctlHolder
           \/ ctlHolder = NoOne /\ ctlHolder' = k
           \/ ctlHolder = k /\ ctlHolder' = NoOne,
           doomed' \subseteq Procs, exitKnown' \in BOOLEAN, exitKnown' => exitKnown,
           UNCHANGED <<binary, cmd, alive, unwaited>>
    PROVE  ProcInv'
<1> DEFINE next == [pc |-> pc, op |-> op, proc |-> proc]
<1>1. /\ call' \in [Callers -> Call]
      /\ call'[k] = next /\ \A j \in Callers \ {k} : call'[j] = call[j]
  BY DEF Moves, ProcInv, ProcessTypes, Call
<1>2. ctlHolder' \in Callers \cup {NoOne}
  BY DEF ProcInv, ProcessTypes
<1>3. ProcessTypes'
  BY <1>1, <1>2 DEF ProcInv, ProcessTypes, Call
<1>4. OneProcess'
  BY DEF ProcInv, OneProcess
<1>5. ASSUME NEW j \in Callers PROVE CallerSafe(j)'
  <2>1. CASE j = k
    BY <1>1, <2>1 DEF CallerSafe, InStop
  <2>2. CASE j # k
    <3>1. call'[j] = call[j] /\ CallerSafe(j)
      BY <1>1, <2>2 DEF ProcInv, CallerSafe, CtlCovers, PortFree, StopKnowsAll, InStop
    <3>2. ctlHolder = j => ctlHolder' = j
      BY <2>2, CallersAssumption
    <3> QED BY <3>1, <3>2 DEF CallerSafe, InStop
  <2> QED BY <2>1, <2>2
<1> QED BY <1>3, <1>4, <1>5 DEF ProcInv, CallerSafe, CtlCovers, PortFree, StopKnowsAll, InStop

LEMMA CallFields ==
    ASSUME ProcInv, NEW k \in Callers
    PROVE  /\ call[k].pc \in Steps /\ call[k].op \in Ops /\ call[k].proc \in Procs \cup {NoProc}
           /\ CallerSafe(k)
BY DEF ProcInv, ProcessTypes, CallerSafe, CtlCovers, PortFree, StopKnowsAll, InStop

LEMMA Kept ==
    ASSUME ProcInv, UNCHANGED <<exitKnown, doomed>>
    PROVE  doomed' \subseteq Procs /\ exitKnown' \in BOOLEAN /\ (exitKnown' => exitKnown)
BY DEF ProcInv, ProcessTypes

\* A caller is done.
LEMMA BackKeeps ==
    ASSUME ProcInv, NEW k \in Callers, Back(k), doomed' \subseteq Procs,
           exitKnown' \in BOOLEAN, exitKnown' => exitKnown, UNCHANGED <<binary, cmd, alive, unwaited>>
    PROVE  ProcInv'
<1>1. Moves(k, "idle", "none", NoProc)
  BY DEF Back, Moves, Resting
<1>2. \/ ctlHolder' = ctlHolder
      \/ ctlHolder = k /\ ctlHolder' = NoOne
  BY DEF Back
<1> QED BY <1>1, <1>2, CallerMoves DEF Steps, Ops

\* A caller goes on, and keeps cfnatCtlMu if it has it.
LEMMA GoesKeeps ==
    ASSUME ProcInv, NEW k \in Callers, NEW pc \in Steps, Goes(k, pc), call[k].pc # "idle",
           binary = "cfnat" /\ pc \in {"start", "rollback"} => unwaited = {},
           pc \in {"cancel", "grace", "await"} => InStop(k),
           doomed' \subseteq Procs, exitKnown' \in BOOLEAN, exitKnown' => exitKnown,
           UNCHANGED <<binary, cmd, alive, unwaited, ctlHolder>>
    PROVE  ProcInv'
<1>1. call[k].op \in Ops /\ call[k].proc \in Procs \cup {NoProc} /\ CallerSafe(k)
  BY CallFields
<1> DEFINE op == call[k].op  proc == call[k].proc
<1>2. pc # "idle" => IF binary = "cfnat" THEN ctlHolder' = k ELSE op \in {"stop", "start"}
  BY <1>1 DEF CallerSafe
<1>3. pc \in {"cancel", "grace", "await"} =>
          proc # NoProc /\ (binary = "cfnat" => unwaited \subseteq {proc})
  BY <1>1 DEF CallerSafe
<1>4. Moves(k, pc, op, proc)
  BY DEF Goes
<1> HIDE DEF op, proc
<1>5. op \in Ops /\ proc \in Procs \cup {NoProc}
  BY <1>1 DEF op, proc
<1> QED BY <1>2, <1>3, <1>4, <1>5, CallerMoves

LEMMA BeginKeeps == ASSUME ProcInv, NEW k \in Callers, Begin(k) PROVE ProcInv'
<1>1. UNCHANGED <<binary, cmd, exitKnown, alive, unwaited, doomed>>
  BY DEF Begin
<1>2. PICK pc \in {"stop", "start"}, op \in {"stop", "start", "restart", "resume"} :
          /\ Moves(k, pc, op, NoProc)
          /\ \/ binary = "cfnat" /\ pc = "stop" /\ ctlHolder = NoOne /\ ctlHolder' = k
             \/ binary = "cfdata" /\ op \in {"stop", "start"} /\ UNCHANGED ctlHolder
  BY DEF Begin
<1>3. NoProc \in Procs \cup {NoProc} /\ pc \in Steps /\ op \in Ops
  BY DEF Steps, Ops
<1> QED BY <1>1, <1>2, <1>3, Kept, CallerMoves

LEMMA AfterStopKeeps ==
    ASSUME ProcInv, NEW k \in Callers, AfterStop(k), call[k].pc # "idle",
           binary = "cfnat" => unwaited = {},
           UNCHANGED <<binary, cmd, exitKnown, alive, unwaited, doomed>>
    PROVE  ProcInv'
<1>1. CASE Back(k)
  BY <1>1, Kept, BackKeeps
<1>2. CASE \E pc \in {"rollback", "start"} : Goes(k, pc) /\ UNCHANGED ctlHolder
  BY <1>2, Kept, GoesKeeps DEF Steps
<1> QED BY <1>1, <1>2 DEF AfterStop

LEMMA StopLooksKeeps == ASSUME ProcInv, NEW k \in Callers, StopLooks(k) PROVE ProcInv'
<1>1. cmd \in Procs \cup {NoProc} /\ unwaited \subseteq {cmd} /\ NoProc \notin Procs
      /\ unwaited \subseteq Procs /\ (exitKnown => unwaited = {})
  BY DEF ProcInv, ProcessTypes, OneProcess, Procs, NoProc
<1>2. call[k].pc = "stop" /\ call[k].op \in Ops /\ CallerSafe(k)
      /\ UNCHANGED <<binary, cmd, exitKnown, alive, unwaited, doomed>>
  BY CallFields DEF StopLooks, In
<1>3. CASE LooksRunning /\ Moves(k, "cancel", call[k].op, cmd) /\ UNCHANGED ctlHolder
  <2>1. cmd # NoProc /\ "cancel" \in Steps
    BY <1>3 DEF LooksRunning, Steps
  <2>2. IF binary = "cfnat" THEN ctlHolder' = k ELSE call[k].op \in {"stop", "start"}
    BY <1>2, <1>3 DEF CallerSafe
  <2> DEFINE op == call[k].op
  <2>3. op \in Ops /\ Moves(k, "cancel", op, cmd)
    BY <1>2, <1>3
  <2> HIDE DEF op
  <2> QED BY <1>1, <1>2, <1>3, <2>1, <2>2, <2>3, Kept, CallerMoves DEF op
<1>4. CASE ~LooksRunning /\ AfterStop(k)
  <2>1. unwaited = {}
    BY <1>1, <1>4 DEF LooksRunning
  <2> QED BY <1>2, <1>4, <2>1, AfterStopKeeps
<1> QED BY <1>3, <1>4 DEF StopLooks

LEMMA StopCancelsKeeps == ASSUME ProcInv, NEW k \in Callers, StopCancels(k) PROVE ProcInv'
<1>1. call[k].pc = "cancel" /\ call[k].proc \in Procs
  BY CallFields DEF StopCancels, In, CallerSafe, InStop
<1>2. exitKnown' \in BOOLEAN /\ (exitKnown' => exitKnown) /\ doomed' \subseteq Procs
  BY <1>1 DEF StopCancels, ProcInv, ProcessTypes
<1> QED BY <1>1, <1>2, GoesKeeps DEF StopCancels, Steps, InStop

LEMMA StopSeesDoneKeeps == ASSUME ProcInv, NEW k \in Callers, StopSeesDone(k) PROVE ProcInv'
<1>1. InStop(k) /\ call[k].pc # "idle"
  BY DEF StopSeesDone, InStop
<1>2. binary = "cfnat" => unwaited = {}
  BY <1>1, CallFields DEF StopSeesDone, Done, CallerSafe
<1> QED BY <1>1, <1>2, AfterStopKeeps DEF StopSeesDone

LEMMA StopKillsKeeps == ASSUME ProcInv, NEW k \in Callers, StopKills(k) PROVE ProcInv'
<1>1. call[k].pc = "grace" /\ call[k].proc \in Procs
  BY CallFields DEF StopKills, In, CallerSafe, InStop
<1>2. exitKnown' \in BOOLEAN /\ (exitKnown' => exitKnown) /\ doomed' \subseteq Procs
  BY <1>1 DEF StopKills, ProcInv, ProcessTypes
<1>3. CASE Back(k)
  BY <1>2, <1>3, BackKeeps DEF StopKills
<1>4. CASE Goes(k, "await") /\ UNCHANGED ctlHolder
  BY <1>1, <1>2, <1>4, GoesKeeps DEF StopKills, Steps, InStop
<1> QED BY <1>3, <1>4 DEF StopKills

\* A start that fails or is refused: nothing is running that has to be waited for.
LEMMA RefusedKeeps ==
    ASSUME ProcInv, NEW k \in Callers, Refused(k), call[k].pc \in {"start", "rollback"},
           doomed' \subseteq Procs, exitKnown' \in BOOLEAN, exitKnown' => exitKnown,
           UNCHANGED <<binary, cmd, alive, unwaited>>
    PROVE  ProcInv'
<1>1. CASE Back(k)
  BY <1>1, BackKeeps
<1>2. CASE Goes(k, "rollback") /\ UNCHANGED ctlHolder
  <2>1. binary = "cfnat" => unwaited = {}
    BY CallFields DEF CallerSafe
  <2> QED BY <1>2, <2>1, GoesKeeps DEF Steps
<1> QED BY <1>1, <1>2 DEF Refused

LEMMA RefusalsKeep ==
    ASSUME ProcInv, NEW k \in Callers, ResumeSkips(k) \/ StartRefused(k) \/ StartFails(k)
    PROVE  ProcInv'
<1>1. CASE ResumeSkips(k)
  BY <1>1, Kept, BackKeeps DEF ResumeSkips
<1>2. CASE StartRefused(k)
  BY <1>2, Kept, RefusedKeeps DEF StartRefused
<1>3. CASE StartFails(k)
  <2>1. doomed' \subseteq Procs /\ exitKnown' = FALSE
    BY <1>3 DEF StartFails, ProcInv, ProcessTypes
  <2> QED BY <1>3, <2>1, RefusedKeeps DEF StartFails
<1> QED BY <1>1, <1>2, <1>3

-----------------------------------------------------------------------------
(* The steps that change the processes.                                    *)

\* A start that is accepted finds that every process has been waited for.
LEMMA StartWorksKeeps == ASSUME ProcInv, NEW k \in Callers, StartWorks(k) PROVE ProcInv'
<1>1. unwaited = {}
  BY DEF StartWorks, Accepts, LooksRunning, ProcInv, ProcessTypes, OneProcess, Procs, NoProc
<1>2. PICK p \in Procs : cmd' = p /\ alive' = alive \cup {p} /\ unwaited' = unwaited \cup {p}
  BY DEF StartWorks, Unknown
<1>3. exitKnown' = FALSE /\ UNCHANGED <<binary, doomed>> /\ call[k].pc \in {"start", "rollback"}
  BY DEF StartWorks
<1>4. CallerSafe(k) /\ call[k].op \in Ops
  BY CallFields
<1>5. PICK pc \in {"idle", "stop"}, op \in {"none", "undo"} :
          /\ Moves(k, pc, op, NoProc)
          /\ pc = "stop" => binary = "cfnat"
          /\ \/ ctlHolder' = ctlHolder
             \/ pc = "idle" /\ ctlHolder = k /\ ctlHolder' = NoOne
  <2>1. CASE Back(k)
    BY <2>1 DEF Back, Moves, Resting
  <2>2. CASE call[k].op = "restart" /\ Moves(k, "stop", "undo", NoProc) /\ UNCHANGED ctlHolder
    <3>1. binary = "cfnat"
      BY <1>3, <1>4, <2>2 DEF CallerSafe
    <3> QED BY <2>2, <3>1
  <2> QED BY <2>1, <2>2 DEF StartWorks
<1>6. /\ call' \in [Callers -> Call]
      /\ call'[k].pc = pc /\ \A j \in Callers \ {k} : call'[j] = call[j]
  BY <1>5 DEF Moves, ProcInv, ProcessTypes, Call, Steps, Ops
<1>7. ProcessTypes'
  <2>1. ctlHolder' \in Callers \cup {NoOne}
    BY <1>5 DEF ProcInv, ProcessTypes
  <2>2. alive' \subseteq unwaited' /\ unwaited' \subseteq Procs /\ doomed' \subseteq Procs
    BY <1>2, <1>3 DEF ProcInv, ProcessTypes
  <2> QED BY <1>2, <1>3, <1>6, <2>1, <2>2 DEF ProcInv, ProcessTypes, Call
<1>8. OneProcess'
  BY <1>1, <1>2, <1>3 DEF OneProcess
<1>9. ASSUME NEW j \in Callers PROVE CallerSafe(j)'
  <2>1. CASE j = k
    BY <1>3, <1>4, <1>5, <1>6, <2>1 DEF CallerSafe, InStop
  <2>2. CASE j # k
    <3>1. call'[j] = call[j] /\ CallerSafe(j)
      BY <1>6, <2>2, CallFields
    <3>2. binary = "cfnat" => call[j].pc = "idle"
      BY <1>3, <1>4, <2>2, <3>1 DEF CallerSafe
    <3> QED BY <1>3, <3>1, <3>2 DEF CallerSafe, InStop
  <2> QED BY <2>1, <2>2
<1> QED BY <1>7, <1>8, <1>9 DEF ProcInv, CallerSafe, CtlCovers, PortFree, StopKnowsAll, InStop

LEMMA ProcessEnds ==
    ASSUME ProcInv, NEW p \in Procs, Exit(p) \/ WaiterReturns(p)
    PROVE  ProcInv'
<1>1. UNCHANGED <<binary, cmd, ctlHolder, call>> /\ unwaited' \subseteq unwaited
      /\ doomed' \subseteq doomed /\ exitKnown' \in BOOLEAN
  BY DEF Exit, WaiterReturns, ProcInv, ProcessTypes
<1>2. alive' \subseteq unwaited'
  BY DEF Exit, WaiterReturns, ProcInv, ProcessTypes
<1>3. OneProcess'
  <2>1. CASE Exit(p)
    BY <2>1 DEF Exit, ProcInv, OneProcess
  <2>2. CASE WaiterReturns(p)
    BY <2>2 DEF WaiterReturns, ProcInv, OneProcess
  <2> QED BY <2>1, <2>2
<1>4. ProcessTypes'
  BY <1>1, <1>2 DEF ProcInv, ProcessTypes
<1>5. CtlCovers' /\ PortFree' /\ StopKnowsAll'
  BY <1>1 DEF ProcInv, CtlCovers, PortFree, StopKnowsAll, InStop
<1> QED BY <1>3, <1>4, <1>5 DEF ProcInv

LEMMA ProcInvNext == ProcInv /\ [ProcessNext]_processVars => ProcInv'
<1> SUFFICES ASSUME ProcInv, [ProcessNext]_processVars PROVE ProcInv'
  OBVIOUS
<1>1. CASE \E k \in Callers : Begin(k) \/ Works(k)
  BY <1>1, BeginKeeps, StopLooksKeeps, StopCancelsKeeps, StopSeesDoneKeeps, StopKillsKeeps,
     RefusalsKeep, StartWorksKeeps DEF Works
<1>2. CASE \E p \in Procs : Exit(p) \/ WaiterReturns(p)
  BY <1>2, ProcessEnds
<1>3. CASE UNCHANGED processVars
  BY <1>3 DEF processVars, ProcInv, ProcessTypes, OneProcess, CtlCovers, PortFree, StopKnowsAll, InStop
<1> QED BY <1>1, <1>2, <1>3 DEF ProcessNext

-----------------------------------------------------------------------------
(* The results.                                                            *)

\* The inductive invariant holds in every reachable state.
THEOREM ProcInvHolds == ProcessSpec => []ProcInv
BY ProcInvInit, ProcInvNext, PTL DEF ProcessSpec

\* Any number of callers that stop and start leave one process at most, and a known
\* exit is that of the last one.
THEOREM OneProcessCorrect == ProcessSpec => []OneProcess
<1>1. ProcInv => OneProcess BY DEF ProcInv
<1> QED BY <1>1, ProcInvHolds, PTL

\* Whenever cfnat is to be started, the process before it has ended.
THEOREM PortFreeCorrect == ProcessSpec => []PortFree
<1>1. ProcInv => PortFree BY DEF ProcInv
<1> QED BY <1>1, ProcInvHolds, PTL

-----------------------------------------------------------------------------
(***************************************************************************)
(* The guard.  A mark is at most Lag older than the switch that it marks,  *)
(* and so is the time that the saved pool carries, which a restart goes    *)
(* by; only between the application of a switch and its mark the guard     *)
(* does not know of it.  What it has allowed on these grounds stays        *)
(* allowed, since only an automatic switch resets sinceAuto.               *)
(***************************************************************************)
GuardInv ==
    /\ GuardTypes
    /\ savedAt <= sinceAuto + Lag
    /\ automatic.pc # "applied" => lastSwitch <= sinceAuto + Lag
    /\ automatic.pc = "allowed" /\ automatic.verdict = "ok" => sinceAuto >= Cooldown - Lag

GuardPCs == {"idle", "stamped", "allowed", "applied"}
Verdicts == {"none", "rescue", "understaffed", "ok"}

LEMMA GuardNumbers ==
    ASSUME GuardTypes
    PROVE  /\ Cooldown \in Nat /\ Lag \in Nat /\ Lag < Cooldown /\ Forever = Cooldown + Lag
           /\ lastSwitch \in 0..Forever /\ savedAt \in 0..Forever /\ sinceAuto \in 0..Forever
           /\ automatic.stamp \in 0..Lag /\ manual.stamp \in 0..Lag
           /\ 0..Lag \subseteq 0..Forever
           /\ automatic.pc \in GuardPCs /\ automatic.verdict \in Verdicts
BY GuardAssumption DEF GuardTypes, Forever, GuardPCs, Verdicts

LEMMA OlderType ==
    ASSUME NEW age \in 0..Forever
    PROVE  Older(age) \in 0..Forever /\ Older(age) \in {age, age + 1} /\ (Older(age) = age => age = Forever)
BY GuardAssumption DEF Older, Forever

LEMMA NoSwitchType ==
    /\ NoSwitch \in [pc : GuardPCs, stamp : 0..Lag, verdict : Verdicts] /\ NoSwitch.pc = "idle"
    /\ NoChange \in [busy : BOOLEAN, stamp : 0..Lag]
BY GuardAssumption DEF NoSwitch, NoChange, GuardPCs, Verdicts

LEMMA GuardInvInit == GuardInit => GuardInv
<1> SUFFICES ASSUME GuardInit PROVE GuardInv
  OBVIOUS
<1>1. Forever \in Nat /\ Forever \in 0..Forever /\ 0 \in 0..MaxSize /\ Lag \in Nat
  BY GuardAssumption DEF Forever
<1>2. GuardTypes
  BY <1>1, NoSwitchType DEF GuardInit, GuardTypes, GuardPCs, Verdicts
<1> QED BY <1>1, <1>2, NoSwitchType DEF GuardInit, GuardInv

LEMMA GuardTypesNext == GuardTypes /\ [GuardNext]_guardVars => GuardTypes'
<1> SUFFICES ASSUME GuardTypes, [GuardNext]_guardVars PROVE GuardTypes'
  OBVIOUS
<1>1. /\ Lag \in Nat /\ 0 \in 0..Lag /\ 0 \in 0..Forever /\ 0 \in 0..MaxSize
      /\ 1..MaxSize \subseteq 0..MaxSize /\ 0..Lag \subseteq 0..Forever
  BY GuardAssumption DEF Forever
<1>2. CASE StampSwitch
  BY <1>1, <1>2, NoSwitchType DEF StampSwitch, GuardTypes, NoSwitch
<1>3. CASE AskGuard
  BY <1>3, NoSwitchType DEF AskGuard, GuardTypes, GuardPCs, Verdicts
<1>4. CASE SaveReverified \/ DropSwitch \/ MarkSwitch
  BY <1>1, <1>4, NoSwitchType DEF SaveReverified, DropSwitch, MarkSwitch, GuardTypes, GuardPCs, Verdicts
<1>5. CASE ApplySwitch
  BY <1>1, <1>5 DEF ApplySwitch, GuardTypes
<1>6. CASE ApplyChange
  BY <1>1, <1>6 DEF ApplyChange, GuardTypes
<1>7. CASE MarkChange \/ ApplyDomains \/ RestartGuard
  BY <1>1, <1>7, NoSwitchType
  DEF MarkChange, ApplyDomains, RestartGuard, SeedGuard, GuardTypes, GuardPCs, Verdicts
<1>8. CASE GuardTick
  <2>1. /\ Older(lastSwitch) \in 0..Forever /\ Older(savedAt) \in 0..Forever
        /\ Older(sinceAuto) \in 0..Forever
    BY OlderType DEF GuardTypes
  <2>2. automatic.pc # "idle" => automatic.stamp + 1 \in 0..Lag
    BY <1>1, <1>8 DEF GuardTick, GuardTypes
  <2>3. manual.busy => manual.stamp + 1 \in 0..Lag
    BY <1>1, <1>8 DEF GuardTick, GuardTypes
  <2> QED BY <1>8, <2>1, <2>2, <2>3 DEF GuardTick, GuardTypes
<1>9. CASE UNCHANGED guardVars
  BY <1>9 DEF guardVars, GuardTypes
<1> QED BY <1>2, <1>3, <1>4, <1>5, <1>6, <1>7, <1>8, <1>9 DEF GuardNext

LEMMA GuardInvNext == GuardInv /\ [GuardNext]_guardVars => GuardInv'
<1> SUFFICES ASSUME GuardInv, [GuardNext]_guardVars PROVE GuardInv'
  OBVIOUS
<1>1. GuardTypes /\ GuardTypes'
  BY GuardTypesNext DEF GuardInv
<1>2. /\ savedAt' <= sinceAuto' + Lag
      /\ automatic'.pc # "applied" => lastSwitch' <= sinceAuto' + Lag
      /\ automatic'.pc = "allowed" /\ automatic'.verdict = "ok" => sinceAuto' >= Cooldown - Lag
  <2> USE <1>1, GuardNumbers
  <2>1. CASE StampSwitch
    BY <2>1 DEF StampSwitch, GuardInv, NoSwitch
  <2>2. CASE AskGuard
    <3>1. PICK allDead, healthy \in BOOLEAN :
            automatic' = IF Verdict(allDead, healthy, automatic.stamp) \in {"rescue", "understaffed", "ok"}
                         THEN [automatic EXCEPT !.pc = "allowed",
                                                !.verdict = Verdict(allDead, healthy, automatic.stamp)]
                         ELSE NoSwitch
      BY <2>2 DEF AskGuard
    <3>2. Verdict(allDead, healthy, automatic.stamp) = "ok" => lastSwitch - automatic.stamp >= Cooldown
      BY DEF Verdict
    <3>3. automatic'.pc = "allowed" /\ automatic'.verdict = "ok" => lastSwitch - automatic.stamp >= Cooldown
      BY <3>1, <3>2, NoSwitchType DEF GuardTypes
    <3>4. automatic.pc = "stamped" /\ UNCHANGED <<lastSwitch, savedAt, sinceAuto>>
      BY <2>2 DEF AskGuard
    <3> QED BY <3>3, <3>4 DEF GuardInv
  <2>3. CASE SaveReverified \/ DropSwitch \/ MarkSwitch
    BY <2>3, NoSwitchType DEF SaveReverified, DropSwitch, MarkSwitch, GuardInv
  <2>4. CASE ApplySwitch
    BY <2>4 DEF ApplySwitch, GuardTypes
  <2>5. CASE ApplyChange \/ MarkChange \/ ApplyDomains
    BY <2>5 DEF ApplyChange, MarkChange, ApplyDomains, GuardInv
  <2>6. CASE RestartGuard
    BY <2>6, NoSwitchType DEF RestartGuard, SeedGuard, GuardInv
  <2>7. CASE GuardTick
    <3>1. automatic'.pc = automatic.pc /\ automatic'.verdict = automatic.verdict
      BY <2>7 DEF GuardTick, GuardTypes
    <3>2. /\ lastSwitch' = Older(lastSwitch) /\ savedAt' = Older(savedAt)
          /\ sinceAuto' = Older(sinceAuto)
      BY <2>7 DEF GuardTick
    <3> QED BY <3>1, <3>2, OlderType DEF GuardInv
  <2>8. CASE UNCHANGED guardVars
    BY <2>8 DEF guardVars, GuardInv
  <2> QED BY <2>1, <2>2, <2>3, <2>4, <2>5, <2>6, <2>7, <2>8 DEF GuardNext
<1> QED BY <1>1, <1>2 DEF GuardInv

\* The inductive invariant of the guard holds in every reachable state.
THEOREM GuardInvHolds == GuardSpec => []GuardInv
BY GuardInvInit, GuardInvNext, PTL DEF GuardSpec

\* Automatic switches of a pool that is neither dead nor understaffed keep their
\* distance, restarts and unguarded changes in between or not.
THEOREM CooldownKeptCorrect == GuardSpec => CooldownKept
<1>1. ASSUME GuardInv, [GuardNext]_guardVars
      PROVE  [automatic.pc = "allowed" /\ automatic'.pc = "applied" /\ automatic.verdict = "ok"
                => sinceAuto >= Cooldown - Lag]_guardVars
  BY <1>1 DEF GuardInv
<1> QED BY <1>1, GuardInvInit, GuardInvNext, PTL DEF GuardSpec, CooldownKept

==============================================================================

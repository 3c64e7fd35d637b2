-------------------------- MODULE PoolControlProofs --------------------------
(***************************************************************************)
(* Proofs about PoolControl, for every set of members, every policy, every *)
(* combination of actors, with and without faults.                         *)
(*                                                                         *)
(* Forwardable is not inductive: a pool reaches memory from a task's       *)
(* record, so what is about to be published, or to be written back by      *)
(* setProxyPoolError, is part of the invariant (PendingForwardable), and   *)
(* CtlHeld says which tasks can be there.  Two more invariants build on    *)
(* it: AInv, for a cfnat that is never left stopped, and SInv, for a       *)
(* replacement that the file, cfnat and memory make as one.                *)
(***************************************************************************)
EXTENDS PoolControl, FiniteSetTheorems, TLAPS

LEMMA EmptyPoolType == EmptyPool \in Pool
BY DEF EmptyPool, Pool

LEMMA ExaminedType ==
    ASSUME NEW ips \in SUBSET IPs, NEW domains \in SUBSET Domains
    PROVE  Examined(ips, domains) \in Pool
BY DEF Examined, Pool

\* A pool with other members, but the choices of the user kept.
LEMMA EditType ==
    ASSUME NEW p \in Pool, NEW ips \in SUBSET IPs, NEW domains \in SUBSET Domains
    PROVE  /\ [p EXCEPT !.ips = ips] \in Pool
           /\ [p EXCEPT !.domains = domains] \in Pool
           /\ [p EXCEPT !.ips = ips, !.domains = domains] \in Pool
BY DEF Pool

LEMMA PoolFields ==
    ASSUME NEW p \in Pool
    PROVE  /\ p.ips \in SUBSET IPs /\ p.domains \in SUBSET Domains
           /\ p.disabled \in SUBSET Members /\ p.priority \in SUBSET Members
           /\ p.lock \in BOOLEAN
           /\ MembersOf(p) \in SUBSET Members
BY DEF Pool, MembersOf, Members

\* The domains of a pool built anew are domains.
LEMMA PoolDomainMembersType ==
    ASSUME TypeOK, NEW D \in PoolDomainMembers
    PROVE  D \in SUBSET Domains
BY MembersAssumption DEF TypeOK, PoolDomainMembers

LEMMA AutoPoolsType == 
    ASSUME TypeOK, NEW p \in AutoPools
    PROVE  p \in Pool /\ Plan(p) # {}
<1>1. PICK S \in SUBSET IPs, D \in PoolDomainMembers :
          Cardinality(S) \in MinPool..PoolSize /\ p = Examined(S, D)
  BY DEF AutoPools
<1>2. S # {}
  BY <1>1, SizesAssumption, FS_EmptySet
<1>3. p \in Pool
  BY <1>1, ExaminedType, PoolDomainMembersType
<1>4. Plan(p) # {}
  BY <1>1, <1>2 DEF Plan, MembersOf, Examined
<1> QED BY <1>3, <1>4

\* What a caller may ask for is a pool.
LEMMA PoolsType ==
    ASSUME TypeOK, NEW k \in Tasks, k # "reap", NEW cur \in Pool, NEW p \in Pools(k, cur)
    PROVE  p \in Pool
<1>f. /\ cur.ips \in SUBSET IPs /\ cur.domains \in SUBSET Domains
      /\ cur.disabled \in SUBSET Members /\ cur.priority \in SUBSET Members
      /\ MembersOf(cur) \in SUBSET Members
  BY PoolFields
<1>1. CASE k \in {"scheduler", "promote"}
  <2>1. p \in ReplaceOne(cur)
    BY <1>1 DEF Pools
  <2>2. CASE cur.ips = {}
    <3>1. PICK to \in IPs : p = [cur EXCEPT !.ips = {to}]
      BY <2>1, <2>2 DEF ReplaceOne
    <3> QED BY <3>1, EditType
  <2>3. CASE cur.ips # {}
    <3>1. PICK from \in cur.ips, to \in IPs \ cur.ips :
              p = [cur EXCEPT !.ips = (cur.ips \ {from}) \cup {to}]
      BY <2>1, <2>3 DEF ReplaceOne
    <3> QED BY <3>1, <1>f, EditType
  <2> QED BY <2>2, <2>3
<1>2. CASE k = "auto"
  BY <1>2, AutoPoolsType DEF Pools
<1>3. CASE k = "apply"
  <2>1. PICK sd \in (SUBSET IPs) \X (SUBSET Domains) : p = Examined(sd[1], cur.domains \cup sd[2])
    BY <1>3 DEF Pools, ApplyPools
  <2> QED BY <2>1, <1>f, ExaminedType
<1>4. CASE k = "refill"
  <2>1. PICK S \in SUBSET IPs : p = [cur EXCEPT !.ips = S]
    BY <1>4 DEF Pools, RefillPools
  <2> QED BY <2>1, EditType
<1>5. CASE k = "reconcile"
  <2>1. PICK D \in PoolDomainMembers :
            p = [cur EXCEPT !.domains = (D \cup (cur.priority \cap Domains)) \ (quarantined \ Explicit)]
    BY <1>5 DEF Pools, ReconcilePools
  <2>2. D \in SUBSET Domains
    BY PoolDomainMembersType
  <2> QED BY <2>1, <2>2, EditType
<1>6. CASE k = "revalidate"
  <2>1. PICK kept \in SUBSET MembersOf(cur) : p = KeepOnly(cur, kept)
    BY <1>6 DEF Pools, RevalidatePools
  <2> QED BY <2>1, <1>f DEF KeepOnly, Pool
<1>7. CASE k = "kick"
  <2>1. PICK m \in MembersOf(cur) :
            p = [cur EXCEPT !.ips = cur.ips \ {m}, !.domains = cur.domains \ {m}]
    BY <1>7 DEF Pools, KickPools
  <2> QED BY <2>1, <1>f, EditType
<1>8. CASE k = "endorse"
  <2>1. PICK W \in SUBSET Members :
            p = [cur EXCEPT !.ips = cur.ips \cup (W \cap IPs),
                            !.domains = cur.domains \cup (W \cap Domains),
                            !.priority = cur.priority \cup W, !.disabled = cur.disabled \ W]
    BY <1>8 DEF Pools, EndorsePools
  <2> QED BY <2>1, <1>f DEF Pool
<1>9. CASE k = "select"
  <2>1. ASSUME NEW l \in BOOLEAN, p \in Selections(cur, l)
        PROVE  p \in Pool
    <3>1. PICK on \in SUBSET MembersOf(cur), first \in SUBSET MembersOf(cur) :
              p = Selected(cur, on, first, l)
      BY <2>1 DEF Selections
    <3> QED BY <3>1, <1>f DEF Selected, Pool
  <2>2. p \in SelectPools(cur)
    BY <1>9 DEF Pools
  <2> QED BY <2>1, <2>2 DEF SelectPools
<1> QED
  BY <1>1, <1>2, <1>3, <1>4, <1>5, <1>6, <1>7, <1>8, <1>9
  DEF Tasks, ScanFirst, Handlers

LEMMA ReapPoolsType ==
    ASSUME NEW old, NEW cur \in Pool, NEW p \in ReapPools(old, cur)
    PROVE  p \in Pool /\ Plan(p) # {} /\ cur.domains \ p.domains \subseteq Domains
<1>1. PICK S \in SUBSET MembersOf(cur), new \in SUBSET IPs :
          p = [cur EXCEPT !.ips = (cur.ips \ S) \cup new, !.domains = cur.domains \ S,
                          !.priority = cur.priority \ S]
  BY DEF ReapPools
<1>2. p \in Pool
  BY <1>1, PoolFields DEF Pool
<1>3. Plan(p) # {}
  BY DEF ReapPools, Forwards
<1> QED BY <1>2, <1>3, PoolFields

\* The gate removes domains only.
LEMMA AdmittedType ==
    ASSUME NEW p \in Pool
    PROVE  Admitted(p) \in Pool
<1>1. p.domains \cap (p.priority \cup usable) \in SUBSET Domains
  BY PoolFields
<1> QED BY <1>1, EditType DEF Admitted

-----------------------------------------------------------------------------
(* What a step that moves one task leaves as it was.                       *)

\* The records and the locks that a step of k leaves to the others.
OthersKept(k) ==
    /\ task' \in [Runners -> Task]
    /\ \A j \in Runners \ {k} : task'[j] = task[j] /\ (ctlMu = j => ctlMu' = j)

HeldBy(k) ==
    /\ task[k].pc \in {"paused", "swap", "resume"} => ctlMu = k
    /\ task[k].pc = "publish" => ctlMu = k \/ k = "auto"
    /\ task[k].pc \in {"paused", "resume"} => k = "revalidate"
    /\ task[k].pc \in {"error", "blame"} => k \in {"auto", "revalidate"}

PendingBy(k) ==
    /\ task[k].pc = "publish" => Plan(task[k].next) # {}
    /\ task[k].pc = "blame" /\ task[k].copy # EmptyPool => Plan(task[k].copy) # {}

LEMMA OneMoves ==
    ASSUME IInv, NEW k \in Runners, OthersKept(k), HeldBy(k)', PendingBy(k)'
    PROVE  CtlHeld' /\ PendingForwardable'
<1>1. ASSUME NEW j \in Runners PROVE HeldBy(j)' /\ PendingBy(j)'
  <2>1. CASE j = k BY <2>1
  <2>2. CASE j # k
    <3>1. task'[j] = task[j] /\ (ctlMu = j => ctlMu' = j)
      BY <2>2 DEF OthersKept
    <3> QED BY <3>1 DEF IInv, CtlHeld, PendingForwardable, HeldBy, PendingBy, Plan, MembersOf
  <2> QED BY <2>1, <2>2
<1> QED BY <1>1 DEF CtlHeld, PendingForwardable, HeldBy, PendingBy

LEMMA TaskFields ==
    ASSUME TypeOK, NEW k \in Runners
    PROVE  task[k].pc \in PCs /\ task[k].copy \in Pool /\ task[k].next \in Pool
BY DEF TypeOK, Task

LEMMA MoveFacts ==
    ASSUME TypeOK, NEW k \in Runners, NEW pc \in PCs, NEW copy \in Pool, NEW next \in Pool,
           Move(k, pc, copy, next)
    PROVE  /\ task' \in [Runners -> Task]
           /\ task'[k].pc = pc /\ task'[k].copy = copy /\ task'[k].next = next
           /\ \A j \in Runners \ {k} : task'[j] = task[j]
<1>1. [pc |-> pc, copy |-> copy, next |-> next] \in Task
  BY DEF Task
<1> QED BY <1>1 DEF TypeOK, Move

LEMMA GotoFacts ==
    ASSUME TypeOK, NEW k \in Runners, NEW pc \in PCs, Goto(k, pc)
    PROVE  /\ task' \in [Runners -> Task]
           /\ task'[k].pc = pc /\ task'[k].copy = task[k].copy /\ task'[k].next = task[k].next
           /\ \A j \in Runners \ {k} : task'[j] = task[j]
BY TaskFields, MoveFacts DEF Goto

LEMMA ReturnFacts ==
    ASSUME TypeOK, NEW k \in Runners, Return(k)
    PROVE  /\ OthersKept(k)
           /\ task'[k].pc = "idle"
           /\ scanMu' \in Runners \cup {Free} /\ ctlMu' \in Runners \cup {Free}
           /\ ctlMu' = Released(ctlMu, k)
<1>1. IdleTask \in Task
  BY EmptyPoolType DEF IdleTask, Task, PCs
<1>2. /\ task' \in [Runners -> Task] /\ task'[k] = IdleTask
      /\ \A j \in Runners \ {k} : task'[j] = task[j]
  BY <1>1 DEF TypeOK, Return
<1>3. task'[k].pc = "idle"
  BY <1>2 DEF IdleTask
<1> QED BY <1>2, <1>3 DEF OthersKept, Return, Released, TypeOK

\* A task that is not in the middle of a replacement threatens nothing.
LEMMA Quiet ==
    ASSUME IInv, NEW k \in Runners, OthersKept(k), UNCHANGED <<pool, file>>,
           task'[k].pc \in {"idle", "queued", "scanning", "exam", "wait", "error"},
           task'[k].pc = "error" => k \in {"auto", "revalidate"}
    PROVE  CtlHeld' /\ Forwardable' /\ PendingForwardable'
<1>1. HeldBy(k)' /\ PendingBy(k)'
  BY DEF HeldBy, PendingBy
<1>2. Forwardable'
  BY DEF IInv, Forwardable, Plan, MembersOf
<1> QED BY <1>1, <1>2, OneMoves

LEMMA ReturnKeeps ==
    ASSUME IInv, NEW k \in Runners, Return(k), UNCHANGED <<pool, file, refillQueued, DomainVars>>,
           served' \in [running : BOOLEAN, fixed : SUBSET Members]
    PROVE  IInv'
<1>1. TypeOK BY DEF IInv
<1>2. TypeOK'
  BY <1>1, ReturnFacts DEF TypeOK, DomainVars, OthersKept
<1>3. CtlHeld' /\ Forwardable' /\ PendingForwardable'
  BY <1>1, ReturnFacts, Quiet
<1> QED BY <1>2, <1>3 DEF IInv

-----------------------------------------------------------------------------
(* The steps.                                                              *)

LEMMA PlanType ==
    ASSUME NEW p \in Pool
    PROVE  /\ Running(Plan(p)) \in [running : BOOLEAN, fixed : SUBSET Members]
           /\ Running(RollbackPlan(p)) \in [running : BOOLEAN, fixed : SUBSET Members]
           /\ Startup(p) \in [running : BOOLEAN, fixed : SUBSET Members]
           /\ Stopped \in [running : BOOLEAN, fixed : SUBSET Members]
BY PoolFields DEF Plan, RollbackPlan, Running, Startup, Stopped

LEMMA StartScanKeeps == ASSUME IInv, NEW k \in Runners, StartScan(k) PROVE IInv'
<1>1. TypeOK BY DEF IInv
<1>2. /\ Goto(k, "scanning") /\ UNCHANGED <<pool, file, served, ctlMu, usable, quarantined>>
      /\ scanMu' = k /\ refillQueued' = (refillQueued /\ k # "refill")
  BY DEF StartScan, PoolVars, DomainVars
<1>3. OthersKept(k) /\ task'[k].pc = "scanning"
  BY <1>1, <1>2, GotoFacts DEF PCs, OthersKept
<1>4. refillQueued' \in BOOLEAN
  BY <1>1, <1>2 DEF TypeOK
<1>5. TypeOK'
  BY <1>1, <1>2, <1>3, <1>4 DEF TypeOK, OthersKept
<1> QED BY <1>2, <1>3, <1>5, Quiet DEF IInv

LEMMA CopyPoolKeeps == ASSUME IInv, NEW k \in Runners, CopyPool(k) PROVE IInv'
<1>1. TypeOK BY DEF IInv
<1> DEFINE pc == IF k \in {"reap", "revalidate"} THEN "queued" ELSE "exam"
<1>2. Move(k, pc, pool, EmptyPool) /\ UNCHANGED <<PoolVars, Locks, refillQueued, DomainVars>>
  BY DEF CopyPool
<1>3. pc \in {"queued", "exam"} OBVIOUS
<1> HIDE DEF pc
<1>4. OthersKept(k) /\ task'[k].pc \in {"queued", "exam"}
  BY <1>1, <1>2, <1>3, EmptyPoolType, MoveFacts DEF PCs, OthersKept, TypeOK, Locks
<1>5. TypeOK'
  BY <1>1, <1>2, <1>4 DEF TypeOK, OthersKept, PoolVars, Locks, DomainVars
<1> QED BY <1>2, <1>4, <1>5, Quiet DEF IInv, PoolVars

LEMMA QueueScanKeeps == ASSUME IInv, NEW k \in Runners, QueueScan(k) PROVE IInv'
<1>1. TypeOK BY DEF IInv
<1>2. /\ Goto(k, "scanning") /\ UNCHANGED <<pool, file, served, ctlMu, refillQueued, usable, quarantined>>
      /\ scanMu' = k
  BY DEF QueueScan, PoolVars, DomainVars
<1>3. OthersKept(k) /\ task'[k].pc = "scanning"
  BY <1>1, <1>2, GotoFacts DEF PCs, OthersKept
<1>4. TypeOK'
  BY <1>1, <1>2, <1>3 DEF TypeOK, OthersKept
<1> QED BY <1>2, <1>3, <1>4, Quiet DEF IInv

LEMMA ScannedKeeps == ASSUME IInv, "reap" \in Runners, Scanned PROVE IInv'
<1>1. TypeOK BY DEF IInv
<1>2. /\ scanMu' = Released(scanMu, "reap")
      /\ UNCHANGED <<pool, file, served, ctlMu, refillQueued, usable, quarantined>>
  BY DEF Scanned, PoolVars, DomainVars
<1>3. task' \in [Runners -> Task] /\ task'["reap"].pc = "wait"
      /\ \A j \in Runners \ {"reap"} : task'[j] = task[j]
  <2>1. CASE Goto("reap", "wait")
    BY <1>1, <2>1, GotoFacts DEF PCs
  <2>2. CASE Move("reap", "wait", [task["reap"].copy EXCEPT !.ips = {}], EmptyPool)
    <3>1. [task["reap"].copy EXCEPT !.ips = {}] \in Pool
      BY <1>1, TaskFields, EditType
    <3> QED BY <1>1, <2>2, <3>1, EmptyPoolType, MoveFacts DEF PCs
  <2> QED BY <2>1, <2>2 DEF Scanned
<1>4. OthersKept("reap")
  BY <1>2, <1>3 DEF OthersKept
<1>5. TypeOK'
  BY <1>1, <1>2, <1>3 DEF TypeOK, Released
<1> QED BY <1>2, <1>3, <1>4, <1>5, Quiet DEF IInv

LEMMA ProposeKeeps == ASSUME IInv, NEW k \in Runners, Propose(k) PROVE IInv'
<1>1. TypeOK BY DEF IInv
<1>2. PICK p \in Pools(k, task[k].copy) : Move(k, "wait", task[k].copy, p)
  BY DEF Propose
<1>3. UNCHANGED <<PoolVars, Locks, refillQueued, DomainVars>> /\ k \in Tasks /\ k # "reap"
  BY DEF Propose, ScanFirst, Tasks
<1>4. p \in Pool
  BY <1>1, <1>3, TaskFields, PoolsType
<1>5. OthersKept(k) /\ task'[k].pc = "wait"
  BY <1>1, <1>2, <1>3, <1>4, TaskFields, MoveFacts DEF PCs, OthersKept, Locks
<1>6. TypeOK'
  BY <1>1, <1>3, <1>5 DEF TypeOK, OthersKept, PoolVars, Locks, DomainVars
<1> QED BY <1>3, <1>5, <1>6, Quiet DEF IInv, PoolVars

\* A task that goes on to setProxyPoolError.
LEMMA ErrorKeeps ==
    ASSUME IInv, NEW k \in Runners, k \in {"auto", "revalidate"}, Goto(k, "error"),
           UNCHANGED <<pool, file, scanMu, refillQueued, DomainVars>>,
           ctlMu' = ctlMu \/ (ctlMu = k /\ ctlMu' = Free),
           served' \in [running : BOOLEAN, fixed : SUBSET Members]
    PROVE  IInv'
<1>1. TypeOK BY DEF IInv
<1>2. OthersKept(k) /\ task'[k].pc = "error"
  BY <1>1, GotoFacts DEF PCs, OthersKept
<1>3. TypeOK'
  BY <1>1, <1>2 DEF TypeOK, OthersKept, DomainVars
<1> QED BY <1>2, <1>3, Quiet DEF IInv

LEMMA RefuseKeeps == ASSUME IInv, NEW k \in Runners, Refuse(k) PROVE IInv'
<1>1. UNCHANGED <<pool, file, served, refillQueued, DomainVars>>
  BY DEF Refuse, PoolVars
<1>2. served' \in [running : BOOLEAN, fixed : SUBSET Members]
  BY <1>1 DEF IInv, TypeOK
<1>3. CASE k = "auto"
  BY <1>1, <1>2, <1>3, ErrorKeeps DEF Refuse, Locks
<1>4. CASE k # "auto"
  BY <1>1, <1>2, <1>4, ReturnKeeps DEF Refuse
<1> QED BY <1>3, <1>4

LEMMA GiveUpKeeps == ASSUME IInv, NEW k \in Runners, GiveUp(k) PROVE IInv'
<1>1. UNCHANGED <<pool, file, served, refillQueued, DomainVars>> /\ Return(k)
  BY DEF GiveUp, PoolVars
<1> QED BY <1>1, ReturnKeeps DEF IInv, TypeOK

LEMMA AutoBusyKeeps == ASSUME IInv, "auto" \in Runners, AutoBusy PROVE IInv'
BY ErrorKeeps DEF AutoBusy, PoolVars, Locks, IInv, TypeOK

LEMMA ReverifyKeeps == ASSUME IInv, "auto" \in Runners, Reverify PROVE IInv'
<1>1. TypeOK BY DEF IInv
<1>2. UNCHANGED <<pool, served, refillQueued, DomainVars>>
  BY DEF Reverify
<1>3. PICK p \in AutoPools :
         \/ file' = p /\ Move("auto", "publish", task["auto"].copy, p) /\ UNCHANGED Locks
         \/ file' = file /\ Return("auto")
  BY DEF Reverify
<1>4. p \in Pool /\ Plan(p) # {}
  BY <1>1, AutoPoolsType
<1>5. CASE file' = p /\ Move("auto", "publish", task["auto"].copy, p) /\ UNCHANGED Locks
  <2>1. /\ task' \in [Runners -> Task]
        /\ task'["auto"].pc = "publish" /\ task'["auto"].next = p
        /\ \A j \in Runners \ {"auto"} : task'[j] = task[j]
    BY <1>1, <1>4, <1>5, TaskFields, MoveFacts DEF PCs
  <2>2. OthersKept("auto")
    BY <1>5, <2>1 DEF OthersKept, Locks
  <2>3. HeldBy("auto")' /\ PendingBy("auto")'
    BY <1>4, <2>1 DEF HeldBy, PendingBy, Plan, MembersOf
  <2>4. Forwardable'
    BY <1>2, <1>4, <1>5 DEF IInv, Forwardable, Plan, MembersOf
  <2>5. TypeOK'
    BY <1>1, <1>2, <1>4, <1>5, <2>1 DEF TypeOK, Locks, DomainVars
  <2> QED BY <2>2, <2>3, <2>4, <2>5, OneMoves DEF IInv
<1>6. CASE file' = file /\ Return("auto")
  BY <1>1, <1>2, <1>6, ReturnKeeps DEF TypeOK
<1> QED BY <1>3, <1>5, <1>6

\* A task that enters the part of a replacement that cfnatCtlMu protects.
LEMMA EnterKeeps ==
    ASSUME IInv, NEW k \in Runners, NEW pc \in {"paused", "swap"}, NEW copy \in Pool,
           NEW next \in Pool, Move(k, pc, copy, next), pc = "paused" => k = "revalidate",
           ctlMu \in {Free, k}, ctlMu' = k, UNCHANGED <<pool, file, scanMu, refillQueued, usable>>,
           served' \in [running : BOOLEAN, fixed : SUBSET Members], quarantined' \subseteq Domains
    PROVE  IInv'
<1>1. TypeOK BY DEF IInv
<1>2. /\ task' \in [Runners -> Task] /\ task'[k].pc = pc
      /\ \A j \in Runners \ {k} : task'[j] = task[j]
  BY <1>1, MoveFacts DEF PCs
<1>3. OthersKept(k)
  BY <1>2 DEF OthersKept, Runners, Tasks, ScanFirst, Handlers, Free
<1>4. HeldBy(k)' /\ PendingBy(k)'
  BY <1>2 DEF HeldBy, PendingBy
<1>5. Forwardable'
  BY DEF IInv, Forwardable, Plan, MembersOf
<1>6. TypeOK'
  BY <1>1, <1>2 DEF TypeOK
<1> QED BY <1>3, <1>4, <1>5, <1>6, OneMoves DEF IInv

LEMMA TakeCtlKeeps == ASSUME IInv, NEW k \in Runners, TakeCtl(k) PROVE IInv'
<1>1. TypeOK BY DEF IInv
<1> QED BY <1>1, TaskFields, EnterKeeps DEF TakeCtl, Goto, PoolVars, DomainVars, TypeOK

LEMMA HandleKeeps == ASSUME IInv, NEW k \in Runners, Handle(k) PROVE IInv'
<1>1. TypeOK BY DEF IInv
<1>2. PICK p \in Pools(k, pool) : Move(k, "swap", pool, p)
  BY DEF Handle
<1>3. pool \in Pool /\ k \in Tasks /\ k # "reap"
  BY <1>1 DEF TypeOK, Handle, Handlers, Tasks
<1>4. p \in Pool
  BY <1>1, <1>3, PoolsType
<1> QED BY <1>1, <1>2, <1>3, <1>4, EnterKeeps DEF Handle, PoolVars, DomainVars, TypeOK

LEMMA ReapKeeps == ASSUME IInv, "reap" \in Runners, Reap PROVE IInv'
<1>1. TypeOK BY DEF IInv
<1>2. UNCHANGED <<pool, file, served, refillQueued, usable>> /\ ctlMu = Free
  BY DEF Reap, PoolVars
<1>3. CASE \E p \in ReapPools(task["reap"].copy, pool) :
             /\ ctlMu' = "reap"
             /\ Move("reap", "swap", pool, p)
             /\ quarantined' = quarantined \cup (pool.domains \ p.domains)
             /\ UNCHANGED scanMu
  <2>1. PICK p \in ReapPools(task["reap"].copy, pool) :
             /\ ctlMu' = "reap"
             /\ Move("reap", "swap", pool, p)
             /\ quarantined' = quarantined \cup (pool.domains \ p.domains)
             /\ UNCHANGED scanMu
    BY <1>3
  <2>2. pool \in Pool
    BY <1>1 DEF TypeOK
  <2>3. p \in Pool /\ quarantined' \subseteq Domains
    BY <1>1, <2>1, <2>2, ReapPoolsType DEF TypeOK
  <2> QED BY <1>1, <1>2, <2>1, <2>2, <2>3, EnterKeeps DEF TypeOK
<1>4. CASE Return("reap") /\ UNCHANGED quarantined
  BY <1>1, <1>2, <1>4, ReturnKeeps DEF TypeOK, DomainVars
<1> QED BY <1>3, <1>4 DEF Reap

LEMMA PauseKeeps == ASSUME IInv, "revalidate" \in Runners, Pause PROVE IInv'
<1>1. TypeOK BY DEF IInv
<1>2. served' \in [running : BOOLEAN, fixed : SUBSET Members]
  BY DEF Pause, Stopped
<1> QED BY <1>1, <1>2, TaskFields, EnterKeeps DEF Pause, Goto, DomainVars, TypeOK

LEMMA VerdictKeeps == ASSUME IInv, "revalidate" \in Runners, Verdict PROVE IInv'
<1> DEFINE k == "revalidate"
<1>1. TypeOK BY DEF IInv
<1>2. UNCHANGED <<pool, file, served, scanMu, ctlMu, refillQueued, usable, quarantined>> /\ ctlMu = k
  BY DEF Verdict, At, IInv, CtlHeld, PoolVars, Locks, DomainVars
<1>3. CASE \E p \in Pools(k, task[k].copy) : Move(k, "swap", task[k].copy, p)
  <2>1. PICK p \in Pools(k, task[k].copy) : Move(k, "swap", task[k].copy, p)
    BY <1>3
  <2>2. task[k].copy \in Pool /\ p \in Pool
    BY <1>1, <2>1, TaskFields, PoolsType DEF Tasks
  <2> QED BY <1>1, <1>2, <2>1, <2>2, EnterKeeps DEF TypeOK
<1>4. CASE Goto(k, "resume")
  <2>1. /\ task' \in [Runners -> Task] /\ task'[k].pc = "resume"
        /\ \A j \in Runners \ {k} : task'[j] = task[j]
    BY <1>1, <1>4, GotoFacts DEF PCs
  <2>2. HeldBy(k)' /\ PendingBy(k)' /\ OthersKept(k)
    BY <1>2, <2>1 DEF HeldBy, PendingBy, OthersKept
  <2>3. TypeOK' /\ Forwardable'
    BY <1>1, <1>2, <2>1 DEF TypeOK, IInv, Forwardable, Plan, MembersOf
  <2> QED BY <2>2, <2>3, OneMoves DEF IInv
<1> QED BY <1>3, <1>4 DEF Verdict

LEMMA ResumeKeeps == ASSUME IInv, "revalidate" \in Runners, Resume PROVE IInv'
<1> DEFINE k == "revalidate"
           copy == task[k].copy
<1>1. TypeOK BY DEF IInv
<1>2. UNCHANGED <<pool, file, refillQueued, DomainVars>>
  BY DEF Resume
<1>3. served \in [running : BOOLEAN, fixed : SUBSET Members]
      /\ Running(Plan(copy)) \in [running : BOOLEAN, fixed : SUBSET Members]
  BY <1>1, TaskFields, PlanType DEF TypeOK
<1>4. \/ Return(k) /\ (UNCHANGED served \/ served' = Running(Plan(copy)))
      \/ Goto(k, "error") /\ UNCHANGED <<served, Locks>>
  BY DEF Resume
<1>5. CASE Return(k) /\ (UNCHANGED served \/ served' = Running(Plan(copy)))
  BY <1>2, <1>3, <1>5, ReturnKeeps
<1>6. CASE Goto(k, "error") /\ UNCHANGED <<served, Locks>>
  BY <1>2, <1>3, <1>6, ErrorKeeps DEF Locks
<1> QED BY <1>4, <1>5, <1>6

LEMMA FailedKeeps ==
    ASSUME IInv, NEW k \in Runners, At(k, "swap"), Failed(k),
           UNCHANGED <<pool, file, refillQueued, DomainVars>>,
           served' \in [running : BOOLEAN, fixed : SUBSET Members]
    PROVE  IInv'
<1>1. TypeOK /\ ctlMu = k BY DEF IInv, CtlHeld, At
<1>2. CASE k = "revalidate"
  <2>1. Goto(k, "resume") /\ UNCHANGED Locks
    BY <1>2 DEF Failed
  <2>2. /\ task' \in [Runners -> Task] /\ task'[k].pc = "resume"
        /\ \A j \in Runners \ {k} : task'[j] = task[j]
    BY <1>1, <2>1, GotoFacts DEF PCs
  <2>3. HeldBy(k)' /\ PendingBy(k)' /\ OthersKept(k)
    BY <1>1, <1>2, <2>1, <2>2 DEF HeldBy, PendingBy, OthersKept, Locks
  <2>4. TypeOK'
    BY <1>1, <2>1, <2>2 DEF TypeOK, Locks, DomainVars
  <2>5. Forwardable'
    BY DEF IInv, Forwardable, Plan, MembersOf
  <2> QED BY <2>3, <2>4, <2>5, OneMoves DEF IInv
<1>3. CASE k = "auto"
  <2>1. Goto(k, "error") /\ ctlMu' = Free /\ UNCHANGED scanMu
    BY <1>3 DEF Failed
  <2> QED BY <1>1, <1>3, <2>1, ErrorKeeps
<1>4. CASE k \notin {"revalidate", "auto"}
  BY <1>4, ReturnKeeps DEF Failed
<1> QED BY <1>2, <1>3, <1>4

LEMMA SwapKeeps == ASSUME IInv, NEW k \in Runners, Swap(k) PROVE IInv'
<1> DEFINE old == task[k].copy
           new == Admitted(task[k].next)
<1>1. TypeOK BY DEF IInv
<1>2. old \in Pool /\ new \in Pool
  BY <1>1, TaskFields, AdmittedType
<1>3. UNCHANGED <<pool, refillQueued, DomainVars>> /\ At(k, "swap")
  BY DEF Swap
<1>4. ctlMu = k
  BY <1>3 DEF IInv, CtlHeld, At
<1>5. CASE /\ Forwards(new) /\ served' = Running(Plan(new)) /\ file' = new
           /\ Move(k, "publish", old, new) /\ UNCHANGED Locks
  <2>1. /\ task' \in [Runners -> Task] /\ task'[k].pc = "publish" /\ task'[k].next = new
        /\ \A j \in Runners \ {k} : task'[j] = task[j]
    BY <1>1, <1>2, <1>5, MoveFacts DEF PCs
  <2>2. OthersKept(k)
    BY <1>5, <2>1 DEF OthersKept, Locks
  <2> HIDE DEF new
  <2>3. HeldBy(k)' /\ PendingBy(k)'
    BY <1>4, <1>5, <2>1 DEF HeldBy, PendingBy, Forwards, Plan, MembersOf, Locks
  <2>4. Forwardable'
    BY <1>3, <1>5 DEF IInv, Forwardable, Forwards, Plan, MembersOf
  <2>5. TypeOK'
    BY <1>1, <1>2, <1>3, <1>5, <2>1, PlanType DEF TypeOK, Locks, DomainVars
  <2> QED BY <2>2, <2>3, <2>4, <2>5, OneMoves DEF IInv
<1>6. CASE /\ served' \in {served, Stopped, Running(RollbackPlan(old)), Running(Plan(new))}
           /\ UNCHANGED file /\ Failed(k)
  <2>1. served' \in [running : BOOLEAN, fixed : SUBSET Members]
    BY <1>1, <1>2, <1>6, PlanType DEF TypeOK
  <2> QED BY <1>3, <1>6, <2>1, FailedKeeps
<1> QED BY <1>5, <1>6 DEF Swap

LEMMA PublishKeeps == ASSUME IInv, NEW k \in Runners, Publish(k) PROVE IInv'
<1>1. TypeOK BY DEF IInv
<1>2. /\ pool' = task[k].next /\ Return(k) /\ UNCHANGED <<file, served, usable, quarantined>>
      /\ refillQueued' = (refillQueued \/ k \in {"kick", "revalidate"})
  BY DEF Publish, DomainVars
<1>3. Plan(task[k].next) # {}
  BY DEF Publish, At, IInv, PendingForwardable
<1>4. HeldBy(k)' /\ PendingBy(k)' /\ OthersKept(k)
  BY <1>1, <1>2, ReturnFacts DEF HeldBy, PendingBy
<1>5. Forwardable'
  BY <1>2, <1>3 DEF IInv, Forwardable, Plan, MembersOf
<1>6. refillQueued' \in BOOLEAN
  BY <1>1, <1>2 DEF TypeOK
<1>7. TypeOK'
  BY <1>1, <1>2, <1>6, TaskFields, ReturnFacts DEF TypeOK, OthersKept
<1> QED BY <1>4, <1>5, <1>7, OneMoves DEF IInv

LEMMA ErrorReadKeeps == ASSUME IInv, NEW k \in Runners, ErrorRead(k) PROVE IInv'
<1>1. TypeOK BY DEF IInv
<1>2. /\ Move(k, "blame", pool, EmptyPool) /\ k \in {"auto", "revalidate"}
      /\ UNCHANGED <<pool, file, served, scanMu, ctlMu, refillQueued, usable, quarantined>>
  BY DEF ErrorRead, At, IInv, CtlHeld, PoolVars, Locks, DomainVars
<1>3. /\ task' \in [Runners -> Task] /\ task'[k].pc = "blame" /\ task'[k].copy = pool
      /\ \A j \in Runners \ {k} : task'[j] = task[j]
  BY <1>1, <1>2, EmptyPoolType, MoveFacts DEF PCs, TypeOK
<1>4. OthersKept(k)
  BY <1>2, <1>3 DEF OthersKept
<1>5. HeldBy(k)' /\ PendingBy(k)'
  BY <1>2, <1>3 DEF HeldBy, PendingBy, IInv, Forwardable, Plan, MembersOf
<1>6. TypeOK' /\ Forwardable'
  BY <1>1, <1>2, <1>3 DEF TypeOK, IInv, Forwardable, Plan, MembersOf
<1> QED BY <1>4, <1>5, <1>6, OneMoves DEF IInv

LEMMA ErrorWriteKeeps == ASSUME IInv, NEW k \in Runners, ErrorWrite(k) PROVE IInv'
<1>1. TypeOK BY DEF IInv
<1>2. /\ pool' = task[k].copy /\ Return(k)
      /\ UNCHANGED <<file, served, refillQueued, usable, quarantined>>
  BY DEF ErrorWrite, DomainVars
<1>3. task[k].copy # EmptyPool => Plan(task[k].copy) # {}
  BY DEF ErrorWrite, At, IInv, PendingForwardable
<1>4. HeldBy(k)' /\ PendingBy(k)' /\ OthersKept(k)
  BY <1>1, <1>2, ReturnFacts DEF HeldBy, PendingBy
<1>5. Forwardable'
  BY <1>2, <1>3 DEF IInv, Forwardable, Plan, MembersOf
<1>6. TypeOK'
  BY <1>1, <1>2, TaskFields, ReturnFacts DEF TypeOK, OthersKept
<1> QED BY <1>4, <1>5, <1>6, OneMoves DEF IInv

LEMMA IdleKeeps ==
    ASSUME TypeOK
    PROVE  /\ Idle \in [Runners -> Task]
           /\ \A k \in Runners : Idle[k].pc = "idle"
BY EmptyPoolType DEF Idle, IdleTask, Task, PCs

LEMMA RestartKeeps == ASSUME IInv, Restart PROVE IInv'
<1>1. TypeOK BY DEF IInv
<1>2. /\ pool' = file /\ task' = Idle /\ scanMu' = Free /\ ctlMu' = Free
      /\ refillQueued' = FALSE /\ quarantined' = {} /\ UNCHANGED <<file, usable>>
      /\ served' \in {Startup(file), Stopped}
  BY DEF Restart
<1>3. TypeOK'
  BY <1>1, <1>2, IdleKeeps, PlanType DEF TypeOK
<1>4. CtlHeld' /\ PendingForwardable'
  BY <1>1, <1>2, IdleKeeps DEF CtlHeld, PendingForwardable
<1>5. Forwardable'
  BY <1>2 DEF IInv, Forwardable, Plan, MembersOf
<1> QED BY <1>3, <1>4, <1>5 DEF IInv

\* Events that change neither a pool nor a task nor a lock.
LEMMA EventKeeps ==
    ASSUME IInv, UNCHANGED <<pool, file, scanMu, ctlMu, task>>, TypeOK'
    PROVE  IInv'
BY DEF IInv, CtlHeld, Forwardable, PendingForwardable, Plan, MembersOf

LEMMA StepKeeps == ASSUME IInv, NEW k \in Runners, Step(k) PROVE IInv'
BY StartScanKeeps, CopyPoolKeeps, QueueScanKeeps, ScannedKeeps, ProposeKeeps, RefuseKeeps,
   GiveUpKeeps, AutoBusyKeeps, ReverifyKeeps, TakeCtlKeeps, HandleKeeps, ReapKeeps, PauseKeeps,
   VerdictKeeps, ResumeKeeps, SwapKeeps, PublishKeeps, ErrorReadKeeps, ErrorWriteKeeps
   DEF Step

LEMMA InitHolds == Init => IInv
<1> SUFFICES ASSUME Init PROVE IInv
  OBVIOUS
<1>1. pool \in Pool /\ (pool # EmptyPool => Plan(pool) # {})
  BY InitialAssumption DEF Init, Forwards
<1>2. /\ Idle \in [Runners -> Task]
      /\ \A k \in Runners : Idle[k].pc = "idle"
  BY EmptyPoolType DEF Idle, IdleTask, Task, PCs
<1>3. TypeOK
  BY <1>1, <1>2, PlanType DEF Init, TypeOK
<1>4. CtlHeld /\ Forwardable /\ PendingForwardable
  BY <1>1, <1>2 DEF Init, CtlHeld, Forwardable, PendingForwardable
<1> QED BY <1>3, <1>4 DEF IInv

LEMMA NextKeeps == IInv /\ [Next]_vars => IInv'
<1> SUFFICES ASSUME IInv, [Next]_vars PROVE IInv'
  OBVIOUS
<1>1. TypeOK BY DEF IInv
<1>2. ASSUME NEW k \in Runners, Step(k) PROVE IInv'
  BY <1>2, StepKeeps
<1>3. CASE RefillAbandoned
  <2>1. TypeOK' BY <1>1, <1>3 DEF RefillAbandoned, TypeOK, PoolVars, Locks, DomainVars
  <2> QED BY <1>3, <2>1, EventKeeps DEF RefillAbandoned, PoolVars, Locks
<1>4. CASE Restart
  BY <1>4, RestartKeeps
<1>5. CASE UserCFnat
  <2>1. served' \in [running : BOOLEAN, fixed : SUBSET Members]
    <3>1. served' = Stopped \/ \E set \in SUBSET Members : served' = Running(set)
      BY <1>5 DEF UserCFnat
    <3>2. \A set \in SUBSET Members : Running(set) \in [running : BOOLEAN, fixed : SUBSET Members]
      BY DEF Running
    <3>3. Stopped \in [running : BOOLEAN, fixed : SUBSET Members]
      BY DEF Stopped
    <3> QED BY <3>1, <3>2, <3>3
  <2>2. TypeOK' BY <1>1, <1>5, <2>1 DEF UserCFnat, TypeOK, Locks, DomainVars
  <2> QED BY <1>5, <2>2, EventKeeps DEF UserCFnat, Locks
<1>6. CASE CFnatDies
  <2>1. served' \in [running : BOOLEAN, fixed : SUBSET Members]
    BY <1>6 DEF CFnatDies, Stopped
  <2>2. TypeOK' BY <1>1, <1>6, <2>1 DEF CFnatDies, TypeOK, Locks, DomainVars
  <2> QED BY <1>6, <2>2, EventKeeps DEF CFnatDies, Locks
<1>7. CASE NewVerdicts
  <2>1. TypeOK' BY <1>1, <1>7 DEF NewVerdicts, TypeOK, PoolVars, Locks
  <2> QED BY <1>7, <2>1, EventKeeps DEF NewVerdicts, PoolVars, Locks
<1>8. CASE UNCHANGED vars
  <2>1. TypeOK' BY <1>1, <1>8 DEF TypeOK, vars
  <2> QED BY <1>8, <2>1, EventKeeps DEF vars
<1> QED BY <1>2, <1>3, <1>4, <1>5, <1>6, <1>7, <1>8 DEF Next

\* The inductive invariant holds in every reachable state.
THEOREM PoolInvHolds == Spec => []IInv
BY InitHolds, NextKeeps, PTL DEF Spec

\* Every pool that is in memory, or that a restart will read, is empty or has a
\* member that cfnat can forward to.
THEOREM ForwardableCorrect == Spec => []Forwardable
<1>1. IInv => Forwardable BY DEF IInv
<1> QED BY <1>1, PoolInvHolds, PTL

\* Replacements of the pool exclude each other, reverifications apart.
THEOREM SoleSwapperCorrect == Spec => []SoleSwapper
<1>1. IInv => SoleSwapper BY DEF IInv, CtlHeld, SoleSwapper
<1> QED BY <1>1, PoolInvHolds, PTL

\* No step empties a saved pool.
THEOREM FileNeverEmptiedCorrect == Spec => FileNeverEmptied
<1> DEFINE Kept == MembersOf(file) # {} => MembersOf(file') # {}
<1>1. ASSUME IInv, [Next]_vars PROVE [Kept]_vars
  <2>1. \/ UNCHANGED file
        \/ \E k \in Runners : Swap(k)
        \/ "auto" \in Runners /\ Reverify
    BY <1>1 DEF Next, Step, vars, StartScan, CopyPool, QueueScan, Scanned, Propose, Refuse,
       GiveUp, AutoBusy, TakeCtl, Handle, Reap, Pause, Verdict, Resume, Publish,
       ErrorRead, ErrorWrite, Restart, RefillAbandoned, UserCFnat, CFnatDies, NewVerdicts,
       PoolVars
  <2>2. CASE UNCHANGED file
    BY <2>2
  <2>3. ASSUME NEW k \in Runners, Swap(k) PROVE Kept
    <3>1. UNCHANGED file \/ Plan(file') # {}
      BY <2>3 DEF Swap, Forwards
    <3>2. Plan(file') # {} => MembersOf(file') # {}
      BY DEF Plan
    <3> QED BY <3>1, <3>2
  <2>4. CASE "auto" \in Runners /\ Reverify
    <3>1. UNCHANGED file \/ file' \in AutoPools
      BY <2>4 DEF Reverify
    <3>2. file' \in AutoPools => Plan(file') # {}
      BY <1>1, AutoPoolsType DEF IInv
    <3>3. Plan(file') # {} => MembersOf(file') # {}
      BY DEF Plan
    <3> QED BY <3>1, <3>2, <3>3
  <2> QED BY <2>1, <2>2, <2>3, <2>4
<1> QED BY <1>1, PoolInvHolds, PTL DEF Spec, FileNeverEmptied

-----------------------------------------------------------------------------
(***************************************************************************)
(* cfnat is not left stopped.  Where stop and start do not fail and nobody *)
(* stops cfnat by hand, only a revalidation stops it, and holds cfnatCtlMu *)
(* until it forwards again.  The copy that it may have to start again was  *)
(* taken from a pool with members (Returning); a pool on its way into      *)
(* memory has been started (Served), or is a reverification of a pool that *)
(* has members; and the reverification and the blame of autoApplyProxyPool *)
(* do not bring members back that memory has lost (Remembered).            *)
(***************************************************************************)
Unfailing == ~Faults /\ "cfnat" \notin Actors

Served(k) ==
    task[k].pc = "publish" =>
        /\ served.running \/ (k = "auto" /\ pool # EmptyPool)
        /\ ctlMu # k => pool # EmptyPool

Remembered(k) ==
    k = "auto" /\ task[k].pc \in {"exam", "blame"} /\ task[k].copy # EmptyPool => pool # EmptyPool

Returning(k) ==
    k = "revalidate" =>
        /\ task[k].pc \in {"queued", "scanning", "paused", "swap", "resume"} => Plan(task[k].copy) # {}
        /\ task[k].pc \in {"idle", "queued", "scanning", "paused", "swap", "resume", "publish"}
        /\ ctlMu = k => task[k].pc \in {"paused", "swap", "resume", "publish"}

Sound(k) == Served(k) /\ Remembered(k) /\ Returning(k)

AInv == NeverLeftStopped /\ \A k \in Runners : Sound(k)

\* A step of k does not disturb the others when it empties no pool, stops no cfnat and
\* takes no lock but a free one.
LEMMA OthersSound ==
    ASSUME NEW k \in Runners, NEW j \in Runners \ {k}, Sound(j), OthersKept(k),
           ctlMu' \in {ctlMu, k, Free},
           pool # EmptyPool => pool' # EmptyPool,
           served.running => served'.running
    PROVE  Sound(j)'
<1>1. task'[j] = task[j] /\ (ctlMu = j <=> ctlMu' = j)
  BY DEF OthersKept, Runners, Tasks, ScanFirst, Handlers, Free
<1> QED BY <1>1 DEF Sound, Served, Remembered, Returning, Plan, MembersOf

LEMMA StepSound ==
    ASSUME AInv, NEW k \in Runners, OthersKept(k), ctlMu' \in {ctlMu, k, Free},
           pool # EmptyPool => pool' # EmptyPool, served.running => served'.running,
           Sound(k)', NeverLeftStopped'
    PROVE  AInv'
<1>1. ASSUME NEW j \in Runners PROVE Sound(j)'
  BY OthersSound DEF AInv
<1> QED BY <1>1 DEF AInv

\* A step that changes neither the pool nor what is served.
LEMMA QuietSound ==
    ASSUME AInv, NEW k \in Runners, OthersKept(k), UNCHANGED <<pool, served>>,
           ctlMu' \in {ctlMu, k, Free}, ctlMu = "revalidate" => ctlMu' = "revalidate",
           Sound(k)'
    PROVE  AInv'
<1>1. NeverLeftStopped'
  BY DEF AInv, NeverLeftStopped
<1> QED BY <1>1, StepSound

LEMMA ReturnSound ==
    ASSUME IInv, AInv, NEW k \in Runners, Return(k), UNCHANGED <<pool, served>>,
           k = "revalidate" => ctlMu # "revalidate" \/ served.running
    PROVE  AInv'
<1>1. TypeOK BY DEF IInv
<1>2. /\ OthersKept(k) /\ task'[k].pc = "idle" /\ ctlMu' = Released(ctlMu, k)
  BY <1>1, ReturnFacts
<1>3. ctlMu' \in {ctlMu, k, Free} /\ ctlMu' # k
  BY <1>2 DEF Released, Runners, Tasks, ScanFirst, Handlers, Free
<1>4. Sound(k)'
  BY <1>2, <1>3 DEF Sound, Served, Remembered, Returning
<1>5. NeverLeftStopped'
  BY <1>2 DEF AInv, NeverLeftStopped, Released
<1> QED BY <1>2, <1>3, <1>4, <1>5, StepSound

LEMMA StartScanSound == ASSUME IInv, AInv, NEW k \in Runners, StartScan(k) PROVE AInv'
<1>1. TypeOK BY DEF IInv
<1>2. Goto(k, "scanning") /\ UNCHANGED <<pool, served, ctlMu>> /\ k # "revalidate"
  BY DEF StartScan, PoolVars, ScanFirst
<1>3. OthersKept(k) /\ task'[k].pc = "scanning"
  BY <1>1, <1>2, GotoFacts DEF PCs, OthersKept
<1>4. Sound(k)'
  BY <1>2, <1>3 DEF Sound, Served, Remembered, Returning
<1> QED BY <1>2, <1>3, <1>4, QuietSound

LEMMA CopyPoolSound == ASSUME IInv, AInv, NEW k \in Runners, CopyPool(k) PROVE AInv'
<1> DEFINE pc == IF k \in {"reap", "revalidate"} THEN "queued" ELSE "exam"
<1>1. TypeOK BY DEF IInv
<1>2. /\ Move(k, pc, pool, EmptyPool) /\ UNCHANGED <<pool, served, ctlMu>>
      /\ task[k].pc \in {"idle", "scanning"}
      /\ k = "revalidate" => pool # EmptyPool /\ task[k].pc = "idle"
  BY DEF CopyPool, At, PoolVars, Locks, MembersOf, EmptyPool, ScanFirst
<1>3. pc \in {"queued", "exam"} /\ (k = "revalidate" => pc = "queued") OBVIOUS
<1> HIDE DEF pc
<1>4. OthersKept(k) /\ task'[k].pc = pc /\ task'[k].copy = pool
  BY <1>1, <1>2, <1>3, EmptyPoolType, MoveFacts DEF PCs, OthersKept, TypeOK
<1>5. k = "revalidate" => Plan(task'[k].copy) # {} /\ ctlMu # k
  BY <1>2, <1>4 DEF IInv, Forwardable, AInv, Sound, Returning
<1>6. Sound(k)'
  BY <1>2, <1>3, <1>4, <1>5 DEF Sound, Served, Remembered, Returning, Plan, MembersOf
<1> QED BY <1>2, <1>4, <1>6, QuietSound

LEMMA QueueScanSound == ASSUME IInv, AInv, NEW k \in Runners, QueueScan(k) PROVE AInv'
<1>1. TypeOK BY DEF IInv
<1>2. Goto(k, "scanning") /\ UNCHANGED <<pool, served, ctlMu>> /\ task[k].pc = "queued"
  BY DEF QueueScan, PoolVars, At
<1>3. OthersKept(k) /\ task'[k].pc = "scanning" /\ task'[k].copy = task[k].copy
  BY <1>1, <1>2, GotoFacts DEF PCs, OthersKept
<1>4. Sound(k)'
  BY <1>2, <1>3 DEF AInv, Sound, Served, Remembered, Returning, Plan, MembersOf
<1> QED BY <1>2, <1>3, <1>4, QuietSound

LEMMA ScannedSound == ASSUME IInv, AInv, "reap" \in Runners, Scanned PROVE AInv'
<1>1. TypeOK /\ UNCHANGED <<pool, served, ctlMu>> BY DEF IInv, Scanned, PoolVars
<1>2. [task["reap"].copy EXCEPT !.ips = {}] \in Pool
  BY <1>1, TaskFields, EditType
<1>3. /\ task'["reap"].pc = "wait" /\ task' \in [Runners -> Task]
      /\ \A j \in Runners \ {"reap"} : task'[j] = task[j]
  BY <1>1, <1>2, EmptyPoolType, GotoFacts, MoveFacts DEF Scanned, PCs
<1>4. OthersKept("reap")
  BY <1>1, <1>3 DEF OthersKept
<1>5. Sound("reap")'
  BY <1>3 DEF Sound, Served, Remembered, Returning
<1> QED BY <1>1, <1>4, <1>5, QuietSound

LEMMA ProposeSound == ASSUME IInv, AInv, NEW k \in Runners, Propose(k) PROVE AInv'
<1>1. TypeOK BY DEF IInv
<1>2. PICK p \in Pools(k, task[k].copy) : Move(k, "wait", task[k].copy, p)
  BY DEF Propose
<1>3. UNCHANGED <<pool, served, ctlMu>> /\ k \in Tasks /\ k \notin {"reap", "revalidate"}
  BY DEF Propose, ScanFirst, Tasks, PoolVars, Locks
<1>4. p \in Pool
  BY <1>1, <1>3, TaskFields, PoolsType
<1>5. OthersKept(k) /\ task'[k].pc = "wait"
  BY <1>1, <1>2, <1>3, <1>4, TaskFields, MoveFacts DEF PCs, OthersKept
<1>6. Sound(k)'
  BY <1>3, <1>5 DEF Sound, Served, Remembered, Returning
<1> QED BY <1>3, <1>5, <1>6, QuietSound

\* autoApplyProxyPool goes on to setProxyPoolError.
LEMMA ErrorSound ==
    ASSUME IInv, AInv, "auto" \in Runners, Goto("auto", "error"), UNCHANGED <<pool, served>>,
           ctlMu' = ctlMu \/ (ctlMu = "auto" /\ ctlMu' = Free)
    PROVE  AInv'
<1>1. TypeOK BY DEF IInv
<1>2. OthersKept("auto") /\ task'["auto"].pc = "error"
  BY <1>1, GotoFacts DEF PCs, OthersKept
<1>3. Sound("auto")'
  BY <1>2 DEF Sound, Served, Remembered, Returning
<1> QED BY <1>2, <1>3, QuietSound

LEMMA RefuseSound == ASSUME IInv, AInv, NEW k \in Runners, Refuse(k) PROVE AInv'
<1>1. UNCHANGED <<pool, served>> /\ task[k].pc = "exam"
  BY DEF Refuse, PoolVars, At
<1>2. CASE k = "auto"
  BY <1>1, <1>2, ErrorSound DEF Refuse, Locks
<1>3. CASE k # "auto"
  <2>1. k # "revalidate"
    BY <1>1 DEF AInv, Sound, Returning
  <2> QED BY <1>1, <1>3, <2>1, ReturnSound DEF Refuse
<1> QED BY <1>2, <1>3

LEMMA GiveUpSound == ASSUME Unfailing, IInv, AInv, NEW k \in Runners, GiveUp(k) PROVE AInv'
<1>1. UNCHANGED <<pool, served>> /\ Return(k) /\ task[k].pc \in {"queued", "scanning", "wait"}
  BY DEF GiveUp, PoolVars, At
<1>2. k = "revalidate" => ctlMu # k
  BY <1>1 DEF AInv, Sound, Returning
<1> QED BY <1>1, <1>2, ReturnSound

LEMMA ReverifySound == ASSUME Unfailing, IInv, AInv, "auto" \in Runners, Reverify PROVE AInv'
<1>1. TypeOK BY DEF IInv
<1>2. UNCHANGED <<pool, served, ctlMu>> /\ task["auto"].pc = "exam"
  BY DEF Reverify, Unfailing, Locks, At
<1>3. PICK p \in AutoPools : /\ SameMembers(p, task["auto"].copy)
                             /\ Move("auto", "publish", task["auto"].copy, p)
  BY DEF Reverify, Unfailing
<1>4. p \in Pool /\ Plan(p) # {}
  BY <1>1, AutoPoolsType
<1>5. task["auto"].copy # EmptyPool
  BY <1>3, <1>4 DEF SameMembers, Plan, MembersOf, EmptyPool
<1>6. pool # EmptyPool
  BY <1>2, <1>5 DEF AInv, Sound, Remembered
<1>7. OthersKept("auto") /\ task'["auto"].pc = "publish"
  BY <1>1, <1>2, <1>3, <1>4, TaskFields, MoveFacts DEF PCs, OthersKept
<1>8. Sound("auto")'
  BY <1>2, <1>6, <1>7 DEF Sound, Served, Remembered, Returning
<1> QED BY <1>2, <1>7, <1>8, QuietSound

\* A task that takes cfnatCtlMu for a replacement.
LEMMA EnterSound ==
    ASSUME IInv, AInv, NEW k \in Runners, k # "revalidate", ctlMu = Free, ctlMu' = k,
           NEW copy \in Pool, NEW next \in Pool, Move(k, "swap", copy, next),
           UNCHANGED <<pool, served>>
    PROVE  AInv'
<1>1. TypeOK BY DEF IInv
<1>2. OthersKept(k) /\ task'[k].pc = "swap"
  BY <1>1, MoveFacts DEF PCs, OthersKept, Runners, Tasks, ScanFirst, Handlers, Free
<1>3. Sound(k)'
  BY <1>2 DEF Sound, Served, Remembered, Returning
<1> QED BY <1>2, <1>3, QuietSound DEF Free

LEMMA TakeCtlSound == ASSUME IInv, AInv, NEW k \in Runners, TakeCtl(k) PROVE AInv'
<1>1. TypeOK /\ k # "revalidate" BY DEF IInv, TakeCtl, ScanFirst
<1> QED BY <1>1, TaskFields, EnterSound DEF TakeCtl, Goto, PoolVars

LEMMA HandleSound == ASSUME IInv, AInv, NEW k \in Runners, Handle(k) PROVE AInv'
<1>1. TypeOK BY DEF IInv
<1>2. PICK p \in Pools(k, pool) : Move(k, "swap", pool, p)
  BY DEF Handle
<1>3. pool \in Pool /\ k \in Tasks /\ k \notin {"reap", "revalidate"}
  BY <1>1 DEF TypeOK, Handle, Handlers, Tasks
<1>4. p \in Pool
  BY <1>1, <1>3, PoolsType
<1> QED BY <1>2, <1>3, <1>4, EnterSound DEF Handle, PoolVars

LEMMA ReapSound == ASSUME IInv, AInv, "reap" \in Runners, Reap PROVE AInv'
<1>1. TypeOK /\ UNCHANGED <<pool, served>> /\ ctlMu = Free /\ pool \in Pool
  BY DEF IInv, TypeOK, Reap, PoolVars
<1>2. CASE \E p \in ReapPools(task["reap"].copy, pool) : ctlMu' = "reap" /\ Move("reap", "swap", pool, p)
  <2>1. PICK p \in ReapPools(task["reap"].copy, pool) : ctlMu' = "reap" /\ Move("reap", "swap", pool, p)
    BY <1>2
  <2>2. p \in Pool
    BY <1>1, <2>1, ReapPoolsType
  <2> QED BY <1>1, <2>1, <2>2, EnterSound
<1>3. CASE Return("reap")
  BY <1>1, <1>3, ReturnSound
<1> QED BY <1>2, <1>3 DEF Reap

\* The one step that stops cfnat.
LEMMA PauseSound == ASSUME IInv, AInv, "revalidate" \in Runners, Pause PROVE AInv'
<1> DEFINE k == "revalidate"
<1>1. TypeOK BY DEF IInv
<1>2. Goto(k, "paused") /\ UNCHANGED pool /\ ctlMu = Free /\ ctlMu' = k /\ task[k].pc = "scanning"
  BY DEF Pause, At
<1>3. /\ task' \in [Runners -> Task] /\ task'[k].pc = "paused" /\ task'[k].copy = task[k].copy
      /\ \A j \in Runners \ {k} : task'[j] = task[j]
  BY <1>1, <1>2, GotoFacts DEF PCs
<1>4. Sound(k)'
  BY <1>2, <1>3 DEF AInv, Sound, Served, Remembered, Returning, Plan, MembersOf
<1>5. ASSUME NEW j \in Runners \ {k} PROVE Sound(j)'
  <2>1. task[j].pc = "publish" => j = "auto" /\ pool # EmptyPool
    BY <1>2 DEF IInv, CtlHeld, AInv, Sound, Served, Runners, Tasks, ScanFirst, Handlers, Free
  <2> QED BY <1>2, <1>3, <2>1 DEF AInv, Sound, Served, Remembered, Returning
<1> QED BY <1>2, <1>4, <1>5 DEF AInv, NeverLeftStopped

LEMMA VerdictSound == ASSUME IInv, AInv, "revalidate" \in Runners, Verdict PROVE AInv'
<1> DEFINE k == "revalidate"
<1>1. TypeOK BY DEF IInv
<1>2. UNCHANGED <<pool, served, ctlMu>> /\ task[k].pc = "paused"
  BY DEF Verdict, At, PoolVars, Locks
<1>3. /\ task' \in [Runners -> Task] /\ task'[k].pc \in {"swap", "resume"}
      /\ task'[k].copy = task[k].copy
      /\ \A j \in Runners \ {k} : task'[j] = task[j]
  <2>1. CASE \E p \in Pools(k, task[k].copy) : Move(k, "swap", task[k].copy, p)
    <3>1. PICK p \in Pools(k, task[k].copy) : Move(k, "swap", task[k].copy, p)
      BY <2>1
    <3>2. task[k].copy \in Pool /\ p \in Pool
      BY <1>1, <3>1, TaskFields, PoolsType DEF Tasks
    <3> QED BY <1>1, <3>1, <3>2, MoveFacts DEF PCs
  <2>2. CASE Goto(k, "resume")
    BY <1>1, <2>2, GotoFacts DEF PCs
  <2> QED BY <2>1, <2>2 DEF Verdict
<1>4. OthersKept(k)
  BY <1>2, <1>3 DEF OthersKept
<1>5. Sound(k)'
  BY <1>2, <1>3 DEF AInv, Sound, Served, Remembered, Returning, Plan, MembersOf
<1> QED BY <1>2, <1>4, <1>5, QuietSound

LEMMA ResumeSound == ASSUME Unfailing, IInv, AInv, "revalidate" \in Runners, Resume PROVE AInv'
<1> DEFINE k == "revalidate"
<1>1. TypeOK BY DEF IInv
<1>2. Forwards(task[k].copy) /\ UNCHANGED pool
  BY DEF Resume, At, AInv, Sound, Returning, Forwards
<1>3. Return(k) /\ served'.running
  BY <1>2 DEF Resume, Unfailing, Running
<1>4. OthersKept(k) /\ task'[k].pc = "idle" /\ ctlMu' = Released(ctlMu, k)
  BY <1>1, <1>3, ReturnFacts
<1>5. ctlMu' \in {ctlMu, k, Free} /\ ctlMu' # k
  BY <1>4 DEF Released, Free
<1>6. Sound(k)'
  BY <1>4, <1>5 DEF Sound, Served, Remembered, Returning
<1> QED BY <1>2, <1>3, <1>4, <1>5, <1>6, StepSound DEF NeverLeftStopped

LEMMA SwapSound == ASSUME Unfailing, IInv, AInv, NEW k \in Runners, Swap(k) PROVE AInv'
<1> DEFINE old == task[k].copy
           new == Admitted(task[k].next)
<1>1. TypeOK BY DEF IInv
<1>2. UNCHANGED pool /\ ctlMu = k /\ task[k].pc = "swap"
  BY DEF Swap, At, IInv, CtlHeld
<1>3. CASE served' = Running(Plan(new)) /\ Move(k, "publish", old, new) /\ UNCHANGED Locks
  <2>1. old \in Pool /\ new \in Pool
    BY <1>1, TaskFields, AdmittedType
  <2> HIDE DEF new
  <2>2. OthersKept(k) /\ task'[k].pc = "publish" /\ served'.running
    BY <1>1, <1>3, <2>1, MoveFacts DEF PCs, OthersKept, Locks, Running
  <2>3. Sound(k)'
    BY <1>2, <1>3, <2>2 DEF Sound, Served, Remembered, Returning, Locks
  <2> QED BY <1>2, <1>3, <2>2, <2>3, StepSound DEF NeverLeftStopped, Locks
<1>4. CASE UNCHANGED served /\ Failed(k)
  <2>1. CASE k = "revalidate"
    <3>1. Goto(k, "resume") /\ UNCHANGED Locks
      BY <1>4, <2>1 DEF Failed
    <3>2. OthersKept(k) /\ task'[k].pc = "resume" /\ task'[k].copy = task[k].copy
      BY <1>1, <3>1, GotoFacts DEF PCs, OthersKept, Locks
    <3>3. Sound(k)'
      BY <1>2, <2>1, <3>2 DEF AInv, Sound, Served, Remembered, Returning, Plan, MembersOf
    <3> QED BY <1>2, <1>4, <3>1, <3>2, <3>3, QuietSound DEF Locks
  <2>2. CASE k = "auto"
    BY <1>2, <1>4, <2>2, ErrorSound DEF Failed
  <2>3. CASE k \notin {"revalidate", "auto"}
    BY <1>2, <1>4, <2>3, ReturnSound DEF Failed
  <2> QED BY <2>1, <2>2, <2>3
<1> QED BY <1>3, <1>4 DEF Swap, Unfailing

LEMMA PublishSound == ASSUME IInv, AInv, NEW k \in Runners, Publish(k) PROVE AInv'
<1>1. TypeOK BY DEF IInv
<1>2. pool' = task[k].next /\ UNCHANGED served /\ Return(k) /\ task[k].pc = "publish"
  BY DEF Publish, At
<1>3. pool' # EmptyPool
  BY <1>2 DEF IInv, PendingForwardable, Plan, MembersOf, EmptyPool
<1>4. OthersKept(k) /\ task'[k].pc = "idle" /\ ctlMu' = Released(ctlMu, k)
  BY <1>1, <1>2, ReturnFacts
<1>5. ctlMu' \in {ctlMu, k, Free} /\ ctlMu' # k
  BY <1>4 DEF Released, Runners, Tasks, ScanFirst, Handlers, Free
<1>6. Sound(k)'
  BY <1>4, <1>5 DEF Sound, Served, Remembered, Returning
<1>7. NeverLeftStopped'
  BY <1>2, <1>4 DEF AInv, Sound, Served, NeverLeftStopped, Released
<1> QED BY <1>2, <1>3, <1>4, <1>5, <1>6, <1>7, StepSound

\* A revalidation blames nobody here.
LEMMA OnlyAutoBlames ==
    ASSUME IInv, AInv, NEW k \in Runners, task[k].pc \in {"error", "blame"}
    PROVE  k = "auto"
BY DEF IInv, CtlHeld, AInv, Sound, Returning

LEMMA ErrorReadSound == ASSUME IInv, AInv, NEW k \in Runners, ErrorRead(k) PROVE AInv'
<1>1. TypeOK /\ pool \in Pool BY DEF IInv, TypeOK
<1>2. /\ Move(k, "blame", pool, EmptyPool) /\ UNCHANGED <<pool, served, ctlMu>> /\ k = "auto"
  BY OnlyAutoBlames DEF ErrorRead, At, PoolVars, Locks
<1>3. OthersKept(k) /\ task'[k].pc = "blame" /\ task'[k].copy = pool
  BY <1>1, <1>2, EmptyPoolType, MoveFacts DEF PCs, OthersKept
<1>4. Sound(k)'
  BY <1>2, <1>3 DEF Sound, Served, Remembered, Returning
<1> QED BY <1>2, <1>3, <1>4, QuietSound

LEMMA ErrorWriteSound == ASSUME IInv, AInv, NEW k \in Runners, ErrorWrite(k) PROVE AInv'
<1>1. TypeOK BY DEF IInv
<1>2. pool' = task[k].copy /\ UNCHANGED served /\ Return(k) /\ task[k].pc = "blame" /\ k = "auto"
  BY OnlyAutoBlames DEF ErrorWrite, At
<1>3. OthersKept(k) /\ task'[k].pc = "idle" /\ ctlMu' = Released(ctlMu, k)
  BY <1>1, <1>2, ReturnFacts
<1>4. pool' # EmptyPool => pool # EmptyPool
  BY <1>2 DEF AInv, Sound, Remembered
<1>5. NeverLeftStopped'
  BY <1>2, <1>3, <1>4 DEF AInv, NeverLeftStopped, Released
<1>6. ASSUME NEW j \in Runners PROVE Sound(j)'
  <2>1. CASE j = k
    BY <1>3, <2>1, <1>2 DEF Sound, Served, Remembered, Returning
  <2>2. CASE j # k
    <3>1. task'[j] = task[j] /\ (ctlMu = j <=> ctlMu' = j)
      BY <1>3, <2>2 DEF OthersKept, Released, Runners, Tasks, ScanFirst, Handlers, Free
    <3>2. task[j].pc = "publish" => ctlMu = j /\ served.running
      BY <1>2, <2>2 DEF IInv, CtlHeld, AInv, Sound, Served
    <3> QED BY <1>2, <2>2, <3>1, <3>2 DEF AInv, Sound, Served, Remembered, Returning, Plan, MembersOf
  <2> QED BY <2>1, <2>2
<1> QED BY <1>5, <1>6 DEF AInv

LEMMA RestartSound == ASSUME Unfailing, IInv, AInv, Restart PROVE AInv'
<1>1. TypeOK BY DEF IInv
<1>2. pool' = file /\ served' = Startup(file) /\ task' = Idle /\ ctlMu' = Free
  BY DEF Restart, Unfailing
<1>3. \A k \in Runners : Sound(k)'
  BY <1>1, <1>2, IdleKeeps DEF Sound, Served, Remembered, Returning, Free
<1>4. file # EmptyPool => MembersOf(file) # {}
  BY DEF IInv, Forwardable, Plan
<1> QED BY <1>2, <1>3, <1>4 DEF AInv, NeverLeftStopped, Startup, Running

LEMMA AInvInit == ASSUME Unfailing, Init PROVE AInv
<1>1. pool # EmptyPool => MembersOf(pool) # {}
  BY InitialAssumption DEF Init, Forwards, Plan
<1>2. \A k \in Runners : task[k].pc = "idle"
  BY DEF Init, Idle, IdleTask
<1>3. served = Startup(pool) /\ ctlMu = Free
  BY DEF Init
<1>4. \A k \in Runners : Sound(k)
  BY <1>2, <1>3 DEF Sound, Served, Remembered, Returning, Free, Runners
<1> QED BY <1>1, <1>3, <1>4 DEF AInv, NeverLeftStopped, Startup, Running

LEMMA AInvNext == ASSUME Unfailing, IInv, AInv, [Next]_vars PROVE AInv'
<1>1. ASSUME NEW k \in Runners, Step(k) PROVE AInv'
  <2>1. CASE k = "auto" /\ AutoBusy
    BY <2>1, ErrorSound DEF AutoBusy, PoolVars, Locks
  <2> QED
    BY <1>1, <2>1, StartScanSound, CopyPoolSound, QueueScanSound, ProposeSound, RefuseSound,
       GiveUpSound, TakeCtlSound, HandleSound, SwapSound, PublishSound, ErrorReadSound,
       ErrorWriteSound, ReverifySound, ScannedSound, ReapSound, PauseSound, VerdictSound,
       ResumeSound
    DEF Step
<1>2. CASE Restart
  BY <1>2, RestartSound
<1>3. CASE RefillAbandoned \/ NewVerdicts \/ UNCHANGED vars
  BY <1>3 DEF RefillAbandoned, NewVerdicts, vars, PoolVars, Locks, AInv, NeverLeftStopped,
     Sound, Served, Remembered, Returning, Plan, MembersOf
<1>4. ~UserCFnat /\ ~CFnatDies
  BY DEF UserCFnat, CFnatDies, Unfailing
<1> QED BY <1>1, <1>2, <1>3, <1>4 DEF Next

\* Whatever the tasks do at the same time, cfnat forwards to a pool that has members,
\* unless a revalidation holds cfnatCtlMu to start it again.
THEOREM NeverLeftStoppedCorrect ==
    ASSUME Unfailing
    PROVE  Spec => []NeverLeftStopped
<1>1. AInv => NeverLeftStopped BY DEF AInv
<1> QED BY <1>1, AInvInit, AInvNext, PoolInvHolds, PTL DEF Spec

-----------------------------------------------------------------------------
(***************************************************************************)
(* What cfnat forwards to.  With a pool file that leaves nothing switched  *)
(* off, no faults, and without the tasks that write one of the three alone *)
(* (auto reverifies, revalidate starts its copy, restart ignores Disabled, *)
(* the user starts cfnat with anything), the running cfnat, the file and   *)
(* the memory copy agree whenever nobody holds cfnatCtlMu.                 *)
(***************************************************************************)
Tame == /\ ~Faults
        /\ Actors \cap {"auto", "revalidate", "restart", "cfnat"} = {}
        /\ \A p \in InitialPools : Plan(p) = MembersOf(p)

InStep == /\ file = pool
          /\ served = IF pool = EmptyPool THEN Stopped ELSE Running(Plan(pool))

\* In the middle of a replacement the file and cfnat are ahead of the memory copy.
Ahead(k) == file = task[k].next /\ served = Running(Plan(task[k].next))

SInv == /\ \A k \in Runners : task[k].pc = "publish" => Ahead(k)
        /\ (\A k \in Runners : task[k].pc # "publish") => InStep

\* A step of k outside the publication, with the other tasks as they were.
LEMMA StaysInStep ==
    ASSUME SInv, NEW k \in Runners, task[k].pc # "publish", task'[k].pc # "publish",
           \A j \in Runners \ {k} : task'[j] = task[j], UNCHANGED PoolVars
    PROVE  SInv'
<1>1. \A j \in Runners : task'[j].pc = "publish" => task[j].pc = "publish" /\ task'[j] = task[j]
  OBVIOUS
<1>2. \A j \in Runners : task[j].pc = "publish" => task'[j].pc = "publish"
  OBVIOUS
<1> QED BY <1>1, <1>2 DEF SInv, Ahead, InStep, PoolVars, Plan, MembersOf

LEMMA SwapInStep ==
    ASSUME Tame, IInv, SInv, NEW k \in Runners, Swap(k)
    PROVE  SInv'
<1> DEFINE new == Admitted(task[k].next)
<1>1. TypeOK BY DEF IInv
<1>2. /\ ctlMu = k /\ task[k].pc = "swap" /\ k \notin {"auto", "revalidate"}
      /\ \A j \in Runners : task[j].pc # "publish"
  BY DEF Swap, At, IInv, CtlHeld, Tame, Runners
<1>3. CASE /\ served' = Running(Plan(new)) /\ file' = new
           /\ Move(k, "publish", task[k].copy, new)
  <2>1. new \in Pool
    BY <1>1, TaskFields, AdmittedType
  <2>2. /\ task'[k].pc = "publish" /\ task'[k].next = new
        /\ \A j \in Runners \ {k} : task'[j] = task[j]
    BY <1>1, <1>3, <2>1, TaskFields, MoveFacts DEF PCs
  <2> HIDE DEF new
  <2> QED BY <1>2, <1>3, <2>2 DEF SInv, Ahead, Plan, MembersOf
<1>4. CASE UNCHANGED <<served, file>> /\ Failed(k)
  <2>1. Return(k) /\ UNCHANGED PoolVars
    BY <1>2, <1>4 DEF Failed, Swap, PoolVars
  <2>2. task'[k].pc # "publish" /\ \A j \in Runners \ {k} : task'[j] = task[j]
    BY <1>1, <2>1, ReturnFacts DEF OthersKept
  <2> QED BY <1>2, <2>1, <2>2, StaysInStep
<1> QED BY <1>3, <1>4 DEF Swap, Tame

LEMMA PublishInStep ==
    ASSUME Tame, IInv, SInv, NEW k \in Runners, Publish(k)
    PROVE  SInv'
<1>1. TypeOK BY DEF IInv
<1>2. /\ task[k].pc = "publish" /\ Plan(task[k].next) # {} /\ Ahead(k)
      /\ \A j \in Runners \ {k} : task[j].pc # "publish"
  BY DEF Publish, At, IInv, CtlHeld, PendingForwardable, Tame, Runners, SInv
<1>3. task[k].next # EmptyPool
  BY <1>2 DEF Plan, MembersOf, EmptyPool
<1>4. /\ pool' = task[k].next /\ UNCHANGED <<file, served>> /\ Return(k)
  BY DEF Publish
<1>5. \A j \in Runners : task'[j].pc # "publish"
  BY <1>1, <1>2, <1>4, ReturnFacts DEF OthersKept
<1>6. InStep'
  BY <1>2, <1>3, <1>4 DEF InStep, Ahead, Plan, MembersOf
<1> QED BY <1>5, <1>6 DEF SInv

LEMMA StepInStep ==
    ASSUME Tame, IInv, SInv, NEW k \in Runners, Step(k)
    PROVE  SInv'
<1>1. TypeOK /\ k \notin {"auto", "revalidate"}
  BY DEF IInv, Tame, Runners
<1>2. CASE Swap(k)
  BY <1>2, SwapInStep
<1>3. CASE Publish(k)
  BY <1>3, PublishInStep
<1>4. CASE StartScan(k) \/ QueueScan(k) \/ TakeCtl(k)
  <2>1. PICK pc \in {"scanning", "swap"} : Goto(k, pc)
    BY <1>4 DEF StartScan, QueueScan, TakeCtl
  <2>2. UNCHANGED PoolVars /\ task[k].pc # "publish"
    BY <1>4 DEF StartScan, QueueScan, TakeCtl, PoolVars, At
  <2> QED BY <1>1, <2>1, <2>2, GotoFacts, StaysInStep DEF PCs
<1>5. CASE GiveUp(k) \/ Refuse(k)
  <2>1. Return(k) /\ UNCHANGED PoolVars /\ task[k].pc # "publish"
    BY <1>1, <1>5 DEF GiveUp, Refuse, At
  <2> QED BY <1>1, <2>1, ReturnFacts, StaysInStep DEF OthersKept
<1>6. CASE CopyPool(k)
  <2>1. /\ Move(k, IF k = "reap" THEN "queued" ELSE "exam", pool, EmptyPool)
        /\ UNCHANGED PoolVars /\ task[k].pc # "publish"
    BY <1>1, <1>6 DEF CopyPool, At
  <2> QED BY <1>1, <2>1, EmptyPoolType, MoveFacts, StaysInStep DEF PCs, TypeOK
<1>7. CASE Propose(k)
  <2>1. PICK p \in Pools(k, task[k].copy) : Move(k, "wait", task[k].copy, p)
    BY <1>7 DEF Propose
  <2>2. p \in Pool /\ UNCHANGED PoolVars /\ task[k].pc # "publish"
    BY <1>1, <1>7, <2>1, TaskFields, PoolsType DEF Propose, At, ScanFirst, Tasks
  <2> QED BY <1>1, <2>1, <2>2, TaskFields, MoveFacts, StaysInStep DEF PCs
<1>8. CASE Handle(k)
  <2>1. PICK p \in Pools(k, pool) : Move(k, "swap", pool, p)
    BY <1>8 DEF Handle
  <2>2. /\ p \in Pool /\ pool \in Pool /\ UNCHANGED PoolVars /\ task[k].pc # "publish"
    BY <1>1, <1>8, <2>1, PoolsType DEF Handle, At, Handlers, Tasks, TypeOK
  <2> QED BY <1>1, <2>1, <2>2, MoveFacts, StaysInStep DEF PCs
<1>9. CASE k = "reap" /\ Reap
  <2>1. UNCHANGED PoolVars /\ task[k].pc # "publish"
    BY <1>9 DEF Reap, At
  <2>2. CASE Return(k)
    BY <1>1, <2>1, <2>2, ReturnFacts, StaysInStep DEF OthersKept
  <2>3. CASE \E p \in ReapPools(task[k].copy, pool) : Move(k, "swap", pool, p)
    <3>1. PICK p \in ReapPools(task[k].copy, pool) : Move(k, "swap", pool, p)
      BY <2>3
    <3>2. pool \in Pool /\ p \in Pool
      BY <1>1, <3>1, ReapPoolsType DEF TypeOK
    <3> QED BY <1>1, <2>1, <3>1, <3>2, MoveFacts, StaysInStep DEF PCs
  <2> QED BY <1>9, <2>2, <2>3 DEF Reap
<1>10. CASE k = "reap" /\ Scanned
  <2>1. UNCHANGED PoolVars /\ task[k].pc # "publish"
    BY <1>10 DEF Scanned, At
  <2>2. [task[k].copy EXCEPT !.ips = {}] \in Pool
    BY <1>1, TaskFields, EditType
  <2>3. task'[k].pc = "wait" /\ \A j \in Runners \ {k} : task'[j] = task[j]
    BY <1>1, <1>10, <2>2, EmptyPoolType, GotoFacts, MoveFacts DEF Scanned, PCs
  <2> QED BY <2>1, <2>3, StaysInStep
<1>11. CASE ErrorRead(k) \/ ErrorWrite(k)
  BY <1>1, <1>11 DEF ErrorRead, ErrorWrite, At, IInv, CtlHeld
<1> QED BY <1>1, <1>2, <1>3, <1>4, <1>5, <1>6, <1>7, <1>8, <1>9, <1>10, <1>11 DEF Step

LEMMA SInvInit ==
    ASSUME Tame, Init
    PROVE  SInv
<1>1. \A k \in Runners : task[k].pc # "publish"
  BY DEF Init, Idle, IdleTask
<1>2. pool # EmptyPool => MembersOf(pool) # {}
  BY InitialAssumption DEF Init, Forwards, Plan
<1>3. MembersOf(EmptyPool) = {}
  BY DEF MembersOf, EmptyPool
<1> QED BY <1>1, <1>2, <1>3 DEF Init, SInv, InStep, Startup, Tame

LEMMA SInvNext ==
    ASSUME Tame, IInv, SInv, [Next]_vars
    PROVE  SInv'
<1>1. CASE \E k \in Runners : Step(k)
  BY <1>1, StepInStep
<1>2. CASE RefillAbandoned \/ NewVerdicts \/ UNCHANGED vars
  BY <1>2 DEF RefillAbandoned, NewVerdicts, vars, PoolVars, SInv, Ahead, InStep, Plan, MembersOf
<1>3. ~Restart /\ ~UserCFnat /\ ~CFnatDies
  BY DEF Restart, UserCFnat, CFnatDies, Tame
<1> QED BY <1>1, <1>2, <1>3 DEF Next

\* cfnat, the saved pool and the pool in memory agree between replacements.
THEOREM ServedIsPoolCorrect ==
    ASSUME Tame
    PROVE  Spec => []ServedIsPool
<1>1. IInv /\ SInv => ServedIsPool
  <2> SUFFICES ASSUME IInv, SInv, ctlMu = Free PROVE InStep
    BY DEF ServedIsPool, InStep
  <2>1. \A k \in Runners : task[k].pc # "publish"
    BY DEF IInv, CtlHeld, Tame, Runners, Tasks, ScanFirst, Handlers, Free
  <2> QED BY <2>1 DEF SInv
<1> QED BY <1>1, SInvInit, SInvNext, PoolInvHolds, PTL DEF Spec

-----------------------------------------------------------------------------
(***************************************************************************)
(* The refinement.  The initial pool starts the abstract sequence; a swap  *)
(* that succeeds is a replacement, and finds the file and memory in step;  *)
(* a publication is an announcement; every other step changes nothing that *)
(* the abstract specification sees.                                        *)
(***************************************************************************)
LEMMA StartMaps ==
    ASSUME Tame, Init
    PROVE  Abstract!Start
<1>1. pool \in Pool /\ file = pool
  BY InitialAssumption DEF Init
<1>2. MembersOf(pool) = Plan(pool)
  BY DEF Init, Tame
<1>3. served.fixed = Plan(pool)
  BY <1>2 DEF Init, Startup, Stopped, Running
<1> QED BY <1>1, <1>3 DEF Abstract!Start

LEMMA SwapMaps ==
    ASSUME Tame, IInv, SInv, NEW k \in Runners, Swap(k)
    PROVE  Abstract!Replace \/ UNCHANGED Abstract!poolVars
<1> DEFINE new == Admitted(task[k].next)
<1>1. TypeOK BY DEF IInv
<1>2. /\ ctlMu = k /\ k \notin {"auto", "revalidate"}
      /\ \A j \in Runners : task[j].pc # "publish"
      /\ UNCHANGED pool
  BY DEF Swap, At, IInv, CtlHeld, Tame, Runners
<1>3. file = pool
  BY <1>2 DEF SInv, InStep
<1>4. CASE Forwards(new) /\ served' = Running(Plan(new)) /\ file' = new
  <2>1. new \in Pool
    BY <1>1, TaskFields, AdmittedType
  <2>2. Plan(new) # {} /\ served'.fixed = Plan(new)
    BY <1>4 DEF Forwards, Running
  <2> HIDE DEF new
  <2> QED BY <1>2, <1>3, <1>4, <2>1, <2>2 DEF Abstract!Replace
<1>5. CASE UNCHANGED <<served, file>>
  BY <1>2, <1>5 DEF Abstract!poolVars
<1> QED BY <1>4, <1>5 DEF Swap, Tame

LEMMA PublishMaps ==
    ASSUME Tame, IInv, SInv, NEW k \in Runners, Publish(k)
    PROVE  Abstract!Announce
<1>1. Ahead(k)
  BY DEF Publish, At, SInv
<1> QED BY <1>1 DEF Publish, Ahead, Abstract!Announce

LEMMA StepMaps ==
    ASSUME Tame, IInv, SInv, [Next]_vars
    PROVE  [Abstract!Replace \/ Abstract!Announce]_(Abstract!poolVars)
<1>1. ASSUME NEW k \in Runners, Swap(k) PROVE Abstract!Replace \/ UNCHANGED Abstract!poolVars
  BY <1>1, SwapMaps
<1>2. ASSUME NEW k \in Runners, Publish(k) PROVE Abstract!Announce
  BY <1>2, PublishMaps
<1>3. \A k \in Runners : ~ErrorWrite(k) /\ ~(k \in {"auto", "revalidate"})
  BY DEF ErrorWrite, At, IInv, CtlHeld, Tame, Runners
<1>4. ~Restart /\ ~UserCFnat /\ ~CFnatDies
  BY DEF Restart, UserCFnat, CFnatDies, Tame
<1>5. \/ \E k \in Runners : Swap(k) \/ Publish(k)
      \/ UNCHANGED PoolVars
  BY <1>3, <1>4 DEF Next, Step, vars, StartScan, CopyPool, QueueScan, Scanned, Propose, Refuse,
     GiveUp, TakeCtl, Handle, Reap, ErrorRead, RefillAbandoned, NewVerdicts, PoolVars
<1>6. CASE UNCHANGED PoolVars
  BY <1>6 DEF PoolVars, Abstract!poolVars
<1> QED BY <1>1, <1>2, <1>5, <1>6

\* The replacements of all callers are one sequence, which cfnat, the file and memory
\* go through together.
THEOREM OneSequenceCorrect ==
    ASSUME Tame
    PROVE  Spec => OneSequence
BY StartMaps, StepMaps, SInvInit, SInvNext, PoolInvHolds, PTL
   DEF Spec, OneSequence, Abstract!ActiveSpec

==============================================================================

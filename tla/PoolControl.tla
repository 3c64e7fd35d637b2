----------------------------- MODULE PoolControl -----------------------------
(***************************************************************************)
(* The active pool and everything that replaces it (web/pool.go and its    *)
(* callers).  The pool lives in memory (activePool), in a file             *)
(* (proxy-active-pool.json) and in the arguments of the running cfnat.     *)
(* Background tasks and HTTP handlers copy the pool, work for seconds or   *)
(* minutes, and hand a new pool and their copy to applyPoolLocked, which   *)
(* runs under cfnatCtlMu; the scans they need run under proxyScanMu.  Two  *)
(* writers of the memory copy take neither lock: setProxyPoolError and the *)
(* reverification of autoApplyProxyPool.                                   *)
(*                                                                         *)
(* The order of members matters to no property and is left out, as are     *)
(* scores: what an examination passes is any set the code could accept.    *)
(***************************************************************************)
EXTENDS Integers, FiniteSets

CONSTANTS
    IPs,              \* exit addresses
    Domains,          \* preferred domains that cfnat resolves itself
    Explicit,         \* PROXY_DOMAIN_FORWARD
    ForwardDomains,   \* the domains of the candidate snapshot
    PoolSize,         \* PROXY_AUTO_POOL_SIZE
    MinPool,          \* PROXY_AUTO_MIN_POOL
    MaxMembers,       \* maxPoolMembers
    MinFallback,      \* minFallbackForwardDomains
    InitialPools,     \* pools that an earlier run may have left in the file
    Actors,           \* the tasks, handlers and events of a run
    Faults            \* whether cfnat may fail to stop or start, die, or a save may fail

ScanFirst == {"scheduler", "auto", "apply", "refill"}
Handlers  == {"kick", "promote", "endorse", "select"}
Tasks     == ScanFirst \cup Handlers \cup {"reconcile", "reap", "revalidate"}
Events    == {"restart", "cfnat", "verdict"}

ASSUME MembersAssumption == /\ IPs \cap Domains = {}
                            /\ IsFiniteSet(IPs) /\ IsFiniteSet(Domains)
                            /\ Explicit \subseteq Domains
                            /\ ForwardDomains \subseteq Domains
ASSUME SizesAssumption == /\ MinPool \in Nat \ {0}
                          /\ PoolSize \in Nat /\ PoolSize >= MinPool
                          /\ MaxMembers \in Nat /\ MinFallback \in Nat \ {0}
ASSUME ActorsAssumption == Actors \subseteq Tasks \cup Events /\ Faults \in BOOLEAN

Members == IPs \cup Domains

Pool == [ips : SUBSET IPs, domains : SUBSET Domains,
         disabled : SUBSET Members, priority : SUBSET Members, lock : BOOLEAN]

EmptyPool == [ips |-> {}, domains |-> {}, disabled |-> {}, priority |-> {}, lock |-> FALSE]

MembersOf(p) == p.ips \cup p.domains

(***************************************************************************)
(* planFixedMembers: what cfnat is told to forward to.                     *)
(***************************************************************************)
Plan(p) ==
    IF p.lock THEN (p.priority \cap MembersOf(p)) \ p.disabled
              ELSE MembersOf(p) \ p.disabled

\* Mutants: members that are switched off count; nothing is asked.
HasMembers(p)  == MembersOf(p) # {}
AnythingGoes(p) == p \in Pool

Forwards(p) == Plan(p) # {}

ASSUME InitialAssumption ==
    InitialPools \subseteq Pool /\ \A p \in InitialPools : p # EmptyPool => Forwards(p)

RollbackPlan(p) == IF Forwards(p) THEN Plan(p) ELSE MembersOf(p)

Stopped      == [running |-> FALSE, fixed |-> {}]
Running(set) == [running |-> TRUE, fixed |-> set]

Free == "free"

VARIABLES
    pool,         \* app.activePool
    file,         \* proxy-active-pool.json
    served,       \* whether cfnat runs, and its -fixed members
    scanMu,       \* the holder of proxyScanMu
    ctlMu,        \* the holder of cfnatCtlMu
    task,         \* where each task is, the copy it works from, the pool it will apply
    refillQueued, \* a goroutine of refillPoolAfterKick has been started
    usable,       \* domains whose examinations do not speak against them
    quarantined   \* domains that may not come back on their own for a while

vars == <<pool, file, served, scanMu, ctlMu, task, refillQueued, usable, quarantined>>

PCs == {"idle", "queued", "scanning", "exam", "wait", "paused", "swap",
        "publish", "resume", "error", "blame"}

Task     == [pc : PCs, copy : Pool, next : Pool]
IdleTask == [pc |-> "idle", copy |-> EmptyPool, next |-> EmptyPool]

Runners == Actors \cap Tasks

-----------------------------------------------------------------------------
(* What each caller may ask for, given the copy of the pool it works from. *)

\* replacePoolMember, as the scheduler and handleProxyPromote call it.
ReplaceOne(cur) ==
    IF cur.ips = {} THEN {[cur EXCEPT !.ips = {to}] : to \in IPs}
    ELSE {[cur EXCEPT !.ips = (@ \ {from}) \cup {to}] : from \in cur.ips, to \in IPs \ cur.ips}

\* A pool built anew: nothing disabled, nothing pinned, no lock.
Examined(ips, domains) ==
    [ips |-> ips, domains |-> domains, disabled |-> {}, priority |-> {}, lock |-> FALSE]

\* poolDomainMembers: explicit domains, those that pass the quality gate, or a
\* fallback of the best when that leaves none.
PoolDomainMembers ==
    LET good == Explicit \cup (ForwardDomains \cap usable)
    IN  IF good # {} THEN {good}
        ELSE {D \in SUBSET ForwardDomains :
                 \/ Cardinality(D) = MinFallback
                 \/ D = ForwardDomains /\ Cardinality(D) < MinFallback}

AutoPools == {Examined(S, D) : S \in {S \in SUBSET IPs : Cardinality(S) \in MinPool..PoolSize},
                               D \in PoolDomainMembers}

SameMembers(p, q) == p.ips = q.ips /\ p.domains = q.domains

\* handleProxyScanApply: the addresses that passed, and pasted domains.
ApplyPools(cur) ==
    {Examined(sd[1], cur.domains \cup sd[2]) :
        sd \in {sd \in (SUBSET IPs) \X (SUBSET Domains) :
                   /\ sd[1] \cup sd[2] # {}
                   /\ sd[1] # cur.ips \/ ~(sd[2] \subseteq cur.domains)}}

RefillPools(cur) ==
    {[cur EXCEPT !.ips = S] :
        S \in {S \in SUBSET IPs : cur.ips \subseteq S /\ S # cur.ips /\ Cardinality(S) <= PoolSize}}

ReconcilePools(cur) ==
    LET pinned == cur.priority \cap Domains
        admitted(D) == (D \cup pinned) \ (quarantined \ Explicit)
    IN  {[cur EXCEPT !.domains = admitted(D)] :
            D \in {D \in PoolDomainMembers :
                      D \cup pinned # cur.domains /\ admitted(D) # cur.domains}}

\* keepOnly on every list of the pool.
KeepOnly(cur, kept) ==
    [cur EXCEPT !.ips = @ \cap kept, !.domains = @ \cap kept,
                !.disabled = @ \cap kept, !.priority = @ \cap kept]

RevalidatePools(cur) ==
    {KeepOnly(cur, kept) : kept \in (SUBSET MembersOf(cur)) \ {{}, MembersOf(cur)}}

KickPools(cur) ==
    {[cur EXCEPT !.ips = @ \ {m}, !.domains = @ \ {m}] :
        m \in {m \in MembersOf(cur) : MembersOf(cur) # {m}}}

EndorsePools(cur) ==
    {p \in {[cur EXCEPT !.ips = @ \cup (W \cap IPs), !.domains = @ \cup (W \cap Domains),
                        !.priority = @ \cup W, !.disabled = @ \ W] : W \in (SUBSET Members) \ {{}}} :
        p # cur /\ Cardinality(MembersOf(p)) <= MaxMembers}

Selected(cur, on, first, l) ==
    [cur EXCEPT !.disabled = MembersOf(cur) \ on, !.priority = first, !.lock = l]

Selections(cur, l) ==
    {p \in {Selected(cur, on, first, l) :
                on \in (SUBSET MembersOf(cur)) \ {{}}, first \in SUBSET MembersOf(cur)} : Forwards(p)}

SelectPools(cur) == Selections(cur, TRUE) \cup Selections(cur, FALSE)

(***************************************************************************)
(* reapThroneMembers: bad addresses are replaced one for one, by           *)
(* candidates that were outside the pool when the scan began (old); bad    *)
(* domains are dropped.  Explicit domains are left alone, and one member   *)
(* always stays unless an unpinned address is merely slow.                 *)
(***************************************************************************)
ReapPools(old, cur) ==
    LET judged == MembersOf(cur) \ Explicit
        bad == {S \in SUBSET judged : S # {} /\ (S = judged => ~(S \cap IPs \subseteq cur.priority))}
        swaps == {sn \in bad \X (SUBSET (IPs \ old.ips)) :
                     /\ sn[1] \cap IPs \subseteq old.ips
                     /\ Cardinality(sn[1] \cap IPs) = Cardinality(sn[2])}
    IN  {p \in {[cur EXCEPT !.ips = (@ \ sn[1]) \cup sn[2], !.domains = @ \ sn[1],
                            !.priority = @ \ sn[1]] : sn \in swaps} : Forwards(p)}

Pools(k, cur) ==
    CASE k \in {"scheduler", "promote"} -> ReplaceOne(cur)
      [] k = "auto"       -> {p \in AutoPools : ~SameMembers(p, cur)}
      [] k = "apply"      -> ApplyPools(cur)
      [] k = "refill"     -> RefillPools(cur)
      [] k = "reconcile"  -> ReconcilePools(cur)
      [] k = "revalidate" -> RevalidatePools(cur)
      [] k = "kick"       -> KickPools(cur)
      [] k = "endorse"    -> EndorsePools(cur)
      [] k = "select"     -> SelectPools(cur)

\* admittedPoolDomains: pinned domains pass, all others go through the gate.
Admitted(p) == [p EXCEPT !.domains = @ \cap (p.priority \cup usable)]

-----------------------------------------------------------------------------
Move(k, pc, copy, next) == task' = [task EXCEPT ![k] = [pc |-> pc, copy |-> copy, next |-> next]]

Goto(k, pc) == Move(k, pc, task[k].copy, task[k].next)

At(k, pc) == k \in Runners /\ task[k].pc = pc

\* The deferred unlocks of a task that returns.
Released(mu, k) == IF mu = k THEN Free ELSE mu

Return(k) ==
    /\ task' = [task EXCEPT ![k] = IdleTask]
    /\ scanMu' = Released(scanMu, k)
    /\ ctlMu' = Released(ctlMu, k)

\* The state that only swaps change, and the state that only locks change.
PoolVars   == <<pool, file, served>>
DomainVars == <<usable, quarantined>>
Locks      == <<scanMu, ctlMu>>

\* A task that begins under proxyScanMu.
StartScan(k) ==
    /\ k \in ScanFirst /\ At(k, "idle") /\ scanMu = Free
    /\ k = "refill" => refillQueued
    /\ scanMu' = k
    /\ refillQueued' = (refillQueued /\ k # "refill")
    /\ Goto(k, "scanning")
    /\ UNCHANGED <<PoolVars, ctlMu, DomainVars>>

\* proxyActivePoolSnapshot.
CopyPool(k) ==
    /\ \/ k \in ScanFirst /\ At(k, "scanning")
       \/ k = "reconcile" /\ At(k, "idle")
       \/ k \in {"reap", "revalidate"} /\ At(k, "idle") /\ MembersOf(pool) # {}
    /\ Move(k, IF k \in {"reap", "revalidate"} THEN "queued" ELSE "exam", pool, EmptyPool)
    /\ UNCHANGED <<PoolVars, Locks, refillQueued, DomainVars>>

\* lockTimeout on proxyScanMu by a task that has its copy already.
QueueScan(k) ==
    /\ At(k, "queued") /\ scanMu = Free
    /\ scanMu' = k
    /\ Goto(k, "scanning")
    /\ UNCHANGED <<PoolVars, ctlMu, refillQueued, DomainVars>>

\* findThroneReplacements returns: the scan is over, or was not needed or possible;
\* then no address is replaced in this round.
Scanned ==
    /\ \/ At("reap", "scanning") /\ Goto("reap", "wait")
       \/ At("reap", "queued") /\ Move("reap", "wait", [task["reap"].copy EXCEPT !.ips = {}], EmptyPool)
    /\ scanMu' = Released(scanMu, "reap")
    /\ UNCHANGED <<PoolVars, ctlMu, refillQueued, DomainVars>>

Propose(k) ==
    /\ k \in ScanFirst \cup {"reconcile"} /\ At(k, "exam")
    /\ \E p \in Pools(k, task[k].copy) : Move(k, "wait", task[k].copy, p)
    /\ UNCHANGED <<PoolVars, Locks, refillQueued, DomainVars>>

\* Nothing passed, nothing changed, or the switch guard says no.
Refuse(k) ==
    /\ At(k, "exam")
    /\ IF k = "auto" THEN Goto(k, "error") /\ UNCHANGED Locks ELSE Return(k)
    /\ UNCHANGED <<PoolVars, refillQueued, DomainVars>>

\* A wait for a lock that ends without it.
GiveUp(k) ==
    /\ \/ k = "revalidate" /\ At(k, "queued") /\ scanMu # Free
       \/ k = "revalidate" /\ At(k, "scanning") /\ (ctlMu # Free \/ Faults)
       \/ k = "reap" /\ At(k, "wait") /\ ctlMu # Free
    /\ Return(k)
    /\ UNCHANGED <<PoolVars, refillQueued, DomainVars>>

AutoBusy ==
    /\ At("auto", "idle") /\ scanMu # Free
    /\ Goto("auto", "error")
    /\ UNCHANGED <<PoolVars, Locks, refillQueued, DomainVars>>

RefillAbandoned ==
    /\ refillQueued /\ scanMu # Free
    /\ refillQueued' = FALSE
    /\ UNCHANGED <<PoolVars, Locks, task, DomainVars>>

\* autoApplyProxyPool when the pool passed unchanged: saved and published
\* without cfnatCtlMu and without a restart of cfnat.
Reverify ==
    /\ At("auto", "exam")
    /\ \E p \in {p \in AutoPools : SameMembers(p, task["auto"].copy)} :
          \/ file' = p /\ Move("auto", "publish", task["auto"].copy, p) /\ UNCHANGED Locks
          \/ Faults /\ file' = file /\ Return("auto")
    /\ UNCHANGED <<pool, served, refillQueued, DomainVars>>

\* A mutant: the lock is not waited for.
TakeCtlAtOnce(k) ==
    /\ k \in ScanFirst \cup {"reconcile"} /\ At(k, "wait")
    /\ ctlMu' = k
    /\ Goto(k, "swap")
    /\ UNCHANGED <<PoolVars, scanMu, refillQueued, DomainVars>>

\* applyProxyPool takes cfnatCtlMu.
TakeCtl(k) ==
    /\ k \in ScanFirst \cup {"reconcile"} /\ At(k, "wait") /\ ctlMu = Free
    /\ ctlMu' = k
    /\ Goto(k, "swap")
    /\ UNCHANGED <<PoolVars, scanMu, refillQueued, DomainVars>>

\* A handler takes cfnatCtlMu, copies the pool and edits the copy.
Handle(k) ==
    /\ k \in Handlers /\ At(k, "idle") /\ ctlMu = Free
    /\ ctlMu' = k
    /\ \E p \in Pools(k, pool) : Move(k, "swap", pool, p)
    /\ UNCHANGED <<PoolVars, scanMu, refillQueued, DomainVars>>

\* The second half of reapThroneMembers, from a fresh copy.
Reap ==
    /\ At("reap", "wait") /\ ctlMu = Free
    /\ \/ \E p \in ReapPools(task["reap"].copy, pool) :
             /\ ctlMu' = "reap"
             /\ Move("reap", "swap", pool, p)
             /\ quarantined' = quarantined \cup (pool.domains \ p.domains)
             /\ UNCHANGED scanMu
       \/ Return("reap") /\ UNCHANGED quarantined
    /\ UNCHANGED <<PoolVars, refillQueued, usable>>

\* revalidateActivePool takes cfnatCtlMu and stops cfnat.
Pause ==
    /\ At("revalidate", "scanning") /\ ctlMu = Free
    /\ ctlMu' = "revalidate"
    /\ served' = Stopped
    /\ Goto("revalidate", "paused")
    /\ UNCHANGED <<pool, file, scanMu, refillQueued, DomainVars>>

\* A mutant: returns where the pool is kept, without a restart of cfnat.
VerdictWithoutResume ==
    /\ At("revalidate", "paused")
    /\ \/ /\ \E p \in Pools("revalidate", task["revalidate"].copy) :
                 Move("revalidate", "swap", task["revalidate"].copy, p)
          /\ UNCHANGED Locks
       \/ Return("revalidate")
    /\ UNCHANGED <<PoolVars, refillQueued, DomainVars>>

\* Some members failed; or all passed, or all failed and the pool is kept.
Verdict ==
    /\ At("revalidate", "paused")
    /\ \/ \E p \in Pools("revalidate", task["revalidate"].copy) :
              Move("revalidate", "swap", task["revalidate"].copy, p)
       \/ Goto("revalidate", "resume")
    /\ UNCHANGED <<PoolVars, Locks, refillQueued, DomainVars>>

\* startForwarding with the copy: nothing to do when a rollback has done it.
Resume ==
    /\ At("revalidate", "resume")
    /\ LET copy == task["revalidate"].copy
       IN  \/ served.running /\ Return("revalidate") /\ UNCHANGED served
           \/ /\ ~served.running /\ Forwards(copy)
              /\ served' = Running(Plan(copy))
              /\ Return("revalidate")
           \/ /\ ~served.running /\ (Faults \/ ~Forwards(copy))
              /\ Goto("revalidate", "error")
              /\ UNCHANGED <<served, Locks>>
    /\ UNCHANGED <<pool, file, refillQueued, DomainVars>>

\* A mutant: a revalidation that returns when the new pool cannot be applied.
FailedReturns(k) == Return(k)

\* Where an error of applyPoolLocked takes its caller.
Failed(k) ==
    CASE k = "revalidate" -> Goto(k, "resume") /\ UNCHANGED Locks
      [] k = "auto"       -> Goto(k, "error") /\ ctlMu' = Free /\ UNCHANGED scanMu
      [] OTHER            -> Return(k)

\* A mutant: the file gets the pool that passed the gate, memory the one asked for.
SwapKeepsUngated(k) ==
    /\ At(k, "swap")
    /\ LET new == Admitted(task[k].next)
       IN  \/ /\ Forwards(new)
              /\ served' = Running(Plan(new))
              /\ file' = new
              /\ Goto(k, "publish")
              /\ UNCHANGED Locks
           \/ ~Forwards(new) /\ UNCHANGED <<served, file>> /\ Failed(k)
    /\ UNCHANGED <<pool, refillQueued, DomainVars>>

(***************************************************************************)
(* applyPoolLocked up to the publication: the gate, the plan, the restart  *)
(* of cfnat, the file, and the rollbacks.                                  *)
(***************************************************************************)
Swap(k) ==
    /\ At(k, "swap")
    /\ LET old == task[k].copy
           new == Admitted(task[k].next)
           back == {Stopped, Running(RollbackPlan(old))}
       IN  \/ /\ Forwards(new)
              /\ served' = Running(Plan(new))
              /\ file' = new
              /\ Move(k, "publish", old, new)
              /\ UNCHANGED Locks
           \/ /\ ~Forwards(new) \/ Faults               \* nothing to forward to, or no stop
              /\ UNCHANGED <<served, file>>
              /\ Failed(k)
           \/ /\ Forwards(new) /\ Faults                \* no start, or no save
              /\ served' \in back \cup {Running(Plan(new))}
              /\ UNCHANGED file
              /\ Failed(k)
    /\ UNCHANGED <<pool, refillQueued, DomainVars>>

\* A mutant: a kick refills the pool itself, so it waits for proxyScanMu under cfnatCtlMu.
PublishUnderBothLocks(k) ==
    /\ At(k, "publish")
    /\ k = "kick" => scanMu = Free
    /\ pool' = task[k].next
    /\ refillQueued' = (refillQueued \/ k = "revalidate")
    /\ Return(k)
    /\ UNCHANGED <<file, served, DomainVars>>

\* The end of applyPoolLocked and of its caller.
Publish(k) ==
    /\ At(k, "publish")
    /\ pool' = task[k].next
    /\ refillQueued' = (refillQueued \/ k \in {"kick", "revalidate"})
    /\ Return(k)
    /\ UNCHANGED <<file, served, DomainVars>>

\* setProxyPoolError: a copy, and the copy written back.
ErrorRead(k) ==
    /\ At(k, "error")
    /\ Move(k, "blame", pool, EmptyPool)
    /\ UNCHANGED <<PoolVars, Locks, refillQueued, DomainVars>>

ErrorWrite(k) ==
    /\ At(k, "blame")
    /\ pool' = task[k].copy
    /\ Return(k)
    /\ UNCHANGED <<file, served, refillQueued, DomainVars>>

-----------------------------------------------------------------------------
\* loadProxyActivePool and cfnatStartupConfig.
Startup(p) == IF MembersOf(p) = {} THEN Stopped ELSE Running(MembersOf(p))

Idle == [k \in Runners |-> IdleTask]

Restart ==
    /\ "restart" \in Actors
    /\ pool' = file
    /\ served' \in {Startup(file)} \cup (IF Faults THEN {Stopped} ELSE {})
    /\ scanMu' = Free /\ ctlMu' = Free
    /\ task' = Idle
    /\ refillQueued' = FALSE
    /\ quarantined' = {}
    /\ UNCHANGED <<file, usable>>

\* handleCFnatStart and handleCFnatStop, with any members the user names.
UserCFnat ==
    /\ "cfnat" \in Actors /\ ctlMu = Free
    /\ served' \in {Stopped} \cup {Running(set) : set \in SUBSET Members}
    /\ UNCHANGED <<pool, file, Locks, task, refillQueued, DomainVars>>

CFnatDies ==
    /\ Faults /\ served.running
    /\ served' = Stopped
    /\ UNCHANGED <<pool, file, Locks, task, refillQueued, DomainVars>>

\* An examination changes what is known of the domains; a quarantine runs out.
NewVerdicts ==
    /\ "verdict" \in Actors
    /\ \/ usable' \in SUBSET Domains /\ UNCHANGED quarantined
       \/ \E d \in quarantined : quarantined' = quarantined \ {d} /\ UNCHANGED usable
    /\ UNCHANGED <<PoolVars, Locks, task, refillQueued>>

Init ==
    /\ pool \in InitialPools
    /\ file = pool
    /\ served = Startup(pool)
    /\ scanMu = Free /\ ctlMu = Free
    /\ task = Idle
    /\ refillQueued = FALSE
    /\ usable \in SUBSET Domains
    /\ quarantined = {}

Step(k) ==
    \/ StartScan(k) \/ CopyPool(k) \/ QueueScan(k) \/ Propose(k) \/ Refuse(k) \/ GiveUp(k)
    \/ TakeCtl(k) \/ Handle(k) \/ Swap(k) \/ Publish(k) \/ ErrorRead(k) \/ ErrorWrite(k)
    \/ k = "auto" /\ (AutoBusy \/ Reverify)
    \/ k = "reap" /\ (Scanned \/ Reap)
    \/ k = "revalidate" /\ (Pause \/ Verdict \/ Resume)

Next ==
    \/ \E k \in Runners : Step(k)
    \/ RefillAbandoned \/ Restart \/ UserCFnat \/ CFnatDies \/ NewVerdicts

Spec == Init /\ [][Next]_vars

-----------------------------------------------------------------------------
(***************************************************************************)
(* Fairness: a task that has begun goes on; a wait with a timeout succeeds *)
(* or gives up.  The blocking Lock of cfnatCtlMu returns even when others  *)
(* keep taking the mutex (sync.Mutex hands over to a waiter that starves), *)
(* hence SF.  Nothing says that a task begins or that an event happens.    *)
(***************************************************************************)
Fairness ==
    \A k \in Runners : /\ WF_vars(task[k].pc # "idle" /\ Step(k))
                       /\ SF_vars(TakeCtl(k))

FairSpec == Spec /\ Fairness

-----------------------------------------------------------------------------
(* Properties.                                                             *)

\* Types of the state (struct app, web/main.go).
TypeOK ==
    /\ pool \in Pool /\ file \in Pool
    /\ served \in [running : BOOLEAN, fixed : SUBSET Members]
    /\ scanMu \in Runners \cup {Free} /\ ctlMu \in Runners \cup {Free}
    /\ task \in [Runners -> Task]
    /\ refillQueued \in BOOLEAN
    /\ usable \subseteq Domains /\ quarantined \subseteq Domains

\* Whatever the callers ask for, from however old a copy, the pool in memory and
\* the pool that a restart will read are empty or have a member to forward to
\* (planFixedMembers is the guard, but not every writer goes through it).
Forwardable == \A p \in {pool, file} : p # EmptyPool => Plan(p) # {}

\* No step empties a saved pool that had members: no order of kicks, reaps,
\* revalidations and gates takes the last one.
FileNeverEmptied == [][MembersOf(file) # {} => MembersOf(file') # {}]_vars

\* The stop and the start of cfnat, the file and the memory copy are one
\* replacement: nobody else is between them (cfnatCtlMu), and a revalidation
\* keeps them all out while cfnat is stopped.
SoleSwapper ==
    \A j, k \in Runners :
        /\ task[j].pc \in {"paused", "swap", "resume"}
        /\ task[k].pc \in {"paused", "swap", "resume", "publish"}
        => j = k \/ (k = "auto" /\ ctlMu # "auto")

\* Between replacements cfnat forwards to the plan of the pool in memory, which
\* is also the saved one: a restart of cfnat, a rollback or a refusal at the
\* gate leaves the three in step.
ServedIsPool ==
    ctlMu = Free => /\ file = pool
                    /\ served = IF pool = EmptyPool THEN Stopped ELSE Running(Plan(pool))

(***************************************************************************)
(* The replacements of all callers are one sequence: cfnat, the file and   *)
(* memory go through the same pools in the same order, with each switched  *)
(* over as a whole and memory at most one behind (ActivePool).  Left out   *)
(* are the writers of one of the three alone: see PoolControlProofs!Tame.  *)
(***************************************************************************)
Abstract == INSTANCE ActivePool WITH
                PoolStates <- Pool,
                Forwarding <- [p \in Pool |-> Plan(p)],
                active     <- pool,
                saved      <- file,
                forwarded  <- served.fixed

OneSequence == Abstract!ActiveSpec

\* A pool with members is forwarded to, or a revalidation is at work: whichever
\* way a revalidation ends, the forwarding that it stopped runs again.
NeverLeftStopped ==
    \/ served.running
    \/ pool = EmptyPool
    \/ ctlMu = "revalidate"

\* A revalidation that has stopped cfnat brings it back.
RevalidateResumes == At("revalidate", "paused") ~> served.running

\* Nobody waits for a lock for ever: tasks hold proxyScanMu while they wait for
\* cfnatCtlMu, some without a timeout, and nobody waits the other way round (the
\* lock order of web/pool.go, and the goroutine handleActiveKick leaves its refill to).
WaitsEnd == \A k \in Runners : task[k].pc \in {"queued", "wait"} ~> task[k].pc = "idle"

\* cfnatCtlMu is held through a replacement; only a reverification publishes
\* without it.
CtlHeld ==
    \A k \in Runners :
        /\ task[k].pc \in {"paused", "swap", "resume"} => ctlMu = k
        /\ task[k].pc = "publish" => ctlMu = k \/ k = "auto"
        /\ task[k].pc \in {"paused", "resume"} => k = "revalidate"
        /\ task[k].pc \in {"error", "blame"} => k \in {"auto", "revalidate"}

\* What is on its way into memory can be forwarded to.
PendingForwardable ==
    \A k \in Runners :
        /\ task[k].pc = "publish" => Plan(task[k].next) # {}
        /\ task[k].pc = "blame" /\ task[k].copy # EmptyPool => Plan(task[k].copy) # {}

\* The inductive invariant of PoolControlProofs.
IInv == TypeOK /\ CtlHeld /\ Forwardable /\ PendingForwardable

\* revalidate.go: cfnatCtlMu is held so that the pool under test is the pool in
\* effect.
ValidatedIsActive ==
    At("revalidate", "paused") => task["revalidate"].copy = pool

\* pool.go: a disabled member takes no part in the forwarding.
DisabledNeverForwarded == ctlMu = Free => served.fixed \cap pool.disabled = {}

=============================================================================

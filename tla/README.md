# A TLA+ model of cfnat and its control plane

This directory models the control plane of `cloudflare_ip_optimization`
(the Go program in `web/`), which keeps a pool of Cloudflare exit addresses
and preferred domains, measures them, and restarts the data plane `cfnat` with
the members it has chosen, and the data plane itself (`cfnat.go`). The modules are translated from the source; line
numbers in `PROJECT.json` ("map") say which lines each definition stands for.

Contents: 1. the system, 2. the modules, 3. what the runs check, 4. what is
proved, 5. where the code and its documentation disagree, 6. what is not
modelled, 7. what is left.

## 1. The system

### Components, state and operations

| Component | State | Operations that change it |
|---|---|---|
| Quality scheduler (`quality_scheduler.go`, `quality_runtime.go`) | `data`: a record per exit (state, failure and superiority counters, window of 12 samples), `ActiveIP`, `LastSwitchAt`; the file `proxy-quality.json` | `load`, `seedActive`, `observe`, `observeActiveHealth`, `decide`, `commitSwitch`, pruning |
| Scheduler round (`main.go` 378-530) | the candidates and the decision of a round (locals of one goroutine) | probes the Active, then a batch of candidates, decides, applies a pool, commits |
| Active pool (`pool.go`) | `activePool` in memory, `proxy-active-pool.json`, the `-fixed` argument of the running cfnat | `applyPoolLocked`, `setProxyPoolError`, startup; the switch guard; the refill goroutine |
| Manual operations (`httpapi.go`, `select.go`, `endorse.go`) | none of their own | manual apply, promote, kick, select, endorse, start and stop of cfnat |
| Revalidation (`revalidate.go`) | cfnat stopped while members are tested | pause, verdicts, removal of members, resume |
| Re-election funnel (`funnel.go`) | none of its own | chooses and applies a whole pool; publishes a reverified one |
| Throne probe (`throne_probe.go`) | a ledger of strikes, holds and fast rechecks per member | probes, replaces bad members |
| Domain examinations (`domain_latency.go`) | measurements, pass and failure counts, quarantine | rounds of examination, reconciliation of the pool's domains |
| Managed process (`process.go`) | `cmd`, `exitCode`, `done`, the waiter goroutine | start, stop, exit |
| Candidate refresh (`candidates.go`, `cfdata_supply.go`, `preferred.go`) | the candidate snapshot with the layer of each address, backoff per source | refresh, failure bookkeeping, kicks, pushes from a scan |
| Subscription inventory (`subscription_inventory.go`, `subscription.go`) | an entry per imported node, the file | harvest, examination, eviction, removal, import |
| cfdata scanner (`src/cfdata.go`, `cfdata_web.go`) | a goroutine per address, a channel, `ip.csv`, `result.csv` | both stages of a scan, kills |
| cfnat (`src/cfnat.go`) | assignments of clients to exits, cursors | accept, dial, re-pin, the scan without targets |

### How they interact

Loops started by `main` (candidate refresh, scheduler, subscription sweep,
throne probe, domain examinations) and HTTP handlers run concurrently. Two
mutexes order them: `proxyScanMu` is held by whoever scans candidates, and
`cfnatCtlMu` by whoever replaces the pool; `pool.go:94` fixes their order. A
task that changes the pool copies it (`proxyActivePoolSnapshot`), works for
seconds or minutes, edits the copy, and calls `applyProxyPool`, which takes
`cfnatCtlMu` and restarts cfnat. Handlers copy and edit under `cfnatCtlMu`.
After a successful swap the first member is reported to the quality scheduler
(`seedActive`), and a scheduler round commits its switch afterwards.

### What is hard

- **Stale copies.** Most callers decide on a copy of the pool that is old when
  they apply the result (`main.go:520`, `revalidate.go:221`, `throne_probe.go:409`).
- **Three representations of the pool** (memory, file, running process) that a
  failed stop, start or save, a rollback or a restart can pull apart.
- **Two writers of the memory copy without the lock** (`pool.go:255`,
  `funnel.go:405`).
- **Waits for two locks**, some with a timeout and some without, with the data
  plane stopped while one of them holds both.
- **Counters that must be consecutive** (failures, superior rounds) while
  another goroutine may change the Active they are counted against.
- **A process with four parties**: who starts it, who stops it, its own exit, and
  the goroutine that waits for it (`process.go:158`, `process.go:191`).
- **Rounds in several critical sections** that save in the last one only
  (`subscription.go:256`), and files rewritten in place (`cfdata.go:367`, 612).
- **Persistence whose errors are dropped** (`quality_runtime.go:168`).
- **Caps and pruning** that must spare what is in use.

`PROJECT.json` lists the hazards line by line, with the property that covers
each or the reason why none does.

## 2. The modules

| Module | Models |
|---|---|
| `QualityScheduler` | the ledger, the decision and the scheduler round |
| `QualityHistory` | the same with a history of the Actives that a line has beaten in a row |
| `QualitySchedulerProofs` | theorems about `QualityScheduler` |
| `PoolControl` | the active pool, every caller that replaces it, both locks, cfnat as a process that may fail |
| `PoolControlProofs` | theorems about `PoolControl` |
| `ActivePool` | what the replacement of the pool promises, as an abstract specification |
| `SwitchGuard` | the guard of automatic switches and the time it goes by |
| `Forwarder` | the data plane: which exit a connection is dialled to, sticky pins and their moves |
| `ForwarderProofs` | theorems about `Forwarder` |
| `ThroneProbe`, `ThroneProbeProofs` | the probe of the members in place; theorems about it |
| `ManagedProcess` | start, stop and the waiter goroutine |
| `SwitchProofs` | theorems about `ManagedProcess` and about `SwitchGuard` |
| `SubscriptionInventory` | the inventory of subscriptions |
| `DomainLedger`, `DomainLedgerProofs` | the accounts of the domains; theorems about them |
| `CandidateSupply`, `CandidateSupplyProofs` | the candidate refresh, its layers and sources; theorems about it |
| `ScanPipeline` | the scans of cfdata and of cfnat, and their files |
| `SourceProofs` | theorems about `SubscriptionInventory` and about `ScanPipeline` |
| `MCComponents`, `MCLedgers` | instances of several components that share no state, each studied by itself |
| other `MC...` | values of the constants for TLC |

### QualityScheduler

`ledger` is `qualitySchedulerRuntime.data`, `disk` the file, and `phase`,
`batch`, `pending` are the program counter and locals of
`runQualitySchedulerProbe`. Each call that takes `mu` is one action, built
from the operators `Observe`, `ObserveActiveHealth`, `SeedActive`,
`DecideLineSwitch`, `CommitSwitch`, `PruneRecords`, `ReconcileActive`, which
are named after the code's functions and include their save (`Save`). Between
two of them `SeedFromPool` may happen, because any other path that replaces
the pool calls `seedActive` (`pool.go:248`). `Restart` loads the file and
reconciles it; the scheduler then waits for its first round (`FirstRound`).
After the probe of the Active (`Health`) a round draws its candidates
(`StartBatch`), and either fails before it has measured any of them, without
candidates or because VLESS is enabled and its template cannot be loaded
(`RoundFails`, `main.go:417` and 452), or gets its results (`Probed`) and goes on
to the observations and the decision.

Abstractions: a sample is a speed, a latency and a success; averages are
rationals compared by cross-multiplication, and the score of a line is a
fraction, so no rounding is hidden. The counters saturate at their thresholds,
beyond which the code cannot tell them apart. Times are a `rank` of records by
age (what pruning sorts by) and `sinceSwitch`, which saturates at the
interval. The absence of a record in the map is the state `"ABSENT"`.

### PoolControl

A pool is a record of sets: addresses, domains, disabled members, priority
members and the lock switch; the order of members is left out, since no
property depends on it. `pool`, `file` and `served` are the three
representations, `scanMu` and `ctlMu` the holders of the mutexes, and `task`
gives for each goroutine where it is (`pc`), the copy it works from and the
pool it will apply.

The set of pools that a task may ask for, given its copy, is one operator per
caller (`ReplaceOne`, `AutoPools`, `ApplyPools`, `RefillPools`,
`ReconcilePools`, `RevalidatePools`, `KickPools`, `EndorsePools`,
`SelectPools`, `ReapPools`): it contains exactly what the code's edits and
early returns allow, whatever the measurements say. `Swap` is
`applyPoolLocked` up to the publication, with the domain gate (`Admitted`),
`planFixedMembers` (`Plan`), the restart of cfnat, the save and each rollback;
`Publish` is the assignment to `activePool`. `ErrorRead` and `ErrorWrite` are
the two critical sections of `setProxyPoolError`. `Reverify` is the branch of
`autoApplyProxyPool` that saves and publishes without `cfnatCtlMu`.

`Actors` says which tasks, handlers and outside events a run has, and `Faults`
whether cfnat may fail to stop or start or die, and a save fail. `Events` are
a restart of the program, `handleCFnatStart`/`Stop` with any members, and a
change of what is known of the domains.

`Abstract` maps this state to `ActivePool`, the abstract specification: the pool
in memory is `active`, the file `saved`, and what cfnat was started with
`forwarded`. There a replacement switches file and cfnat over in one step, to a
pool that can be forwarded to, and memory follows before the next one. A swap
that the gate refuses, a wait, a copy or a proposal is a stutter.

### SwitchGuard

`Verdict` is `allowPoolSwitch` with its order of exemptions; `StampSwitch`,
`AskGuard`, `ApplySwitch` and `MarkSwitch` are the steps of the scheduler and of
the re-election, which hold `proxyScanMu` and so are one task; `ApplyChange` and
`MarkChange` are any other path that changes the pool, whose stamp may be up to
`Lag` old (a reap reads the time before its scan); `ApplyDomains` and
`SaveReverified` save a pool with a new time and mark nothing. Times are ages
that saturate at `Cooldown + Lag`.

### Forwarder

One process of `cfnat.go` with `-fixed` targets, which is how the control
plane starts it. `assignments`, `assignCursor` and `dispatchIndex` are the
fields of `IPManager`, `fallbackIndex` the `dispatchIndex` of the second
manager that holds the fallback targets. `AcceptSticky` and `AcceptRotating`
are one turn of the accepting goroutine, from `Accept` to the start of
`handleConnection`; `Keep` and `Assign` are the two ways through
`assignLocked`, with its purge (`Table`), its search for an unused exit
(`Pick`) and the cursor. `dials` holds the connections that
`handleConnectionWithDial` is working on; `DialSucceeds` includes the move of
the pin (`Repin`), which without stickiness does nothing, because the manager
passed is nil. `Restart` is the control plane starting the process anew: all
pins are lost. Two history variables are no state of the code: `repinned`
(clients moved by a dial) and `lastGiven`.

### ThroneProbe

One goroutine (`runThroneProbeLoop`), with a `pc` for the places where it waits:
asleep, probing, before the search for replacements (`proxyScanMu`) and before
the change (`cfnatCtlMu`). `Record` is `recordThroneProbeResults` with the first
plan of `reapThroneMembers`; `ScanBusy`, `ScanDone` and `CtlBusy` are the ways
through the two locks; `Reap` is the rest, with the plan made again
(`VictimsNow`). `throneProbe` is the ledger: two counters that saturate at their
thresholds, and whether `RecheckAt` and `Held` are set. A member without an entry
cannot be told apart from one with a fresh entry, so the ledger is a total
function. Which of an all dead pool stays is a choice, since saturated counters
do not say who failed least. `Meddle` stands for every other task that changes
the pool; `PoolControl` has those tasks in detail and the probe as one of its
writers. It takes members out (`Departures`: a kick, a promotion and a scheduler's
replacement leave the name in `Priority`, a revalidation removes it), brings some in
(`Arrivals`, `Endorsements`, the latter pinned) and sets the pins (`Selections`); so a
pinned name need not be a member's, and counts again when it returns. `outcomes` and `deferred` are history (the code's `deferred` is the
part of it that comes from a busy scan).

### ManagedProcess

`mu` makes three things atomic: `start` (`StartWorks`, `StartFails`,
`StartRefused`), the end of the waiter (`WaiterReturns`) and the first half of
`stop` (`StopLooks`); `StopCancels`, `StopSeesDone` and `StopKills` are the rest
of `stop`, without it. `call` is the place of each caller: a plain stop or start
of cfdata without any lock, and under `cfnatCtlMu` the stop, the restart with its
rollback and its undoing when the save fails, and the resumption after a
revalidation. `cmd` and `exitKnown` are `p.cmd` and `p.exitCode # nil`; `alive`
and `unwaited` are processes, and a number that nobody refers to any more stands
for a new process. `SpawnFails` lets `cmd.Start`, a kill and the save fail.

### SubscriptionInventory

`MergeHarvest` and `PruneHarvest` are the two critical sections of a harvest,
`PickBatch`, `Knock`, `Examine` and `EndProbe` those of a probe, `BudgetEnds` the
end of its time; `RemoveEntry` and `ReloadInventory` come in at any moment. An
entry has its verdict, its count of failures and whether it was ever probed.
Times are an order, `ages`: whoever has waited longer is due earlier, and who is
due at all is a choice that respects that order within each interval. `Pruned`
is the eviction with its two stages, `WorthiestStay` its sort.

### DomainLedger

A round copies its targets (`BeginRound`), probes them and records all samples
in one critical section (`RecordRound`, with `Account` for each domain, the
window, `recalculate` as `Judged`, and the accounts of domains that were no
targets dropped). A sample is how far it came. Whether speeds scatter is a
choice where the number of them allows P95 and P50 to differ. `okRounds` and
`provenFails` are history.

### CandidateSupply

`BeginRefresh` fills the layers that need no network with `Group`
(`appendGroup`); `FetchSources` fetches the lists that are not in backoff, books
them (`Health`) and merges them (`Merging`); `Publish` and `CopyOld` are the two
ends of `refreshProxyCandidates`. The merge, `RoundRobin`, is a recursive function
of the number of turns: a `Turn` takes the next address of one source that nobody
has given yet, if there is one and there is room. The code ends after a round
without progress; the model takes `Turns` turns, a round for each address, and
`RoundRobinComplete` proves that this cuts nothing off. `RemoveCandidate`
(`Without` is its filter) and `PushCfdata` are the two other writers.
`offered.from` is `SourceByIP`; that this map is shared with copies under way is
left out (section 5). `unheard` is history.

### ScanPipeline

A scan of cfdata, begun by the control plane or by hand, or of a cfnat without
targets: `Spawn`, `Dial` and `SendResult` are the life of a goroutine, `Collect`
follows `wg.Wait`. `CutList`, `WriteList`, `CutResult` and `WriteResult` rewrite
the files in pieces; `Killed` may come at any step. `ResultRows` is what a refresh
reads, `measured` is history. A push from the page reads `ip.csv` instead, and is
the action `PushCfdata` of `CandidateSupply`, where it may add any address; what
that makes of the layer is item 37 of section 5.

## 3. What the runs check

Twelve runs: eight that pass and four that end in a violation. The components
that share no state at this level of detail are instances of one module
(`MCComponents`, `MCLedgers`), where a variable `studied` says which one moves:
their state spaces add up and do not multiply.

### Quality

| Run | Checks | Bounds |
|---|---|---|
| `quality_rounds` | `SingleActive`, `FailoverDecided` | two lines, failing, slow and quick probes, thresholds 2, window 1 |
| `quality_prune` | `IInv`, `ActiveRecorded`, `OnlyProvenCommitted`, `ObservationBounds` | two lines, room for one record, window 2, writes of the file may be lost |
| `quality_history` | `PromotionProvedAgainstActive` is violated | three lines, slow and quick probes, window 1, three rounds |

- `SingleActive`: at most one record is ACTIVE, the one `ActiveIP` names, in
  memory and on disk. It needs both the demotion in every writer and the
  reconciliation at startup.
- `ActiveRecorded`: pruning spares the Active in any state, and the target of
  a decision that is being applied.
- `ObservationBounds`: an observation gets the ledger back under its cap
  whatever other paths have added.
- `OnlyProvenCommitted`: no commit installs a line whose latest probe failed,
  although `seedActive` may rewrite states between decision and commit.
- `FailoverDecided`: if the process stops restarting and rounds keep getting as far
  as their observations, a dead Active with an eligible standby does not stay
  without a failover being decided, whatever is observed, seeded and abandoned in
  between.

Two lines suffice for every pairwise relation between an Active and a standby;
with room for one record in `quality_prune`, pruning has to choose between the
two and paths that do not prune exceed the cap. The restarts in that run read a
file that may be older than the memory. Threshold 2 is the smallest
at which "consecutive" differs from "latest". A window of 2 is the smallest
that holds a success and a later failure, which is what `OnlyProvenCommitted`
is about; `quality_rounds` has a window of 1 to keep the temporal check small.
In `quality_history` it takes a third line to tell a row of wins over one Active
from wins over two, and three rounds to have two of one kind and one of the other.

Fairness (`FairSpec`): only the observations of a round that has its results, and
the decision after them, are weakly fair. There the code waits for nothing but the
ledger's mutex. That rounds get that far is not assumed, but is the premise of
`FailoverDecided` (`[]<>(phase = "batch")`), because the code does not ensure it:
the loop skips a round while the optimizer is disabled or another task holds
`proxyScanMu`, and a round ends without candidates, or when VLESS is enabled and
the template cannot be loaded. As long as the template is missing a dead Active
stays, although its health is probed each time.

### Pool

| Run | Checks | Actors |
|---|---|---|
| `pool_faults` | `IInv`, `Forwardable` | re-election, revalidation, manual cfnat control, endorsement, restarts, verdicts, faults |
| `pool_served` | `ServedIsPool`, `SoleSwapper`, `OneSequence` | scheduler, refill, kick, manual apply, reconciliation, promotion, verdicts |
| `pool_live` | `NeverLeftStopped`, `RevalidateResumes`, `WaitsEnd`, `FileNeverEmptied` | revalidation, reaping, kick, scheduler, verdicts |
| `pool_validated` | `ValidatedIsActive` is violated | revalidation, kick |
| `pool_disabled` | `DisabledNeverForwarded` is violated | selection, restarts |

- `Forwardable`: a pool in memory or on disk that is not empty has a member to
  forward to, whatever mixture of disabling, locking and removing produced it.
- `FileNeverEmptied`: no step takes the last member of a saved pool, in whatever
  order kicks, reaps, revalidations and gates have brought it down. The theorem has
  all other tasks and all faults too.
- `ServedIsPool`: while nobody holds `cfnatCtlMu`, cfnat forwards to exactly the
  plan of the pool that is in memory and in the file.
- `SoleSwapper`: the stop, start, save and publication of one replacement are
  not interleaved with those of another, nor with a pause for revalidation.
- `OneSequence`: the detailed replacement implements `ActivePool`: cfnat, file and
  memory follow one sequence of pools, whichever callers wait and overtake.
- `NeverLeftStopped`, `RevalidateResumes`: each way out of a revalidation
  brings the forwarding back, and it is taken.
- `WaitsEnd`: no task waits for a lock for ever. The scheduler holds `proxyScanMu`
  while it waits for `cfnatCtlMu` without a timeout, as the manual apply and the
  refill do, a revalidation holds both, and a kick holds `cfnatCtlMu`; it would
  block all of them if it refilled the pool itself instead of leaving that to a
  goroutine (the mutant of this property).

The pools have two or three members: one address and one domain are enough
for every combination of gate, quarantine, disabling and priority, and a second
address for replacements. Each run has the actors whose interference its
property is about; between them the runs have all of them. `ServedIsPool`,
`OneSequence` and the liveness properties are checked without faults and without the writers
that by design leave the three representations apart for a while (a manual
start of cfnat, the reverification, the error report): with them it is false,
and section 5 names the cases that are more than a transient.

Fairness: a task that has begun goes on, because its scans have timeouts (WF
on each task past `idle`); a blocking `Lock` returns although others keep
taking the mutex, because `sync.Mutex` hands over to a waiter that starves (SF
on `TakeCtl`). Nothing is assumed about when tasks begin.

### Data plane

| Run | Checks | Bounds |
|---|---|---|
| `forward` | `TypeOK`, `SharedOnlyOfNeed`, `NeighboursApart`, `DeadPinLeft` | three clients, two dials at once, pools of one and two exits and a fallback, `-num` 2, a table of 3 |

- `SharedOnlyOfNeed`: an exit has two clients only when clients outnumber
  exits, or when a failed dial moved one of them.
- `NeighboursApart`: of two clients that arrive one after the other the second
  is not put on the exit of the first, with all exits in use and after a purge.
- `DeadPinLeft`: a client that keeps connecting does not stay pinned to a dead
  exit while another exit of the pool answers.
- `TypeOK` says among the types that a pin names an exit of this pool, which
  the fallback, dialled by the same function, could spoil.

Three clients and at most two exits put the table through every case: a free
exit, none, and the cap. `-num` is the size of the pool, so that a connection
tries every exit, which `DeadPinLeft` needs: a connection of a smaller `-num`
may miss the exit that answers. Fairness: a dial that has begun ends (WF),
because the dialer has a timeout. That a client keeps connecting is a premise
of the property, not an assumption.

### Ledgers

| Run | Checks | Bounds |
|---|---|---|
| `ledgers`, probe | `MarksEarned`, `FirmReap`, `PinnedOnlyForDeath`, `BusyRetriedSoon` | two addresses, one of which others may pin, one domain, thresholds 2 |
| `ledgers`, domains | `DeadProven`, `RoundLeavesOne`, `RecoveryForgets` | two domains, a window of 6, thresholds 3, the floor of 60 % |
| `ledgers`, supply | `EachOnceWithLayer`, `ReserveLeft`, `FairMerge`, `BackoffEarned` | three addresses, two lists, caps 1, 1, 2 and 3, a reserve of 1, backoff after 2 failures, up to 2 units |
| `ledgers`, guard | `CooldownKept` | a cooldown of 3 ticks, marks 1 tick late, pools of up to 2 addresses, at least 2 wanted |
| `throne_rhythm` | `RhythmReturns` is violated | one address, one domain, thresholds 2 |

- `FirmReap`: nobody is taken out whose latest probes, as many as the threshold
  says, were not all failures (or, for an address, all slow), although rounds
  of suspects skip the others and members come and go between probe and change.
- `PinnedOnlyForDeath`: pins that other tasks set during up to 130 seconds of
  waiting and scanning count, and slowness never costs a pinned member its place.
- `MarksEarned`: who is held or rechecked was bad the last time: the marks, which
  the end of a round sets, go with the recovery that a later probe sees.
- `BusyRetriedSoon`: a busy lock is no verdict: the victims that had to wait keep
  their mark, also when others of the round are held or replaced.
- `DeadProven`: a dead domain has failed as many rounds as it takes, each of which
  measured another domain, although blind rounds come in between and domains
  leave and rejoin the list.
- `RoundLeavesOne`: no round judges the whole list dead at once.
- `RecoveryForgets`: after enough rounds in a row no domain is below the success
  floor for what it failed before.
- `EachOnceWithLayer`: the list has nobody twice and a layer for everybody,
  whatever refreshes, kicks and pushes do to each other.
- `ReserveLeft`: the earlier layers leave the community lists their reserve. It says
  what the list looks like when their turn comes; how much of the reserve they
  fill is another matter (section 5).
- `FairMerge`: no list that comes first eats the room of the others.
- `BackoffEarned`: a list is left out only after enough failures in a row, and never
  longer than the longest backoff; and a round that goes out asks somebody, also
  when all of them are in backoff (`candidates.go:778`). It has two mutants, one
  for each half.
- `CooldownKept`: an automatic switch that no dead or small pool excused comes a
  cooldown after the last one, across restarts, less what a mark was late.

Threshold 2 tells "in a row" from "latest"; a replacement needs one address
outside of the pool; the domain is the victim that goes on when the scan is
busy. Only one address can be pinned, which keeps the run at under four million
states; the proofs have no such bound. The thresholds of the domains are the
code's 3, 3 and 3, with a window of 6 instead of 12: larger than what a recovery
keeps, which is all that matters of it. The caps of the supply let every layer
be cut by its own quota, by the common cap and by the reserve. Fairness in
`throne_rhythm` is weak fairness of the round: the loop has a timer, and the
probes, the scan and both waits have timeouts.

### Components

| Run | Checks | Bounds |
|---|---|---|
| `components`, process | `OneProcess`, `PortFree`, `StopEnds` | two callers, four processes at a time, cfnat and cfdata, with failures |
| `components`, inventory | `SavedAtRest`, `LastToGo`, `NewComersHeard` | three candidates, one of the old pool, a cap of 2, batches of 2, a budget of 1, threshold 1 |
| `components`, scan | `NothingLost`, `OnlyMeasured`, `StageEnds` | two addresses, one slot, cfdata and cfnat |

- `OneProcess`: one process at most, the one `p.cmd` names, and an exit code is
  reported only when it has ended: the late waiter of an earlier process, which
  writes `p.exitCode` whatever `p.cmd` is by then, never comes after a start.
- `PortFree`: whoever is about to start cfnat finds the old one ended and waited
  for, after a stop that was cancelled, waited for or forced.
- `StopEnds`: every stop ends, also when others stop and start in its middle.
- `SavedAtRest`: between rounds a restart finds what memory holds. Saves are
  assumed to work; that their errors are only logged is in the code.
- `LastToGo`: from a full inventory nothing that passes goes while a pending or
  failed entry stays, and nothing goes below the cap but stale failures.
- `NewComersHeard`: a new candidate gets its turn, however many failures and
  overdue entries compete; without the mark of those that the budget left out it
  is false.
- `NothingLost`: nobody sends on a closed channel, and what was collected is what
  answered.
- `OnlyMeasured`: what a refresh reads was measured by a detailed test of some scan,
  whichever step a scan was killed at. It says nothing of pushes.
- `StageEnds`: slots, channel and `wg.Wait` do not wait in a circle.

Two callers suffice for a start or a stop in the middle of a stop; four processes
are one more than two callers and `p.cmd` can refer to. An inventory of three with
a cap of 2 evicts on every full harvest, and a batch of 2 with a budget of 1
leaves out one of those that answered. One slot for two addresses makes the
spawning loop wait for a goroutine.

Fairness: callers go on, a process that was cancelled or killed ends (`SIGKILL`),
its waiter notices; the sweep has a timer and each probe a time limit
(`ProbeGoesOn`), but `NewComersHeard` excepts a program that is restarted, or
whose round runs out of time, again and again; goroutines run and dials have time
limits (`ScanFairness`). Nothing is assumed about when handlers come or scans
begin.

## 4. What is proved

All theorems hold for every value of the constants that satisfies the named
assumptions (finite sets of members, positive thresholds, `PoolSize >= MinPool`; lists of addresses for what a source returns).

**Quality** (`QualitySchedulerProofs`). `InvHolds`: the invariant `IInv` is
inductive. `SingleActive` alone is not: a commit installs `pending.to`, so the
invariant has to say that the target is recorded, has a sample and no counted
failure (`Committable`), which `SeedActive` preserves because it rewrites
states only; and that no failure counted means that the latest sample
succeeded (`RecordHistory`). The file satisfies the same ledger invariant as
the memory, so a lost write or a restart gives nothing new. Each ledger
operation has a lemma that it preserves `LedgerInv`; `NextInv` combines them.
`SingleActiveCorrect`, `ActiveRecordedCorrect`, `TypeCorrect` and
`OnlyProvenCommittedCorrect` follow. `ObservationBoundsCorrect` is a count: whom
`PruneRecords` drops is decided by age, so the bound needs that ages are an order,
no two records of one age and none newer than there are addresses (`RankInv`, with
a lemma that every operation keeps it). Then the ages of those who may go are exactly
0 to one less than their number, and as many go as there are too many
(`PruneBounds`); that only one record is spared, the Active, is
`SingleActive`, which `ObserveBounds` has for the ledger that `observe` prunes.

**Pool** (`PoolControlProofs`). `PoolInvHolds`: `IInv` adds to `Forwardable`
that `cfnatCtlMu` is held through a replacement (`CtlHeld`) and that what is on
its way to memory can be forwarded to (`PendingForwardable`), because pools
reach memory from copies taken long before. `ForwardableCorrect`,
`SoleSwapperCorrect` and `FileNeverEmptiedCorrect` follow, for all actors and
faults. `ServedIsPoolCorrect` holds under `Tame`: no faults and none of the
actors that touch one of the three representations alone; its invariant
`SInv` says what a task between swap and publication has already done.
`OneSequenceCorrect`, also under `Tame`, is the refinement: `StartMaps` takes the
initial states to those of `ActivePool`, and `StepMaps` every step to a
replacement, an announcement or a stutter. It needs `SInv` for "memory follows
before the next replacement" and `Forwardable` for what cfnat is started with.
`NeverLeftStoppedCorrect` holds under `Unfailing`: nothing fails, and no user stops
cfnat. Its invariant `AInv` follows the tasks that carry a pool to memory: cfnat
runs already when they publish (`Served`), the copy of a re-election is of a pool
that memory still has (`Remembered`), and a revalidation that has stopped cfnat has
something to come back with (`Returning`). `OthersSound` is what keeps the proof
short: a step of one task leaves the conditions of the others alone.

**Data plane** (`ForwarderProofs`). `TypesHold` is inductive as it stands.
`SharingHolds`: `SharedOnlyOfNeed` together with the types is inductive; the
argument is a count. When `Pick` finds no unused exit, each exit has a client,
the choice of one for each is an injection from the pool into the clients of
the table (`FullPoolOutnumbered`), and the new client is one more; a move of a
pin never takes a client out of the table (`PinnedKept`). That a search which
can succeed does succeed is `PickIsFree`, by a least element of a set of
naturals. `NeighboursHold`: the cursor stands right after the exit that was
given last (`CursorTrails`), in a pool of two or more this is another exit
(`BeforeIsOther`), and after a purge the search ends at the cursor.

**Throne probe** (`ThroneProbeProofs`). `ThroneTypes` is inductive as it
stands (replacements are found in no step but the one before the change); it is
about types only, and does not say that a pinned name is a member's.
`FirmReapHolds` and `PinnedHolds` rest on `CountersTrue`: each counter is backed
by that many latest outcomes. It survives because an entry is only counted up
together with a probe, and is otherwise left or dropped. Reaped members are
victims of the plan that is made under the lock (`ReapedAreVictims`), and its
plan says dead, or slow and not pinned (`VictimsAre`). `BusyHolds` needs
`DeferredMarked`: between the busy lock and the end of the round, whoever was
deferred keeps the mark, because the victims of the change exclude them. `MarksHold` adds to `CountersTrue` that
whoever has a mark has a count (`MarksBacked`): a hold or a deferral is of a
victim, and a probe that clears both counts clears both marks.

**Processes** (`SwitchProofs`). `OneProcess` is not inductive: it needs
that a start is accepted only when no process is unwaited, hence what
`LooksRunning` says, and `PortFree` needs `CtlCovers` (one caller of cfnat at a
time) and `StopKnowsAll`, that a stop under way knows of every process there is.
`ProcInv` is their conjunction; it holds for any number of callers, for either
binary, and with failures.

**Switch guard** (`SwitchProofs`). `CooldownKept` compares the real age of the last
automatic switch with a verdict that was reached from `lastSwitch`, which marks,
restarts and the saved pool move. `GuardInv` says what makes the comparison good:
`lastSwitch` and the time in the file are never older than the last automatic
switch plus `Lag`, `lastSwitch` except between the replacement and its mark, and an
`ok` was given when that switch was a cooldown less a `Lag` ago.

**Subscriptions** (`SourceProofs`). `InventoryInv` says of every
entry, in memory and in the file, that the verdict is what the count says, and
that the file lags only behind a harvest or a probe at work. `LastToGoCorrect`
rests on `EvictionIsLast`, which is about the eviction alone: if any set of the
size of the cap is kept so that nobody outside is worth more, then nothing that
passes goes while a failure stays.

**Domains** (`DomainLedgerProofs`). `DomainInv` ties the counters of an account to
its samples and to the history; `DeadProvenCorrect` and `RoundLeavesOneCorrect`
follow under `EnoughSamples` (`MinSamples <= DeadFailures <= SampleCap`, in the
code 3, 3 and 12): otherwise an old account could become dead by the number of
its samples alone. `RecoveryForgetsCorrect` needs that the last
`RecoveryStreak` samples are suffixes of longer windows (`LatestIsSuffix`) and that
a window of successes is above every floor (`AllGood`).

**Scans** (`SourceProofs`). `ScanInv` adds to the properties that whatever
has answered in the detailed test was measured (`TestMeasured`); it survives a
kill because `measured` never shrinks and files are made of results only.

**Candidates** (`CandidateSupplyProofs`). What a layer lists and what the merge
returns are results of recursive functions, so the proofs need an induction. The
theorems on induction in the library take an operator as parameter; `Numbers` and
`Recursion` say the same of sets instead: a set of naturals with 0 and the
successor of each member is everything, and a function defined by a step from its
predecessor exists and satisfies its equation. `GroupKeeps` and `WithoutKeeps` are
about a layer and a removal. For the merge, `Fair` strengthens `FairMerge` by whose
turn it is: of two sources that still have something new, the one that had its
turn in this round is one address ahead and no more (`Ahead`), which every `Turn`
keeps (`TurnKeeps`). `RoundRobinComplete` needs the exact number: a source with
something left has given one address in each round (`Counted`), hence after
`Turns` turns of a merge that is not full each address would have been merged.
`SupplyInv` adds what is common to all lists under way (each address once and
with its layer, within the cap), and that the account of a source has the
failures in a row of its history and a wait that ends within `MaxBackoff` of the
last question. That a round asks somebody (`BackoffEarned`) needs only that there are
sources at all. `EachOnceWithLayer`, `ReserveLeft`, `FairMerge` and
`BackoffEarned` follow.

Every safety invariant and every action property of a passing run is now the
statement of a theorem. Only model-checked are the liveness properties
(`FailoverDecided`, `RevalidateResumes`, `WaitsEnd`, `DeadPinLeft`, `StopEnds`,
`NewComersHeard`, `StageEnds`), because the prover has no rules for fairness and
`ENABLED`; and the four disagreements of section 5 that a run shows, which are
counterexamples. That the numbers that the models use as ages, counters and
turns are bounded where TLC needs it (`FailsBound`, `Forever`) is part of the
models, not of the theorems.

## 5. Where code and documentation disagree

Shown by a run (`findings` in `PROJECT.json`):

1. **Promotion proved against another Active** (`quality_history`).
   `ConsecutiveSuperior` is not reset when the Active changes
   (`quality_runtime.go:358`), so a standby that beat the old Active once and
   the new one twice is promoted; the comment at `quality_runtime.go:239` asks
   for three rounds against the Active.
2. **The pool under test is not the active pool** (`pool_validated`).
   `revalidateActivePool` copies the pool before waiting for the two locks.
3. **A restart forwards to disabled members** (`pool_disabled`).
   `cfnatStartupConfig` does not go through `planFixedMembers`.
4. **The fast rhythm never ends** (`throne_rhythm`). `throneNextDelay` looks at
   every entry (`throne_probe.go:242`), and a suspect that another task takes
   out of the pool keeps its mark: the whole pool is probed every two minutes
   until that member returns, or a restart. The comment at line 234 promises the
   normal interval.

Met while modelling, with no property in these modules:

5. A FAILED Active that answers again keeps the state FAILED
   (`quality_runtime.go:296`) and is failed over with no failure counted.
6. `commitSwitch` and `seedActive` take a FAILED record to STANDBY or ACTIVE
   without a probe, although `quality_scheduler.go:28` allows PROBING only.
7. Pruning goes by the age of the last probe, so it evicts an old STANDBY
   before a younger FAILED record, contrary to `quality_runtime.go:401`.
8. A domain that was reaped and then pinned is dropped by the next
   reconciliation while its quarantine runs (`domain_latency.go:587` against 562).
9. With every domain judged bad, reconciliation restarts cfnat each round for
   the set it already has: the fallback differs from the pool and the gate
   removes it again (`domain_latency.go:597`, `pool.go:200`).
10. The gate of `applyPoolLocked` applies to explicit domains, which
   `main.go:614` exempts from any gate.
11. A full re-election builds its pool without the domains the user pinned
    (`funnel.go:403`).
12. When the first pool of an installation fails to start, the rollback starts
    cfnat with an empty `-fixed` (`pool.go:214` against 120).
13. A scheduler round publishes an edit of its old copy, so a member kicked
    during its probes comes back (`main.go:520`).
14. Exits as many as clients are not enough for "绝不撞车" (never a collision,
    the repository's `README.md:208`): a failed dial moves a client onto an
    exit that has one already, and it stays there after its own has recovered.
    `SharedOnlyOfNeed` therefore excepts clients that were moved.
15. The same page, line 209, says that pins survive a change of the pool.
    `SetIPAddresses` would keep them, but the control plane changes the pool
    by restarting cfnat, whose table is in memory only.
16. The cap of the table (`cfnat.go:131`) is looked at before the pin of the
    client, so at the cap a client that is pinned already drops all pins; and
    `repinClient` does not look at it, so dials under way may exceed it.
17. Without stickiness and with `-num` at least the size of the pool the
    rotation never advances (`cfnat.go:110`): each connection begins with the
    same exit, where line 212 of that page promises all members in turn.
18. A member that left the pool and comes back finds its old entry, so its
    first failure may be the last one of the threshold, although no threshold's
    worth of failures happened in its present stay (`throne_probe.go:315`).
19. A replacement is chosen outside of the copy of the pool; if another task
    has put it in meanwhile, the pool has it twice and is one member smaller
    than it looks (`throne_probe.go:432`), where lines 31 and 438 want no shrinking.
20. A pool with one member keeps it when it is dead: the rule that one stays is
    applied before replacements are looked for (`throne_probe.go:159`).

21. `start` clears `exitCode` before `cmd.Start` (`process.go:113`) and leaves the
    old `cmd`. When the spawn fails, the old command looks like a running process:
    every later start is refused, that of the rollback (`pool.go:225`) and that of
    the resumption included, until somebody calls `stop`, which waits for the old
    `done` and returns at once but leaves `exitCode` nil. The comment at
    `revalidate.go:185` counts on the rollback having started the old pool again.
22. The operator's page says that the health gate does not look at the size of the
    pool, so that a healthy single member blocks growth (`DESIGN.md:80`,
    `README.md:127`). `allowPoolSwitch` lets a pool below the minimum pass before
    it looks at health (`pool.go:457`).
23. The cooldown may be shorter by up to two minutes: a reap marks the switch with
    the time from before its scan (`throne_probe.go:421`) and so may set back what
    an automatic switch has marked; the scheduler's stamp is older than its VLESS
    probes (`main.go:447`). Hence `Lag` in `CooldownKept`.
24. The reserve of the community lists is counted in addresses of their own, but the
    merge collects as many as there is room for, among them addresses that other
    layers have claimed and `appendGroup` then skips (`candidates.go:367`), so room
    may stay empty although the lists have more (comment at 349).
25. `SourceByIP` is one map shared by all copies of the snapshot: it is saved outside
    of `candidateMu` (`candidates.go:427`) while a kick or a push writes to it, which
    is a data race, and cache files may be written in the other order.
26. A push at the cap leaves the layer of an address that the cap cut off
    (`preferred.go:294`), so that later pushes of it are ignored until a refresh.
27. A refresh that finds nothing copies the snapshot and writes it back in two
    critical sections (`candidates.go:405`): a kick in between is undone.
28. Entries beyond the budget are marked only if they are pending
    (`subscription.go:408`): overdue ones that pass or fail are knocked at again in
    each round. Examinations that had not begun when the time was over leave no
    record either.
29. The old pool is imported whenever the inventory has no entries
    (`subscription_inventory.go:111`), also when its file exists; the comment at line
    97 says only when it does not. Removing the last entry brings the import back
    at the next start; `SavedAtRest` allows for it.
30. When the time of a WebSocket scan is over, candidates that were never dialled
    are results with an error (`funnel.go:449`), and count as failures.
31. A failure in a round that measured nobody leaves `ConsecutiveSuccesses` as it is
    (`domain_latency.go:448`); the window is then cut to three samples that may
    contain failures (line 476), so two blind rounds make a healthy domain unstable.
    `RecoveryForgets` therefore counts rounds that the domain came through.
32. A dead domain that is missing from one round's targets loses its account
    (`domain_latency.go:455`) and begins as untested when it returns.
33. A scan that is killed while `ip.csv` is rewritten (`cfdata.go:367`) leaves it cut
    short and fresh for 24 hours (`main.go:328`); one that finds nothing leaves the
    old `result.csv`, which `cfdata_supply.go:20` does not want to be taken for
    current. `OnlyMeasured` says "measured by some scan", not by the last.
34. With a filter of data centres cfnat may be left without exits and serves all
    the same (`cfnat.go:399`), where a scan without results is repeated.
35. The refresh after a scan gives up when another one runs (`main.go:311`), so the
    results of that scan wait for the next.
36. `count++` after `wg.Done` (`cfdata.go:288`, 535) is a data race on a progress
    display; nothing depends on it.
37. A push from the page takes rows of `ip.csv` (`preferred.go:245`), which the first
    stage of a scan has written, and adds them to the candidates as the layer
    cfdata, whether or not a detailed test has measured them; `cfdata_supply.go:20`
    says that the supply goes by `result.csv` only. Examinations still decide who
    gets into the pool.
38. A round of the scheduler that cannot load the VLESS template returns before it
    has observed or decided anything (`main.go:452`), so a failover waits for the
    template too; `FailoverDecided` has rounds that get further as its premise.

## 6. What is not modelled

Fetching, parsing, the VLESS probe program, `/proc` views, files of settings, the
user interface and the legacy program: they are input, output or formatting. In the
modelled parts: the order of pool members, scores, texts of errors and
reasons, log lines, and the timers of the loops (a loop may begin a round at
any time). Measurements are choices over all outcomes. `main` can be entered
with an inherited quality file that holds any number of ACTIVE records, but
not with a file edited by hand into an arbitrary state.

The scheduler and the pool are not composed: what the pool tells the scheduler
is its first member, and `PoolControl` keeps sets; `QualityScheduler` lets it be
any line instead (`SeedFromPool`), so its properties do not depend on the pool,
and what relates `ActiveIP` to the pool is stated nowhere (section 5, 13, is what
such a composition would show). The re-election's ranking, the spread over
segments and the choice of replacements are choices among all candidates.

## 7. What is left

- The order of pool members in `PoolControl`, and with it the composition with
  the scheduler.
- The ranking of the funnel (`funnel.go`, `rankVLESSPassesBySpeed`,
  `spreadBySegment`) as operators checked against reference definitions.
- That the order by which `DecideLineSwitch` chooses a standby is strict, so that
  the choice is the code's sort, for any samples.
- Files of settings, and what a save that fails in them leaves behind.

Running: `tlc -config <run>.cfg <module>` and `tlapm <module>.tla` in this
directory; the table of runs in `PROJECT.json` gives module, configuration and
properties of each.

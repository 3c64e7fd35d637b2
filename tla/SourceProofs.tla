----------------------------- MODULE SourceProofs -----------------------------
(***************************************************************************)
(* Proofs about two of the sources of candidates, which share no state:    *)
(* the scans, for any addresses and any number of goroutines, and the      *)
(* inventory of subscriptions, for any candidates, caps and batches.       *)
(***************************************************************************)
EXTENDS ScanPipeline, SubscriptionInventory, TLAPS

-----------------------------------------------------------------------------
(* The scans.                                                              *)

\* What a detailed test has in flight, has collected or has written was measured.
TestMeasured ==
    /\ Is("test") => OfState("send") \cup OfState("sent") \subseteq measured
    /\ scanner.pc \in {"cutResult", "writeResult"} => found \subseteq measured

\* The inductive invariant.
ScanInv == ScanTypes /\ NothingLost /\ TestMeasured /\ OnlyMeasured

LEMMA ScanInvInit == ScanInit => ScanInv
<1> SUFFICES ASSUME ScanInit PROVE ScanInv
  OBVIOUS
<1>1. ScanTypes
  BY DEF ScanInit, ScanTypes, NoScan, Files, Results
<1>2. scanner.pc = "off"
  BY DEF ScanInit, NoScan
<1> QED BY <1>1, <1>2
        DEF ScanInv, ScanInit, NothingLost, TestMeasured, OnlyMeasured, ResultRows, Is

-----------------------------------------------------------------------------
(* The steps.                                                              *)

\* A step of the process that leaves it outside stages and files.
LEMMA OutsideKeeps ==
    ASSUME ScanInv, ScanTypes', scanner'.pc \in {"off", "choose", "select", "serve", "scan"},
           UNCHANGED <<resultFile, measured>>
    PROVE  ScanInv'
BY DEF ScanInv, NothingLost, TestMeasured, OnlyMeasured, ResultRows, Is

LEMMA GoneKeeps ==
    ASSUME ScanInv, Gone, UNCHANGED <<listFile, resultFile, measured>>
    PROVE  ScanInv'
<1>1. scanner' = NoScan /\ found' = {}
  BY DEF Gone
<1>2. worker' \in [Hosts -> Results]
  BY DEF Gone, Results
<1>3. ScanTypes'
  BY <1>1, <1>2 DEF NoScan, ScanInv, ScanTypes
<1>4. scanner'.pc = "off"
  BY <1>1 DEF NoScan
<1> QED BY <1>3, <1>4, OutsideKeeps

\* A process begins.
LEMMA ChoosesNext ==
    ASSUME ScanInv, NEW kind \in Kinds, NEW update \in BOOLEAN, NEW oneCentre \in BOOLEAN,
           scanner' = [pc |-> "choose", kind |-> kind, update |-> update, oneCentre |-> oneCentre],
           UNCHANGED <<worker, found, listFile, resultFile, measured>>
    PROVE  ScanInv'
<1>1. scanner'.pc = "choose"
  OBVIOUS
<1>2. ScanTypes'
  BY ScanAssumption DEF ScanInv, ScanTypes
<1> QED BY <1>1, <1>2, OutsideKeeps

LEMMA BeginKeeps == ASSUME ScanInv, TriggerScan \/ RunByHand PROVE ScanInv'
<1>1. CASE TriggerScan
  <2> DEFINE update == listFile.age # "fresh"
  <2>1. update \in BOOLEAN
    OBVIOUS
  <2>2. scanner' = [pc |-> "choose", kind |-> "cfdata", update |-> update, oneCentre |-> FALSE]
    BY <1>1 DEF TriggerScan, NoScan
  <2>3. "cfdata" \in Kinds /\ UNCHANGED <<worker, found, listFile, resultFile, measured>>
    BY <1>1 DEF TriggerScan
  <2> HIDE DEF update
  <2> QED BY <2>1, <2>2, <2>3, ChoosesNext
<1>2. CASE RunByHand
  BY <1>2, ChoosesNext DEF RunByHand
<1> QED BY <1>1, <1>2

LEMMA KilledKeeps == ASSUME ScanInv, Killed PROVE ScanInv'
BY GoneKeeps DEF Killed

LEMMA ChooseListKeeps == ASSUME ScanInv, ChooseList PROVE ScanInv'
<1>1. CASE Gone
  BY <1>1, GoneKeeps DEF ChooseList
<1>2. CASE (\E hosts \in SUBSET Hosts : Enlist(hosts)) /\ GoOn("scan") /\ UNCHANGED found
  <2>1. scanner'.pc = "scan" /\ ScanTypes'
    BY <1>2 DEF ChooseList, Enlist, GoOn, ScanInv, ScanTypes, Results
  <2> QED BY <2>1, OutsideKeeps DEF ChooseList
<1>3. CASE GoOn("select") /\ UNCHANGED <<worker, found>>
  <2>1. scanner'.pc = "select" /\ ScanTypes'
    BY <1>3 DEF ChooseList, GoOn, ScanInv, ScanTypes
  <2> QED BY <2>1, OutsideKeeps DEF ChooseList
<1> QED BY <1>1, <1>2, <1>3 DEF ChooseList

\* A goroutine goes from one state to the next during a stage.
LEMMA WorkerMoves ==
    ASSUME ScanInv, NEW h \in Hosts, NEW s \in Results, worker[h] \in {"todo", "busy", "send"},
           worker' = [worker EXCEPT ![h] = s], s \in {"send", "sent"} /\ Is("test") => h \in measured',
           measured \subseteq measured', measured' \subseteq Hosts,
           UNCHANGED <<scanner, found, listFile, resultFile>>
    PROVE  ScanInv'
<1>1. ScanTypes'
  BY DEF ScanInv, ScanTypes
<1>2. scanner.pc \notin {"cutList", "writeList", "cutResult", "writeResult", "filter"}
  BY DEF ScanInv, NothingLost, AllDone, OfState
<1>3. ASSUME Is("test") PROVE (OfState("send") \cup OfState("sent"))' \subseteq measured'
  <2> SUFFICES ASSUME NEW g \in Hosts, worker'[g] \in {"send", "sent"} PROVE g \in measured'
    BY DEF OfState
  <2>1. CASE g = h
    BY <1>3, <2>1 DEF ScanInv, ScanTypes
  <2>2. CASE g # h
    BY <1>3, <2>2 DEF ScanInv, ScanTypes, TestMeasured, OfState
  <2> QED BY <2>1, <2>2
<1> QED BY <1>1, <1>2, <1>3
        DEF ScanInv, NothingLost, TestMeasured, OnlyMeasured, ResultRows, Is

LEMMA SpawnKeeps == ASSUME ScanInv, NEW h \in Hosts, Spawn(h) PROVE ScanInv'
<1>1. measured \subseteq Hosts BY DEF ScanInv, ScanTypes
<1> QED BY <1>1, WorkerMoves DEF Spawn, Results

LEMMA SendResultKeeps == ASSUME ScanInv, NEW h \in Hosts, SendResult(h) PROVE ScanInv'
<1>1. measured \subseteq Hosts BY DEF ScanInv, ScanTypes
<1>2. Is("test") => h \in measured
  BY DEF SendResult, ScanInv, TestMeasured, OfState
<1> QED BY <1>1, <1>2, WorkerMoves DEF SendResult, Results

LEMMA DialKeeps == ASSUME ScanInv, NEW h \in Hosts, Dial(h) PROVE ScanInv'
<1>1. measured \subseteq Hosts BY DEF ScanInv, ScanTypes
<1>2. CASE worker' = [worker EXCEPT ![h] = "failed"] /\ UNCHANGED measured
  BY <1>1, <1>2, WorkerMoves DEF Dial, Results
<1>3. CASE /\ worker' = [worker EXCEPT ![h] = "send"]
           /\ measured' = IF Is("test") THEN measured \cup {h} ELSE measured
  BY <1>1, <1>3, WorkerMoves DEF Dial, Results
<1> QED BY <1>2, <1>3 DEF Dial

LEMMA CollectKeeps == ASSUME ScanInv, Collect PROVE ScanInv'
<1>1. CASE Gone
  BY <1>1, GoneKeeps DEF Collect
<1>2. CASE found' = OfState("sent") /\ GoOn(AfterStage) /\ UNCHANGED worker
  <2>1. scanner' = [scanner EXCEPT !.pc = AfterStage] /\ found' = OfState("sent")
    BY <1>2 DEF GoOn
  <2>2. /\ AfterStage \in {"choose", "filter", "cutList", "cutResult"}
        /\ AfterStage = "cutResult" => ~Is("scan")
    BY DEF AfterStage
  <2>3. ScanTypes'
    BY <1>2, <2>1, <2>2 DEF Collect, ScanInv, ScanTypes, OfState
  <2>4. OfState("sent") \cup OfState("failed") = Job
    BY DEF Collect, AllDone, OfState, Job, ScanInv, ScanTypes, Results
  <2>5. NothingLost'
    BY <1>2, <2>1, <2>4 DEF Collect, NothingLost, AllDone, OfState, Job
  <2>6. scanner'.pc = AfterStage
    BY <2>1 DEF ScanInv, ScanTypes
  <2>7. TestMeasured'
    BY <2>1, <2>2, <2>6 DEF Collect, Probing, Is, ScanInv, TestMeasured
  <2> QED BY <2>3, <2>5, <2>7 DEF Collect, ScanInv, OnlyMeasured, ResultRows
<1> QED BY <1>1, <1>2 DEF Collect

LEMMA ListKeeps == ASSUME ScanInv, CutList \/ WriteList \/ ListAges PROVE ScanInv'
<1>1. ScanTypes'
  BY DEF CutList, WriteList, ListAges, GoOn, ScanInv, ScanTypes, Files
<1>2. scanner'.pc \in {"select", "writeList"} \/ UNCHANGED scanner
  BY DEF CutList, WriteList, ListAges, GoOn, ScanInv, ScanTypes
<1>3. \/ UNCHANGED scanner
      \/ scanner.pc \in {"cutList", "writeList"}
  BY DEF CutList, WriteList, ListAges, Is
<1>4. UNCHANGED <<worker, found, resultFile, measured>>
  BY DEF CutList, WriteList, ListAges
<1>5. NothingLost'
  BY <1>2, <1>3, <1>4 DEF ScanInv, NothingLost, AllDone, OfState, Job
<1>6. TestMeasured'
  BY <1>2, <1>4 DEF ScanInv, TestMeasured, OfState, Is
<1> QED BY <1>1, <1>4, <1>5, <1>6 DEF ScanInv, OnlyMeasured, ResultRows

LEMMA SelectRowsKeeps == ASSUME ScanInv, SelectRows PROVE ScanInv'
<1>1. CASE Gone
  BY <1>1, GoneKeeps DEF SelectRows
<1>2. CASE (\E rows \in SUBSET listFile.rows : Enlist(rows)) /\ GoOn("test") /\ found' = {}
  <2>1. ScanTypes' /\ scanner'.pc = "test"
    BY <1>2 DEF SelectRows, Enlist, GoOn, ScanInv, ScanTypes, Results
  <2>2. \A h \in Hosts : worker'[h] \in {"todo", "none"}
    BY <1>2 DEF Enlist
  <2> QED BY <2>1, <2>2
          DEF SelectRows, ScanInv, NothingLost, TestMeasured, OnlyMeasured, ResultRows, OfState, Is
<1> QED BY <1>1, <1>2 DEF SelectRows

\* Part of what was found is written.
LEMMA RowsKeep ==
    ASSUME ScanInv, Is("cutResult") \/ Is("writeResult"), resultFile' \subseteq found,
           Gone \/ (UNCHANGED <<worker, found>> /\ (GoOn("writeResult") \/ UNCHANGED scanner)),
           UNCHANGED <<listFile, measured>>
    PROVE  ScanInv'
<1>1. resultFile' \subseteq measured /\ UNCHANGED measured /\ measured \subseteq Hosts
  BY DEF Is, ScanInv, TestMeasured, ScanTypes
<1>2. CASE Gone
  <2>1. scanner' = NoScan /\ found' = {}
    BY <1>2 DEF Gone
  <2>2. worker' \in [Hosts -> Results]
    BY <1>2 DEF Gone, Results
  <2>3. ScanTypes'
    BY <1>1, <2>1, <2>2 DEF NoScan, ScanInv, ScanTypes
  <2>4. scanner'.pc = "off"
    BY <2>1 DEF NoScan
  <2> QED BY <1>1, <2>3, <2>4 DEF ScanInv, NothingLost, TestMeasured, OnlyMeasured, ResultRows, Is
<1>3. CASE UNCHANGED <<worker, found>> /\ (GoOn("writeResult") \/ UNCHANGED scanner)
  <2>1. scanner'.pc \in {"cutResult", "writeResult"} /\ scanner.pc \in {"cutResult", "writeResult"}
    BY <1>3 DEF GoOn, Is, ScanInv, ScanTypes
  <2>2. ScanTypes'
    BY <1>1, <1>3 DEF GoOn, ScanInv, ScanTypes
  <2>3. NothingLost'
    BY <1>3, <2>1 DEF ScanInv, NothingLost, AllDone, OfState, Job
  <2>4. TestMeasured'
    BY <1>1, <1>3, <2>1 DEF ScanInv, TestMeasured, Is
  <2> QED BY <1>1, <2>2, <2>3, <2>4 DEF ScanInv, OnlyMeasured, ResultRows
<1> QED BY <1>2, <1>3

LEMMA ResultKeeps == ASSUME ScanInv, CutResult \/ WriteResult PROVE ScanInv'
<1>1. CASE WriteResult
  BY <1>1, RowsKeep DEF WriteResult
<1>2. CASE CutResult /\ Gone /\ UNCHANGED resultFile
  BY <1>2, GoneKeeps DEF CutResult
<1>3. CASE CutResult /\ resultFile' = {} /\ GoOn("writeResult") /\ UNCHANGED <<worker, found>>
  <2>1. resultFile' \subseteq found
    BY <1>3
  <2> QED BY <1>3, <2>1, RowsKeep DEF CutResult
<1> QED BY <1>1, <1>2, <1>3 DEF CutResult

LEMMA FilterKeeps == ASSUME ScanInv, FilterExits PROVE ScanInv'
<1>1. ScanTypes' /\ scanner'.pc = "serve"
  BY DEF FilterExits, GoOn, ScanInv, ScanTypes
<1> QED BY <1>1, OutsideKeeps DEF FilterExits

LEMMA ScanInvNext == ScanInv /\ [ScanNext]_scanVars => ScanInv'
<1> SUFFICES ASSUME ScanInv, [ScanNext]_scanVars PROVE ScanInv'
  OBVIOUS
<1>1. CASE TriggerScan \/ RunByHand  BY <1>1, BeginKeeps
<1>2. CASE Main
  BY <1>2, ChooseListKeeps, CollectKeeps, ListKeeps, SelectRowsKeeps, ResultKeeps, FilterKeeps
     DEF Main
<1>3. CASE Killed  BY <1>3, KilledKeeps
<1>4. CASE \E h \in Hosts : Spawn(h) \/ Dial(h) \/ SendResult(h)
  BY <1>4, SpawnKeeps, DialKeeps, SendResultKeeps
<1>5. CASE ListAges  BY <1>5, ListKeeps
<1>6. CASE UNCHANGED scanVars
  BY <1>6 DEF scanVars, ScanInv, ScanTypes, NothingLost, TestMeasured, OnlyMeasured, ResultRows,
             AllDone, OfState, Job, Is
<1> QED BY <1>1, <1>2, <1>3, <1>4, <1>5, <1>6 DEF ScanNext

-----------------------------------------------------------------------------
(* The results.                                                            *)

\* The inductive invariant holds in every reachable state.
THEOREM ScanInvHolds == ScanSpec => []ScanInv
BY ScanInvInit, ScanInvNext, PTL DEF ScanSpec

\* However many goroutines share however few slots, a collected stage has lost no
\* result, and nobody is left to send on the closed channel.
THEOREM NothingLostCorrect == ScanSpec => []NothingLost
<1>1. ScanInv => NothingLost BY DEF ScanInv
<1> QED BY <1>1, ScanInvHolds, PTL

\* Whenever the control plane reads the results of cfdata, it reads measured addresses.
THEOREM OnlyMeasuredCorrect == ScanSpec => []OnlyMeasured
<1>1. ScanInv => OnlyMeasured BY DEF ScanInv
<1> QED BY <1>1, ScanInvHolds, PTL

-----------------------------------------------------------------------------
(* The inventory of subscriptions.                                         *)

\* The inductive invariant: the file is what some save or nobody has written.
InventoryInv ==
    /\ subFile = [entries |-> subFile.entries, ages |-> subFile.ages]
    /\ exam = [pc |-> exam.pc, todo |-> exam.todo]
    /\ SavedAtRest
    /\ WellJudged(subInv) /\ WellJudged(subFile.entries)

-----------------------------------------------------------------------------
(* Entries.                                                                *)

Sound(e) == e \in Entry /\ (e.state = "fail" <=> e.fails >= EntryFailThreshold)

LEMMA WellJudgedIsSound ==
    ASSUME NEW inv
    PROVE  WellJudged(inv) <=> /\ inv = [c \in Candidates |-> inv[c]]
                               /\ \A c \in Candidates : Sound(inv[c])
BY DEF WellJudged, Sound

LEMMA NewEntriesSound == Sound(Absent) /\ Sound(Pending) /\ Sound(Imported)
BY InventoryAssumption DEF Sound, Absent, Pending, Imported, Entry

LEMMA RecordedSound ==
    ASSUME NEW e, Sound(e), NEW ok \in BOOLEAN
    PROVE  Sound(Recorded(e, ok))
<1> DEFINE fails == IF ok THEN 0 ELSE IF e.fails < 2 * EntryFailThreshold THEN e.fails + 1 ELSE e.fails
           state == CASE ok                          -> "pass"
                      [] fails >= EntryFailThreshold -> "fail"
                      [] OTHER                       -> e.state
<1>1. EntryFailThreshold \in Nat /\ EntryFailThreshold # 0
  BY InventoryAssumption
<1>2. /\ e.fails \in 0..2 * EntryFailThreshold /\ e.state \in {"absent", "pending", "pass", "fail"}
      /\ e.state = "fail" <=> e.fails >= EntryFailThreshold
  BY DEF Sound, Entry
<1>3. fails \in 0..2 * EntryFailThreshold
  BY <1>1, <1>2
<1>4. state \in {"absent", "pending", "pass", "fail"}
  BY <1>2
<1>5. state = "fail" <=> fails >= EntryFailThreshold
  BY <1>1, <1>2
<1>6. CASE e.state = "absent"
  BY <1>6 DEF Recorded
<1>7. CASE e.state # "absent"
  <2>1. Recorded(e, ok) = [state |-> state, fails |-> fails, probed |-> TRUE]
    BY <1>7 DEF Recorded
  <2> HIDE DEF state, fails
  <2> QED BY <1>3, <1>4, <1>5, <2>1 DEF Sound, Entry
<1> QED BY <1>6, <1>7

LEMMA MarkedSound ==
    ASSUME NEW e, Sound(e)
    PROVE  Sound(Marked(e))
BY DEF Sound, Marked, Entry

-----------------------------------------------------------------------------
(* The steps.                                                              *)

LEMMA InventoryInvInit == InventoryInit => InventoryInv
<1> SUFFICES ASSUME InventoryInit PROVE InventoryInv
  OBVIOUS
<1>1. /\ subInv = Import /\ subFile = [entries |-> [c \in Candidates |-> Absent], ages |-> <<>>]
  BY DEF InventoryInit
<1>2. Known(subFile.entries) = {}
  BY <1>1 DEF Known, Absent
<1>3. WellJudged(subInv) /\ WellJudged(subFile.entries)
  BY <1>1, NewEntriesSound, WellJudgedIsSound DEF Import
<1>4. exam = [pc |-> exam.pc, todo |-> exam.todo]
  BY DEF InventoryInit, NoRound
<1> QED BY <1>1, <1>2, <1>3, <1>4 DEF InventoryInv, SavedAtRest

\* A step that saves.
LEMMA SaveKeeps ==
    ASSUME WellJudged(subInv'), Save, exam' = [pc |-> exam'.pc, todo |-> exam'.todo]
    PROVE  InventoryInv'
BY DEF Save, InventoryInv, SavedAtRest

\* A step in the middle of a round.
LEMMA BusyKeeps ==
    ASSUME InventoryInv, WellJudged(subInv'), UNCHANGED subFile, harvest'.busy \/ exam'.pc # "idle",
           exam' = [pc |-> exam'.pc, todo |-> exam'.todo]
    PROVE  InventoryInv'
BY DEF InventoryInv, SavedAtRest

LEMMA HarvestKeeps == ASSUME InventoryInv, MergeHarvest \/ PruneHarvest PROVE InventoryInv'
<1>1. \A c \in Candidates : Sound(subInv[c])
  BY WellJudgedIsSound DEF InventoryInv
<1>2. CASE MergeHarvest
  <2>1. WellJudged(subInv')
    BY <1>1, <1>2, NewEntriesSound, WellJudgedIsSound DEF MergeHarvest
  <2>2. harvest'.busy /\ UNCHANGED <<subFile, exam>>
    BY <1>2 DEF MergeHarvest
  <2> QED BY <2>1, <2>2, BusyKeeps DEF InventoryInv
<1>3. CASE PruneHarvest
  <2>1. WellJudged(subInv')
    BY <1>1, <1>3, NewEntriesSound, WellJudgedIsSound DEF PruneHarvest
  <2> QED BY <1>3, <2>1, SaveKeeps DEF PruneHarvest, InventoryInv
<1> QED BY <1>2, <1>3

LEMMA PickBatchKeeps == ASSUME InventoryInv, PickBatch PROVE InventoryInv'
<1>1. WellJudged(subInv')
  BY DEF PickBatch, InventoryInv, WellJudged
<1>2. CASE Save /\ UNCHANGED exam
  BY <1>1, <1>2, SaveKeeps DEF InventoryInv
<1>3. CASE UNCHANGED subFile /\ \E batch : exam' = [pc |-> "knock", todo |-> batch]
  BY <1>1, <1>3, BusyKeeps
<1> QED BY <1>2, <1>3 DEF PickBatch

LEMMA KnockKeeps == ASSUME InventoryInv, Knock PROVE InventoryInv'
<1>1. \A c \in Candidates : Sound(subInv[c])
  BY WellJudgedIsSound DEF InventoryInv
<1>2. \A c \in Candidates : /\ \A ok \in BOOLEAN : Sound(Recorded(subInv[c], ok))
                            /\ Sound(Marked(subInv[c]))
  BY <1>1, RecordedSound, MarkedSound
<1>3. PICK answered \in SUBSET exam.todo, within \in SUBSET exam.todo :
        \/ subInv' = [c \in Candidates |-> IF c \in exam.todo
                            THEN Recorded(subInv[c], c \in answered) ELSE subInv[c]]
        \/ subInv' = [c \in Candidates |->
                        CASE c \in exam.todo \ answered    -> Recorded(subInv[c], FALSE)
                          [] c \in answered \ within -> Marked(subInv[c])
                          [] OTHER                         -> subInv[c]]
  BY DEF Knock
<1>4. WellJudged(subInv')
  <2>1. CASE subInv' = [c \in Candidates |-> IF c \in exam.todo
                            THEN Recorded(subInv[c], c \in answered) ELSE subInv[c]]
    <3>1. \A c \in Candidates : (c \in answered) \in BOOLEAN
      OBVIOUS
    <3>2. \A c \in Candidates : Sound(subInv'[c])
      BY <1>1, <1>2, <2>1, <3>1
    <3> QED BY <2>1, <3>2, WellJudgedIsSound
  <2>2. CASE subInv' = [c \in Candidates |->
                        CASE c \in exam.todo \ answered    -> Recorded(subInv[c], FALSE)
                          [] c \in answered \ within -> Marked(subInv[c])
                          [] OTHER                         -> subInv[c]]
    <3>1. \A c \in Candidates : Sound(subInv'[c])
      BY <1>1, <1>2, <2>2
    <3> QED BY <2>2, <3>1, WellJudgedIsSound
  <2> QED BY <1>3, <2>1, <2>2
<1>5. UNCHANGED subFile /\ \E rest : exam' = [pc |-> "exam", todo |-> rest]
  BY DEF Knock
<1> QED BY <1>4, <1>5, BusyKeeps

LEMMA ExamineKeeps ==
    ASSUME InventoryInv, NEW c \in Candidates, Examine(c)
    PROVE  InventoryInv'
<1>1. PICK ok \in BOOLEAN : subInv' = [subInv EXCEPT ![c] = Recorded(subInv[c], ok)]
  BY DEF Examine
<1>2. Sound(Recorded(subInv[c], ok))
  BY RecordedSound, WellJudgedIsSound DEF InventoryInv
<1>3. WellJudged(subInv')
  BY <1>1, <1>2, WellJudgedIsSound DEF InventoryInv
<1>4. exam' = [pc |-> "exam", todo |-> exam.todo \ {c}]
  BY DEF Examine, InventoryInv
<1> QED BY <1>3, <1>4, BusyKeeps DEF Examine

LEMMA BudgetKeeps == ASSUME InventoryInv, BudgetEnds PROVE InventoryInv'
<1>1. exam' = [pc |-> "exam", todo |-> {}]
  BY DEF BudgetEnds, InventoryInv
<1>2. WellJudged(subInv')
  BY DEF BudgetEnds, InventoryInv, WellJudged
<1> QED BY <1>1, <1>2, BusyKeeps DEF BudgetEnds

LEMMA RestKeeps == ASSUME InventoryInv, EndProbe \/ RemoveEntry PROVE InventoryInv'
<1>1. WellJudged(subInv')
  <2>1. CASE EndProbe
    BY <2>1 DEF EndProbe, InventoryInv, WellJudged
  <2>2. CASE RemoveEntry
    BY <2>2, NewEntriesSound, WellJudgedIsSound DEF RemoveEntry, InventoryInv
  <2> QED BY <2>1, <2>2
<1>2. Save /\ exam' = [pc |-> exam'.pc, todo |-> exam'.todo]
  BY DEF EndProbe, RemoveEntry, NoRound, InventoryInv
<1> QED BY <1>1, <1>2, SaveKeeps

LEMMA ReloadKeeps == ASSUME InventoryInv, ReloadInventory PROVE InventoryInv'
<1>1. UNCHANGED subFile /\ exam' = NoRound /\ NoRound' = NoRound
  BY DEF ReloadInventory, NoRound
<1>2. CASE Known(subFile.entries) # {}
  BY <1>1, <1>2 DEF ReloadInventory, NoRound, Loaded, InventoryInv, SavedAtRest, WellJudged
<1>3. CASE Known(subFile.entries) = {}
  <2>1. subInv' = Import /\ Import' = Import /\ Known(subFile.entries)' = {}
    BY <1>1, <1>3 DEF ReloadInventory, Loaded, Import, Known
  <2>2. WellJudged(subInv')
    BY <2>1, NewEntriesSound, WellJudgedIsSound DEF Import
  <2> QED BY <1>1, <2>1, <2>2 DEF InventoryInv, NoRound, SavedAtRest, WellJudged
<1> QED BY <1>2, <1>3

LEMMA InventoryInvNext == InventoryInv /\ [InventoryNext]_subVars => InventoryInv'
<1> SUFFICES ASSUME InventoryInv, [InventoryNext]_subVars PROVE InventoryInv'
  OBVIOUS
<1>1. CASE MergeHarvest \/ PruneHarvest
  BY <1>1, HarvestKeeps
<1>2. CASE ProbeGoesOn
  BY <1>2, PickBatchKeeps, KnockKeeps, ExamineKeeps, RestKeeps DEF ProbeGoesOn
<1>3. CASE BudgetEnds
  BY <1>3, BudgetKeeps
<1>4. CASE RemoveEntry
  BY <1>4, RestKeeps
<1>5. CASE ReloadInventory
  BY <1>5, ReloadKeeps
<1>6. CASE UNCHANGED subVars
  BY <1>6 DEF subVars, InventoryInv, SavedAtRest, WellJudged, Known, Import
<1> QED BY <1>1, <1>2, <1>3, <1>4, <1>5, <1>6 DEF InventoryNext

\* The verdict of every entry, in memory and in the file, is what its count of
\* failures in a row says, and the file lags only behind a round at work.
THEOREM InventoryInvHolds == InventorySpec => []InventoryInv
<1>1. InventoryInit => InventoryInv
  BY InventoryInvInit
<1>2. InventoryInv /\ [InventoryNext]_subVars => InventoryInv'
  BY InventoryInvNext
<1> QED BY <1>1, <1>2, PTL DEF InventorySpec

\* Whatever rounds, removals and restarts come in between, a restart at rest
\* finds what memory holds.
THEOREM SavedAtRestCorrect == InventorySpec => []SavedAtRest
<1>1. InventoryInv => SavedAtRest
  BY DEF InventoryInv
<1> QED BY <1>1, InventoryInvHolds, PTL

-----------------------------------------------------------------------------
(* Eviction.                                                               *)

\* What a prune leaves out, by the two ways in which it does.
LEMMA EvictionIsLast ==
    ASSUME InventoryInv, NEW stale \in SUBSET (Known(subInv) \ harvest.seen),
           NEW kept \in Pruned(stale), NEW c \in Known(subInv) \ kept
    PROVE  \/ subInv[c].state = "fail" /\ c \notin harvest.seen
                /\ subInv[c].fails = 2 * EntryFailThreshold
           \/ /\ Cardinality(kept) = InventoryCap
              /\ \A k \in kept : /\ subInv[k].state = "fail" => subInv[c].state = "fail"
                                 /\ subInv[k].state = "pending" => subInv[c].state # "pass"
<1> DEFINE left == {d \in Known(subInv) :
                      ~(d \in stale /\ subInv[d].state = "fail"
                                    /\ subInv[d].fails = 2 * EntryFailThreshold)}
<1>1. CASE c \notin left
  BY <1>1
<1>2. CASE c \in left
  <2>1. Pruned(stale) = IF Cardinality(left) <= InventoryCap THEN {left}
                        ELSE {K \in SUBSET left : Cardinality(K) = InventoryCap
                                                   /\ WorthiestStay(left \ K, K, stale)}
    BY DEF Pruned
  <2> HIDE DEF left
  <2>2. Cardinality(kept) = InventoryCap /\ WorthiestStay(left \ kept, kept, stale)
    BY <1>2, <2>1
  <2>3. \A k \in kept : Worth(c) <= Worth(k)
    <3>1. \A k \in kept : Worth(c) < Worth(k) \/ Worth(c) = Worth(k)
      BY <1>2, <2>2 DEF WorthiestStay
    <3> QED BY <3>1 DEF Worth
  <2> QED BY <2>2, <2>3 DEF Worth
<1> QED BY <1>1, <1>2

LEMMA PruneDropsTheLast ==
    ASSUME InventoryInv, PruneHarvest, NEW c \in Known(subInv) \ Known(subInv')
    PROVE  \/ subInv[c].state = "fail" /\ c \notin harvest.seen
                /\ subInv[c].fails = 2 * EntryFailThreshold
           \/ /\ Cardinality(Known(subInv')) = InventoryCap
              /\ \A k \in Known(subInv') :
                    /\ subInv[k].state = "fail" => subInv[c].state = "fail"
                    /\ subInv[k].state = "pending" => subInv[c].state # "pass"
<1>1. PICK stale \in SUBSET (Known(subInv) \ harvest.seen) : \E kept \in Pruned(stale) :
        subInv' = [d \in Candidates |-> IF d \in kept THEN subInv[d] ELSE Absent]
  BY DEF PruneHarvest
<1>2. PICK kept \in Pruned(stale) :
        subInv' = [d \in Candidates |-> IF d \in kept THEN subInv[d] ELSE Absent]
  BY <1>1
<1>3. kept \subseteq Known(subInv)
  BY DEF Pruned
<1>4. Known(subInv') = kept
  BY <1>2, <1>3 DEF Known, Absent
<1> QED BY <1>4, EvictionIsLast

\* A harvest, however it interleaves with probes and removals, never drops an
\* entry in place of a less useful one.
THEOREM LastToGoCorrect == InventorySpec => LastToGo
<1> DEFINE Drops ==
      harvest.busy /\ ~harvest'.busy /\ ~ReloadInventory =>
        \A c \in Known(subInv) \ Known(subInv') :
            \/ subInv[c].state = "fail" /\ c \notin harvest.seen
                 /\ subInv[c].fails = 2 * EntryFailThreshold
            \/ /\ Cardinality(Known(subInv')) = InventoryCap
               /\ \A k \in Known(subInv') :
                     /\ subInv[k].state = "fail" => subInv[c].state = "fail"
                     /\ subInv[k].state = "pending" => subInv[c].state # "pass"
<1>1. InventoryInv /\ [InventoryNext]_subVars => [Drops]_subVars
  <2> SUFFICES ASSUME InventoryInv, InventoryNext PROVE Drops
    OBVIOUS
  <2>1. CASE PruneHarvest
    BY <2>1, PruneDropsTheLast
  <2>2. CASE ~PruneHarvest
    <3>1. MergeHarvest => harvest'.busy
      BY DEF MergeHarvest
    <3>2. ProbeGoesOn => UNCHANGED harvest
      BY DEF ProbeGoesOn, PickBatch, Knock, Examine, EndProbe
    <3>3. BudgetEnds \/ RemoveEntry => UNCHANGED harvest
      BY DEF BudgetEnds, RemoveEntry
    <3> QED BY <2>2, <3>1, <3>2, <3>3 DEF InventoryNext
  <2> QED BY <2>1, <2>2
<1> HIDE DEF Drops
<1>2. InventorySpec => [][Drops]_subVars
  BY <1>1, InventoryInvHolds, PTL DEF InventorySpec
<1> QED BY <1>2 DEF Drops, LastToGo

=============================================================================

----------------------------- MODULE ScanPipeline -----------------------------
(***************************************************************************)
(* Scans for addresses: cfdata.go, the same scan at the start of cfnat.go  *)
(* when it is given no targets, and what the control plane makes of the    *)
(* files of cfdata (cfdata_supply.go, main.go, preferred.go).  A scan      *)
(* draws addresses from the published ranges, dials them with a bounded    *)
(* number of goroutines, and collects those that answer.  cfdata writes    *)
(* them to ip.csv, dials the addresses of ip.csv ten times each, and       *)
(* writes result.csv.  Both files are rewritten in place, the process may  *)
(* be killed at any step, and others read the files whenever they like.    *)
(*                                                                         *)
(* Latencies, losses, data centres and the order of rows are left out; so  *)
(* are the questions that cfdata asks at a terminal (the control plane     *)
(* passes -auto) and ip.txt, which nothing reads.  A row that is cut short *)
(* counts as one that is not there.                                        *)
(***************************************************************************)
EXTENDS Integers, FiniteSets

CONSTANTS
    Hosts,        \* addresses that may be drawn
    Workers,      \* -scan, -test, -task
    Kinds,        \* {"cfdata"}, {"cfnat"} or both
    IPNum         \* -ipnum

ASSUME ScanAssumption ==
    IsFiniteSet(Hosts) /\ Workers \in Nat \ {0} /\ IPNum \in Nat \ {0}
        /\ Kinds \subseteq {"cfdata", "cfnat"}

VARIABLES
    scanner,      \* where the process is and how it was started
    worker,       \* the goroutine of each address of the stage, and the address's result
    found,        \* results of the last stage, and the exits of a cfnat that serves
    listFile,     \* ip.csv
    resultFile,   \* rows of result.csv
    measured      \* history: addresses that a detailed test has measured

scanVars == <<scanner, worker, found, listFile, resultFile, measured>>

NoScan  == [pc |-> "off", kind |-> "cfdata", update |-> FALSE, oneCentre |-> FALSE]
Files   == {"absent", "fresh", "aged"}
Results == {"none", "todo", "busy", "send", "failed", "sent"}

Probing == scanner.pc \in {"scan", "test"}
Job     == {h \in Hosts : worker[h] # "none"}
OfState(s) == {h \in Hosts : worker[h] = s}
Is(pc)    == scanner.pc = pc
GoOn(pc)   == scanner' = [scanner EXCEPT !.pc = pc]

\* A stage begins: a goroutine for each address of the list, none of them started.
Enlist(hosts) == worker' = [h \in Hosts |-> IF h \in hosts THEN "todo" ELSE "none"]

\* A process is gone, and its memory with it.
Gone ==
    /\ scanner' = NoScan /\ found' = {}
    /\ worker' = [h \in Hosts |-> "none"]

-----------------------------------------------------------------------------
(* The process.                                                            *)

\* triggerCFdataScan: the list is rebuilt when it is not there or old.
TriggerScan ==
    /\ "cfdata" \in Kinds /\ Is("off")
    /\ scanner' = [NoScan EXCEPT !.pc = "choose", !.update = listFile.age # "fresh"]
    /\ UNCHANGED <<worker, found, listFile, resultFile, measured>>

\* handleCFdataRun, with any arguments, and a start of cfnat without targets.
RunByHand ==
    /\ Is("off")
    /\ \E kind \in Kinds, update, oneCentre \in BOOLEAN :
          /\ kind = "cfnat" => ~update /\ ~oneCentre
          /\ scanner' = [pc |-> "choose", kind |-> kind, update |-> update,
                         oneCentre |-> oneCentre]
    /\ UNCHANGED <<worker, found, listFile, resultFile, measured>>

\* The ranges are read or fetched and addresses drawn from them; cfdata goes on with
\* the list that there is when it need not rebuild it, or cannot.
ChooseList ==
    /\ Is("choose")
    /\ \/ /\ scanner.kind = "cfnat" \/ scanner.update \/ listFile.age = "absent"
          /\ \E hosts \in SUBSET Hosts : Enlist(hosts)
          /\ GoOn("scan")
          /\ UNCHANGED found
       \/ scanner.kind = "cfdata" /\ GoOn("select") /\ UNCHANGED <<worker, found>>
       \/ scanner.kind = "cfnat" /\ Gone
    /\ UNCHANGED <<listFile, resultFile, measured>>

-----------------------------------------------------------------------------
(* The goroutines of a stage.                                              *)

\* A mutant: as many results as goroutines fit into the channel.
RoomForWorkers == Cardinality(OfState("sent")) < Workers

\* make(chan ..., len(ipList)); cfnat appends to a slice under a mutex.
RoomToSend == scanner.kind = "cfnat" \/ Cardinality(OfState("sent")) < Cardinality(Job)

\* thread <- struct{}{}, and the go statement.
Spawn(h) ==
    /\ Probing /\ worker[h] = "todo"
    /\ Cardinality(OfState("busy") \cup OfState("send")) < Workers
    /\ worker' = [worker EXCEPT ![h] = "busy"]
    /\ UNCHANGED <<scanner, found, listFile, resultFile, measured>>

\* The dials of a goroutine: every one has a time limit.
Dial(h) ==
    /\ worker[h] = "busy"
    /\ \/ worker' = [worker EXCEPT ![h] = "failed"] /\ UNCHANGED measured
       \/ /\ worker' = [worker EXCEPT ![h] = "send"]
          /\ measured' = IF Is("test") THEN measured \cup {h} ELSE measured
    /\ UNCHANGED <<scanner, found, listFile, resultFile>>

\* The result is handed over, and the slot given back.
SendResult(h) ==
    /\ worker[h] = "send" /\ RoomToSend
    /\ worker' = [worker EXCEPT ![h] = "sent"]
    /\ UNCHANGED <<scanner, found, listFile, resultFile, measured>>

\* A mutant: the end of the spawning loop is the end of the stage.
AllSpawned == OfState("todo") = {}

\* wg.Wait.
AllDone == OfState("todo") \cup OfState("busy") \cup OfState("send") = {}

\* What comes after a stage: without results cfdata exits and cfnat begins again.
AfterStage ==
    CASE scanner.kind = "cfnat" -> IF OfState("sent") = {} THEN "choose" ELSE "filter"
      [] Is("scan")            -> "cutList"
      [] OTHER                  -> "cutResult"

\* The channel is closed and drained.
Collect ==
    /\ Probing /\ AllDone
    /\ IF scanner.kind = "cfdata" /\ OfState("sent") = {} THEN Gone
       ELSE found' = OfState("sent") /\ GoOn(AfterStage) /\ UNCHANGED worker
    /\ UNCHANGED <<listFile, resultFile, measured>>

-----------------------------------------------------------------------------
(* Files.                                                                  *)

\* os.Create of ip.csv, or its error.
CutList ==
    /\ Is("cutList")
    /\ \/ listFile' = [age |-> "fresh", rows |-> {}] /\ GoOn("writeList")
       \/ GoOn("select") /\ UNCHANGED listFile
    /\ UNCHANGED <<worker, found, resultFile, measured>>

\* The rows reach the file in pieces, as far as there is room on the disk.
WriteList ==
    /\ Is("writeList")
    /\ \E rows \in SUBSET found :
          /\ listFile.rows \subseteq rows /\ (rows = found \/ rows # listFile.rows)
          /\ listFile' = [listFile EXCEPT !.rows = rows]
          /\ GoOn("select") \/ (rows # found /\ GoOn("writeList"))
    /\ UNCHANGED <<worker, found, resultFile, measured>>

\* selectDataCenterFromCSV: all rows, or those of one data centre.
SelectRows ==
    /\ Is("select")
    /\ \E rows \in SUBSET listFile.rows :
          /\ scanner.oneCentre \/ rows = listFile.rows
          /\ IF rows = {} THEN Gone
             ELSE Enlist(rows) /\ GoOn("test") /\ found' = {}
    /\ UNCHANGED <<listFile, resultFile, measured>>

\* os.Create of result.csv; a test of one data centre writes a file of its own.
CutResult ==
    /\ Is("cutResult")
    /\ IF scanner.oneCentre THEN Gone /\ UNCHANGED resultFile
       ELSE resultFile' = {} /\ GoOn("writeResult") /\ UNCHANGED <<worker, found>>
    /\ UNCHANGED <<listFile, measured>>

WriteResult ==
    /\ Is("writeResult")
    /\ \E rows \in SUBSET found :
          /\ resultFile \subseteq rows /\ (rows = found \/ rows # resultFile)
          /\ resultFile' = rows
          /\ IF rows = found THEN Gone ELSE UNCHANGED <<scanner, worker, found>>
    /\ UNCHANGED <<listFile, measured>>

\* cfnat: the filter of -colo and the limit of -ipnum; what is left is served.
FilterExits ==
    /\ Is("filter")
    /\ found' \in {few \in SUBSET found : Cardinality(few) <= IPNum}
    /\ GoOn("serve")
    /\ UNCHANGED <<worker, listFile, resultFile, measured>>

\* managedProcess.stop, an exit of the container, or an error of a file.
Killed ==
    /\ ~Is("off") /\ Gone
    /\ UNCHANGED <<listFile, resultFile, measured>>

-----------------------------------------------------------------------------
(* The control plane.                                                      *)

\* A mutant: ip.csv is taken for the results, as readScanRows does.
ListedRows == listFile.rows

\* What cfdataCandidateIPs returns, whenever a refresh reads it.
ResultRows == resultFile

\* A day passes.
ListAges ==
    /\ listFile.age = "fresh"
    /\ listFile' = [listFile EXCEPT !.age = "aged"]
    /\ UNCHANGED <<scanner, worker, found, resultFile, measured>>

ScanInit ==
    /\ scanner = NoScan /\ worker = [h \in Hosts |-> "none"] /\ found = {}
    /\ listFile = [age |-> "absent", rows |-> {}]
    /\ resultFile = {} /\ measured = {}

Main == ChooseList \/ Collect \/ CutList \/ WriteList \/ SelectRows
            \/ CutResult \/ WriteResult \/ FilterExits

ScanNext ==
    \/ TriggerScan \/ RunByHand \/ Main \/ Killed
    \/ \E h \in Hosts : Spawn(h) \/ Dial(h) \/ SendResult(h)
    \/ ListAges

ScanSpec == ScanInit /\ [][ScanNext]_scanVars

\* The goroutines run, and a dial ends with its time limit.
ScanFairness ==
    /\ WF_scanVars(Main)
    /\ \A h \in Hosts : WF_scanVars(Spawn(h) \/ Dial(h) \/ SendResult(h))

FairScan == ScanSpec /\ ScanFairness

-----------------------------------------------------------------------------
(* Properties.                                                             *)

\* Types of the scans and their files.
ScanTypes ==
    /\ scanner \in [pc : {"off", "choose", "scan", "cutList", "writeList", "select", "test",
                          "cutResult", "writeResult", "filter", "serve"},
                    kind : {"cfdata", "cfnat"}, update : BOOLEAN, oneCentre : BOOLEAN]
    /\ worker \in [Hosts -> Results]
    /\ listFile \in [age : Files, rows : SUBSET Hosts]
    /\ found \subseteq Hosts /\ resultFile \subseteq Hosts /\ measured \subseteq Hosts

(***************************************************************************)
(* Nobody sends on the closed channel, and no result is lost: when a stage *)
(* has been collected every goroutine has ended, and what was found is     *)
(* what answered (runIPScan, runDetailedTest, scanIPs).                    *)
(***************************************************************************)
NothingLost ==
    scanner.pc \in {"cutList", "writeList", "cutResult", "writeResult", "filter"} =>
        AllDone /\ found = OfState("sent") /\ found \cup OfState("failed") = Job

(***************************************************************************)
(* What a refresh takes for the layer of cfdata (cfdataCandidateIPs) was   *)
(* measured by a detailed test: whenever it reads result.csv, and however  *)
(* scans fail, are killed between two writes, or are for one data centre   *)
(* only.  It says nothing of a push, which adds rows of ip.csv to that     *)
(* layer (handleCFdataPushCandidates), tested or not.                      *)
(***************************************************************************)
OnlyMeasured == ResultRows \subseteq measured

(***************************************************************************)
(* A stage ends: goroutines, slots and the channel do not wait for each    *)
(* other in a circle, with fewer slots than addresses and with more.       *)
(***************************************************************************)
StageEnds == Probing ~> ~Probing

=============================================================================

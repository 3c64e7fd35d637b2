----------------------------- MODULE MCComponents -----------------------------
(***************************************************************************)
(* Instances, for TLC, of three components that share no state at this     *)
(* level of detail: the bookkeeping of a process, the inventory of         *)
(* subscriptions, and the scans.  A behaviour studies one of them and      *)
(* leaves the others at rest.                                              *)
(***************************************************************************)
EXTENDS ManagedProcess, SubscriptionInventory, ScanPipeline

CONSTANTS s1, s2, s3

ThreeCandidates == {s1, s2, s3}
OneLegacy       == {s1}

VARIABLE studied

\* The bookkeeping at rest: of either process, so one of them will do.
ProcessRests == ProcessInit /\ (binary = "cfnat" \/ "cfnat" \notin Binaries)

MCInit ==
    \/ studied = "process" /\ ProcessInit /\ InventoryInit /\ ScanInit
    \/ studied = "inventory" /\ InventoryInit /\ ProcessRests /\ ScanInit
    \/ studied = "scan" /\ ScanInit /\ ProcessRests /\ InventoryInit

MCNext ==
    /\ UNCHANGED studied
    /\ \/ studied = "process" /\ ProcessNext /\ UNCHANGED <<subVars, scanVars>>
       \/ studied = "inventory" /\ InventoryNext /\ UNCHANGED <<processVars, scanVars>>
       \/ studied = "scan" /\ ScanNext /\ UNCHANGED <<processVars, subVars>>

\* The fairness of the component that is studied.
MCFairness ==
    /\ \A k \in Callers : WF_processVars(studied = "process" /\ Works(k))
    /\ \A p \in Procs :
          /\ WF_processVars(studied = "process" /\ p \in doomed /\ Exit(p))
          /\ WF_processVars(studied = "process" /\ WaiterReturns(p))
    /\ WF_subVars(studied = "inventory" /\ ProbeGoesOn)
    /\ WF_scanVars(studied = "scan" /\ Main)
    /\ \A h \in Hosts :
          WF_scanVars(studied = "scan" /\ (Spawn(h) \/ Dial(h) \/ SendResult(h)))

MCSpec == MCInit /\ [][MCNext]_<<processVars, subVars, scanVars, studied>> /\ MCFairness

=============================================================================

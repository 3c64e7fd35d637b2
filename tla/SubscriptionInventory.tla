------------------------ MODULE SubscriptionInventory ------------------------
(***************************************************************************)
(* The inventory of candidates from subscriptions                          *)
(* (subscription_inventory.go) and the two rounds that work on it          *)
(* (subscription.go): a harvest merges what the maintainers supply, then   *)
(* prunes and saves; a probe picks the most urgent entries, knocks at them *)
(* with a handshake, examines those that answer one by one through VLESS,  *)
(* and saves.  subMu is held for a step at a time, so that both rounds,    *)
(* removals by the user and restarts interleave.                           *)
(*                                                                         *)
(* Times are left out but for their order: ages lists the entries by their *)
(* last probe, or by when they were first seen if they had none; what has  *)
(* waited long enough for another probe, and what no maintainer has        *)
(* supplied for 72 hours, is a choice that respects that order.  Results,  *)
(* sources and the bookkeeping for the page are left out.                  *)
(***************************************************************************)
EXTENDS Integers, Sequences, FiniteSets

CONSTANTS
    Candidates,            \* addresses that maintainers supply
    Legacy,                \* the addresses of subscription-pool.json
    InventoryCap,          \* subscriptionInventoryCap
    EntryFailThreshold,    \* subscriptionEntryFailThreshold
    ProbeBatch,            \* PROXY_SUBSCRIPTION_PROBE_BATCH
    ProbeMax               \* PROXY_SUBSCRIPTION_VLESS_MAX

ASSUME InventoryAssumption ==
    /\ IsFiniteSet(Candidates) /\ Legacy \subseteq Candidates
    /\ InventoryCap \in Nat /\ EntryFailThreshold \in Nat \ {0}
    /\ ProbeBatch \in Nat \ {0} /\ ProbeMax \in Nat \ {0}

VARIABLES
    subInv,      \* the entry of each candidate
    ages,        \* the candidates in the inventory, those that have waited longest first
    subFile,     \* subscription-inventory.json
    harvest,     \* the addresses of a harvest that is merged and not yet pruned and saved
    exam         \* where the probe round is, and the candidates that it still has to do

subVars == <<subInv, ages, subFile, harvest, exam>>

\* fails is ConsecutiveFails, up to the bound at which pruning looks; probed
\* says that LastProbe is not zero.
Entry == [state : {"absent", "pending", "pass", "fail"},
          fails : 0..2 * EntryFailThreshold, probed : BOOLEAN]

Absent   == [state |-> "absent",  fails |-> 0, probed |-> FALSE]
Pending  == [state |-> "pending", fails |-> 0, probed |-> FALSE]
Imported == [state |-> "pass",    fails |-> 0, probed |-> FALSE]

NoRound == [pc |-> "idle", todo |-> {}]
NoHarvest == [busy |-> FALSE, seen |-> {}]

Known(inv) == {c \in Candidates : inv[c].state # "absent"}

-----------------------------------------------------------------------------
(* Order.                                                                  *)

\* The orders in which entries with the same time may be listed: maps have none.
Orders(S) == {q \in [1..Cardinality(S) -> S] : \A i, j \in DOMAIN q : q[i] = q[j] => i = j}

Without(S) == SelectSeq(ages, LAMBDA c : c \notin S)

\* Entries whose time becomes now are the youngest.
Youngest(S) == {Without(S) \o q : q \in Orders(S)}

Older(a, b) == \E j \in DOMAIN ages : ages[j] = b /\ \E i \in 1..(j - 1) : ages[i] = a

\* The priorities of subscriptionProbeCandidates.
Urgency(c) == CASE subInv[c].state = "pending" -> 0
                [] subInv[c].state = "pass"    -> 1
                [] OTHER                       -> 2

Before(a, b) == Urgency(a) < Urgency(b) \/ (Urgency(a) = Urgency(b) /\ Older(a, b))

\* Which of the probed entries are due again.  One interval holds for those that
\* pass and one for the rest: whoever has waited longer is due earlier.
DueAgain ==
    LET probed == {c \in Known(subInv) : subInv[c].probed}
    IN  {ripe \in SUBSET probed :
            \A a \in ripe, b \in probed :
                (subInv[a].state = "pass" <=> subInv[b].state = "pass") /\ Older(b, a)
                    => b \in ripe}

\* The first ProbeBatch of what is due.
Batch(ripe) ==
    LET due == ripe \cup {c \in Known(subInv) : ~subInv[c].probed}
    IN  {c \in due : Cardinality({d \in due : Before(d, c)}) < ProbeBatch}

-----------------------------------------------------------------------------
(* Entries.                                                                *)

\* recordSubscriptionProbeLocked: an entry that is gone stays gone.
Recorded(e, ok) ==
    IF e.state = "absent" THEN e
    ELSE LET fails == IF ok THEN 0
                      ELSE IF e.fails < 2 * EntryFailThreshold THEN e.fails + 1 ELSE e.fails
         IN  [state |-> CASE ok                           -> "pass"
                          [] fails >= EntryFailThreshold  -> "fail"
                          [] OTHER                        -> e.state,
              fails |-> fails, probed |-> TRUE]

\* A mutant: entries beyond the budget are not marked.
LeftUnmarked(e) == e

\* What the budget of the round did not reach is marked if it is pending.
Marked(e) == IF e.state = "pending" THEN [e EXCEPT !.probed = TRUE] ELSE e

\* The order of eviction.
Worth(c) == CASE subInv[c].state = "fail" -> 0 [] subInv[c].state = "pending" -> 1 [] OTHER -> 2

\* A mutant: eviction by the time of the last sight alone.
YoungestStay(gone, kept, stale) ==
    \A g \in gone, k \in kept : k \in stale => g \in stale

\* Eviction by worth, then by the last time that a maintainer supplied the entry.
WorthiestStay(gone, kept, stale) ==
    \A g \in gone, k \in kept :
        \/ Worth(g) < Worth(k)
        \/ /\ Worth(g) = Worth(k)
           /\ k \in stale => g \in stale
           /\ g \in harvest.seen => k \in harvest.seen

\* pruneSubscriptionInventoryLocked: what is left when stale has not been supplied for long.
Pruned(stale) ==
    LET left == {c \in Known(subInv) :
                    ~(c \in stale /\ subInv[c].state = "fail"
                                  /\ subInv[c].fails = 2 * EntryFailThreshold)}
    IN  IF Cardinality(left) <= InventoryCap THEN {left}
        ELSE {kept \in SUBSET left :
                 Cardinality(kept) = InventoryCap /\ WorthiestStay(left \ kept, kept, stale)}

-----------------------------------------------------------------------------
(* The rounds.                                                             *)

\* A mutant: the end of a round is not saved.
NotSaved == UNCHANGED subFile

\* saveSubscriptionInventoryLocked, after the other changes of the step.
Save == subFile' = [entries |-> subInv', ages |-> ages']

\* The fetches of a harvest, and mergeSubscriptionHarvest.
MergeHarvest ==
    /\ ~harvest.busy
    /\ \E seen \in SUBSET Candidates :
        LET new == seen \ Known(subInv)
        IN  /\ harvest' = [busy |-> TRUE, seen |-> seen]
            /\ subInv' = [c \in Candidates |-> IF c \in new THEN Pending ELSE subInv[c]]
            /\ ages' \in Youngest(new)
    /\ UNCHANGED <<subFile, exam>>

\* The rest of the harvest.
PruneHarvest ==
    /\ harvest.busy
    /\ \E stale \in SUBSET (Known(subInv) \ harvest.seen) : \E kept \in Pruned(stale) :
          /\ subInv' = [c \in Candidates |-> IF c \in kept THEN subInv[c] ELSE Absent]
          /\ ages' = Without(Candidates \ kept)
    /\ harvest' = NoHarvest
    /\ Save
    /\ UNCHANGED exam

\* probeSubscriptions begins: an empty batch is the end of it.
PickBatch ==
    /\ exam.pc = "idle"
    /\ \E ripe \in DueAgain :
          IF Batch(ripe) = {}
          THEN UNCHANGED <<subInv, ages, exam>> /\ Save
          ELSE /\ exam' = [pc |-> "knock", todo |-> Batch(ripe)]
               /\ UNCHANGED <<subInv, ages, subFile>>
    /\ UNCHANGED harvest

\* The handshakes.  Without a template for VLESS they are the verdict; with one,
\* only failures are recorded, the fastest ProbeMax go on, and the others are
\* marked (each under a lock of its own, but with the time of this step).
Knock ==
    /\ exam.pc = "knock"
    /\ \E answered \in SUBSET exam.todo :
        \/ /\ subInv' = [c \in Candidates |-> IF c \in exam.todo
                            THEN Recorded(subInv[c], c \in answered) ELSE subInv[c]]
           /\ ages' \in Youngest(exam.todo \cap Known(subInv))
           /\ exam' = [pc |-> "exam", todo |-> {}]
        \/ \E within \in SUBSET answered :
            LET over    == answered \ within
                touched == (exam.todo \ answered) \cup {c \in over : subInv[c].state = "pending"}
            IN  /\ Cardinality(within) = ProbeMax \/ (within = answered
                                                      /\ Cardinality(within) < ProbeMax)
                /\ subInv' = [c \in Candidates |->
                        CASE c \in exam.todo \ answered -> Recorded(subInv[c], FALSE)
                          [] c \in over                 -> Marked(subInv[c])
                          [] OTHER                      -> subInv[c]]
                /\ ages' \in Youngest(touched \cap Known(subInv))
                /\ exam' = [pc |-> "exam", todo |-> within]
    /\ UNCHANGED <<subFile, harvest>>

\* One examination through VLESS.
Examine(c) ==
    /\ exam.pc = "exam" /\ c \in exam.todo
    /\ \E ok \in BOOLEAN : subInv' = [subInv EXCEPT ![c] = Recorded(@, ok)]
    /\ ages' \in Youngest({c} \cap Known(subInv))
    /\ exam' = [exam EXCEPT !.todo = @ \ {c}]
    /\ UNCHANGED <<subFile, harvest>>

\* The time of the round is over before these were begun: nothing is recorded.
BudgetEnds ==
    /\ exam.pc = "exam" /\ exam.todo # {}
    /\ exam' = [exam EXCEPT !.todo = {}]
    /\ UNCHANGED <<subInv, ages, subFile, harvest>>

EndProbe ==
    /\ exam.pc = "exam" /\ exam.todo = {}
    /\ exam' = NoRound
    /\ UNCHANGED <<subInv, ages, harvest>>
    /\ Save

\* removeSubscriptionEntry.
RemoveEntry ==
    /\ \E c \in Known(subInv) :
          /\ subInv' = [subInv EXCEPT ![c] = Absent]
          /\ ages' = Without({c})
    /\ Save
    /\ UNCHANGED <<harvest, exam>>

Import == [c \in Candidates |-> IF c \in Legacy THEN Imported ELSE Absent]

\* loadSubscriptionInventory: an inventory without entries is filled from the old pool.
Loaded(saved) ==
    IF Known(saved.entries) # {} THEN subInv' = saved.entries /\ ages' = saved.ages
    ELSE /\ subInv' = Import
         /\ ages' \in Orders(Legacy)

ReloadInventory ==
    /\ Loaded(subFile)
    /\ harvest' = NoHarvest /\ exam' = NoRound
    /\ UNCHANGED subFile

\* There is no file at first.
InventoryInit ==
    /\ subInv = Import
    /\ ages \in Orders(Legacy)
    /\ subFile = [entries |-> [c \in Candidates |-> Absent], ages |-> <<>>]
    /\ harvest = NoHarvest /\ exam = NoRound

ProbeGoesOn == PickBatch \/ Knock \/ (\E c \in Candidates : Examine(c)) \/ EndProbe

InventoryNext ==
    \/ MergeHarvest \/ PruneHarvest \/ ProbeGoesOn \/ BudgetEnds
    \/ RemoveEntry \/ ReloadInventory

InventorySpec == InventoryInit /\ [][InventoryNext]_subVars

\* The loop has a timer, and every probe and the round have a time limit.
FairInventory == InventorySpec /\ WF_subVars(ProbeGoesOn)

-----------------------------------------------------------------------------
(* Properties.                                                             *)

\* Entries that are judged to fail have failed as often as it takes, in a row, and
\* only they have.
WellJudged(entries) ==
    /\ entries \in [Candidates -> Entry]
    /\ \A c \in Candidates : entries[c].state = "fail" <=> entries[c].fails >= EntryFailThreshold

\* Types of the inventory and of its file.
InventoryTypes ==
    /\ WellJudged(subInv) /\ WellJudged(subFile.entries)
    /\ ages \in Seq(Candidates) /\ subFile.ages \in Seq(Candidates)
    /\ harvest \in [busy : BOOLEAN, seen : SUBSET Candidates]
    /\ exam \in [pc : {"idle", "knock", "exam"}, todo : SUBSET Candidates]

(***************************************************************************)
(* A restart forgets at most the round under way: when neither a harvest   *)
(* nor a probe is at work the file says what memory says, whatever rounds  *)
(* and removals came in between, or memory is the import of the old pool   *)
(* that a restart would make again.                                        *)
(***************************************************************************)
SavedAtRest ==
    ~harvest.busy /\ exam.pc = "idle" =>
        \/ subFile = [entries |-> subInv, ages |-> ages]
        \/ Known(subFile.entries) = {} /\ subInv = Import

(***************************************************************************)
(* A harvest drops what nobody supplies any more and what has failed over  *)
(* and over, or else, of a full inventory, the least useful: nothing that  *)
(* passes goes while a pending or failed entry is kept                     *)
(* (pruneSubscriptionInventoryLocked).                                     *)
(***************************************************************************)
LastToGo ==
    [][harvest.busy /\ ~harvest'.busy /\ ~ReloadInventory =>
        \A c \in Known(subInv) \ Known(subInv') :
            \/ subInv[c].state = "fail" /\ c \notin harvest.seen
                 /\ subInv[c].fails = 2 * EntryFailThreshold
            \/ /\ Cardinality(Known(subInv')) = InventoryCap
               /\ \A k \in Known(subInv') :
                     /\ subInv[k].state = "fail" => subInv[c].state = "fail"
                     /\ subInv[k].state = "pending" => subInv[c].state # "pass"]_subVars

(***************************************************************************)
(* A new candidate gets its turn, however many stubborn failures and       *)
(* overdue entries compete for the batch, unless the program is restarted  *)
(* or the budget of the round runs out again and again.                    *)
(***************************************************************************)
NewComersHeard ==
    \/ []<><<ReloadInventory>>_subVars
    \/ []<><<BudgetEnds>>_subVars
    \/ \A c \in Candidates : subInv[c] = Pending ~> subInv[c] # Pending

=============================================================================

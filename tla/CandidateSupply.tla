---------------------------- MODULE CandidateSupply ----------------------------
(***************************************************************************)
(* The refresh of the candidates (candidates.go): refreshMu admits one at  *)
(* a time, which fills a list layer by layer (the user's addresses, those  *)
(* that cfdata measured, subscriptions, the community lists), fetches the  *)
(* lists that are not in backoff, and publishes a new snapshot.  Kicked    *)
(* addresses (removeCandidateIP) and addresses pushed from a scan          *)
(* (mergeCfdataIPsIntoCandidates) change the snapshot meanwhile.           *)
(*                                                                         *)
(* Time is counted in units of sourceBackoffBase.  Addresses are public    *)
(* IPv4 addresses: the layers drop others.  Domains, errors, times and the *)
(* cache file are left out.                                                *)
(***************************************************************************)
EXTENDS Integers, Sequences, FiniteSets

CONSTANTS
    Addresses,            \* addresses that any layer supplies
    Sources,              \* the URLs of bestcf, a sequence
    UserLists,            \* what PROXY_USER_CANDIDATES may hold
    CfdataLists,          \* what result.csv may hold
    SubscriptionLists,    \* what subscriptionPoolIPs may return
    SourceLists,          \* what a URL may return
    UserCap, CfdataCap, SubscriptionCap, Reserve, TotalCap,
    BackoffAfter,         \* sourceBackoffThreshold
    MaxBackoff            \* sourceBackoffMax

ASSUME SupplyAssumption ==
    /\ {UserCap, CfdataCap, SubscriptionCap, Reserve, TotalCap} \subseteq Nat
    /\ BackoffAfter \in Nat \ {0} /\ MaxBackoff \in Nat \ {0}
    /\ IsFiniteSet(Addresses)
    /\ Len(Sources) \in Nat \ {0} /\ DOMAIN Sources = 1..Len(Sources)

\* What a layer or a URL may supply are lists of addresses.
ASSUME ListsAssumption ==
    \A list \in UNION {UserLists, CfdataLists, SubscriptionLists, SourceLists} :
        list \in Seq(Addresses)

VARIABLES
    offered,      \* a.candidates: the addresses, and the layer that each is claimed by
    refresh,      \* the refresh under way
    health,       \* sourceHealth of each URL
    unheard       \* history: failures in a row of each URL, and the time since its last fetch

supplyVars == <<offered, refresh, health, unheard>>

Layers == {"user", "cfdata", "subscription", "bestcf"}

Unclaimed == [a \in Addresses |-> "none"]
Nothing   == [ips |-> <<>>, from |-> Unclaimed]
NoRefresh == [pc |-> "idle", list |-> Nothing, answers |-> <<>>, merged |-> <<>>]

Fetched == DOMAIN Sources
Capped(bound, n) == IF n < bound THEN n ELSE bound

-----------------------------------------------------------------------------
(* Layers.                                                                 *)

\* appendGroup: an address that no layer has claimed is listed while there is room.
Append1(list, layer, a, room) ==
    IF Len(list.ips) >= room \/ list.from[a] # "none" THEN list
    ELSE [ips |-> Append(list.ips, a), from |-> [list.from EXCEPT ![a] = layer]]

Group(list, layer, values, quota) ==
    LET room == Capped(TotalCap, Len(list.ips) + quota)
        filled[n \in 0..Len(values)] ==
            IF n = 0 THEN list ELSE Append1(filled[n - 1], layer, values[n], room)
    IN  filled[Len(values)]

\* cfdataCandidateIPs and subscriptionPoolIPs return quota addresses at most.
FirstOf(values, quota) == SubSeq(values, 1, Capped(quota, Len(values)))

\* A mutant: the subscriptions may take what is left.
NoReserve(list) == Capped(SubscriptionCap, TotalCap - Len(list.ips))

SubscriptionQuota(list) ==
    LET quota == Capped(SubscriptionCap, TotalCap - Len(list.ips) - Reserve)
    IN  IF quota < 0 THEN 0 ELSE quota

-----------------------------------------------------------------------------
(* Sources.                                                                *)

\* sourceInBackoff.
InBackoff(s) == health[s].wait > 0

\* A mutant: when all are in backoff nobody is asked.
AwakeOnly == {s \in Fetched : ~InBackoff(s)}

\* The URLs of a round: all of them when all are in backoff.
Targets ==
    LET awake == {s \in Fetched : ~InBackoff(s)}
    IN  IF awake = {} THEN Fetched ELSE awake

\* The failures that tell backoffs apart.
FailsBound == BackoffAfter + MaxBackoff

\* A mutant: a success leaves the failures.
SuccessForgotten(h, ok) ==
    IF ok THEN [h EXCEPT !.wait = 0]
    ELSE LET fails == Capped(FailsBound, h.fails + 1)
         IN  [fails |-> fails,
              wait  |-> IF fails < BackoffAfter THEN h.wait
                        ELSE Capped(MaxBackoff, 2 ^ (fails - BackoffAfter))]

\* recordSourceHealth.
Health(h, ok) ==
    IF ok THEN [fails |-> 0, wait |-> 0]
    ELSE LET fails == Capped(FailsBound, h.fails + 1)
         IN  [fails |-> fails,
              wait  |-> IF fails < BackoffAfter THEN h.wait
                        ELSE Capped(MaxBackoff, 2 ^ (fails - BackoffAfter))]

\* The least of a set of numbers.
Least(S) == CHOOSE i \in S : \A j \in S : i <= j

\* The positions of an answer that hold what is not merged yet.
NewIn(answer, merged) ==
    {i \in DOMAIN answer : \A j \in DOMAIN merged : merged[j].ip # answer[i]}

NextSource(s) == IF s = Len(Sources) THEN 1 ELSE s + 1

\* A mutant: the source goes on until it has nothing new.
GreedyTurn(acc, answers, room) ==
    LET answer == answers[acc.due]
        new    == NewIn(answer, acc.merged)
    IN  IF Len(acc.merged) >= room THEN acc
        ELSE IF new = {} THEN [acc EXCEPT !.due = NextSource(@)]
        ELSE [acc EXCEPT !.merged = Append(@, [ip |-> answer[Least(new)], by |-> acc.due])]

\* One turn of the merge: the next address of the source that is new, if there is one.
Turn(acc, answers, room) ==
    LET answer == answers[acc.due]
        new    == NewIn(answer, acc.merged)
    IN  IF Len(acc.merged) >= room THEN acc
        ELSE [merged |-> IF new = {} THEN acc.merged
                         ELSE Append(acc.merged, [ip |-> answer[Least(new)], by |-> acc.due]),
              due    |-> NextSource(acc.due)]

\* A round without progress is the last: there are no more rounds than addresses.
Turns == Cardinality(Addresses) * Len(Sources)

\* The round robin of resolveProxySources, with the source that each address is due to.
RoundRobin(answers, room) ==
    LET merge[n \in 0..Turns] == IF n = 0 THEN [merged |-> <<>>, due |-> 1]
                                 ELSE Turn(merge[n - 1], answers, room)
    IN  merge[Turns].merged

-----------------------------------------------------------------------------
(* The refresh.                                                            *)

\* The layers that need no network.
BeginRefresh ==
    /\ refresh.pc = "idle"
    /\ \E own \in UserLists, cfdata \in CfdataLists, sub \in SubscriptionLists :
        LET user    == Group(Nothing, "user", own, UserCap)
            scanned == Group(user, "cfdata", FirstOf(cfdata, CfdataCap), CfdataCap)
            quota   == SubscriptionQuota(scanned)
        IN  refresh' = [NoRefresh EXCEPT !.pc = "fetch",
                            !.list = Group(scanned, "subscription", FirstOf(sub, quota), quota)]
    /\ UNCHANGED <<offered, health, unheard>>

\* The refresh that has got the answers, and merged them.
Merging(answers, room) ==
    LET merged == RoundRobin(answers, room)
        list   == Group(refresh.list, "bestcf", [i \in DOMAIN merged |-> merged[i].ip], room)
    IN  [pc |-> IF list.ips = <<>> THEN "copy" ELSE "publish",
         list |-> list, answers |-> answers, merged |-> merged]

\* The fetches, their accounts, and the merge, of as many addresses as there is room for.
FetchSources ==
    /\ refresh.pc = "fetch"
    /\ LET room == TotalCap - Len(refresh.list.ips)
       IN  IF room <= 0
           THEN refresh' = [refresh EXCEPT !.pc = "publish"] /\ UNCHANGED <<health, unheard>>
           ELSE \E ok \in SUBSET Targets :
                /\ \E got \in [ok -> SourceLists] :
                      refresh' = Merging(
                          [s \in Fetched |-> IF s \in ok THEN got[s] ELSE <<>>], room)
                /\ health' = [s \in Fetched |->
                       IF s \in Targets THEN Health(health[s], s \in ok) ELSE health[s]]
                /\ unheard' = [s \in Fetched |->
                       IF s \notin Targets THEN unheard[s]
                       ELSE [fails |-> IF s \in ok THEN 0
                                       ELSE Capped(FailsBound, unheard[s].fails + 1),
                             since |-> 0]]
    /\ UNCHANGED offered

Publish ==
    /\ refresh.pc = "publish"
    /\ offered' = refresh.list
    /\ refresh' = NoRefresh
    /\ UNCHANGED <<health, unheard>>

\* A refresh that found nothing copies the snapshot, notes the errors in the copy,
\* and writes it back in a critical section of its own.
CopyOld ==
    /\ refresh.pc = "copy"
    /\ refresh' = [refresh EXCEPT !.pc = "publish", !.list = offered]
    /\ UNCHANGED <<offered, health, unheard>>

-----------------------------------------------------------------------------
(* Others.                                                                 *)

Without(ips, a) ==
    LET kept[n \in 0..Len(ips)] ==
            IF n = 0 THEN <<>>
            ELSE IF ips[n] = a THEN kept[n - 1] ELSE Append(kept[n - 1], ips[n])
    IN  kept[Len(ips)]

\* removeCandidateIP.
RemoveCandidate ==
    /\ \E a \in Addresses :
          offered' = [ips  |-> Without(offered.ips, a),
                      from |-> [offered.from EXCEPT ![a] = "none"]]
    /\ UNCHANGED <<refresh, health, unheard>>

\* A mutant: the layer is not noted.
PushedUnclaimed(a) ==
    IF offered.from[a] # "none" THEN offered
    ELSE [offered EXCEPT !.ips = FirstOf(Append(@, a), TotalCap)]

\* mergeCfdataIPsIntoCandidates: what is cut off keeps its claim.
Pushed(a) ==
    IF offered.from[a] # "none" THEN offered
    ELSE [ips  |-> FirstOf(Append(offered.ips, a), TotalCap),
          from |-> [offered.from EXCEPT ![a] = "cfdata"]]

PushCfdata ==
    /\ \E a \in Addresses : offered' = Pushed(a)
    /\ UNCHANGED <<refresh, health, unheard>>

Tick ==
    /\ health' = [s \in Fetched |-> [health[s] EXCEPT !.wait = IF @ = 0 THEN 0 ELSE @ - 1]]
    /\ unheard' = [s \in Fetched |->
                       [unheard[s] EXCEPT !.since = Capped(MaxBackoff, @ + 1)]]
    /\ UNCHANGED <<offered, refresh>>

SupplyInit ==
    /\ offered = Nothing /\ refresh = NoRefresh
    /\ health = [s \in Fetched |-> [fails |-> 0, wait |-> 0]]
    /\ unheard = [s \in Fetched |-> [fails |-> 0, since |-> 0]]

SupplyNext ==
    \/ BeginRefresh \/ FetchSources \/ CopyOld \/ Publish
    \/ RemoveCandidate \/ PushCfdata \/ Tick

SupplySpec == SupplyInit /\ [][SupplyNext]_supplyVars

-----------------------------------------------------------------------------
(* Properties.                                                             *)

\* Types of the supply: the snapshot never outgrows the cap.
SupplyTypes ==
    /\ \A list \in {offered, refresh.list} :
          /\ list.ips \in Seq(Addresses) /\ Len(list.ips) <= TotalCap
          /\ list.from \in [Addresses -> Layers \cup {"none"}]
    /\ refresh.pc \in {"idle", "fetch", "copy", "publish"}
    /\ health \in [Fetched -> [fails : 0..FailsBound, wait : 0..MaxBackoff]]

(***************************************************************************)
(* The snapshot lists nobody twice and knows the layer of everybody,       *)
(* whatever refreshes, kicks and pushes run into each other: the order of  *)
(* the examinations goes by that layer (applyCandidateSourcePriority).     *)
(***************************************************************************)
EachOnceWithLayer ==
    /\ \A i, j \in DOMAIN offered.ips : offered.ips[i] = offered.ips[j] => i = j
    /\ \A i \in DOMAIN offered.ips : offered.from[offered.ips[i]] # "none"

(***************************************************************************)
(* The layers before the community lists leave them their reserve ("sub    *)
(* took 1000 of 1000" shall not happen again), as far as the quotas of the *)
(* user and of cfdata allow.                                               *)
(***************************************************************************)
ReserveLeft ==
    refresh.pc = "fetch" =>
        \/ Len(refresh.list.ips) <= TotalCap - Reserve
        \/ \A a \in Addresses : refresh.list.from[a] # "subscription"

\* How many of the merged addresses are due to a source.
Got(merged, s) == Cardinality({i \in DOMAIN merged : merged[i].by = s})

(***************************************************************************)
(* No list that comes first eats the room: whoever is left with an address *)
(* that did not get in has got in as many as any other, or one less (the   *)
(* comment of resolveProxySources).                                        *)
(***************************************************************************)
FairMerge ==
    \A s, t \in DOMAIN refresh.answers :
        NewIn(refresh.answers[s], refresh.merged) # {}
            => Got(refresh.merged, t) <= Got(refresh.merged, s) + 1

(***************************************************************************)
(* A backoff is no blacklist (the comments of sourceBackoffMax and of      *)
(* resolveProxySources): a list is left out of a round only when it has    *)
(* failed at least BackoffAfter times in a row, and never for longer than  *)
(* MaxBackoff since it was asked last, whatever the others do; and a round *)
(* that goes out asks somebody, though all of them be in backoff at once.  *)
(***************************************************************************)
BackoffEarned ==
    [][refresh.pc = "fetch" /\ refresh'.answers # <<>> =>
          /\ Targets # {}
          /\ \A s \in Fetched \ Targets :
                unheard[s].fails >= BackoffAfter /\ unheard[s].since < MaxBackoff]_supplyVars

=============================================================================

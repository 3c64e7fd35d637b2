------------------------------ MODULE Forwarder ------------------------------
(***************************************************************************)
(* The data plane, cfnat.go: which exit of the fixed pool a new connection *)
(* is dialled to.  One goroutine accepts connections and chooses the       *)
(* targets of each; a goroutine per connection dials them in order and, in *)
(* sticky mode, pins the client to the exit that answered.  IPManager.mu   *)
(* makes every choice and every pin one step; between them the dials of    *)
(* all connections interleave, and exits go down and come back.            *)
(*                                                                         *)
(* A change of the pool restarts the process, so ipAddresses is fixed for  *)
(* a life of it and nothing survives into the next.  A connection whose    *)
(* dial has succeeded is a pipe that no later choice looks at.             *)
(***************************************************************************)
EXTENDS Integers, Sequences, FiniteSets

CONSTANTS
    Clients,          \* client hosts
    Exits,            \* addresses and domains that may be dialled
    Slots,            \* bounds the connections that are being dialled at once
    None,
    Pools,            \* what -fixed may be
    Fallback,         \* -fallback
    Modes,            \* what -sticky may be
    Num,              \* -num
    MaxAssignments    \* maxClientAssignments

Distinct(s) == \A i, j \in DOMAIN s : s[i] = s[j] => i = j

ASSUME HostsAssumption == IsFiniteSet(Clients) /\ None \notin Exits /\ None \notin Clients
\* parseFixedTargets drops repetitions and refuses an empty list.
ASSUME TargetsAssumption ==
    /\ \A p \in Pools : p \in Seq(Exits) /\ p # <<>> /\ Distinct(p)
    /\ Fallback \in Seq(Exits) /\ Distinct(Fallback)
ASSUME FlagsAssumption ==
    Modes \subseteq BOOLEAN /\ Num \in Nat \ {0} /\ MaxAssignments \in Nat \ {0}

Members(s) == {s[i] : i \in DOMAIN s}

VARIABLES
    ipAddresses,     \* the exits of this process
    sticky,          \* its mode
    assignments,     \* the exit that a client is pinned to
    assignCursor,    \* where the search for a new client's exit begins
    dispatchIndex,   \* the rotation of the pool, without stickiness
    fallbackIndex,   \* the rotation of the fallback targets
    dials,           \* the connections being dialled: client, and targets left
    up,              \* the exits that answer within the timeout of a dial
    repinned,        \* history: clients pinned by a dial to another exit than before
    lastGiven        \* history: the exit that the last new client was given

vars == <<ipAddresses, sticky, assignments, assignCursor, dispatchIndex, fallbackIndex,
          dials, up, repinned, lastGiven>>

Idle   == [client |-> None, targets |-> <<>>]
NoPins == [c \in Clients |-> None]

Pinned(table) == {c \in Clients : table[c] # None}

-----------------------------------------------------------------------------
(* The choice of targets.  Indexes count from 0, as in the code.           *)

Size  == Len(ipAddresses)
At(i) == ipAddresses[(i % Size) + 1]

\* The targets of a connection from the pool: at most one round of it.
Count == IF Num < Size THEN Num ELSE Size

TargetsFrom(i) == [k \in 1..Count |-> At(i + k - 1)]

FallbackTarget == IF Fallback = <<>> THEN <<>> ELSE <<Fallback[fallbackIndex + 1]>>

NextFallback ==
    fallbackIndex' = IF Fallback = <<>> THEN 0 ELSE (fallbackIndex + 1) % Len(Fallback)

\* A full table is dropped as a whole.
Table == IF Cardinality(Pinned(assignments)) >= MaxAssignments THEN NoPins ELSE assignments

Used(table) == {table[c] : c \in Pinned(table)}

Free(table) == {k \in 0..(Size - 1) : At(assignCursor + k) \notin Used(table)}

\* A mutant: a position that depends on the client alone, as by a hash.
PickHashed(table) == 0

\* The index a new client gets: the first from the cursor on that nobody is
\* pinned to, or else the one at the cursor.
Pick(table) ==
    IF Free(table) = {} THEN assignCursor % Size
    ELSE (assignCursor + CHOOSE k \in Free(table) : \A j \in Free(table) : k <= j) % Size

\* A mutant: the cursor stays on the exit that was given.
CursorStays(pick) == pick

CursorAfter(pick) == (pick + 1) % Size

IndexOf(exit) == CHOOSE i \in 0..(Size - 1) : At(i) = exit

-----------------------------------------------------------------------------
(* Steps of the accepting goroutine and of the connections.                *)

Start(s, c, targets) == dials' = [dials EXCEPT ![s] = [client |-> c, targets |-> targets]]

\* assignLocked for a client that is pinned to an exit of the pool.
Keep(s, c) ==
    /\ Table[c] \in Members(ipAddresses)
    /\ Start(s, c, TargetsFrom(IndexOf(Table[c])) \o FallbackTarget)
    /\ assignments' = Table
    /\ UNCHANGED <<assignCursor, lastGiven>>

\* assignLocked for any other.
Assign(s, c) ==
    /\ Table[c] \notin Members(ipAddresses)
    /\ LET pick == Pick([Table EXCEPT ![c] = None])
       IN  /\ Start(s, c, TargetsFrom(pick) \o FallbackTarget)
           /\ assignments' = [Table EXCEPT ![c] = At(pick)]
           /\ assignCursor' = CursorAfter(pick)
           /\ lastGiven' = At(pick)

\* nextTargetsForClient, called by the accepting goroutine.
AcceptSticky(s, c) ==
    /\ sticky /\ dials[s] = Idle
    /\ Keep(s, c) \/ Assign(s, c)
    /\ repinned' = repinned \cap Pinned(Table)
    /\ NextFallback
    /\ UNCHANGED <<ipAddresses, sticky, dispatchIndex, up>>

\* nextTargets, the rotation without stickiness.
AcceptRotating(s, c) ==
    /\ ~sticky /\ dials[s] = Idle
    /\ Start(s, c, TargetsFrom(dispatchIndex) \o FallbackTarget)
    /\ dispatchIndex' = (dispatchIndex + Count) % Size
    /\ NextFallback
    /\ UNCHANGED <<ipAddresses, sticky, assignments, assignCursor, up, repinned, lastGiven>>

\* A mutant: the pin stays where it was.
RepinNever(c, exit) == UNCHANGED <<assignments, repinned>>

\* A mutant: whatever has answered, the fallback included.
RepinAnywhere(c, exit) ==
    /\ assignments' = [assignments EXCEPT ![c] = exit]
    /\ repinned' = IF assignments[c] = exit THEN repinned ELSE repinned \cup {c}

\* repinClient: only to a member of the pool.
Repin(c, exit) ==
    IF sticky /\ exit \in Members(ipAddresses)
    THEN /\ assignments' = [assignments EXCEPT ![c] = exit]
         /\ repinned' = IF assignments[c] = exit THEN repinned ELSE repinned \cup {c}
    ELSE UNCHANGED <<assignments, repinned>>

DialSucceeds(s) ==
    /\ dials[s] # Idle /\ Head(dials[s].targets) \in up
    /\ Repin(dials[s].client, Head(dials[s].targets))
    /\ dials' = [dials EXCEPT ![s] = Idle]
    /\ UNCHANGED <<ipAddresses, sticky, assignCursor, dispatchIndex, fallbackIndex, up, lastGiven>>

\* The next target, or the end of the connection.
DialFails(s) ==
    /\ dials[s] # Idle /\ Head(dials[s].targets) \notin up
    /\ LET left == Tail(dials[s].targets)
       IN  IF left = <<>> THEN dials' = [dials EXCEPT ![s] = Idle]
                          ELSE Start(s, dials[s].client, left)
    /\ UNCHANGED <<ipAddresses, sticky, assignments, assignCursor, dispatchIndex,
                   fallbackIndex, up, repinned, lastGiven>>

\* Exits go down and come back.
Weather ==
    /\ up' \in SUBSET Exits
    /\ UNCHANGED <<ipAddresses, sticky, assignments, assignCursor, dispatchIndex,
                   fallbackIndex, dials, repinned, lastGiven>>

\* The control plane starts cfnat anew, with the same or another pool.
Restart(p, mode) ==
    /\ ipAddresses' = p /\ sticky' = mode
    /\ assignments' = NoPins
    /\ assignCursor' = 0 /\ dispatchIndex' = 0 /\ fallbackIndex' = 0
    /\ dials' = [s \in Slots |-> Idle]
    /\ repinned' = {} /\ lastGiven' = None
    /\ UNCHANGED up

Init ==
    /\ ipAddresses \in Pools /\ sticky \in Modes
    /\ assignments = NoPins
    /\ assignCursor = 0 /\ dispatchIndex = 0 /\ fallbackIndex = 0
    /\ dials = [s \in Slots |-> Idle]
    /\ up \in SUBSET Exits
    /\ repinned = {} /\ lastGiven = None

Next ==
    \/ \E s \in Slots, c \in Clients : AcceptSticky(s, c) \/ AcceptRotating(s, c)
    \/ \E s \in Slots : DialSucceeds(s) \/ DialFails(s)
    \/ Weather
    \/ \E p \in Pools, mode \in Modes : Restart(p, mode)

Spec == Init /\ [][Next]_vars

\* Every dial has a timeout.  Nothing obliges a client to connect.
Fairness == \A s \in Slots : WF_vars(DialSucceeds(s) \/ DialFails(s))

FairSpec == Spec /\ Fairness

-----------------------------------------------------------------------------
(* Properties.                                                             *)

\* Types of the state; a pin always names an exit of the pool.
TypeOK ==
    /\ ipAddresses \in Pools /\ sticky \in Modes
    /\ assignments \in [Clients -> Members(ipAddresses) \cup {None}]
    /\ assignCursor \in 0..(Size - 1) /\ dispatchIndex \in 0..(Size - 1)
    /\ fallbackIndex \in {0} \cup 0..(Len(Fallback) - 1)
    /\ dials \in [Slots -> {Idle} \cup [client : Clients, targets : Seq(Exits) \ {<<>>}]]
    /\ up \subseteq Exits
    /\ repinned \subseteq Pinned(assignments)
    /\ lastGiven \in Members(ipAddresses) \cup {None}

(***************************************************************************)
(* Two clients share an exit only when clients outnumber the exits, or     *)
(* when a failed dial moved one of them (assignLocked): in no order of     *)
(* arrivals, moves and purges of the table does one exit get two clients   *)
(* while another has none.                                                 *)
(***************************************************************************)
SharedOnlyOfNeed ==
    \A c, d \in Clients \ repinned :
        c # d /\ assignments[c] # None /\ assignments[c] = assignments[d]
            => Cardinality(Pinned(assignments)) > Size

(***************************************************************************)
(* Two clients that arrive one after the other are not given one exit,     *)
(* even when the exits are all in use (assignLocked), unless the first has *)
(* left that exit meanwhile.                                               *)
(***************************************************************************)
NeighboursApart ==
    [][\A c \in Clients :
        /\ Size > 1
        /\ \E s \in Slots : dials[s] = Idle /\ dials'[s].client = c
        /\ assignments[c] # assignments'[c] /\ assignments'[c] = lastGiven
        => lastGiven \notin Used([assignments EXCEPT ![c] = None])]_vars

(***************************************************************************)
(* A client that keeps connecting does not stay pinned to a dead exit      *)
(* while another exit of the pool answers, if a connection tries them all  *)
(* (repinClient): connections of several clients may move pins in between, *)
(* and other exits come and go.                                            *)
(***************************************************************************)
DeadPinLeft ==
    \A c \in Clients, dead, alive \in Exits :
        []<>(\E s \in Slots : dials[s].client = c)
            => ~<>[](/\ assignments[c] = dead /\ dead \notin up
                     /\ alive \in up \cap Members(ipAddresses))

=============================================================================

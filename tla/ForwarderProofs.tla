--------------------------- MODULE ForwarderProofs ---------------------------
(* Proofs about Forwarder: the types, and that exits are shared only of    *)
(* need, for any set of clients, pools, flags and number of slots.         *)
EXTENDS Forwarder, FunctionTheorems, FiniteSetTheorems, WellFoundedInduction, TLAPS

\* Arithmetic of a rotation.
LEMMA ModInRange == \A a \in Nat, n \in Nat \ {0} : a % n \in 0..(n - 1)
  OBVIOUS

LEMMA ModOfRotation ==
  \A n \in Nat \ {0} : \A x \in 0..(n - 1) : x % n = x /\ (x + n) % n = x
  OBVIOUS

\* A set of naturals has a least element.
LEMMA LeastOfNaturals ==
  ASSUME NEW S, S \subseteq Nat, S # {}
  PROVE  \E k \in S : \A j \in S : k <= j
<1>1. PICK k \in S : \A j \in S : <<j, k>> \notin OpToRel(<, Nat)
  BY WFMin, NatLessThanWellFounded, Zenon
<1>2. \A j \in S : ~(j < k)
  BY <1>1, Zenon DEF OpToRel
<1> QED
  BY <1>2

-----------------------------------------------------------------------------
(* The pool and the choice from it.                                        *)

\* The pool is a list of exits without repetition, and not empty.
LEMMA PoolFacts ==
  ASSUME ipAddresses \in Pools
  PROVE  /\ Size \in Nat \ {0}
         /\ ipAddresses \in [1..Size -> Exits]
         /\ Distinct(ipAddresses)
         /\ Members(ipAddresses) \subseteq Exits
         /\ None \notin Members(ipAddresses)
<1>1. ipAddresses \in Seq(Exits) /\ ipAddresses # <<>> /\ Distinct(ipAddresses)
  BY TargetsAssumption
<1>2. Size \in Nat \ {0} /\ ipAddresses \in [1..Size -> Exits]
  BY <1>1 DEF Size
<1>3. Members(ipAddresses) \subseteq Exits
  BY <1>2 DEF Members
<1> QED
  BY <1>1, <1>2, <1>3, HostsAssumption

\* Every index of the rotation names a member of the pool.
LEMMA AtIsMember ==
  ASSUME ipAddresses \in Pools, NEW i \in Nat
  PROVE  At(i) \in Members(ipAddresses)
<1>1. (i % Size) + 1 \in 1..Size
  <2>1. Size \in Nat \ {0}
    BY PoolFacts
  <2>2. i % Size \in 0..(Size - 1)
    BY <2>1, ModInRange
  <2> QED
    BY <2>1, <2>2
<1> QED
  BY <1>1, PoolFacts DEF At, Members

\* The choice for a new client is an index of the pool, and takes an exit that
\* is not used if there is one.
LEMMA PickIsFree ==
  ASSUME ipAddresses \in Pools, assignCursor \in 0..(Size - 1), NEW table
  PROVE  /\ Pick(table) \in 0..(Size - 1)
         /\ Free(table) # {} => At(Pick(table)) \notin Used(table)
<1>1. CASE Free(table) = {}
  BY <1>1, PoolFacts, ModInRange DEF Pick
<1>2. CASE Free(table) # {}
  <2> DEFINE k == CHOOSE k \in Free(table) : \A j \in Free(table) : k <= j
  <2>1. Free(table) \subseteq Nat
    BY PoolFacts DEF Free
  <2>2. k \in Free(table)
    BY <1>2, <2>1, LeastOfNaturals
  <2>3. k \in Nat /\ assignCursor + k \in Nat
    BY <2>1, <2>2, PoolFacts
  <2> HIDE DEF k
  <2>4. (assignCursor + k) % Size \in 0..(Size - 1)
    BY <2>3, PoolFacts, ModInRange
  <2>5. ((assignCursor + k) % Size) % Size = (assignCursor + k) % Size
    BY <2>4, PoolFacts, ModOfRotation
  <2>6. Pick(table) = (assignCursor + k) % Size
    BY <1>2 DEF Pick, k
  <2>7. At(Pick(table)) = At(assignCursor + k)
    BY <2>5, <2>6 DEF At
  <2>8. At(assignCursor + k) \notin Used(table)
    BY <2>2 DEF Free
  <2> QED
    BY <2>4, <2>6, <2>7, <2>8
<1> QED
  BY <1>1, <1>2

\* If no exit is free, every exit has a client of its own.
LEMMA FullPoolOutnumbered ==
  ASSUME ipAddresses \in Pools, assignCursor \in 0..(Size - 1),
         NEW table \in [Clients -> Members(ipAddresses) \cup {None}],
         Free(table) = {}
  PROVE  Size <= Cardinality(Pinned(table))
<1>1. \A i \in 1..Size : ipAddresses[i] \in Used(table)
  <2> TAKE i \in 1..Size
  <2> DEFINE k == IF i - 1 >= assignCursor THEN i - 1 - assignCursor
                                           ELSE i - 1 - assignCursor + Size
  <2>1. k \in 0..(Size - 1)
    BY PoolFacts
  <2>2. i - 1 \in 0..(Size - 1)
    BY PoolFacts
  <2>3. assignCursor + k = i - 1 \/ assignCursor + k = (i - 1) + Size
    BY PoolFacts
  <2>4. (assignCursor + k) % Size = i - 1
    BY <2>2, <2>3, PoolFacts, ModOfRotation
  <2> HIDE DEF k
  <2>5. At(assignCursor + k) \in Used(table)
    BY <2>1 DEF Free
  <2> QED
    BY <2>4, <2>5 DEF At
<1> DEFINE f == [i \in 1..Size |-> CHOOSE d \in Pinned(table) : table[d] = ipAddresses[i]]
<1>2. \A i \in 1..Size : f[i] \in Pinned(table) /\ table[f[i]] = ipAddresses[i]
  BY <1>1 DEF Used
<1>3. f \in [1..Size -> Pinned(table)]
  BY <1>2
<1>4. \A i, j \in 1..Size : f[i] = f[j] => i = j
  <2> HIDE DEF f
  <2> QED
    BY <1>2, PoolFacts DEF Distinct
<1>5. f \in Injection(1..Size, Pinned(table))
  BY <1>3, <1>4 DEF Injection, IsInjective
<1>6. IsFiniteSet(Pinned(table))
  BY HostsAssumption, FS_Subset DEF Pinned
<1>7. Cardinality(1..Size) <= Cardinality(Pinned(table))
  <2> HIDE DEF f
  <2> QED
    BY <1>5, <1>6, FS_Injection
<1>8. Cardinality(1..Size) = Size
  BY FS_Interval, PoolFacts
<1> QED
  BY <1>7, <1>8

-----------------------------------------------------------------------------
(* Types.                                                                  *)

\* The targets of a connection are a list of exits that is not empty.
LEMMA TargetsTyped ==
  ASSUME ipAddresses \in Pools, NEW i \in Nat, NEW t \in Seq(Exits)
  PROVE  TargetsFrom(i) \o t \in Seq(Exits) \ {<<>>}
<1>1. Count \in Nat \ {0}
  <2>1. Size \in Nat \ {0}
    BY PoolFacts
  <2> QED
    BY <2>1, FlagsAssumption DEF Count
<1>2. \A k \in 1..Count : At(i + k - 1) \in Exits
  <2> TAKE k \in 1..Count
  <2>1. i + k - 1 \in Nat
    BY <1>1
  <2> QED
    BY <2>1, AtIsMember, PoolFacts
<1>3. TargetsFrom(i) \in [1..Count -> Exits]
  BY <1>2 DEF TargetsFrom
<1>4. TargetsFrom(i) \in Seq(Exits) /\ Len(TargetsFrom(i)) = Count
  BY <1>1, <1>3
<1>5. TargetsFrom(i) \o t \in Seq(Exits) /\ Len(TargetsFrom(i) \o t) = Count + Len(t)
  BY <1>4
<1> QED
  BY <1>1, <1>5

LEMMA FallbackTyped ==
  ASSUME TypeOK
  PROVE  FallbackTarget \in Seq(Exits)
  BY TargetsAssumption DEF TypeOK, FallbackTarget

LEMMA NextFallbackTyped ==
  ASSUME TypeOK, NextFallback
  PROVE  fallbackIndex' \in {0} \cup 0..(Len(Fallback) - 1)
<1>1. CASE Fallback = <<>>
  BY <1>1 DEF NextFallback
<1>2. CASE Fallback # <<>>
  <2>1. Len(Fallback) \in Nat \ {0} /\ fallbackIndex + 1 \in Nat
    BY <1>2, TargetsAssumption DEF TypeOK
  <2> QED
    BY <1>2, <2>1, ModInRange DEF NextFallback
<1> QED
  BY <1>1, <1>2

\* A pinned exit has an index.
LEMMA IndexTyped ==
  ASSUME ipAddresses \in Pools, NEW exit \in Members(ipAddresses)
  PROVE  IndexOf(exit) \in Nat
<1>1. PICK i \in 1..Size : ipAddresses[i] = exit
  BY PoolFacts DEF Members
<1>2. Size \in Nat \ {0} /\ i - 1 \in 0..(Size - 1)
  BY PoolFacts
<1>3. (i - 1) % Size = i - 1
  BY <1>2, ModOfRotation
<1>4. At(i - 1) = exit
  BY <1>1, <1>3 DEF At
<1>5. IndexOf(exit) \in 0..(Size - 1)
  BY <1>2, <1>4 DEF IndexOf
<1> QED
  BY <1>2, <1>5

\* The table that the next choice is made from.
LEMMA TableTyped ==
  ASSUME TypeOK
  PROVE  /\ Table \in [Clients -> Members(ipAddresses) \cup {None}]
         /\ Table = assignments \/ Table = NoPins
         /\ Pinned(NoPins) = {}
  BY DEF TypeOK, Table, NoPins, Pinned

THEOREM InitTypes == Init => TypeOK
<1> SUFFICES ASSUME Init PROVE TypeOK
  OBVIOUS
<1>1. Size \in Nat \ {0}
  BY PoolFacts DEF Init
<1> QED
  BY <1>1 DEF Init, TypeOK, NoPins, Pinned

LEMMA AcceptStickyTypes ==
  ASSUME TypeOK, NEW s \in Slots, NEW c \in Clients, AcceptSticky(s, c)
  PROVE  TypeOK'
<1>1. ipAddresses \in Pools /\ Size \in Nat \ {0} /\ Size' = Size
  BY PoolFacts DEF TypeOK, AcceptSticky, Size
<1>2. Members(ipAddresses)' = Members(ipAddresses)
  BY DEF AcceptSticky, Members
<1>3. fallbackIndex' \in {0} \cup 0..(Len(Fallback) - 1)
  BY NextFallbackTyped DEF AcceptSticky
<1>4. \A i \in Nat : Start(s, c, TargetsFrom(i) \o FallbackTarget) =>
        dials' \in [Slots -> {Idle} \cup [client : Clients, targets : Seq(Exits) \ {<<>>}]]
  <2> TAKE i \in Nat
  <2>1. TargetsFrom(i) \o FallbackTarget \in Seq(Exits) \ {<<>>}
    BY <1>1, FallbackTyped, TargetsTyped
  <2> QED
    BY <2>1 DEF TypeOK, Start
<1>5. CASE Keep(s, c)
  <2>1. IndexOf(Table[c]) \in Nat
    BY <1>1, <1>5, IndexTyped DEF Keep
  <2>2. dials' \in [Slots -> {Idle} \cup [client : Clients, targets : Seq(Exits) \ {<<>>}]]
    BY <1>4, <1>5, <2>1 DEF Keep
  <2>3. repinned' \subseteq Pinned(assignments')
    BY <1>5 DEF AcceptSticky, Keep
  <2> QED
    BY <1>1, <1>2, <1>3, <1>5, <2>2, <2>3, TableTyped DEF TypeOK, AcceptSticky, Keep, Pinned
<1>6. CASE Assign(s, c)
  <2> DEFINE pick == Pick([Table EXCEPT ![c] = None])
  <2>1. pick \in 0..(Size - 1)
    BY <1>1, PickIsFree DEF TypeOK
  <2>2. /\ Start(s, c, TargetsFrom(pick) \o FallbackTarget)
        /\ assignments' = [Table EXCEPT ![c] = At(pick)]
        /\ assignCursor' = CursorAfter(pick)
        /\ lastGiven' = At(pick)
    BY <1>6 DEF Assign
  <2> HIDE DEF pick
  <2>3. pick \in Nat /\ At(pick) \in Members(ipAddresses) /\ At(pick) # None
    BY <1>1, <2>1, AtIsMember, PoolFacts
  <2>4. assignCursor' \in 0..(Size - 1)
    BY <1>1, <2>2, <2>3, ModInRange DEF CursorAfter
  <2>5. dials' \in [Slots -> {Idle} \cup [client : Clients, targets : Seq(Exits) \ {<<>>}]]
    BY <1>4, <2>2, <2>3
  <2>6. assignments' \in [Clients -> Members(ipAddresses) \cup {None}]
    BY <2>2, <2>3, TableTyped
  <2>7. repinned' \subseteq Pinned(assignments')
    BY <2>2, <2>3, TableTyped DEF AcceptSticky, Pinned
  <2> QED
    BY <1>1, <1>2, <1>3, <2>2, <2>3, <2>4, <2>5, <2>6, <2>7 DEF TypeOK, AcceptSticky, Pinned
<1> QED
  BY <1>5, <1>6 DEF AcceptSticky

LEMMA AcceptRotatingTypes ==
  ASSUME TypeOK, NEW s \in Slots, NEW c \in Clients, AcceptRotating(s, c)
  PROVE  TypeOK'
<1>1. ipAddresses \in Pools /\ Size \in Nat \ {0} /\ Size' = Size
  BY PoolFacts DEF TypeOK, AcceptRotating, Size
<1>2. Members(ipAddresses)' = Members(ipAddresses)
  BY DEF AcceptRotating, Members
<1>3. fallbackIndex' \in {0} \cup 0..(Len(Fallback) - 1)
  BY NextFallbackTyped DEF AcceptRotating
<1>4. dials' \in [Slots -> {Idle} \cup [client : Clients, targets : Seq(Exits) \ {<<>>}]]
  <2>1. TargetsFrom(dispatchIndex) \o FallbackTarget \in Seq(Exits) \ {<<>>}
    BY <1>1, FallbackTyped, TargetsTyped DEF TypeOK
  <2> QED
    BY <2>1 DEF TypeOK, AcceptRotating, Start
<1>5. dispatchIndex' \in 0..(Size - 1)
  <2>1. dispatchIndex + Count \in Nat
    BY <1>1, FlagsAssumption DEF TypeOK, Count
  <2> QED
    BY <1>1, <2>1, ModInRange DEF AcceptRotating
<1> QED
  BY <1>1, <1>2, <1>3, <1>4, <1>5 DEF TypeOK, AcceptRotating, Pinned

LEMMA DialSucceedsTypes ==
  ASSUME TypeOK, NEW s \in Slots, DialSucceeds(s)
  PROVE  TypeOK'
<1>1. Size' = Size /\ Members(ipAddresses)' = Members(ipAddresses)
  BY DEF DialSucceeds, Size, Members
<1>2. dials[s] \in [client : Clients, targets : Seq(Exits) \ {<<>>}]
  BY DEF TypeOK, DialSucceeds
<1>3. dials' \in [Slots -> {Idle} \cup [client : Clients, targets : Seq(Exits) \ {<<>>}]]
  BY DEF TypeOK, DialSucceeds
<1> DEFINE c == dials[s].client
           exit == Head(dials[s].targets)
<1>4. c \in Clients /\ Repin(c, exit)
  BY <1>2 DEF DialSucceeds
<1> HIDE DEF c, exit
<1>5. /\ assignments' \in [Clients -> Members(ipAddresses) \cup {None}]
      /\ repinned' \subseteq Pinned(assignments')
  <2>1. CASE sticky /\ exit \in Members(ipAddresses)
    <3>1. exit # None
      BY <2>1, PoolFacts DEF TypeOK
    <3>2. assignments' = [assignments EXCEPT ![c] = exit]
      BY <1>4, <2>1 DEF Repin
    <3>3. repinned' \subseteq repinned \cup {c}
      BY <1>4, <2>1 DEF Repin
    <3>4. Pinned(assignments') = Pinned(assignments) \cup {c}
      BY <1>4, <3>1, <3>2 DEF TypeOK, Pinned
    <3> QED
      BY <1>4, <2>1, <3>2, <3>3, <3>4 DEF TypeOK
  <2>2. CASE ~(sticky /\ exit \in Members(ipAddresses))
    BY <1>4, <2>2 DEF Repin, TypeOK
  <2> QED
    BY <2>1, <2>2
<1> QED
  BY <1>1, <1>3, <1>5 DEF TypeOK, DialSucceeds, Pinned

LEMMA DialFailsTypes ==
  ASSUME TypeOK, NEW s \in Slots, DialFails(s)
  PROVE  TypeOK'
<1>1. Size' = Size /\ Members(ipAddresses)' = Members(ipAddresses)
  BY DEF DialFails, Size, Members
<1> DEFINE Record == [client : Clients, targets : Seq(Exits) \ {<<>>}]
<1>2. dials[s] \in Record
  BY DEF TypeOK, DialFails
<1>3. dials[s].client \in Clients /\ Tail(dials[s].targets) \in Seq(Exits)
  BY <1>2
<1>4. dials' \in [Slots -> {Idle} \cup Record]
  <2>1. CASE Tail(dials[s].targets) = <<>>
    BY <2>1 DEF TypeOK, DialFails
  <2>2. CASE Tail(dials[s].targets) # <<>>
    <3> DEFINE conn == [client |-> dials[s].client, targets |-> Tail(dials[s].targets)]
    <3>1. dials' = [dials EXCEPT ![s] = conn]
      BY <2>2 DEF DialFails, Start
    <3>2. conn \in Record
      BY <1>3, <2>2
    <3> HIDE DEF conn, Record
    <3> QED
      BY <3>1, <3>2 DEF TypeOK, Record
  <2> QED
    BY <2>1, <2>2
<1> QED
  BY <1>1, <1>4 DEF TypeOK, DialFails, Pinned

LEMMA RestartTypes ==
  ASSUME TypeOK, NEW p \in Pools, NEW mode \in Modes, Restart(p, mode)
  PROVE  TypeOK'
<1>1. Len(p) \in Nat \ {0}
  BY TargetsAssumption
<1>2. Size' = Len(p)
  BY DEF Restart, Size
<1>3. 0 \in 0..(Len(p) - 1)
  BY <1>1
<1>4. assignments' \in [Clients -> Members(ipAddresses)' \cup {None}]
  BY DEF Restart, NoPins
<1>5. up' \subseteq Exits
  BY DEF Restart, TypeOK
<1> QED
  BY <1>2, <1>3, <1>4, <1>5 DEF Restart, TypeOK

LEMMA NextTypes ==
  ASSUME TypeOK, [Next]_vars
  PROVE  TypeOK'
<1>1. CASE Weather
  BY <1>1 DEF TypeOK, Weather, Size, Members, Pinned
<1>2. CASE UNCHANGED vars
  BY <1>2 DEF TypeOK, vars, Size, Members, Pinned
<1> QED
  BY <1>1, <1>2, AcceptStickyTypes, AcceptRotatingTypes, DialSucceedsTypes, DialFailsTypes,
     RestartTypes DEF Next

\* For every set of clients, every pool without repetition and any flags, the
\* state keeps its types; in particular a client is only ever pinned to an
\* exit of the pool that this process was started with, also when a dial to
\* the fallback moved it (assignLocked, repinClient).
THEOREM TypesHold == Spec => []TypeOK
  BY InitTypes, NextTypes, PTL DEF Spec

-----------------------------------------------------------------------------
(* Sharing.                                                                *)

LEMMA PinnedFinite ==
  ASSUME NEW table
  PROVE  IsFiniteSet(Pinned(table)) /\ Cardinality(Pinned(table)) \in Nat
<1>1. IsFiniteSet(Pinned(table))
  BY HostsAssumption, FS_Subset DEF Pinned
<1> QED
  BY <1>1, FS_CardinalityType

\* A new pin adds a client to the table.
LEMMA PinnedGrows ==
  ASSUME NEW table \in [Clients -> Exits \cup {None}],
         NEW c \in Clients, table[c] = None, NEW exit \in Exits
  PROVE  Cardinality(Pinned([table EXCEPT ![c] = exit])) = Cardinality(Pinned(table)) + 1
<1>1. Pinned([table EXCEPT ![c] = exit]) = Pinned(table) \cup {c}
  BY HostsAssumption DEF Pinned
<1>2. c \notin Pinned(table)
  BY DEF Pinned
<1>3. IsFiniteSet(Pinned(table))
  BY PinnedFinite
<1> QED
  BY <1>1, <1>2, <1>3, FS_AddElement

\* A move of a pin takes no client out of the table.
LEMMA PinnedKept ==
  ASSUME NEW table \in [Clients -> Exits \cup {None}],
         NEW c \in Clients, NEW exit \in Exits
  PROVE  Cardinality(Pinned(table)) <= Cardinality(Pinned([table EXCEPT ![c] = exit]))
<1>1. Pinned(table) \in SUBSET Pinned([table EXCEPT ![c] = exit])
  BY HostsAssumption DEF Pinned
<1>2. IsFiniteSet(Pinned([table EXCEPT ![c] = exit]))
  BY PinnedFinite
<1> QED
  BY <1>1, <1>2, FS_Subset

Inv == TypeOK /\ SharedOnlyOfNeed

LEMMA AssignShares ==
  ASSUME Inv, NEW s \in Slots, NEW c \in Clients, AcceptSticky(s, c), Assign(s, c)
  PROVE  SharedOnlyOfNeed'
<1> DEFINE table == [Table EXCEPT ![c] = None]
           pick  == Pick(table)
<1>1. /\ ipAddresses \in Pools /\ Size \in Nat \ {0} /\ Size' = Size
      /\ Members(ipAddresses) \subseteq Exits
  BY PoolFacts DEF Inv, TypeOK, AcceptSticky, Size
<1>2. /\ Table \in [Clients -> Members(ipAddresses) \cup {None}]
      /\ Table[c] = None
      /\ table = Table
  BY TableTyped DEF Inv, Assign
<1>3. assignments' = [Table EXCEPT ![c] = At(pick)]
  BY DEF Assign
<1>4. /\ pick \in 0..(Size - 1)
      /\ Free(Table) # {} => At(pick) \notin Used(Table)
  BY <1>1, <1>2, PickIsFree DEF Inv, TypeOK
<1> HIDE DEF pick, table
<1>5. pick \in Nat /\ At(pick) \in Members(ipAddresses) /\ At(pick) \in Exits
  BY <1>1, <1>4, AtIsMember
<1>6. Cardinality(Pinned(assignments')) = Cardinality(Pinned(Table)) + 1
  BY <1>1, <1>2, <1>3, <1>5, PinnedGrows
<1>7. Cardinality(Pinned(Table)) \in Nat
  BY PinnedFinite
<1>8. \A d \in Clients : d # c /\ assignments'[d] = assignments'[c]
         => Cardinality(Pinned(assignments')) > Size
  <2> SUFFICES ASSUME NEW d \in Clients, d # c, assignments'[d] = assignments'[c]
               PROVE  Cardinality(Pinned(assignments')) > Size
    OBVIOUS
  <2>1. Table[d] = At(pick)
    BY <1>2, <1>3
  <2>2. At(pick) # None
    BY <1>5, HostsAssumption
  <2>3. At(pick) \in Used(Table)
    BY <2>1, <2>2 DEF Used, Pinned
  <2>4. Size <= Cardinality(Pinned(Table))
    BY <1>1, <1>2, <1>4, <2>3, FullPoolOutnumbered DEF Inv, TypeOK
  <2> QED
    BY <1>1, <1>6, <1>7, <2>4
<1>9. \A d, e \in Clients \ repinned' :
         d # e /\ d # c /\ e # c /\ assignments'[d] # None /\ assignments'[d] = assignments'[e]
         => Cardinality(Pinned(assignments')) > Size
  <2> SUFFICES ASSUME NEW d \in Clients \ repinned', NEW e \in Clients \ repinned',
                      d # e, d # c, e # c,
                      assignments'[d] # None, assignments'[d] = assignments'[e]
               PROVE  Cardinality(Pinned(assignments')) > Size
    OBVIOUS
  <2>1. Table[d] # None /\ Table[d] = Table[e]
    BY <1>2, <1>3
  <2>2. Table = assignments
    BY <2>1, TableTyped DEF Inv, NoPins
  <2>3. d \notin repinned /\ e \notin repinned
    BY <2>1 DEF AcceptSticky, Pinned
  <2>4. Cardinality(Pinned(Table)) > Size
    BY <2>1, <2>2, <2>3 DEF Inv, SharedOnlyOfNeed
  <2> QED
    BY <1>1, <1>6, <1>7, <2>4
<1> QED
  BY <1>1, <1>8, <1>9 DEF SharedOnlyOfNeed

LEMMA KeepShares ==
  ASSUME Inv, NEW s \in Slots, NEW c \in Clients, AcceptSticky(s, c), Keep(s, c)
  PROVE  SharedOnlyOfNeed'
<1>1. Table[c] \in Members(ipAddresses) /\ None \notin Members(ipAddresses)
  BY PoolFacts DEF Inv, TypeOK, Keep
<1>2. Table = assignments
  BY <1>1, TableTyped DEF Inv, NoPins
<1>3. assignments' = assignments /\ repinned' = repinned /\ Size' = Size
  BY <1>2 DEF Inv, TypeOK, Keep, AcceptSticky, Size
<1> QED
  BY <1>3 DEF Inv, SharedOnlyOfNeed, Pinned

LEMMA DialSucceedsShares ==
  ASSUME Inv, NEW s \in Slots, DialSucceeds(s)
  PROVE  SharedOnlyOfNeed'
<1> DEFINE c == dials[s].client
           exit == Head(dials[s].targets)
<1>1. Repin(c, exit) /\ Size' = Size
  BY DEF DialSucceeds, Size
<1>2. c \in Clients
  BY DEF Inv, TypeOK, DialSucceeds
<1> HIDE DEF c, exit
<1>3. CASE UNCHANGED <<assignments, repinned>>
  BY <1>1, <1>3 DEF Inv, SharedOnlyOfNeed, Pinned
<1>4. CASE /\ exit \in Members(ipAddresses)
           /\ assignments' = [assignments EXCEPT ![c] = exit]
           /\ repinned' = repinned \cup {c}
  <2>1. /\ assignments \in [Clients -> Exits \cup {None}] /\ exit \in Exits
        /\ Size \in Nat
    BY <1>4, PoolFacts DEF Inv, TypeOK
  <2>2. Cardinality(Pinned(assignments)) <= Cardinality(Pinned(assignments'))
    BY <1>2, <1>4, <2>1, PinnedKept
  <2>3. Cardinality(Pinned(assignments)) \in Nat /\ Cardinality(Pinned(assignments')) \in Nat
    BY PinnedFinite
  <2> SUFFICES ASSUME NEW d \in Clients \ repinned', NEW e \in Clients \ repinned',
                      d # e, assignments'[d] # None, assignments'[d] = assignments'[e]
               PROVE  Cardinality(Pinned(assignments')) > Size
    BY <1>1 DEF SharedOnlyOfNeed
  <2>4. d # c /\ e # c /\ d \notin repinned /\ e \notin repinned
    BY <1>4
  <2>5. assignments[d] # None /\ assignments[d] = assignments[e]
    BY <1>4, <2>1, <2>4
  <2>6. Cardinality(Pinned(assignments)) > Size
    BY <2>4, <2>5 DEF Inv, SharedOnlyOfNeed
  <2> QED
    BY <2>1, <2>2, <2>3, <2>6
<1>5. CASE /\ exit \in Members(ipAddresses)
           /\ assignments' = [assignments EXCEPT ![c] = exit]
           /\ assignments[c] = exit /\ repinned' = repinned
  <2>1. assignments' = assignments
    BY <1>2, <1>5 DEF Inv, TypeOK
  <2> QED
    BY <1>3, <1>5, <2>1
<1> QED
  BY <1>1, <1>3, <1>4, <1>5 DEF Repin

LEMMA RestartShares ==
  ASSUME NEW p \in Pools, NEW mode \in Modes, Restart(p, mode)
  PROVE  SharedOnlyOfNeed'
<1>1. \A c \in Clients : assignments'[c] = None
  BY DEF Restart, NoPins
<1> QED
  BY <1>1 DEF SharedOnlyOfNeed

LEMMA NextShares ==
  ASSUME Inv, [Next]_vars
  PROVE  SharedOnlyOfNeed'
<1>1. ASSUME NEW s \in Slots, NEW c \in Clients, AcceptSticky(s, c)
      PROVE  SharedOnlyOfNeed'
  BY <1>1, AssignShares, KeepShares DEF AcceptSticky
<1>2. CASE UNCHANGED <<ipAddresses, assignments, repinned>>
  BY <1>2 DEF Inv, SharedOnlyOfNeed, Size, Pinned
<1>3. ASSUME NEW s \in Slots, NEW c \in Clients, AcceptRotating(s, c)
      PROVE  SharedOnlyOfNeed'
  BY <1>2, <1>3 DEF AcceptRotating
<1>4. ASSUME NEW s \in Slots, DialFails(s)
      PROVE  SharedOnlyOfNeed'
  BY <1>2, <1>4 DEF DialFails
<1>5. CASE Weather
  BY <1>2, <1>5 DEF Weather
<1>6. CASE UNCHANGED vars
  BY <1>2, <1>6 DEF vars
<1> QED
  BY <1>1, <1>3, <1>4, <1>5, <1>6, DialSucceedsShares, RestartShares DEF Next

\* For every set of clients, every pool and any flags: in no order of
\* arrivals, moved pins, purges and restarts do two clients that no failed
\* dial moved share an exit while the clients do not outnumber the exits
\* (assignLocked, repinClient).
THEOREM SharingHolds == Spec => []SharedOnlyOfNeed
<1>1. Init => Inv
  <2>1. Init => SharedOnlyOfNeed
    BY DEF Init, SharedOnlyOfNeed, NoPins
  <2> QED
    BY <2>1, InitTypes DEF Inv
<1>2. Inv /\ [Next]_vars => Inv'
  BY NextTypes, NextShares DEF Inv
<1>3. Inv => SharedOnlyOfNeed
  BY DEF Inv
<1> QED
  BY <1>1, <1>2, <1>3, PTL DEF Spec

-----------------------------------------------------------------------------
(* Neighbours.                                                             *)

\* The cursor stands right after the exit that was given last.
CursorTrails == lastGiven # None => lastGiven = At(assignCursor + Size - 1)

TrailInv == TypeOK /\ CursorTrails

\* The exit before an index is another one, in a pool of more than one.
LEMMA BeforeIsOther ==
  ASSUME ipAddresses \in Pools, Size > 1, NEW i \in 0..(Size - 1)
  PROVE  At(i) # At(i + Size - 1)
<1>1. Size \in Nat \ {0} /\ Distinct(ipAddresses) /\ DOMAIN ipAddresses = 1..Size
  BY PoolFacts
<1>2. i % Size = i
  BY <1>1, ModOfRotation
<1>3. CASE i = 0
  <2>1. i + Size - 1 = Size - 1 /\ Size - 1 \in 0..(Size - 1)
    BY <1>1, <1>3
  <2>2. (i + Size - 1) % Size = Size - 1
    BY <1>1, <2>1, ModOfRotation
  <2> QED
    BY <1>1, <1>2, <1>3, <2>2 DEF At, Distinct
<1>4. CASE i # 0
  <2>1. i + Size - 1 = (i - 1) + Size /\ i - 1 \in 0..(Size - 1)
    BY <1>1, <1>4
  <2>2. (i + Size - 1) % Size = i - 1
    BY <1>1, <2>1, ModOfRotation
  <2> QED
    BY <1>1, <1>2, <1>4, <2>2 DEF At, Distinct
<1> QED
  BY <1>3, <1>4

LEMMA AssignTrails ==
  ASSUME TypeOK, NEW s \in Slots, NEW c \in Clients, AcceptSticky(s, c), Assign(s, c)
  PROVE  CursorTrails'
<1> DEFINE pick == Pick([Table EXCEPT ![c] = None])
<1>1. ipAddresses \in Pools /\ Size \in Nat \ {0}
  BY PoolFacts DEF TypeOK
<1>2. pick \in 0..(Size - 1)
  BY <1>1, PickIsFree DEF TypeOK
<1>3. lastGiven' = At(pick) /\ assignCursor' = (pick + 1) % Size
  BY DEF Assign, CursorAfter
<1>4. ipAddresses' = ipAddresses
  BY DEF AcceptSticky
<1> HIDE DEF pick
<1>5. pick % Size = pick
  BY <1>1, <1>2, ModOfRotation
<1>6. CASE pick + 1 = Size
  <2>1. Size = 0 + Size /\ 0 \in 0..(Size - 1)
    BY <1>1
  <2>2. (pick + 1) % Size = 0
    BY <1>1, <1>6, <2>1, ModOfRotation
  <2>3. assignCursor' + Size - 1 = pick
    BY <1>1, <1>2, <1>3, <1>6, <2>2
  <2> QED
    BY <1>3, <1>4, <2>3 DEF CursorTrails, At, Size
<1>7. CASE pick + 1 # Size
  <2>1. pick + 1 \in 0..(Size - 1)
    BY <1>1, <1>2, <1>7
  <2>2. (pick + 1) % Size = pick + 1
    BY <1>1, <2>1, ModOfRotation
  <2>3. assignCursor' + Size - 1 = pick + Size
    BY <1>1, <1>2, <1>3, <2>2
  <2>4. (assignCursor' + Size - 1) % Size = pick % Size
    BY <1>1, <1>2, <1>5, <2>3, ModOfRotation
  <2> QED
    BY <1>3, <1>4, <2>4 DEF CursorTrails, At, Size
<1> QED
  BY <1>6, <1>7

LEMMA NextTrails ==
  ASSUME TrailInv, [Next]_vars
  PROVE  TrailInv'
<1>1. TypeOK'
  BY NextTypes DEF TrailInv
<1>2. CASE UNCHANGED <<ipAddresses, assignCursor, lastGiven>>
  BY <1>1, <1>2 DEF TrailInv, CursorTrails, At, Size
<1>3. ASSUME NEW s \in Slots, NEW c \in Clients, AcceptSticky(s, c)
      PROVE  TrailInv'
  <2>1. CASE Keep(s, c)
    BY <1>2, <1>3, <2>1 DEF AcceptSticky, Keep
  <2>2. CASE Assign(s, c)
    BY <1>1, <1>3, <2>2, AssignTrails DEF TrailInv
  <2> QED
    BY <1>3, <2>1, <2>2 DEF AcceptSticky
<1>4. ASSUME NEW s \in Slots, NEW c \in Clients, AcceptRotating(s, c)
      PROVE  TrailInv'
  BY <1>2, <1>4 DEF AcceptRotating
<1>5. ASSUME NEW s \in Slots, DialSucceeds(s)
      PROVE  TrailInv'
  BY <1>2, <1>5 DEF DialSucceeds
<1>6. ASSUME NEW s \in Slots, DialFails(s)
      PROVE  TrailInv'
  BY <1>2, <1>6 DEF DialFails
<1>7. CASE Weather
  BY <1>2, <1>7 DEF Weather
<1>8. ASSUME NEW p \in Pools, NEW mode \in Modes, Restart(p, mode)
      PROVE  TrailInv'
  BY <1>1, <1>8 DEF Restart, TrailInv, CursorTrails
<1>9. CASE UNCHANGED vars
  BY <1>2, <1>9 DEF vars
<1> QED
  BY <1>3, <1>4, <1>5, <1>6, <1>7, <1>8, <1>9 DEF Next

\* A client that is given an exit is given an unused one, or the one at the
\* cursor, which is not the one that was given last.
LEMMA AssignKeepsApart ==
  ASSUME TrailInv, NEW s \in Slots, NEW c \in Clients, Assign(s, c),
         Size > 1, assignments'[c] = lastGiven
  PROVE  lastGiven \notin Used([assignments EXCEPT ![c] = None])
<1> DEFINE table == [Table EXCEPT ![c] = None]
           pick  == Pick(table)
<1>1. ipAddresses \in Pools /\ Size \in Nat \ {0} /\ assignCursor \in 0..(Size - 1)
  BY PoolFacts DEF TrailInv, TypeOK
<1>2. /\ pick \in 0..(Size - 1)
      /\ Free(table) # {} => At(pick) \notin Used(table)
  BY <1>1, PickIsFree
<1>3. Table = assignments \/ Table = NoPins
  BY TableTyped DEF TrailInv
<1>4. lastGiven = At(pick)
  BY TableTyped DEF TrailInv, Assign
<1>5. At(pick) # None
  BY <1>1, <1>2, AtIsMember, PoolFacts
<1>6. At(assignCursor) # lastGiven
  BY <1>1, <1>4, <1>5, BeforeIsOther DEF TrailInv, CursorTrails
<1>7. CASE Free(table) = {}
  BY <1>1, <1>4, <1>6, <1>7, ModOfRotation DEF Pick
<1>8. CASE Free(table) # {} /\ Table = assignments
  BY <1>2, <1>4, <1>8
<1>9. CASE Table = NoPins
  <2>1. Used(table) = {}
    BY <1>9 DEF Used, Pinned, NoPins
  <2>2. Free(table) = 0..(Size - 1)
    BY <2>1 DEF Free
  <2> DEFINE k == CHOOSE k \in Free(table) : \A j \in Free(table) : k <= j
  <2>3. k \in Free(table) /\ \A j \in Free(table) : k <= j
    <3> HIDE DEF table
    <3>1. Free(table) \subseteq Nat /\ Free(table) # {}
      BY <1>1, <2>2
    <3>2. \E x \in Free(table) : \A j \in Free(table) : x <= j
      BY <3>1, LeastOfNaturals
    <3> QED
      BY <3>2
  <2>4. k = 0
    <3> HIDE DEF k, table
    <3> QED
      BY <1>1, <2>2, <2>3
  <2>5. pick = (assignCursor + k) % Size
    BY <1>1, <2>2 DEF Pick
  <2> HIDE DEF k
  <2>6. pick = assignCursor
    BY <1>1, <2>4, <2>5, ModOfRotation
  <2> QED
    BY <1>4, <1>6, <2>6
<1> QED
  BY <1>3, <1>7, <1>8, <1>9

LEMMA StepKeepsApart ==
  ASSUME TrailInv, [Next]_vars, NEW c \in Clients,
         Size > 1,
         NEW s \in Slots, dials[s] = Idle, dials'[s].client = c,
         assignments[c] # assignments'[c], assignments'[c] = lastGiven
  PROVE  lastGiven \notin Used([assignments EXCEPT ![c] = None])
<1>1. dials'[s] # Idle
  BY HostsAssumption DEF Idle
<1>2. ASSUME NEW r \in Slots, NEW d \in Clients, AcceptSticky(r, d)
      PROVE  d = c /\ Assign(r, c)
  <2>1. PICK targets : Start(r, d, targets)
    BY <1>2 DEF AcceptSticky, Keep, Assign
  <2>2. dials' = [dials EXCEPT ![r] = [client |-> d, targets |-> targets]]
    BY <2>1 DEF Start
  <2>3. r = s /\ d = c
    BY <1>1, <2>2 DEF TrailInv, TypeOK
  <2>4. CASE Keep(r, d)
    <3>1. Table[c] \in Members(ipAddresses)
      BY <2>3, <2>4 DEF Keep
    <3>2. Table # NoPins
      BY <3>1, PoolFacts DEF NoPins, TrailInv, TypeOK
    <3> QED
      BY <2>4, <3>2, TableTyped DEF Keep, TrailInv
  <2> QED
    BY <1>2, <2>3, <2>4 DEF AcceptSticky
<1>3. ASSUME NEW r \in Slots, DialSucceeds(r) PROVE FALSE
  BY <1>1, <1>3 DEF DialSucceeds, TrailInv, TypeOK
<1>4. ASSUME NEW r \in Slots, DialFails(r) PROVE FALSE
  BY <1>4 DEF DialFails
<1>5. ASSUME NEW p \in Pools, NEW mode \in Modes, Restart(p, mode) PROVE FALSE
  BY <1>1, <1>5 DEF Restart
<1>6. ASSUME NEW r \in Slots, NEW d \in Clients, AcceptRotating(r, d) PROVE FALSE
  BY <1>6 DEF AcceptRotating
<1>7. ~Weather /\ ~UNCHANGED vars
  BY DEF Weather, vars
<1>8. PICK r \in Slots : Assign(r, c)
  BY <1>2, <1>3, <1>4, <1>5, <1>6, <1>7 DEF Next
<1> QED
  BY <1>8, AssignKeepsApart

\* For every pool of more than one exit: two clients that arrive one after the
\* other are not given the same exit while the first is still there, full
\* table and purge included (assignLocked).
THEOREM NeighboursHold == Spec => NeighboursApart
<1>1. Init => TrailInv
  BY InitTypes DEF Init, TrailInv, CursorTrails
<1>2. TrailInv /\ [Next]_vars => TrailInv'
  BY NextTrails
<1>3. TrailInv /\ [Next]_vars =>
        [\A c \in Clients :
            /\ Size > 1
            /\ \E s \in Slots : dials[s] = Idle /\ dials'[s].client = c
            /\ assignments[c] # assignments'[c] /\ assignments'[c] = lastGiven
            => lastGiven \notin Used([assignments EXCEPT ![c] = None])]_vars
  BY StepKeepsApart
<1> QED
  BY <1>1, <1>2, <1>3, PTL DEF Spec, NeighboursApart

=============================================================================

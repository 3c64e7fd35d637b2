------------------------- MODULE CandidateSupplyProofs -------------------------
(***************************************************************************)
(* Proofs about the refresh of the candidates, for any addresses, lists,   *)
(* quotas and caps.  The layers, the round robin of the sources and the    *)
(* removal of an address go through a list from its first element to its   *)
(* last: what holds of their results is shown by induction on the elements *)
(* seen so far.                                                            *)
(***************************************************************************)
EXTENDS CandidateSupply, TLAPS, FiniteSetTheorems, WellFoundedInduction

-----------------------------------------------------------------------------
(* Numbers and recursion.                                                  *)

\* A set of numbers that is not empty has a least one.
LEMMA LeastNumber ==
    ASSUME NEW T, T \subseteq Nat, T # {}
    PROVE  \E x \in T : \A y \in T : x <= y
<1> DEFINE Less == OpToRel(<, Nat)
<1>1. IsWellFoundedOn(Less, Nat)
  BY NatLessThanWellFounded
<1>2. \A x, y \in Nat : y < x => <<y, x>> \in Less
  BY DEF OpToRel
<1> HIDE DEF Less
<1>3. PICK x \in T : \A y \in T : ~(<<y, x>> \in Less)
  BY <1>1, WFMin, Zenon
<1>4. \A y \in T : ~(y < x)
  BY <1>2, <1>3
<1> QED BY <1>4

\* Induction.
LEMMA Numbers ==
    ASSUME NEW T, 0 \in T, \A n \in Nat : n \in T => n + 1 \in T
    PROVE  Nat \subseteq T
<1> SUFFICES ASSUME Nat \ T # {} PROVE FALSE
  OBVIOUS
<1>1. PICK x \in Nat \ T : \A y \in Nat \ T : x <= y
  <2> DEFINE rest == Nat \ T
  <2>1. rest \subseteq Nat /\ rest # {}
    OBVIOUS
  <2> HIDE DEF rest
  <2>2. \E x \in rest : \A y \in rest : x <= y
    BY <2>1, LeastNumber
  <2> QED BY <2>2 DEF rest
<1>2. x # 0
  BY <1>1
<1>3. x - 1 \in Nat /\ x - 1 \in T /\ (x - 1) + 1 = x
  BY <1>1, <1>2
<1> QED BY <1>1, <1>3

\* What takes the results so far and the number of the step to the next results.
Steps(S, N) == [S \X (1..N) -> S]

\* There are results for every number of steps.
LEMMA Recursion ==
    ASSUME NEW S, NEW base \in S, NEW N \in Nat, NEW step \in Steps(S, N)
    PROVE  \E f \in [0..N -> S] : /\ f[0] = base
                                  /\ \A n \in 1..N : f[n] = step[<<f[n - 1], n>>]
<1> DEFINE Unfolds(f, n) == f[0] = base /\ \A k \in 1..n : f[k] = step[<<f[k - 1], k>>]
           T == {n \in Nat : n <= N => \E f \in [0..n -> S] : Unfolds(f, n)}
<1>1. 0 \in T
  <2> DEFINE f == [k \in 0..0 |-> base]
  <2>1. f \in [0..0 -> S] /\ Unfolds(f, 0)
    OBVIOUS
  <2> QED BY <2>1
<1>2. ASSUME NEW n \in Nat, n \in T PROVE n + 1 \in T
  <2> SUFFICES ASSUME n + 1 <= N PROVE \E f \in [0..n + 1 -> S] : Unfolds(f, n + 1)
    OBVIOUS
  <2>1. PICK f \in [0..n -> S] : Unfolds(f, n)
    BY <1>2
  <2> DEFINE g == [k \in 0..n + 1 |-> IF k <= n THEN f[k] ELSE step[<<f[n], n + 1>>]]
  <2>2. step[<<f[n], n + 1>>] \in S
    <3>1. f[n] \in S /\ n + 1 \in 1..N
      OBVIOUS
    <3> QED BY <3>1 DEF Steps
  <2>3. g \in [0..n + 1 -> S]
    BY <2>2
  <2>4. Unfolds(g, n + 1)
    <3>1. g[0] = base
      BY <2>1
    <3>2. ASSUME NEW k \in 1..n + 1 PROVE g[k] = step[<<g[k - 1], k>>]
      <4>1. CASE k <= n
        <5>1. k \in 1..n /\ k - 1 \in 0..n
          BY <4>1
        <5> QED BY <2>1, <5>1, <4>1
      <4>2. CASE k = n + 1
        BY <4>2
      <4> QED BY <4>1, <4>2
    <3> QED BY <3>1, <3>2
  <2> QED BY <2>3, <2>4
<1>3. N \in T
  <2> HIDE DEF T
  <2> QED BY <1>1, <1>2, Numbers
<1> QED BY <1>3

\* What every step keeps holds of the last result.
LEMMA LastKept ==
    ASSUME NEW N \in Nat, NEW f, NEW Good, f[0] \in Good,
           \A n \in 1..N : f[n - 1] \in Good => f[n] \in Good
    PROVE  f[N] \in Good
<1> DEFINE T == {n \in Nat : n <= N => f[n] \in Good}
<1>1. 0 \in T
  OBVIOUS
<1>2. ASSUME NEW n \in Nat, n \in T PROVE n + 1 \in T
  <2> SUFFICES ASSUME n + 1 <= N PROVE f[n + 1] \in Good
    OBVIOUS
  <2>1. f[n] \in Good /\ n + 1 \in 1..N /\ (n + 1) - 1 = n
    BY <1>2
  <2> QED BY <2>1
<1> HIDE DEF T
<1>3. N \in T
  BY <1>1, <1>2, Numbers
<1> QED BY <1>3 DEF T

LEMMA Powers == \A n \in Nat : 2 ^ n \in Nat
<1> TAKE n \in Nat
<1>1. IsFiniteSet(1..n) /\ Cardinality(1..n) = n
  BY FS_Interval
<1>2. IsFiniteSet(SUBSET (1..n)) /\ Cardinality(SUBSET (1..n)) = 2 ^ n
  BY <1>1, FS_SUBSET
<1> QED BY <1>2, FS_CardinalityType

-----------------------------------------------------------------------------
(* Layers.                                                                 *)

Lists == [ips : Seq(Addresses), from : [Addresses -> Layers \cup {"none"}]]

\* What EachOnceWithLayer asks of the snapshot.
ListedOnce(list) ==
    /\ \A i, j \in DOMAIN list.ips : list.ips[i] = list.ips[j] => i = j
    /\ \A i \in DOMAIN list.ips : list.from[list.ips[i]] # "none"

LEMMA Append1Keeps ==
    ASSUME NEW list \in Lists, NEW layer \in Layers, NEW a \in Addresses, NEW room \in Nat
    PROVE  LET after == Append1(list, layer, a, room)
           IN  /\ after \in Lists
               /\ Len(list.ips) <= room => Len(after.ips) <= room
               /\ \A b \in Addresses : after.from[b] \in {list.from[b], layer}
               /\ ListedOnce(list) => ListedOnce(after)
<1> DEFINE after == Append1(list, layer, a, room)
<1>1. CASE Len(list.ips) >= room \/ list.from[a] # "none"
  BY <1>1 DEF Append1, Lists
<1>2. CASE ~(Len(list.ips) >= room \/ list.from[a] # "none")
  <2>1. after = [ips |-> Append(list.ips, a), from |-> [list.from EXCEPT ![a] = layer]]
    BY <1>2 DEF Append1
  <2>2. after \in Lists /\ Len(after.ips) = Len(list.ips) + 1
    BY <2>1 DEF Lists
  <2>3. \A b \in Addresses : after.from[b] = IF b = a THEN layer ELSE list.from[b]
    BY <2>1 DEF Lists
  <2>4. ASSUME ListedOnce(list) PROVE ListedOnce(after)
    <3>1. DOMAIN after.ips = 1..Len(list.ips) + 1 /\ DOMAIN list.ips = 1..Len(list.ips)
      BY <2>1 DEF Lists
    <3>2. \A i \in 1..Len(list.ips) : after.ips[i] = list.ips[i] /\ list.ips[i] \in Addresses
      BY <2>1 DEF Lists
    <3>3. after.ips[Len(list.ips) + 1] = a
      BY <2>1 DEF Lists
    <3>4. \A i \in 1..Len(list.ips) : list.ips[i] # a
      BY <1>2, <2>4, <3>1 DEF ListedOnce
    <3>5. Len(list.ips) \in Nat
      BY DEF Lists
    <3>6. layer # "none"
      BY DEF Layers
    <3>7. \A i \in 1..Len(list.ips) + 1 : i \in 1..Len(list.ips) \/ i = Len(list.ips) + 1
      BY <3>5
    <3>8. \A i, j \in 1..Len(list.ips) + 1 : after.ips[i] = after.ips[j] => i = j
      BY <2>4, <3>1, <3>2, <3>3, <3>4, <3>7 DEF ListedOnce
    <3>9. \A i \in 1..Len(list.ips) + 1 : after.from[after.ips[i]] # "none"
      BY <2>3, <2>4, <3>1, <3>2, <3>3, <3>4, <3>6, <3>7 DEF ListedOnce
    <3> QED BY <3>1, <3>8, <3>9 DEF ListedOnce
  <2>5. Len(list.ips) <= room => Len(after.ips) <= room
    BY <1>2, <2>2 DEF Lists
  <2> QED BY <2>2, <2>3, <2>4, <2>5
<1> QED BY <1>1, <1>2

\* A layer is the result of its last element.
Room(list, quota) == Capped(TotalCap, Len(list.ips) + quota)

LEMMA GroupUnfolds ==
    ASSUME NEW list \in Lists, NEW layer \in Layers, NEW values \in Seq(Addresses),
           NEW quota \in Nat, Room(list, quota) \in Nat
    PROVE  \E filled : /\ filled[0] = list
                       /\ \A n \in 1..Len(values) :
                             filled[n]
                               = Append1(filled[n - 1], layer, values[n], Room(list, quota))
                       /\ Group(list, layer, values, quota) = filled[Len(values)]
<1> DEFINE N == Len(values)
           step == [p \in Lists \X (1..N) |->
                      Append1(p[1], layer, values[p[2]], Room(list, quota))]
           filled[n \in 0..Len(values)] ==
              IF n = 0 THEN list
              ELSE Append1(filled[n - 1], layer, values[n], Room(list, quota))
<1>1. N \in Nat /\ step \in Steps(Lists, N)
  BY Append1Keeps DEF Steps
<1>2. PICK f \in [0..N -> Lists] : f[0] = list /\ \A n \in 1..N : f[n] = step[<<f[n - 1], n>>]
  <2> HIDE DEF step, N
  <2> QED BY <1>1, Recursion
<1>3. \A n \in 1..N : f[n] = Append1(f[n - 1], layer, values[n], Room(list, quota))
  <2> SUFFICES ASSUME NEW n \in 1..N
               PROVE  f[n] = Append1(f[n - 1], layer, values[n], Room(list, quota))
    OBVIOUS
  <2>1. f[n - 1] \in Lists /\ n \in 1..N
    BY <1>1
  <2> QED BY <1>2, <2>1
<1>4. f = [n \in 0..Len(values) |->
             IF n = 0 THEN list ELSE Append1(f[n - 1], layer, values[n], Room(list, quota))]
  BY <1>1, <1>2, <1>3
<1>5. filled = [n \in 0..Len(values) |->
                  IF n = 0 THEN list
                  ELSE Append1(filled[n - 1], layer, values[n], Room(list, quota))]
  BY <1>4
<1>6. Group(list, layer, values, quota) = filled[Len(values)]
  BY DEF Group, Room
<1>7. filled[0] = list
  <2> HIDE DEF filled
  <2>1. 0 \in 0..Len(values)
    BY <1>1
  <2> QED BY <1>5, <2>1
<1>8. \A n \in 1..N : filled[n] = Append1(filled[n - 1], layer, values[n], Room(list, quota))
  <2> HIDE DEF filled
  <2> SUFFICES ASSUME NEW n \in 1..N
               PROVE  filled[n] = Append1(filled[n - 1], layer, values[n], Room(list, quota))
    OBVIOUS
  <2>1. n \in 0..Len(values) /\ n # 0
    BY <1>1
  <2> HIDE DEF N
  <2> QED BY <1>5, <2>1
<1> HIDE DEF filled
<1> QED BY <1>6, <1>7, <1>8

LEMMA GroupKeeps ==
    ASSUME NEW list \in Lists, NEW layer \in Layers, NEW values \in Seq(Addresses),
           NEW quota \in Nat, Len(list.ips) <= TotalCap
    PROVE  LET after == Group(list, layer, values, quota)
           IN  /\ after \in Lists /\ Len(after.ips) <= TotalCap
               /\ Len(after.ips) <= Len(list.ips) + quota
               /\ quota = 0 => after = list
               /\ \A b \in Addresses : after.from[b] \in {list.from[b], layer}
               /\ ListedOnce(list) => ListedOnce(after)
<1> DEFINE room  == Room(list, quota)
           after == Group(list, layer, values, quota)
           Good  == {l \in Lists : /\ Len(l.ips) <= room
                                   /\ \A b \in Addresses : l.from[b] \in {list.from[b], layer}
                                   /\ ListedOnce(list) => ListedOnce(l)}
<1>1. /\ room \in Nat /\ room <= TotalCap /\ room <= Len(list.ips) + quota
      /\ Len(list.ips) <= room /\ Len(list.ips) \in Nat
      /\ quota = 0 => room = Len(list.ips)
  BY SupplyAssumption DEF Room, Capped, Lists
<1>2. Len(values) \in Nat /\ \A n \in 1..Len(values) : values[n] \in Addresses
  OBVIOUS
<1>3. PICK filled : /\ filled[0] = list
                    /\ \A n \in 1..Len(values) :
                          filled[n] = Append1(filled[n - 1], layer, values[n], room)
                    /\ after = filled[Len(values)]
  BY <1>1, GroupUnfolds
<1>4. list \in Good
  BY <1>1
<1>5. ASSUME NEW l \in Good, NEW a \in Addresses PROVE Append1(l, layer, a, room) \in Good
  <2> HIDE DEF room
  <2> DEFINE next == Append1(l, layer, a, room)
  <2>1. l \in Lists /\ Len(l.ips) <= room
    OBVIOUS
  <2>2. /\ next \in Lists /\ Len(next.ips) <= room
        /\ \A b \in Addresses : next.from[b] \in {l.from[b], layer}
        /\ ListedOnce(l) => ListedOnce(next)
    BY <1>1, <2>1, Append1Keeps
  <2>3. next \in Good
    <3> HIDE DEF next
    <3> QED BY <2>2
  <2> QED BY <2>3
<1>6. after \in Good
  <2> HIDE DEF Good, room, after
  <2>1. filled[0] \in Good
    BY <1>3, <1>4
  <2>2. \A n \in 1..Len(values) : filled[n - 1] \in Good => filled[n] \in Good
    BY <1>2, <1>3, <1>5
  <2>3. filled[Len(values)] \in Good
    BY <1>2, <2>1, <2>2, LastKept
  <2> QED BY <1>3, <2>3
<1>7. ASSUME quota = 0 PROVE after = list
  <2>1. \A a \in Addresses : Append1(list, layer, a, room) = list
    BY <1>1, <1>7 DEF Append1
  <2> DEFINE Same == {list}
  <2>2. filled[0] \in Same /\ \A n \in 1..Len(values) : filled[n - 1] \in Same => filled[n] \in Same
    BY <1>2, <1>3, <2>1
  <2>3. filled[Len(values)] \in Same
    <3> HIDE DEF Same
    <3> QED BY <1>2, <2>2, LastKept
  <2> QED BY <1>3, <2>3
<1>8. /\ after \in Lists /\ Len(after.ips) <= TotalCap /\ Len(after.ips) <= Len(list.ips) + quota
      /\ \A b \in Addresses : after.from[b] \in {list.from[b], layer}
      /\ ListedOnce(list) => ListedOnce(after)
  <2>1. Len(after.ips) \in Nat
    BY <1>6 DEF Lists
  <2> HIDE DEF room, after
  <2> QED BY <1>1, <1>6, <2>1, SupplyAssumption
<1> QED BY <1>7, <1>8

LEMMA FirstOfType ==
    ASSUME NEW S, NEW values \in Seq(S), NEW quota \in Nat
    PROVE  /\ FirstOf(values, quota) \in Seq(S)
           /\ Len(FirstOf(values, quota)) = Capped(quota, Len(values))
           /\ \A i \in 1..Capped(quota, Len(values)) : FirstOf(values, quota)[i] = values[i]
<1> DEFINE n == Capped(quota, Len(values))
<1>1. n \in 0..Len(values)
  BY DEF Capped
<1> HIDE DEF n
<1>2. SubSeq(values, 1, n) \in Seq(S) /\ Len(SubSeq(values, 1, n)) = n
      /\ \A i \in 1..n : SubSeq(values, 1, n)[i] = values[i]
  BY <1>1
<1> QED BY <1>2 DEF FirstOf, n

-----------------------------------------------------------------------------
(* Removals.                                                               *)

LEMMA WithoutUnfolds ==
    ASSUME NEW ips \in Seq(Addresses), NEW a
    PROVE  \E kept : /\ kept[0] = <<>>
                     /\ \A n \in 1..Len(ips) :
                           kept[n] = IF ips[n] = a THEN kept[n - 1] ELSE Append(kept[n - 1], ips[n])
                     /\ Without(ips, a) = kept[Len(ips)]
<1> DEFINE N == Len(ips)
           S == Seq(Addresses)
           step == [p \in S \X (1..N) |->
                      IF ips[p[2]] = a THEN p[1] ELSE Append(p[1], ips[p[2]])]
           kept[n \in 0..Len(ips)] ==
              IF n = 0 THEN <<>>
              ELSE IF ips[n] = a THEN kept[n - 1] ELSE Append(kept[n - 1], ips[n])
<1>1. N \in Nat /\ <<>> \in S
  OBVIOUS
<1>2. step \in Steps(S, N)
  <2>1. \A p \in S \X (1..N) : (IF ips[p[2]] = a THEN p[1] ELSE Append(p[1], ips[p[2]])) \in S
    OBVIOUS
  <2> HIDE DEF S
  <2> QED BY <2>1 DEF Steps
<1>3. PICK f \in [0..N -> S] : f[0] = <<>> /\ \A n \in 1..N : f[n] = step[<<f[n - 1], n>>]
  <2> HIDE DEF step, N, S
  <2> QED BY <1>1, <1>2, Recursion
<1>4. \A n \in 1..N : f[n] = IF ips[n] = a THEN f[n - 1] ELSE Append(f[n - 1], ips[n])
  <2> SUFFICES ASSUME NEW n \in 1..N
               PROVE  f[n] = IF ips[n] = a THEN f[n - 1] ELSE Append(f[n - 1], ips[n])
    OBVIOUS
  <2>1. f[n - 1] \in S /\ n \in 1..N
    <3> HIDE DEF S
    <3> QED BY <1>1
  <2> HIDE DEF S, N
  <2> QED BY <1>3, <2>1
<1>5. f = [n \in 0..Len(ips) |-> IF n = 0 THEN <<>>
             ELSE IF ips[n] = a THEN f[n - 1] ELSE Append(f[n - 1], ips[n])]
  <2>1. \A n \in 0..N : n # 0 => n \in 1..N
    BY <1>1
  <2>2. \A n \in 0..N : f[n] = IF n = 0 THEN <<>>
                               ELSE IF ips[n] = a THEN f[n - 1] ELSE Append(f[n - 1], ips[n])
    <3> HIDE DEF S, N, step
    <3> QED BY <1>3, <1>4, <2>1
  <2> HIDE DEF S, step
  <2> QED BY <1>3, <2>2
<1>6. kept = [n \in 0..Len(ips) |-> IF n = 0 THEN <<>>
                ELSE IF ips[n] = a THEN kept[n - 1] ELSE Append(kept[n - 1], ips[n])]
  BY <1>5
<1>7. Without(ips, a) = kept[Len(ips)]
  BY DEF Without
<1>8. kept[0] = <<>>
  <2> HIDE DEF kept
  <2>1. 0 \in 0..Len(ips)
    BY <1>1
  <2> QED BY <1>6, <2>1
<1>9. \A n \in 1..N : kept[n] = IF ips[n] = a THEN kept[n - 1] ELSE Append(kept[n - 1], ips[n])
  <2> HIDE DEF kept
  <2> SUFFICES ASSUME NEW n \in 1..N
               PROVE  kept[n] = IF ips[n] = a THEN kept[n - 1] ELSE Append(kept[n - 1], ips[n])
    OBVIOUS
  <2>1. n \in 0..Len(ips) /\ n # 0
    BY <1>1
  <2> HIDE DEF N
  <2> QED BY <1>6, <2>1
<1> HIDE DEF kept
<1> QED BY <1>7, <1>8, <1>9

\* Without(ips, a) lists what ips lists except a, in no place more often than ips does.
LEMMA WithoutKeeps ==
    ASSUME NEW ips \in Seq(Addresses), NEW a
    PROVE  LET rest == Without(ips, a)
           IN  /\ rest \in Seq(Addresses) /\ Len(rest) <= Len(ips)
               /\ \A i \in DOMAIN rest : rest[i] # a /\ \E j \in DOMAIN ips : ips[j] = rest[i]
               /\ (\A i, j \in DOMAIN ips : ips[i] = ips[j] => i = j)
                     => \A i, j \in DOMAIN rest : rest[i] = rest[j] => i = j
<1> DEFINE From(s, n) == /\ s \in Seq(Addresses) /\ Len(s) <= n
                         /\ \A i \in 1..Len(s) : s[i] # a /\ \E j \in 1..n : ips[j] = s[i]
                         /\ (\A i, j \in 1..Len(ips) : ips[i] = ips[j] => i = j)
                               => \A i, j \in 1..Len(s) : s[i] = s[j] => i = j
<1>1. PICK kept : /\ kept[0] = <<>>
                  /\ \A n \in 1..Len(ips) :
                        kept[n] = IF ips[n] = a THEN kept[n - 1] ELSE Append(kept[n - 1], ips[n])
                  /\ Without(ips, a) = kept[Len(ips)]
  BY WithoutUnfolds
<1> DEFINE T == {n \in Nat : n <= Len(ips) => From(kept[n], n)}
<1>2. 0 \in T
  <2>1. From(<<>>, 0)
    OBVIOUS
  <2> HIDE DEF From
  <2> QED BY <1>1, <2>1
<1>3. ASSUME NEW n \in Nat, n \in T PROVE n + 1 \in T
  <2> SUFFICES ASSUME n + 1 <= Len(ips) PROVE From(kept[n + 1], n + 1)
    OBVIOUS
  <2> DEFINE s == kept[n]
             b == ips[n + 1]
  <2>1. From(s, n) /\ b \in Addresses /\ Len(s) \in Nat /\ Len(ips) \in Nat
    BY <1>3
  <2>2. kept[n + 1] = IF b = a THEN s ELSE Append(s, b)
    <3>1. n + 1 \in 1..Len(ips) /\ (n + 1) - 1 = n
      OBVIOUS
    <3> QED BY <1>1, <3>1
  <2> HIDE DEF s
  <2>3. From(s, n + 1)
    BY <2>1
  <2>4. ASSUME b # a PROVE From(Append(s, b), n + 1)
    <3> DEFINE r == Append(s, b)
    <3>1. /\ r \in Seq(Addresses) /\ Len(r) = Len(s) + 1 /\ r[Len(s) + 1] = b
          /\ \A i \in 1..Len(s) : r[i] = s[i]
      BY <2>1
    <3>2. \A i \in 1..Len(r) : i \in 1..Len(s) \/ i = Len(s) + 1
      BY <2>1, <3>1
    <3> HIDE DEF r
    <3>3. ASSUME NEW i \in 1..Len(r) PROVE r[i] # a /\ \E j \in 1..n + 1 : ips[j] = r[i]
      <4>1. CASE i \in 1..Len(s)
        BY <2>3, <3>1, <4>1
      <4>2. CASE i = Len(s) + 1
        BY <2>4, <3>1, <4>2
      <4> QED BY <3>2, <4>1, <4>2
    <3>4. ASSUME \A i, j \in 1..Len(ips) : ips[i] = ips[j] => i = j
          PROVE  \A i, j \in 1..Len(r) : r[i] = r[j] => i = j
      <4>1. \A i \in 1..Len(s) : s[i] # b
        <5> SUFFICES ASSUME NEW i \in 1..Len(s), s[i] = b PROVE FALSE
          OBVIOUS
        <5>1. PICK j \in 1..n : ips[j] = s[i]
          BY <2>1
        <5>2. j \in 1..Len(ips) /\ n + 1 \in 1..Len(ips) /\ j # n + 1
          BY <2>1
        <5> QED BY <3>4, <5>1, <5>2
      <4>2. \A i, j \in 1..Len(s) : s[i] = s[j] => i = j
        BY <2>1, <3>4
      <4> QED BY <3>1, <3>2, <4>1, <4>2
    <3>5. Len(r) <= n + 1
      BY <2>1, <3>1
    <3>6. From(r, n + 1)
      BY <3>1, <3>3, <3>4, <3>5
    <3> QED BY <3>6 DEF r
  <2> HIDE DEF From
  <2> QED BY <2>2, <2>3, <2>4
<1>4. Len(ips) \in T
  <2> HIDE DEF T
  <2>1. Len(ips) \in Nat
    OBVIOUS
  <2> QED BY <1>2, <1>3, <2>1, Numbers
<1>5. From(Without(ips, a), Len(ips))
  BY <1>1, <1>4
<1> QED BY <1>5

-----------------------------------------------------------------------------
(* The round robin.                                                        *)

Merged == [ip : Addresses, by : Fetched]
Merges == [merged : Seq(Merged), due : Fetched]

LEMMA GotType == ASSUME NEW merged \in Seq(Merged), NEW s PROVE Got(merged, s) \in Nat
<1> DEFINE n   == Len(merged)
           own == {i \in 1..n : merged[i].by = s}
<1>1. n \in Nat /\ DOMAIN merged = 1..n
  OBVIOUS
<1>2. Got(merged, s) = Cardinality(own)
  BY <1>1 DEF Got
<1>3. own \subseteq 1..n
  OBVIOUS
<1>4. IsFiniteSet(1..n)
  <2> HIDE DEF n
  <2> QED BY <1>1, FS_Interval
<1> HIDE DEF own, n
<1>5. IsFiniteSet(own)
  BY <1>3, <1>4, FS_Subset
<1> QED BY <1>2, <1>5, FS_CardinalityType

LEMMA GotAppended ==
    ASSUME NEW merged \in Seq(Merged), NEW x \in Merged, NEW s
    PROVE  /\ Got(merged, s) \in Nat
           /\ Got(Append(merged, x), s) = Got(merged, s) + (IF x.by = s THEN 1 ELSE 0)
<1> DEFINE n     == Len(merged)
           after == Append(merged, x)
           own   == {i \in 1..n : merged[i].by = s}
<1>1. /\ n \in Nat /\ DOMAIN merged = 1..n /\ DOMAIN after = 1..n + 1
      /\ after[n + 1] = x /\ \A i \in 1..n : after[i] = merged[i]
  OBVIOUS
<1>2. IsFiniteSet(1..n)
  <2> HIDE DEF n
  <2> QED BY <1>1, FS_Interval
<1>3. IsFiniteSet(own)
  <2>1. own \subseteq 1..n
    OBVIOUS
  <2> HIDE DEF own, n
  <2> QED BY <1>2, <2>1, FS_Subset
<1>4. Got(merged, s) = Cardinality(own)
  BY <1>1 DEF Got
<1>5. Got(after, s) = Cardinality({i \in 1..n + 1 : after[i].by = s})
  <2> HIDE DEF n, after
  <2> QED BY <1>1 DEF Got
<1>6. CASE x.by = s
  <2> HIDE DEF after
  <2>1. {i \in 1..n + 1 : after[i].by = s} = own \cup {n + 1}
    <3> HIDE DEF n
    <3> QED BY <1>1, <1>6
  <2>2. n + 1 \notin own
    <3> HIDE DEF n
    <3> QED BY <1>1
  <2> HIDE DEF own
  <2>3. Cardinality(own \cup {n + 1}) = Cardinality(own) + 1
    BY <1>3, <2>2, FS_AddElement
  <2>4. Cardinality(own) \in Nat
    BY <1>3, FS_CardinalityType
  <2>5. Got(after, s) = Got(merged, s) + 1 /\ Got(merged, s) \in Nat
    BY <1>4, <1>5, <2>1, <2>3, <2>4
  <2> QED BY <1>6, <2>5 DEF after
<1>7. CASE x.by # s
  <2> HIDE DEF after
  <2>1. {i \in 1..n + 1 : after[i].by = s} = own
    <3> HIDE DEF n
    <3> QED BY <1>1, <1>7
  <2> HIDE DEF own
  <2>2. Cardinality(own) \in Nat
    BY <1>3, FS_CardinalityType
  <2>3. Got(after, s) = Got(merged, s) /\ Got(merged, s) \in Nat
    BY <1>4, <1>5, <2>1, <2>2
  <2> QED BY <1>7, <2>3 DEF after
<1> QED BY <1>6, <1>7

LEMMA NewestTaken ==
    ASSUME NEW answer \in Seq(Addresses), NEW merged, NewIn(answer, merged) # {}
    PROVE  answer[Least(NewIn(answer, merged))] \in Addresses
<1> DEFINE new == NewIn(answer, merged)
<1>1. new \subseteq Nat /\ new # {} /\ \A i \in new : answer[i] \in Addresses
  BY DEF NewIn
<1> HIDE DEF new
<1>2. \E i \in new : \A j \in new : i <= j
  BY <1>1, LeastNumber
<1>3. Least(new) \in new
  BY <1>2 DEF Least
<1> QED BY <1>1, <1>3 DEF new

LEMMA NewInAppended ==
    ASSUME NEW answer, NEW merged \in Seq(Merged), NEW x \in Merged
    PROVE  NewIn(answer, Append(merged, x)) \subseteq NewIn(answer, merged)
<1> DEFINE after == Append(merged, x)
<1>1. DOMAIN merged \subseteq DOMAIN after /\ \A j \in DOMAIN merged : after[j] = merged[j]
  OBVIOUS
<1> HIDE DEF after
<1>2. NewIn(answer, after) \subseteq NewIn(answer, merged)
  BY <1>1 DEF NewIn
<1> QED BY <1>2 DEF after

\* One if the turn of source t in this round is over and that of s is not, and so on.
Ahead(t, s, due) == (IF t < due THEN 1 ELSE 0) - (IF s < due THEN 1 ELSE 0)

\* Nobody is ahead, by more than a turn, of a source that has something new.
Fair(answers, acc) ==
    \A s, t \in Fetched :
        NewIn(answers[s], acc.merged) # {}
            => Got(acc.merged, t) <= Got(acc.merged, s) + Ahead(t, s, acc.due)

LEMMA AheadNext ==
    ASSUME NEW s \in Fetched, NEW t \in Fetched, NEW due \in Fetched
    PROVE  /\ NextSource(due) \in Fetched /\ Ahead(t, s, due) \in Int /\ Ahead(t, s, due) <= 1
           /\ Ahead(t, s, NextSource(due))
                = Ahead(t, s, due) + (IF due = t THEN 1 ELSE 0) - (IF due = s THEN 1 ELSE 0)
<1> DEFINE n == Len(Sources)
<1>1. n \in Nat /\ n # 0 /\ Fetched = 1..n
  BY SupplyAssumption DEF Fetched
<1> HIDE DEF n
<1>2. due \in 1..n /\ s \in 1..n /\ t \in 1..n
  BY <1>1
<1>3. NextSource(due) = IF due = n THEN 1 ELSE due + 1
  BY DEF NextSource, n
<1> QED BY <1>1, <1>2, <1>3 DEF Ahead

LEMMA TurnKeeps ==
    ASSUME NEW answers \in [Fetched -> Seq(Addresses)], NEW room, NEW acc \in Merges,
           Fair(answers, acc)
    PROVE  Turn(acc, answers, room) \in Merges /\ Fair(answers, Turn(acc, answers, room))
<1> DEFINE after  == Turn(acc, answers, room)
           d      == acc.due
           answer == answers[d]
           new    == NewIn(answer, acc.merged)
<1>1. d \in Fetched /\ acc.merged \in Seq(Merged) /\ answer \in Seq(Addresses)
  BY DEF Merges
<1>2. NextSource(d) \in Fetched
  BY <1>1, AheadNext
<1>3. CASE Len(acc.merged) >= room
  BY <1>3 DEF Turn
<1>4. CASE ~(Len(acc.merged) >= room) /\ new = {}
  <2>1. after = [merged |-> acc.merged, due |-> NextSource(d)]
    BY <1>4 DEF Turn
  <2>2. ASSUME NEW s \in Fetched, NEW t \in Fetched, NewIn(answers[s], acc.merged) # {}
        PROVE  Got(acc.merged, t) <= Got(acc.merged, s) + Ahead(t, s, NextSource(d))
    <3>1. s # d
      BY <1>4, <2>2
    <3>2. Got(acc.merged, t) <= Got(acc.merged, s) + Ahead(t, s, d)
      BY <2>2 DEF Fair
    <3>3. Got(acc.merged, t) \in Nat /\ Got(acc.merged, s) \in Nat
      BY <1>1, GotType
    <3>4. /\ Ahead(t, s, d) \in Int
          /\ Ahead(t, s, NextSource(d)) = Ahead(t, s, d) + (IF d = t THEN 1 ELSE 0)
      <4> HIDE DEF d
      <4>1. /\ Ahead(t, s, d) \in Int
            /\ Ahead(t, s, NextSource(d))
                 = Ahead(t, s, d) + (IF d = t THEN 1 ELSE 0) - (IF d = s THEN 1 ELSE 0)
        BY <1>1, AheadNext
      <4> QED BY <3>1, <4>1
    <3> HIDE DEF d
    <3> QED BY <3>2, <3>3, <3>4
  <2>3. after \in Merges
    BY <1>1, <1>2, <2>1 DEF Merges
  <2>4. Fair(answers, after)
    BY <2>1, <2>2 DEF Fair
  <2> QED BY <2>3, <2>4
<1>5. CASE ~(Len(acc.merged) >= room) /\ new # {}
  <2> DEFINE x == [ip |-> answer[Least(new)], by |-> d]
             m == Append(acc.merged, x)
  <2>1. after = [merged |-> m, due |-> NextSource(d)]
    BY <1>5 DEF Turn
  <2>2. x \in Merged
    BY <1>1, <1>5, NewestTaken DEF Merged
  <2>3. m \in Seq(Merged) /\ x.by = d
    <3>1. x.by = d
      OBVIOUS
    <3> HIDE DEF x
    <3> QED BY <1>1, <2>2, <3>1
  <2>4. \A s : /\ Got(acc.merged, s) \in Nat
               /\ Got(m, s) = Got(acc.merged, s) + (IF d = s THEN 1 ELSE 0)
               /\ NewIn(answers[s], m) # {} => NewIn(answers[s], acc.merged) # {}
    <3> HIDE DEF x, d
    <3> QED BY <1>1, <2>2, <2>3, GotAppended, NewInAppended
  <2> HIDE DEF m
  <2>5. ASSUME NEW s \in Fetched, NEW t \in Fetched, NewIn(answers[s], m) # {}
        PROVE  Got(m, t) <= Got(m, s) + Ahead(t, s, NextSource(d))
    <3>1. Got(acc.merged, t) <= Got(acc.merged, s) + Ahead(t, s, d)
      BY <2>4, <2>5 DEF Fair
    <3>2. /\ Ahead(t, s, d) \in Int
          /\ Ahead(t, s, NextSource(d))
               = Ahead(t, s, d) + (IF d = t THEN 1 ELSE 0) - (IF d = s THEN 1 ELSE 0)
      <4> HIDE DEF d
      <4> QED BY <1>1, AheadNext
    <3> HIDE DEF d
    <3> QED BY <2>4, <3>1, <3>2
  <2>6. after \in Merges
    BY <1>2, <2>1, <2>3 DEF Merges
  <2>7. Fair(answers, after)
    BY <2>1, <2>5 DEF Fair
  <2> QED BY <2>6, <2>7
<1> QED BY <1>3, <1>4, <1>5

LEMMA MergeBegins ==
    ASSUME NEW answers
    PROVE  LET none == [merged |-> <<>>, due |-> 1]
           IN  none \in Merges /\ Fair(answers, none)
<1>1. 1 \in Fetched /\ \A s \in Fetched : s >= 1
  BY SupplyAssumption DEF Fetched
<1>2. \A s : Got(<<>>, s) = 0
  <2> TAKE s
  <2>1. {i \in DOMAIN <<>> : <<>>[i].by = s} = {}
    OBVIOUS
  <2> QED BY <2>1, FS_EmptySet DEF Got
<1>3. \A s, t \in Fetched : Ahead(t, s, 1) = 0
  BY <1>1, SupplyAssumption DEF Ahead, Fetched
<1>4. <<>> \in Seq(Merged)
  OBVIOUS
<1> QED BY <1>1, <1>2, <1>3, <1>4 DEF Merges, Fair

LEMMA TurnsType == Turns \in Nat
<1>1. Cardinality(Addresses) \in Nat /\ Len(Sources) \in Nat
  BY SupplyAssumption, FS_CardinalityType
<1>2. \A m, n \in Nat : m * n \in Nat
  OBVIOUS
<1> QED BY <1>1, <1>2 DEF Turns

LEMMA RoundRobinUnfolds ==
    ASSUME NEW answers \in [Fetched -> Seq(Addresses)], NEW room
    PROVE  \E merge : /\ merge[0] = [merged |-> <<>>, due |-> 1]
                      /\ \A n \in 1..Turns : merge[n] = Turn(merge[n - 1], answers, room)
                      /\ RoundRobin(answers, room) = merge[Turns].merged
<1> DEFINE N == Turns
           S == {acc \in Merges : Fair(answers, acc)}
           none == [merged |-> <<>>, due |-> 1]
           step == [p \in S \X (1..N) |-> Turn(p[1], answers, room)]
           merge[n \in 0..Turns] == IF n = 0 THEN [merged |-> <<>>, due |-> 1]
                                    ELSE Turn(merge[n - 1], answers, room)
<1>1. N \in Nat /\ none \in S
  BY MergeBegins, TurnsType
<1>2. step \in Steps(S, N)
  <2>1. \A acc \in S : Turn(acc, answers, room) \in S
    BY TurnKeeps
  <2> HIDE DEF S, N
  <2> QED BY <2>1 DEF Steps
<1>3. PICK f \in [0..N -> S] : f[0] = none /\ \A n \in 1..N : f[n] = step[<<f[n - 1], n>>]
  <2> HIDE DEF step, N, S, none
  <2> QED BY <1>1, <1>2, Recursion
<1>4. \A n \in 1..N : f[n] = Turn(f[n - 1], answers, room)
  <2> SUFFICES ASSUME NEW n \in 1..N PROVE f[n] = Turn(f[n - 1], answers, room)
    OBVIOUS
  <2>1. f[n - 1] \in S
    <3> HIDE DEF S
    <3> QED BY <1>1
  <2> HIDE DEF S, N
  <2> QED BY <1>3, <2>1
<1>5. f = [n \in 0..Turns |-> IF n = 0 THEN [merged |-> <<>>, due |-> 1]
                             ELSE Turn(f[n - 1], answers, room)]
  <2>1. \A n \in 0..N : n # 0 => n \in 1..N
    BY <1>1
  <2> HIDE DEF S, step
  <2> QED BY <1>3, <1>4, <2>1
<1>6. merge = [n \in 0..Turns |-> IF n = 0 THEN [merged |-> <<>>, due |-> 1]
                                 ELSE Turn(merge[n - 1], answers, room)]
  BY <1>5
<1>7. RoundRobin(answers, room) = merge[Turns].merged
  BY DEF RoundRobin
<1>8. merge[0] = none
  <2> HIDE DEF merge
  <2>1. 0 \in 0..Turns
    BY <1>1
  <2> QED BY <1>6, <2>1
<1>9. \A n \in 1..N : merge[n] = Turn(merge[n - 1], answers, room)
  <2> HIDE DEF merge
  <2> SUFFICES ASSUME NEW n \in 1..N PROVE merge[n] = Turn(merge[n - 1], answers, room)
    OBVIOUS
  <2>1. n \in 0..Turns /\ n # 0
    BY <1>1
  <2> HIDE DEF N
  <2> QED BY <1>6, <2>1
<1> HIDE DEF merge
<1> QED BY <1>7, <1>8, <1>9

\* The merge yields addresses, and is fair.
LEMMA RoundRobinFair ==
    ASSUME NEW answers \in [Fetched -> Seq(Addresses)], NEW room
    PROVE  LET merged == RoundRobin(answers, room)
           IN  /\ merged \in Seq(Merged)
               /\ \A s, t \in Fetched : NewIn(answers[s], merged) # {}
                                            => Got(merged, t) <= Got(merged, s) + 1
<1> DEFINE Good == {acc \in Merges : Fair(answers, acc)}
<1>1. PICK merge : /\ merge[0] = [merged |-> <<>>, due |-> 1]
                   /\ \A n \in 1..Turns : merge[n] = Turn(merge[n - 1], answers, room)
                   /\ RoundRobin(answers, room) = merge[Turns].merged
  BY RoundRobinUnfolds
<1>2. merge[0] \in Good
  BY <1>1, MergeBegins
<1>3. \A n \in 1..Turns : merge[n - 1] \in Good => merge[n] \in Good
  BY <1>1, TurnKeeps
<1>4. merge[Turns] \in Good
  <2> HIDE DEF Good
  <2> QED BY <1>2, <1>3, LastKept, TurnsType
<1> DEFINE last == merge[Turns]
<1>5. last \in Merges /\ Fair(answers, last) /\ RoundRobin(answers, room) = last.merged
  BY <1>1, <1>4
<1> HIDE DEF last
<1>6. ASSUME NEW s \in Fetched, NEW t \in Fetched, NewIn(answers[s], last.merged) # {}
      PROVE  Got(last.merged, t) <= Got(last.merged, s) + 1
  <2>1. Got(last.merged, t) <= Got(last.merged, s) + Ahead(t, s, last.due)
    BY <1>5, <1>6 DEF Fair
  <2>2. Got(last.merged, t) \in Nat /\ Got(last.merged, s) \in Nat
    BY <1>5, GotType DEF Merges
  <2>3. Ahead(t, s, last.due) \in Int /\ Ahead(t, s, last.due) <= 1
    BY <1>5, AheadNext DEF Merges
  <2> QED BY <2>1, <2>2, <2>3
<1> QED BY <1>5, <1>6 DEF Merges

\* Nobody is merged twice, and while there is room a source that has something new
\* has had a turn in each of the r rounds before, and has got in an address in each.
Counted(answers, room, acc, n) ==
    /\ acc \in Merges /\ Fair(answers, acc)
    /\ \A i, j \in DOMAIN acc.merged : acc.merged[i].ip = acc.merged[j].ip => i = j
    /\ Len(acc.merged) < room =>
         \E r \in Nat : /\ n = r * Len(Sources) + (acc.due - 1)
                        /\ \A s \in Fetched : NewIn(answers[s], acc.merged) # {} =>
                             Got(acc.merged, s) = r + (IF s < acc.due THEN 1 ELSE 0)

LEMMA NewestIsNew ==
    ASSUME NEW answer \in Seq(Addresses), NEW merged, NewIn(answer, merged) # {}
    PROVE  \A j \in DOMAIN merged : merged[j].ip # answer[Least(NewIn(answer, merged))]
<1> DEFINE new == NewIn(answer, merged)
<1>1. new \subseteq Nat /\ new # {} /\ \A i \in new, j \in DOMAIN merged : merged[j].ip # answer[i]
  BY DEF NewIn
<1> HIDE DEF new
<1>2. \E i \in new : \A j \in new : i <= j
  BY <1>1, LeastNumber
<1>3. Least(new) \in new
  BY <1>2 DEF Least
<1> QED BY <1>1, <1>3 DEF new

LEMMA TurnCounted ==
    ASSUME NEW answers \in [Fetched -> Seq(Addresses)], NEW room \in Nat, NEW acc, NEW n \in Nat,
           Counted(answers, room, acc, n)
    PROVE  Counted(answers, room, Turn(acc, answers, room), n + 1)
<1> DEFINE after  == Turn(acc, answers, room)
           d      == acc.due
           R      == Len(Sources)
           answer == answers[d]
           new    == NewIn(answer, acc.merged)
           Once(m) == \A i, j \in DOMAIN m : m[i].ip = m[j].ip => i = j
           Had(s, due) == IF s < due THEN 1 ELSE 0
<1>1. /\ acc \in Merges /\ Fair(answers, acc) /\ Once(acc.merged)
      /\ d \in Fetched /\ acc.merged \in Seq(Merged) /\ answer \in Seq(Addresses)
      /\ Len(acc.merged) \in Nat
  BY DEF Counted, Merges
<1>2. after \in Merges /\ Fair(answers, after)
  BY <1>1, TurnKeeps
<1>3. CASE Len(acc.merged) >= room
  <2>1. after = acc
    BY <1>3 DEF Turn
  <2> QED BY <1>1, <1>3, <2>1 DEF Counted
<1>4. CASE ~(Len(acc.merged) >= room)
  <2>1. PICK r \in Nat : /\ n = r * R + (d - 1)
                         /\ \A s \in Fetched : NewIn(answers[s], acc.merged) # {} =>
                              Got(acc.merged, s) = r + Had(s, d)
    BY <1>1, <1>4 DEF Counted
  <2>2. /\ after.due = NextSource(d)
        /\ \A s \in Fetched : NewIn(answers[s], after.merged) # {} =>
             /\ NewIn(answers[s], acc.merged) # {}
             /\ Got(after.merged, s) = Got(acc.merged, s) + (IF d = s THEN 1 ELSE 0)
        /\ Once(after.merged)
    <3>1. CASE new = {}
      <4>1. after = [merged |-> acc.merged, due |-> NextSource(d)]
        BY <1>4, <3>1 DEF Turn
      <4>2. \A s \in Fetched : Got(acc.merged, s) \in Nat
        BY <1>1, GotType
      <4>3. \A s \in Fetched : NewIn(answers[s], acc.merged) # {} => s # d
        BY <3>1
      <4> HIDE DEF d, after
      <4> QED BY <1>1, <4>1, <4>2, <4>3
    <3>2. CASE new # {}
      <4> DEFINE x == [ip |-> answer[Least(new)], by |-> d]
                 m == Append(acc.merged, x)
      <4>1. after = [merged |-> m, due |-> NextSource(d)]
        BY <1>4, <3>2 DEF Turn
      <4>2. x \in Merged /\ x.by = d /\ \A j \in DOMAIN acc.merged : acc.merged[j].ip # x.ip
        BY <1>1, <3>2, NewestTaken, NewestIsNew DEF Merged
      <4>3. \A s : /\ Got(m, s) = Got(acc.merged, s) + (IF d = s THEN 1 ELSE 0)
                   /\ NewIn(answers[s], m) # {} => NewIn(answers[s], acc.merged) # {}
        <5> HIDE DEF x, d
        <5> QED BY <1>1, <4>2, GotAppended, NewInAppended
      <4>4. Once(m)
        <5> DEFINE k == Len(acc.merged)
        <5>1. /\ DOMAIN acc.merged = 1..k /\ DOMAIN m = 1..k + 1 /\ k \in Nat
              /\ m[k + 1] = x /\ \A i \in 1..k : m[i] = acc.merged[i]
          BY <1>1
        <5> HIDE DEF m, x, k
        <5>2. \A i \in 1..k + 1 : i \in 1..k \/ i = k + 1
          BY <5>1
        <5> QED BY <1>1, <4>2, <5>1, <5>2
      <4> HIDE DEF m, d, after
      <4> QED BY <4>1, <4>3, <4>4
    <3> QED BY <3>1, <3>2
  <2>3. \E q \in Nat : /\ n + 1 = q * R + (NextSource(d) - 1)
                       /\ \A s \in Fetched : r + Had(s, d) + (IF d = s THEN 1 ELSE 0)
                                               = q + Had(s, NextSource(d))
    <3>1. R \in Nat /\ R # 0 /\ Fetched = 1..R
      BY SupplyAssumption DEF Fetched
    <3>2. NextSource(d) = IF d = R THEN 1 ELSE d + 1
      BY DEF NextSource
    <3>3. (r + 1) * R = r * R + R /\ r * R \in Nat
      BY <3>1
    <3> DEFINE product == r * R
    <3> HIDE DEF R, d, product
    <3>4. CASE d = R
      <4>1. n + 1 = (r + 1) * R + (NextSource(d) - 1)
        BY <1>1, <2>1, <3>1, <3>2, <3>3, <3>4 DEF product
      <4>2. \A s \in Fetched : r + Had(s, d) + (IF d = s THEN 1 ELSE 0) = (r + 1) + Had(s, NextSource(d))
        BY <1>1, <3>1, <3>2, <3>4
      <4> QED BY <4>1, <4>2
    <3>5. CASE d # R
      <4>1. n + 1 = r * R + (NextSource(d) - 1)
        BY <1>1, <2>1, <3>1, <3>2, <3>3, <3>5 DEF product
      <4>2. \A s \in Fetched : r + Had(s, d) + (IF d = s THEN 1 ELSE 0) = r + Had(s, NextSource(d))
        BY <1>1, <3>1, <3>2, <3>5
      <4> QED BY <4>1, <4>2
    <3> QED BY <3>4, <3>5
  <2>4. PICK q \in Nat : /\ n + 1 = q * R + (NextSource(d) - 1)
                         /\ \A s \in Fetched : r + Had(s, d) + (IF d = s THEN 1 ELSE 0)
                                                 = q + Had(s, NextSource(d))
    BY <2>3
  <2>5. \A s \in Fetched : NewIn(answers[s], after.merged) # {} =>
            Got(after.merged, s) = q + Had(s, NextSource(d))
    <3> HIDE DEF Had, d, after
    <3> QED BY <2>1, <2>2, <2>4
  <2>6. Counted(answers, room, after, n + 1)
    <3> HIDE DEF d, after
    <3> QED BY <1>2, <2>2, <2>4, <2>5 DEF Counted
  <2> QED BY <2>6
<1> QED BY <1>3, <1>4

\* The rounds are enough: the merge ends full, or with nothing new left in any answer.
THEOREM RoundRobinComplete ==
    ASSUME NEW answers \in [Fetched -> Seq(Addresses)], NEW room \in Nat
    PROVE  LET merged == RoundRobin(answers, room)
           IN  /\ \A i, j \in DOMAIN merged : merged[i].ip = merged[j].ip => i = j
               /\ Len(merged) >= room \/ \A s \in Fetched : NewIn(answers[s], merged) = {}
<1>1. PICK merge : /\ merge[0] = [merged |-> <<>>, due |-> 1]
                   /\ \A n \in 1..Turns : merge[n] = Turn(merge[n - 1], answers, room)
                   /\ RoundRobin(answers, room) = merge[Turns].merged
  BY RoundRobinUnfolds
<1> DEFINE T == {n \in Nat : n <= Turns => Counted(answers, room, merge[n], n)}
<1>2. 0 \in T
  <2> DEFINE none == [merged |-> <<>>, due |-> 1]
  <2>1. none \in Merges /\ Fair(answers, none)
    BY MergeBegins
  <2>2. \A s : Got(<<>>, s) = 0
    <3> TAKE s
    <3>1. {i \in DOMAIN <<>> : <<>>[i].by = s} = {}
      OBVIOUS
    <3> QED BY <3>1, FS_EmptySet DEF Got
  <2>3. 0 = 0 * Len(Sources) + (1 - 1) /\ \A s \in Fetched : ~(s < 1)
    BY SupplyAssumption DEF Fetched
  <2>4. Counted(answers, room, none, 0)
    BY <2>1, <2>2, <2>3 DEF Counted
  <2> QED BY <1>1, <2>4
<1>3. ASSUME NEW n \in Nat, n \in T PROVE n + 1 \in T
  <2> SUFFICES ASSUME n + 1 <= Turns PROVE Counted(answers, room, merge[n + 1], n + 1)
    OBVIOUS
  <2>1. n + 1 \in 1..Turns /\ (n + 1) - 1 = n /\ n <= Turns
    BY TurnsType
  <2>2. Counted(answers, room, merge[n], n)
    BY <1>3, <2>1
  <2>3. merge[n + 1] = Turn(merge[n], answers, room)
    BY <1>1, <2>1
  <2> QED BY <2>2, <2>3, TurnCounted
<1> DEFINE last == merge[Turns]
           m    == last.merged
<1>4. Counted(answers, room, last, Turns)
  <2>1. Turns \in T
    <3> HIDE DEF T
    <3> QED BY <1>2, <1>3, Numbers, TurnsType
  <2> QED BY <2>1, TurnsType
<1> HIDE DEF last
<1>5. ASSUME Len(m) < room, NEW s \in Fetched, NewIn(answers[s], m) # {} PROVE FALSE
  <2> DEFINE C == Cardinality(Addresses)
             R == Len(Sources)
  <2>1. PICK r \in Nat : Turns = r * R + (last.due - 1) /\ Got(m, s) = r + (IF s < last.due THEN 1 ELSE 0)
    BY <1>4, <1>5 DEF Counted
  <2>2. C \in Nat /\ R \in Nat /\ R # 0 /\ last.due \in 1..R /\ Turns = C * R /\ s \in Nat
    <3>1. C \in Nat
      BY SupplyAssumption, FS_CardinalityType
    <3> QED BY <1>4, <3>1, SupplyAssumption DEF Counted, Merges, Fetched, Turns
  <2>3. r >= C
    <3> HIDE DEF C, R
    <3> SUFFICES ASSUME r + 1 <= C PROVE FALSE
      BY <2>2
    <3> DEFINE done == r * R
               all  == C * R
    <3>1. (r + 1) * R <= all
      BY <2>2
    <3>2. (r + 1) * R = done + R /\ done \in Nat /\ all \in Nat
      BY <2>2
    <3>3. all = done + (last.due - 1)
      BY <2>1, <2>2
    <3> HIDE DEF done, all
    <3> QED BY <2>2, <3>1, <3>2, <3>3
  <2>4. Got(m, s) >= C
    <3> HIDE DEF C, m
    <3> QED BY <2>1, <2>2, <2>3
  <2> DEFINE k == Len(m)
             own == {i \in 1..k : m[i].by = s}
  <2>5. /\ m \in Seq(Merged) /\ k \in Nat /\ DOMAIN m = 1..k
        /\ \A i \in 1..k : m[i] \in Merged
        /\ \A i, j \in 1..k : m[i].ip = m[j].ip => i = j
    BY <1>4 DEF Counted, Merges
  <2>6. Got(m, s) <= k
    <3>1. Got(m, s) = Cardinality(own) /\ own \subseteq 1..k
      BY <2>5 DEF Got
    <3> HIDE DEF own, k
    <3>2. IsFiniteSet(1..k) /\ Cardinality(1..k) = k
      BY <2>5, FS_Interval
    <3> QED BY <3>1, <3>2, FS_Subset
  <2>7. PICK i \in DOMAIN answers[s] : \A j \in DOMAIN m : m[j].ip # answers[s][i]
    BY <1>5 DEF NewIn
  <2> DEFINE x      == answers[s][i]
             others == Addresses \ {x}
             ip     == [j \in 1..k |-> m[j].ip]
  <2>8. x \in Addresses
    BY <2>7
  <2>9. IsFiniteSet(others) /\ Cardinality(others) = C - 1
    <3> HIDE DEF x
    <3> QED BY <2>8, SupplyAssumption, FS_RemoveElement
  <2>10. ip \in Injection(1..k, others)
    <3>1. \A j \in 1..k : m[j].ip \in others
      BY <2>5, <2>7 DEF Merged
    <3> HIDE DEF x, others, k, m
    <3>2. ip \in [1..k -> others] /\ \A h, j \in 1..k : ip[h] = ip[j] => h = j
      BY <2>5, <3>1
    <3> QED BY <3>2 DEF Injection, IsInjective
  <2>11. k <= C - 1
    <3> HIDE DEF ip, others, k
    <3>1. Cardinality(1..k) = k
      BY <2>5, FS_Interval
    <3> QED BY <2>9, <2>10, <3>1, FS_Injection
  <2>12. Got(m, s) \in Nat /\ k \in Nat /\ C \in Nat
    <3> HIDE DEF k, C, m
    <3> QED BY <2>2, <2>5, GotType
  <2> HIDE DEF k, C, m, last
  <2> QED BY <2>4, <2>6, <2>11, <2>12
<1>6. RoundRobin(answers, room) = m
  BY <1>1 DEF last
<1>7. \A i, j \in DOMAIN m : m[i].ip = m[j].ip => i = j
  BY <1>4 DEF Counted
<1>8. Len(m) >= room \/ \A s \in Fetched : NewIn(answers[s], m) = {}
  <2>1. Len(m) \in Nat
    BY <1>4 DEF Counted, Merges
  <2> HIDE DEF m
  <2> QED BY <1>5, <2>1
<1> HIDE DEF m
<1> QED BY <1>6, <1>7, <1>8

-----------------------------------------------------------------------------
(* The inductive invariant.                                                *)

\* A list that may become the snapshot.
Publishable(list) == list \in Lists /\ Len(list.ips) <= TotalCap /\ ListedOnce(list)

ListsInv ==
    /\ Publishable(offered)
    /\ refresh = [pc |-> refresh.pc, list |-> refresh.list,
                  answers |-> refresh.answers, merged |-> refresh.merged]
    /\ refresh.pc \in {"idle", "fetch", "copy", "publish"}
    /\ Publishable(refresh.list)
    /\ ReserveLeft
    /\ FairMerge

\* The accounts agree with what happened; a backoff is earned and ends in time.
AccountsInv ==
    /\ health \in [Fetched -> [fails : 0..FailsBound, wait : 0..MaxBackoff]]
    /\ unheard \in [Fetched -> [fails : 0..FailsBound, since : 0..MaxBackoff]]
    /\ \A s \in Fetched :
          /\ health[s].fails = unheard[s].fails
          /\ health[s].wait > 0 => /\ unheard[s].fails >= BackoffAfter
                                   /\ health[s].wait + unheard[s].since <= MaxBackoff

SupplyInv == ListsInv /\ AccountsInv

LEMMA NothingPublishable == Publishable(Nothing)
BY SupplyAssumption DEF Publishable, Nothing, Unclaimed, Lists, ListedOnce

LEMMA SupplyInvInit == SupplyInit => SupplyInv
<1> SUFFICES ASSUME SupplyInit PROVE SupplyInv
  OBVIOUS
<1>1. ListsInv
  <2>1. offered = Nothing /\ refresh = NoRefresh
    BY DEF SupplyInit
  <2>2. Publishable(offered) /\ Publishable(refresh.list)
    BY <2>1, NothingPublishable DEF NoRefresh
  <2> QED BY <2>1, <2>2 DEF ListsInv, NoRefresh, ReserveLeft, FairMerge
<1>2. AccountsInv
  BY SupplyAssumption DEF SupplyInit, AccountsInv, FailsBound
<1> QED BY <1>1, <1>2 DEF SupplyInv

LEMMA SubscriptionQuotaType ==
    ASSUME NEW list \in Lists
    PROVE  /\ SubscriptionQuota(list) \in Nat
           /\ \/ SubscriptionQuota(list) = 0
              \/ Len(list.ips) + SubscriptionQuota(list) <= TotalCap - Reserve
BY SupplyAssumption DEF SubscriptionQuota, Capped, Lists

LEMMA BeginRefreshKeeps == ASSUME ListsInv, BeginRefresh PROVE ListsInv'
<1>1. PICK own \in UserLists, cfdata \in CfdataLists, sub \in SubscriptionLists :
        LET user    == Group(Nothing, "user", own, UserCap)
            scanned == Group(user, "cfdata", FirstOf(cfdata, CfdataCap), CfdataCap)
            quota   == SubscriptionQuota(scanned)
        IN  refresh' = [NoRefresh EXCEPT !.pc = "fetch",
                            !.list = Group(scanned, "subscription", FirstOf(sub, quota), quota)]
  BY DEF BeginRefresh
<1> DEFINE user    == Group(Nothing, "user", own, UserCap)
           scanned == Group(user, "cfdata", FirstOf(cfdata, CfdataCap), CfdataCap)
           quota   == SubscriptionQuota(scanned)
           list    == Group(scanned, "subscription", FirstOf(sub, quota), quota)
<1>2. refresh' = [pc |-> "fetch", list |-> list, answers |-> <<>>, merged |-> <<>>]
  BY <1>1 DEF NoRefresh
<1>3. own \in Seq(Addresses) /\ cfdata \in Seq(Addresses) /\ sub \in Seq(Addresses)
  BY ListsAssumption
<1>4. {UserCap, CfdataCap} \subseteq Nat /\ {"user", "cfdata", "subscription"} \subseteq Layers
  BY SupplyAssumption DEF Layers
<1>5. Publishable(user) /\ \A b \in Addresses : user.from[b] \in {"none", "user"}
  <2>1. Publishable(Nothing) /\ \A b \in Addresses : Nothing.from[b] = "none"
    BY NothingPublishable DEF Nothing, Unclaimed
  <2> QED BY <1>3, <1>4, <2>1, GroupKeeps DEF Publishable
<1> HIDE DEF user
<1>6. Publishable(scanned) /\ \A b \in Addresses : scanned.from[b] \in {user.from[b], "cfdata"}
  <2>1. FirstOf(cfdata, CfdataCap) \in Seq(Addresses)
    BY <1>3, <1>4, FirstOfType
  <2> QED BY <1>4, <1>5, <2>1, GroupKeeps DEF Publishable
<1> HIDE DEF scanned
<1>7. quota \in Nat /\ (quota = 0 \/ Len(scanned.ips) + quota <= TotalCap - Reserve)
  BY <1>6, SubscriptionQuotaType DEF Publishable
<1> HIDE DEF quota
<1>8. /\ Publishable(list) /\ Len(list.ips) <= Len(scanned.ips) + quota
      /\ quota = 0 => list = scanned
  <2>1. FirstOf(sub, quota) \in Seq(Addresses)
    BY <1>3, <1>7, FirstOfType
  <2> QED BY <1>4, <1>6, <1>7, <2>1, GroupKeeps DEF Publishable
<1> HIDE DEF list
<1>9. \A a \in Addresses : scanned.from[a] # "subscription"
  BY <1>5, <1>6
<1>10. Len(list.ips) \in Nat /\ Len(scanned.ips) \in Nat /\ TotalCap \in Nat /\ Reserve \in Nat
  BY <1>6, <1>8, SupplyAssumption DEF Publishable, Lists
<1>11. Len(list.ips) <= TotalCap - Reserve \/ \A a \in Addresses : list.from[a] # "subscription"
  BY <1>7, <1>8, <1>9, <1>10
<1>12. ReserveLeft' /\ FairMerge'
  BY <1>2, <1>11 DEF ReserveLeft, FairMerge
<1>13. Publishable(offered)'
  BY DEF BeginRefresh, ListsInv, Publishable, Lists, ListedOnce
<1>14. Publishable(refresh.list)'
  BY <1>2, <1>8 DEF Publishable, Lists, ListedOnce
<1> QED BY <1>2, <1>12, <1>13, <1>14 DEF ListsInv

LEMMA FetchSourcesKeepsLists == ASSUME ListsInv, FetchSources PROVE ListsInv'
<1>1. Publishable(offered)'
  BY DEF FetchSources, ListsInv, Publishable, Lists, ListedOnce
<1> DEFINE room == TotalCap - Len(refresh.list.ips)
<1>2. CASE room <= 0
  <2>1. refresh' = [refresh EXCEPT !.pc = "publish"]
    BY <1>2 DEF FetchSources
  <2>2. /\ refresh'.pc = "publish" /\ refresh'.list = refresh.list
        /\ refresh'.answers = refresh.answers /\ refresh'.merged = refresh.merged
        /\ refresh' = [pc |-> "publish", list |-> refresh.list,
                       answers |-> refresh.answers, merged |-> refresh.merged]
    BY <2>1 DEF ListsInv
  <2>3. Publishable(refresh.list)' /\ FairMerge' /\ ReserveLeft'
    BY <2>2 DEF ListsInv, Publishable, Lists, ListedOnce, FairMerge, ReserveLeft
  <2> QED BY <1>1, <2>2, <2>3 DEF ListsInv
<1>3. CASE ~(room <= 0)
  <2> DEFINE Answers(ok, got) == [s \in Fetched |-> IF s \in ok THEN got[s] ELSE <<>>]
  <2>1. \E ok \in SUBSET Targets : \E got \in [ok -> SourceLists] :
          refresh' = Merging(Answers(ok, got), room)
    BY <1>3 DEF FetchSources
  <2>2. ASSUME NEW ok, NEW got \in [ok -> SourceLists]
        PROVE  Answers(ok, got) \in [Fetched -> Seq(Addresses)]
    BY ListsAssumption
  <2>3. PICK answers \in [Fetched -> Seq(Addresses)] : refresh' = Merging(answers, room)
    <3> HIDE DEF Answers, room
    <3> QED BY <2>1, <2>2
  <2> DEFINE merged == RoundRobin(answers, room)
             values == [i \in DOMAIN merged |-> merged[i].ip]
             list   == Group(refresh.list, "bestcf", values, room)
  <2>4. /\ refresh'.pc \in {"copy", "publish"} /\ refresh'.list = list
        /\ refresh'.answers = answers /\ refresh'.merged = merged
        /\ refresh' = [pc |-> refresh'.pc, list |-> refresh'.list,
                       answers |-> refresh'.answers, merged |-> refresh'.merged]
    BY <2>3 DEF Merging
  <2>5. DOMAIN answers = Fetched
    OBVIOUS
  <2>6. /\ merged \in Seq(Merged)
        /\ \A s, t \in Fetched : NewIn(answers[s], merged) # {}
                                     => Got(merged, t) <= Got(merged, s) + 1
    BY RoundRobinFair
  <2> HIDE DEF merged
  <2>7. values \in Seq(Addresses)
    <3> DEFINE n == Len(merged)
    <3>1. n \in Nat /\ DOMAIN merged = 1..n /\ \A i \in 1..n : merged[i] \in Merged
      BY <2>6
    <3> HIDE DEF n
    <3>2. values \in [1..n -> Addresses]
      BY <3>1 DEF Merged
    <3> QED BY <3>1, <3>2
  <2>8. room \in Nat /\ "bestcf" \in Layers
    BY <1>3, SupplyAssumption DEF ListsInv, Publishable, Lists, Layers
  <2> HIDE DEF values, room
  <2>9. Publishable(list)
    BY <2>7, <2>8, GroupKeeps DEF ListsInv, Publishable
  <2> HIDE DEF list
  <2>10. FairMerge'
    <3>1. \A s, t \in DOMAIN answers :
            NewIn(answers[s], merged) # {} => Got(merged, t) <= Got(merged, s) + 1
      BY <2>5, <2>6
    <3> QED BY <2>4, <3>1 DEF FairMerge, NewIn, Got
  <2>11. Publishable(refresh.list)' /\ ReserveLeft'
    BY <2>4, <2>9 DEF Publishable, Lists, ListedOnce, ReserveLeft
  <2> QED BY <1>1, <2>4, <2>10, <2>11 DEF ListsInv
<1> QED BY <1>2, <1>3

LEMMA SnapshotKeeps ==
    ASSUME ListsInv, Publish \/ CopyOld \/ RemoveCandidate \/ PushCfdata
    PROVE  ListsInv'
<1>1. ASSUME Publishable(offered'), UNCHANGED refresh PROVE ListsInv'
  BY <1>1 DEF ListsInv, Publishable, Lists, ListedOnce, ReserveLeft, FairMerge
<1>2. CASE Publish
  <2>1. offered' = refresh.list /\ refresh' = NoRefresh
    BY <1>2 DEF Publish
  <2>2. Publishable(offered') /\ Publishable(refresh'.list)
    BY <2>1, NothingPublishable DEF ListsInv, NoRefresh
  <2>3. ReserveLeft' /\ FairMerge'
    BY <2>1 DEF NoRefresh, ReserveLeft, FairMerge
  <2>4. Publishable(offered)' /\ Publishable(refresh.list)'
    BY <2>2 DEF Publishable, Lists, ListedOnce
  <2> QED BY <2>1, <2>3, <2>4 DEF ListsInv, NoRefresh
<1>3. CASE CopyOld
  <2>1. /\ refresh' = [pc |-> "publish", list |-> offered,
                       answers |-> refresh.answers, merged |-> refresh.merged]
        /\ offered' = offered
    BY <1>3 DEF CopyOld, ListsInv
  <2>2. Publishable(offered') /\ Publishable(refresh'.list)
    BY <2>1 DEF ListsInv
  <2>3. ReserveLeft' /\ FairMerge'
    BY <2>1 DEF ReserveLeft, FairMerge, ListsInv
  <2>4. Publishable(offered)' /\ Publishable(refresh.list)'
    BY <2>2 DEF Publishable, Lists, ListedOnce
  <2> QED BY <2>1, <2>3, <2>4 DEF ListsInv
<1>4. CASE RemoveCandidate
  <2>1. PICK a \in Addresses :
          offered' = [ips  |-> Without(offered.ips, a),
                      from |-> [offered.from EXCEPT ![a] = "none"]]
    BY <1>4 DEF RemoveCandidate
  <2> DEFINE rest == Without(offered.ips, a)
  <2>2. offered.ips \in Seq(Addresses) /\ offered.from \in [Addresses -> Layers \cup {"none"}]
    BY DEF ListsInv, Publishable, Lists
  <2>3. /\ rest \in Seq(Addresses) /\ Len(rest) <= Len(offered.ips)
        /\ \A i \in DOMAIN rest :
              rest[i] # a /\ \E j \in DOMAIN offered.ips : offered.ips[j] = rest[i]
        /\ \A i, j \in DOMAIN rest : rest[i] = rest[j] => i = j
    BY <2>2, WithoutKeeps DEF ListsInv, Publishable, ListedOnce
  <2> HIDE DEF rest
  <2>4. offered' = [ips |-> rest, from |-> [offered.from EXCEPT ![a] = "none"]]
    BY <2>1 DEF rest
  <2>5. offered' \in Lists /\ offered'.ips = rest
    BY <2>2, <2>3, <2>4 DEF Lists
  <2>6. \A i \in DOMAIN rest : offered'.from[rest[i]] # "none"
    <3> SUFFICES ASSUME NEW i \in DOMAIN rest PROVE offered'.from[rest[i]] # "none"
      OBVIOUS
    <3>1. PICK j \in DOMAIN offered.ips : offered.ips[j] = rest[i]
      BY <2>3
    <3>2. rest[i] # a /\ rest[i] \in Addresses
      BY <2>2, <2>3
    <3>3. offered.from[rest[i]] # "none"
      BY <3>1 DEF ListsInv, Publishable, ListedOnce
    <3> QED BY <2>2, <2>4, <3>2, <3>3
  <2>7. Len(rest) <= TotalCap
    BY <2>2, <2>3, SupplyAssumption DEF ListsInv, Publishable
  <2>8. Publishable(offered')
    BY <2>3, <2>5, <2>6, <2>7 DEF Publishable, ListedOnce
  <2> QED BY <1>1, <1>4, <2>8 DEF RemoveCandidate
<1>5. CASE PushCfdata
  <2>1. PICK a \in Addresses : offered' = Pushed(a)
    BY <1>5 DEF PushCfdata
  <2>2. CASE offered.from[a] # "none"
    <3>1. offered' = offered
      BY <2>1, <2>2 DEF Pushed
    <3> QED BY <1>1, <1>5, <3>1 DEF PushCfdata, ListsInv
  <2>3. CASE offered.from[a] = "none"
    <3> DEFINE longer == Append(offered.ips, a)
               cut    == FirstOf(longer, TotalCap)
               n      == Len(offered.ips)
    <3>1. /\ offered.ips \in Seq(Addresses) /\ offered.from \in [Addresses -> Layers \cup {"none"}]
          /\ n \in Nat /\ TotalCap \in Nat /\ n <= TotalCap
      BY SupplyAssumption DEF ListsInv, Publishable, Lists
    <3>2. /\ longer \in Seq(Addresses) /\ Len(longer) = n + 1 /\ longer[n + 1] = a
          /\ \A i \in 1..n : longer[i] = offered.ips[i]
      BY <3>1
    <3>3. DOMAIN offered.ips = 1..n
      BY <3>1
    <3>4. /\ \A i \in 1..n : longer[i] # a /\ offered.from[longer[i]] # "none"
          /\ \A i, j \in 1..n : longer[i] = longer[j] => i = j
      BY <2>3, <3>2, <3>3 DEF ListsInv, Publishable, ListedOnce
    <3>5. offered' = [ips |-> cut, from |-> [offered.from EXCEPT ![a] = "cfdata"]]
      BY <2>1, <2>3 DEF Pushed
    <3> HIDE DEF longer, n
    <3>6. /\ cut \in Seq(Addresses) /\ Len(cut) = Capped(TotalCap, n + 1)
          /\ \A i \in 1..Len(cut) : cut[i] = longer[i]
      BY <3>1, <3>2, FirstOfType
    <3> HIDE DEF cut
    <3>7. \A i \in 1..Len(cut) : i \in 1..n \/ i = n + 1
      BY <3>1, <3>6 DEF Capped
    <3>8. Len(cut) <= TotalCap
      BY <3>1, <3>6 DEF Capped
    <3>9. offered' \in Lists /\ offered'.ips = cut
      BY <3>1, <3>5, <3>6 DEF Lists, Layers
    <3>10. \A i, j \in 1..Len(cut) : cut[i] = cut[j] => i = j
      BY <3>2, <3>4, <3>6, <3>7
    <3>11. ASSUME NEW i \in 1..Len(cut) PROVE offered'.from[cut[i]] # "none"
      <4>1. CASE i \in 1..n
        BY <3>1, <3>4, <3>5, <3>6, <4>1
      <4>2. CASE i = n + 1
        BY <3>1, <3>2, <3>5, <3>6, <4>2
      <4> QED BY <3>7, <4>1, <4>2
    <3>12. DOMAIN cut = 1..Len(cut)
      BY <3>6
    <3>13. Publishable(offered')
      BY <3>8, <3>9, <3>10, <3>11, <3>12 DEF Publishable, ListedOnce
    <3> QED BY <1>1, <1>5, <3>13 DEF PushCfdata
  <2> QED BY <2>2, <2>3
<1> QED BY <1>2, <1>3, <1>4, <1>5

LEMMA TickKeepsLists == ASSUME ListsInv, UNCHANGED <<offered, refresh>> PROVE ListsInv'
BY DEF ListsInv, Publishable, Lists, ListedOnce, ReserveLeft, FairMerge

-----------------------------------------------------------------------------
(* The accounts.                                                           *)

LEMMA FetchSourcesKeepsAccounts == ASSUME AccountsInv, FetchSources PROVE AccountsInv'
<1>1. CASE UNCHANGED <<health, unheard>>
  BY <1>1 DEF AccountsInv
<1>2. CASE ~UNCHANGED <<health, unheard>>
  <2>1. PICK ok \in SUBSET Targets :
          /\ health' = [s \in Fetched |->
                 IF s \in Targets THEN Health(health[s], s \in ok) ELSE health[s]]
          /\ unheard' = [s \in Fetched |->
                 IF s \notin Targets THEN unheard[s]
                 ELSE [fails |-> IF s \in ok THEN 0 ELSE Capped(FailsBound, unheard[s].fails + 1),
                       since |-> 0]]
    BY <1>2 DEF FetchSources
  <2>2. /\ BackoffAfter \in Nat /\ BackoffAfter # 0 /\ MaxBackoff \in Nat /\ MaxBackoff # 0
        /\ FailsBound = BackoffAfter + MaxBackoff
    BY SupplyAssumption DEF FailsBound
  <2>3. ASSUME NEW s \in Fetched
        PROVE  /\ health'[s] \in [fails : 0..FailsBound, wait : 0..MaxBackoff]
               /\ unheard'[s] \in [fails : 0..FailsBound, since : 0..MaxBackoff]
               /\ health'[s].fails = unheard'[s].fails
               /\ health'[s].wait > 0 => /\ unheard'[s].fails >= BackoffAfter
                                         /\ health'[s].wait + unheard'[s].since <= MaxBackoff
    <3> DEFINE h == health[s]
               u == unheard[s]
    <3>1. /\ h \in [fails : 0..FailsBound, wait : 0..MaxBackoff]
          /\ u \in [fails : 0..FailsBound, since : 0..MaxBackoff]
          /\ h.fails = u.fails
          /\ h.wait > 0 => u.fails >= BackoffAfter /\ h.wait + u.since <= MaxBackoff
      BY DEF AccountsInv
    <3>2. CASE s \notin Targets
      <4>1. health'[s] = h /\ unheard'[s] = u
        BY <2>1, <3>2
      <4> QED BY <3>1, <4>1
    <3>3. CASE s \in Targets /\ s \in ok
      <4>1. health'[s] = [fails |-> 0, wait |-> 0] /\ unheard'[s] = [fails |-> 0, since |-> 0]
        BY <2>1, <3>3 DEF Health
      <4> QED BY <2>2, <4>1
    <3>4. CASE s \in Targets /\ s \notin ok
      <4> DEFINE fails == Capped(FailsBound, h.fails + 1)
                 wait  == IF fails < BackoffAfter THEN h.wait
                          ELSE Capped(MaxBackoff, 2 ^ (fails - BackoffAfter))
      <4>1. /\ health'[s] = [fails |-> fails, wait |-> wait]
            /\ unheard'[s] = [fails |-> fails, since |-> 0]
        <5>1. health'[s] = [fails |-> fails, wait |-> wait]
          BY <2>1, <3>4 DEF Health
        <5>2. unheard'[s] = [fails |-> Capped(FailsBound, u.fails + 1), since |-> 0]
          BY <2>1, <3>4
        <5> QED BY <3>1, <5>1, <5>2
      <4>2. fails \in 0..FailsBound /\ (fails >= h.fails \/ fails >= BackoffAfter)
        BY <2>2, <3>1 DEF Capped
      <4>3. wait \in 0..MaxBackoff /\ (wait > 0 => fails >= BackoffAfter)
        <5> HIDE DEF h, u, fails
        <5>1. CASE fails < BackoffAfter
          BY <2>2, <3>1, <4>2, <5>1
        <5>2. CASE ~(fails < BackoffAfter)
          <6> DEFINE power == 2 ^ (fails - BackoffAfter)
          <6>1. power \in Nat
            <7>1. fails - BackoffAfter \in Nat
              BY <2>2, <4>2, <5>2
            <7> QED BY <7>1, Powers
          <6> HIDE DEF power
          <6>2. wait = Capped(MaxBackoff, power)
            BY <5>2 DEF power
          <6> HIDE DEF wait
          <6> QED BY <2>2, <4>2, <5>2, <6>1, <6>2 DEF Capped
        <5> QED BY <5>1, <5>2
      <4> HIDE DEF fails, wait
      <4> QED BY <2>2, <4>1, <4>2, <4>3
    <3> QED BY <3>2, <3>3, <3>4
  <2>4. health' = [s \in Fetched |-> health'[s]] /\ unheard' = [s \in Fetched |-> unheard'[s]]
    BY <2>1
  <2> QED BY <2>3, <2>4 DEF AccountsInv
<1> QED BY <1>1, <1>2

LEMMA TickKeepsAccounts == ASSUME AccountsInv, Tick PROVE AccountsInv'
<1>1. /\ BackoffAfter \in Nat /\ BackoffAfter # 0 /\ MaxBackoff \in Nat /\ MaxBackoff # 0
      /\ FailsBound = BackoffAfter + MaxBackoff
  BY SupplyAssumption DEF FailsBound
<1>2. ASSUME NEW s \in Fetched
      PROVE  /\ health'[s] \in [fails : 0..FailsBound, wait : 0..MaxBackoff]
             /\ unheard'[s] \in [fails : 0..FailsBound, since : 0..MaxBackoff]
             /\ health'[s].fails = unheard'[s].fails
             /\ health'[s].wait > 0 => /\ unheard'[s].fails >= BackoffAfter
                                       /\ health'[s].wait + unheard'[s].since <= MaxBackoff
  <2> DEFINE h == health[s]
             u == unheard[s]
  <2>1. /\ h \in [fails : 0..FailsBound, wait : 0..MaxBackoff]
        /\ u \in [fails : 0..FailsBound, since : 0..MaxBackoff]
        /\ h.fails = u.fails
        /\ h.wait > 0 => u.fails >= BackoffAfter /\ h.wait + u.since <= MaxBackoff
    BY DEF AccountsInv
  <2>2. /\ health'[s] = [fails |-> h.fails, wait |-> IF h.wait = 0 THEN 0 ELSE h.wait - 1]
        /\ unheard'[s] = [fails |-> u.fails, since |-> Capped(MaxBackoff, u.since + 1)]
    BY <2>1 DEF Tick
  <2> HIDE DEF h, u
  <2> QED BY <1>1, <2>1, <2>2 DEF Capped
<1>3. health' = [s \in Fetched |-> health'[s]] /\ unheard' = [s \in Fetched |-> unheard'[s]]
  BY DEF Tick
<1> QED BY <1>2, <1>3 DEF AccountsInv

LEMMA SupplyInvNext == SupplyInv /\ [SupplyNext]_supplyVars => SupplyInv'
<1> SUFFICES ASSUME SupplyInv, [SupplyNext]_supplyVars PROVE SupplyInv'
  OBVIOUS
<1> USE DEF SupplyInv
<1>1. ASSUME UNCHANGED <<health, unheard>> PROVE AccountsInv'
  BY <1>1 DEF AccountsInv
<1>2. CASE BeginRefresh
  BY <1>1, <1>2, BeginRefreshKeeps DEF BeginRefresh
<1>3. CASE FetchSources
  BY <1>3, FetchSourcesKeepsLists, FetchSourcesKeepsAccounts
<1>4. CASE Publish \/ CopyOld \/ RemoveCandidate \/ PushCfdata
  BY <1>1, <1>4, SnapshotKeeps DEF Publish, CopyOld, RemoveCandidate, PushCfdata
<1>5. CASE Tick
  BY <1>5, TickKeepsAccounts, TickKeepsLists DEF Tick
<1>6. CASE UNCHANGED supplyVars
  BY <1>1, <1>6, TickKeepsLists DEF supplyVars
<1> QED BY <1>2, <1>3, <1>4, <1>5, <1>6 DEF SupplyNext

-----------------------------------------------------------------------------
(* The theorems.                                                           *)

\* Every behaviour keeps the inductive invariant: snapshots and refreshes that may
\* be published (candidates.go, preferred.go), and accounts that agree with history.
THEOREM SupplyInvHolds == SupplySpec => []SupplyInv
BY SupplyInvInit, SupplyInvNext, PTL DEF SupplySpec

\* Types, and the cap of the snapshot and of a refresh under way.
THEOREM SupplyTypesCorrect == SupplySpec => []SupplyTypes
<1>1. SupplyInv => SupplyTypes
  BY DEF SupplyInv, ListsInv, AccountsInv, Publishable, Lists, SupplyTypes
<1> QED BY <1>1, SupplyInvHolds, PTL

\* The snapshot lists nobody twice and knows the layer of everybody (appendGroup,
\* mergeCfdataIPsIntoCandidates, removeCandidateIP), however they interleave.
THEOREM EachOnceWithLayerCorrect == SupplySpec => []EachOnceWithLayer
<1>1. SupplyInv => EachOnceWithLayer
  BY DEF SupplyInv, ListsInv, Publishable, ListedOnce, EachOnceWithLayer
<1> QED BY <1>1, SupplyInvHolds, PTL

\* The subscriptions leave the community lists their reserve (refreshCandidates).
THEOREM ReserveLeftCorrect == SupplySpec => []ReserveLeft
<1>1. SupplyInv => ReserveLeft
  BY DEF SupplyInv, ListsInv
<1> QED BY <1>1, SupplyInvHolds, PTL

\* No list eats the room of another (the round robin of resolveProxySources).
THEOREM FairMergeCorrect == SupplySpec => []FairMerge
<1>1. SupplyInv => FairMerge
  BY DEF SupplyInv, ListsInv
<1> QED BY <1>1, SupplyInvHolds, PTL

\* A list is left out only after failures enough, and not for longer than MaxBackoff,
\* and never are all of them left out (recordSourceHealth, sourceInBackoff,
\* resolveProxySources).
THEOREM BackoffEarnedCorrect == SupplySpec => BackoffEarned
<1>1. SupplyInv => \A s \in Fetched : s \notin Targets =>
                     unheard[s].fails >= BackoffAfter /\ unheard[s].since < MaxBackoff
  <2> SUFFICES ASSUME SupplyInv, NEW s \in Fetched, s \notin Targets
               PROVE  unheard[s].fails >= BackoffAfter /\ unheard[s].since < MaxBackoff
    OBVIOUS
  <2>1. health[s].wait > 0
    BY DEF Targets, InBackoff
  <2> QED BY <2>1, SupplyAssumption DEF SupplyInv, AccountsInv
<1>2. Targets # {}
  <2>1. 1 \in Fetched
    BY SupplyAssumption DEF Fetched
  <2> QED BY <2>1 DEF Targets
<1>3. SupplyInv => [refresh.pc = "fetch" /\ refresh'.answers # <<>> =>
          /\ Targets # {}
          /\ \A s \in Fetched \ Targets :
                unheard[s].fails >= BackoffAfter /\ unheard[s].since < MaxBackoff]_supplyVars
  BY <1>1, <1>2
<1> QED BY <1>3, SupplyInvHolds, PTL DEF BackoffEarned

=============================================================================

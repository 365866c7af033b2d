------------------------- MODULE RamTopologyProofs -------------------------
(* Theorems about RamTopology, for every request and every unit.            *)
EXTENDS RamTopology, SequenceTheorems, TLAPS

USE DEF MMIO_HOLE_START, MMIO_HOLE_END

(* ---- Lemmas about products -------------------------------------------- *)

\* A product with a size in GiB is an integer, and grows with its factor.
LEMMA TimesGib ==
  ASSUME NEW a \in Int, NEW b \in Int, a <= b
  PROVE  a * GIB \in Int /\ a * GIB <= b * GIB
BY ScaleAssumption

LEMMA NextMultiple ==
  ASSUME NEW n \in Nat, NEW c \in Int
  PROVE  (n + 1) * c = n * c + c /\ n * c \in Int
OBVIOUS

\* Products by the unit compare as their factors do.
LEMMA LessTimesGib ==
  ASSUME NEW a \in Int, NEW b \in Int, a * GIB < b * GIB
  PROVE  a < b
BY TimesGib, ScaleAssumption

(* ---- The inductive invariant ------------------------------------------ *)

LEMMA InitInvariant == Init => IInv
BY RequestsAssumption DEF Init, IInv, TypeOK, Accounted, BanksFollow, SharesCapped,
   NodesFilled, Settled, Placing, BanksBelowStart, BanksSortedDisjoint

LEMMA LowMemoryInvariant ==
  ASSUME IInv, PlaceLowMemory
  PROVE  IInv'
<1> DEFINE r == request.ram_gib
<1>1. r \in Int /\ r >= 4 /\ 4 * GIB <= r * GIB /\ r * GIB \in Int
  BY TimesGib DEF IInv, TypeOK, PlaceLowMemory
<1>2. /\ regions' = Low /\ start' = MMIO_HOLE_END /\ taken' = MMIO_HOLE_START
      /\ remaining' = r * GIB - MMIO_HOLE_START
      /\ pc' = "place" /\ UNCHANGED <<request, node>> /\ node = 0
  BY DEF PlaceLowMemory, Low, IInv, Settled
<1>3. Low \in Seq([start : Nat, length : Nat]) /\ Len(Low) = 2
  BY ScaleAssumption DEF Low, Region
<1>4. NodeCap * GIB \in Int /\ NodeCap \in Int
  BY ScaleAssumption DEF NodeCap, IInv, TypeOK
<1>5. TypeOK'
  BY <1>1, <1>2, <1>3, ScaleAssumption DEF IInv, TypeOK
<1>6. Accounted' /\ BanksFollow' /\ Settled'
  BY <1>1, <1>2, <1>3, ScaleAssumption DEF Accounted, BanksFollow, Settled
<1>7. NodeCap' = NodeCap
  BY <1>2 DEF NodeCap
<1>8. SharesCapped' /\ NodesFilled'
  <2>1. 0 * (NodeCap * GIB) = 0
    BY <1>4
  <2>2. SharesCapped'
    BY <1>2, <1>3 DEF SharesCapped, NodeBanks
  <2>3. r * GIB - remaining' >= 0
    BY <1>1, <1>2, ScaleAssumption
  <2>4. NodesFilled'
    BY <1>2, <1>7, <2>1, <2>3 DEF NodesFilled
  <2> QED
    BY <2>2, <2>4
<1>9. /\ Low[1].start = 0 /\ Low[1].length = MMIO_HOLE_START
      /\ Low[2].start = MMIO_HOLE_END - 2 * MIB /\ Low[2].length = 2 * MIB
      /\ End(Low[1]) = MMIO_HOLE_START /\ End(Low[2]) = MMIO_HOLE_END
  BY ScaleAssumption DEF Low, Region, End
<1>10. MIB > 0 /\ GIB > 0 /\ MMIO_HOLE_START <= MMIO_HOLE_END - 2 * MIB
  BY ScaleAssumption
<1>11. BanksBelowStart' /\ BanksSortedDisjoint'
  BY <1>2, <1>3, <1>9, <1>10, ScaleAssumption DEF BanksBelowStart, BanksSortedDisjoint, End
<1> QED
  BY <1>5, <1>6, <1>8, <1>11 DEF IInv

LEMMA PlaceNodeInvariant ==
  ASSUME IInv, PlaceNode
  PROVE  IInv'
<1> DEFINE cap == NodeCap * GIB
           ram == request.ram_gib * GIB
           n == Len(regions)
           bank == Region(start, Share)
<1>1. /\ pc = "place" /\ pc' = "place" /\ node < request.numa_nodes
      /\ taken' = 0 /\ node' = node + 1 /\ request' = request
      /\ Placing /\ Placing'
  BY DEF PlaceNode, Placing
<1>2. NodeCap \in Int /\ cap \in Int /\ cap' = cap /\ ram \in Int /\ ram' = ram
      /\ request.numa_nodes \in Int /\ request.ram_gib \in Int
  BY <1>1, ScaleAssumption DEF NodeCap, IInv, TypeOK
<1> HIDE DEF cap, ram
<1>3. /\ start \in Nat /\ taken \in Nat /\ remaining \in Nat /\ node \in Nat
      /\ regions \in Seq([start : Nat, length : Nat]) /\ n \in Nat /\ n >= 2
  BY <1>1 DEF IInv, TypeOK, Accounted, BanksFollow
<1>4. /\ Share \in Int /\ Share <= remaining /\ Share <= cap - taken
      /\ Share = remaining \/ Share = cap - taken
  BY <1>2, <1>3 DEF Share, Least, cap
<1>5. start + remaining = MMIO_HOLE_END + ram - MMIO_HOLE_START
  BY <1>1 DEF IInv, Accounted, ram
<1>6. /\ regions[1] = Low[1] /\ regions[2] = Low[2]
      /\ \A i \in 3..n :
           /\ regions[i].length > 0
           /\ regions[i].start = IF i = 3 THEN MMIO_HOLE_END ELSE End(regions[i - 1])
      /\ \A i \in 1..n : End(regions[i]) <= start
      /\ start = IF n = 2 THEN MMIO_HOLE_END ELSE End(regions[n])
  BY <1>1 DEF IInv, BanksFollow, BanksBelowStart
<1>7. /\ n - 2 <= node
      /\ node > 0 => taken = 0
      /\ node = 0 => taken = MMIO_HOLE_START
      /\ \A i \in 3..n : regions[i].length <= cap
      /\ node > 0 => IF cap > MMIO_HOLE_START
                       THEN n - 2 >= 1 /\ regions[3].length + MMIO_HOLE_START <= cap
                       ELSE n - 2 <= node - 1
  BY <1>1 DEF IInv, SharesCapped, NodeBanks, cap
<1>8. remaining > 0 => ram - remaining >= node * cap
  BY <1>1 DEF IInv, NodesFilled, cap, ram
<1>9. node = 0 => n = 2 /\ ram - remaining = MMIO_HOLE_START
  <2> SUFFICES ASSUME node = 0 PROVE n = 2 /\ ram - remaining = MMIO_HOLE_START
    OBVIOUS
  <2> HIDE DEF n
  <2>1. n = 2
    <3>1. n - 2 <= 0
      BY <1>7
    <3> QED
      BY <1>3, <3>1
  <2>2. start = MMIO_HOLE_END
    BY <1>6, <2>1
  <2>3. ram - remaining = MMIO_HOLE_START
    BY <1>2, <1>3, <1>5, <2>2, ScaleAssumption
  <2> QED
    BY <2>1, <2>3
<1>10. \A i \in 1..n : End(regions[i]) \in Int /\ regions[i].length \in Nat
  <2> TAKE i \in 1..n
  <2>1. regions[i] \in [start : Nat, length : Nat]
    BY <1>3, ElementOfSeq
  <2> QED
    BY <2>1 DEF End
<1>11. node * cap \in Int /\ (node + 1) * cap = node * cap + cap /\ 0 * cap = 0
  BY <1>2, <1>3, NextMultiple
\* A step that leaves something over has placed all of the node's share.
<1>12. ASSUME NEW left \in Nat, left > 0, Share > 0 => left = remaining - Share,
              Share <= 0 => left = remaining
       PROVE  ram - left >= (node + 1) * cap
  <2>1. remaining > 0 /\ Share = cap - taken
    BY <1>3, <1>4, <1>12
  <2>2. cap - taken <= remaining - left
    BY <1>2, <1>3, <1>4, <1>12, <2>1
  <2>3. CASE node = 0
    <3>1. taken = MMIO_HOLE_START /\ ram - remaining = MMIO_HOLE_START
      BY <1>7, <1>9, <2>3
    <3>2. ram - left >= cap
      BY <1>2, <1>3, <1>12, <2>2, <3>1, ScaleAssumption
    <3>3. (node + 1) * cap = cap
      BY <1>2, <1>11, <2>3
    <3> QED
      BY <3>2, <3>3
  <2>4. CASE node # 0
    <3>1. taken = 0 /\ ram - remaining >= node * cap
      BY <1>3, <1>7, <1>8, <2>1, <2>4
    <3> DEFINE filled == node * cap
    <3>2. filled \in Int /\ (node + 1) * cap = filled + cap
      BY <1>11
    <3>3. ram - remaining >= filled
      BY <3>1
    <3> HIDE DEF filled
    <3> QED
      BY <1>2, <1>3, <2>2, <3>1, <3>2, <3>3
  <2> QED
    BY <2>3, <2>4
<1>13. remaining' \in Nat /\ (remaining' > 0 => ram - remaining' >= (node + 1) * cap)
  <2>1. remaining' = IF Share > 0 THEN remaining - Share ELSE remaining
    BY DEF PlaceNode
  <2> QED
    BY <1>3, <1>4, <1>12, <2>1
<1>14. NodesFilled'
  BY <1>1, <1>2, <1>13 DEF NodesFilled, cap, ram
<1>15. CASE Share > 0
  <2>1. /\ regions' = Append(regions, bank)
        /\ start' = start + Share
        /\ remaining' = remaining - Share
    BY <1>15 DEF PlaceNode, NextStart
  <2>2. /\ bank \in [start : Nat, length : Nat]
        /\ bank.start = start /\ bank.length = Share /\ End(bank) = start + Share
    BY <1>3, <1>4, <1>15 DEF Region, End
  <2> HIDE DEF bank
  <2>3. /\ regions' \in Seq([start : Nat, length : Nat])
        /\ Len(regions') = n + 1 /\ regions'[n + 1] = bank
        /\ \A i \in 1..n : regions'[i] = regions[i]
    BY <1>3, <2>1, <2>2
  <2>4. TypeOK' /\ Settled'
    BY <1>1, <1>3, <1>4, <1>15, <2>1, <2>3 DEF IInv, TypeOK, Settled
  <2>5. Accounted'
    BY <1>1, <1>2, <1>3, <1>4, <1>5, <1>15, <2>1, ScaleAssumption DEF IInv, Accounted, ram
  <2> HIDE DEF n
  <2>6. BanksFollow'
    <3>1. regions'[1] = Low[1] /\ regions'[2] = Low[2]
      BY <1>3, <1>6, <2>3
    <3>2. ASSUME NEW i \in 3..(n + 1)
          PROVE  /\ regions'[i].length > 0
                 /\ regions'[i].start = IF i = 3 THEN MMIO_HOLE_END ELSE End(regions'[i - 1])
      <4>1. CASE i = n + 1
        <5>1. i - 1 = n /\ n \in 1..n /\ (i = 3 <=> n = 2)
          BY <1>3, <4>1
        <5>2. regions'[i] = bank /\ regions'[i - 1] = regions[n]
          BY <2>3, <4>1, <5>1
        <5>3. start = IF i = 3 THEN MMIO_HOLE_END ELSE End(regions[n])
          BY <1>6, <5>1
        <5>4. regions'[i].length > 0 /\ regions'[i].start = start
          BY <1>3, <1>4, <1>15, <2>1, <2>2, <5>2
        <5> QED
          BY <5>2, <5>3, <5>4
      <4>2. CASE i # n + 1
        <5>1. i \in 3..n /\ i \in 1..n /\ i - 1 \in 1..n
          BY <1>3, <4>2
        <5>2. regions'[i] = regions[i] /\ regions'[i - 1] = regions[i - 1]
          BY <2>3, <5>1
        <5> QED
          BY <1>6, <5>1, <5>2
      <4> QED
        BY <4>1, <4>2
    <3>3. start' = End(regions'[n + 1]) /\ n + 1 # 2
      BY <1>3, <2>1, <2>2, <2>3
    <3> QED
      BY <1>3, <2>3, <3>1, <3>2, <3>3 DEF BanksFollow, Low
  <2>8. BanksBelowStart'
    <3>1. ASSUME NEW i \in 1..n PROVE End(regions'[i]) <= start'
      <4>1. regions'[i] = regions[i] /\ End(regions[i]) \in Int /\ End(regions[i]) <= start
        BY <1>6, <1>10, <2>3
      <4> QED
        BY <1>3, <1>4, <1>15, <2>1, <4>1
    <3>2. End(regions'[n + 1]) <= start'
      BY <1>3, <1>4, <2>1, <2>2, <2>3
    <3> QED
      BY <1>3, <2>3, <3>1, <3>2 DEF BanksBelowStart
  <2>9. BanksSortedDisjoint'
    <3> SUFFICES ASSUME NEW i \in 1..(n + 1)
                 PROVE  /\ regions'[i].length > 0
                        /\ \A j \in 1..(i - 1) : End(regions'[j]) <= regions'[i].start
      BY <2>3 DEF BanksSortedDisjoint
    <3>1. CASE i = n + 1
      <4>1. i - 1 = n
        BY <1>3, <3>1
      <4> QED
        BY <1>6, <1>15, <2>2, <2>3, <3>1, <4>1
    <3>2. CASE i # n + 1
      <4>1. i \in 1..n /\ \A j \in 1..(i - 1) : j \in 1..n
        BY <1>3, <3>2
      <4> QED
        BY <2>3, <4>1 DEF IInv, BanksSortedDisjoint, n
    <3> QED
      BY <3>1, <3>2
  <2>7. SharesCapped'
    <3>1. Share <= cap
      BY <1>2, <1>3, <1>4
    <3>2. ASSUME NEW i \in 3..(n + 1) PROVE regions'[i].length <= cap
      <4>1. CASE i = n + 1
        BY <2>2, <2>3, <3>1, <4>1
      <4>2. CASE i # n + 1
        <5>1. i \in 3..n /\ i \in 1..n
          BY <1>3, <4>2
        <5> QED
          BY <1>7, <2>3, <5>1
      <4> QED
        BY <4>1, <4>2
    <3>3. IF cap > MMIO_HOLE_START
            THEN n - 1 >= 1 /\ regions'[3].length + MMIO_HOLE_START <= cap
            ELSE n - 1 <= node
      <4>1. CASE node = 0
        <5>1. regions'[3].length = Share /\ taken = MMIO_HOLE_START /\ n = 2
          BY <1>7, <1>9, <2>2, <2>3, <4>1
        <5>2. cap > MMIO_HOLE_START /\ Share + MMIO_HOLE_START <= cap
          BY <1>2, <1>3, <1>4, <1>15, <5>1, ScaleAssumption
        <5> QED
          BY <5>1, <5>2
      <4>2. CASE node # 0
        <5>1. n - 2 >= 1 => 3 \in 1..n /\ n - 1 >= 1
          BY <1>3
        <5>2. CASE cap > MMIO_HOLE_START
          BY <1>3, <1>7, <2>3, <4>2, <5>1, <5>2
        <5>3. CASE ~(cap > MMIO_HOLE_START)
          BY <1>3, <1>7, <4>2, <5>3
        <5> QED
          BY <5>2, <5>3
      <4> QED
        BY <4>1, <4>2
    <3>4. NodeBanks' = n - 1 /\ n - 1 <= node + 1 /\ node + 1 - 1 = node
      BY <1>3, <1>7, <2>3 DEF NodeBanks
    <3>5. NodeCap' * GIB = cap
      BY <1>2 DEF cap
    <3>6. node + 1 <= request.numa_nodes /\ node + 1 # 0
      BY <1>1, <1>2, <1>3
    <3>7. IF (NodeCap * GIB)' > MMIO_HOLE_START
            THEN NodeBanks' >= 1 /\ regions'[3].length + MMIO_HOLE_START <= (NodeCap * GIB)'
            ELSE NodeBanks' <= node' - 1
      BY <1>1, <1>2, <1>3, <3>3, <3>4, <3>5, ScaleAssumption
    <3>8. \A i \in 3..Len(regions') : regions'[i].length <= (NodeCap * GIB)'
      BY <2>3, <3>2, <3>5
    <3>9. /\ NodeBanks' <= node' /\ node' <= request'.numa_nodes
          /\ taken' = 0 /\ node' # 0
      BY <1>1, <3>4, <3>6
    <3> QED
      BY <3>7, <3>8, <3>9 DEF SharesCapped
  <2> QED
    BY <1>14, <2>4, <2>5, <2>6, <2>7, <2>8, <2>9 DEF IInv
<1>16. CASE ~(Share > 0)
  <2>1. /\ regions' = regions /\ start' = start /\ remaining' = remaining
    BY <1>16 DEF PlaceNode, NextStart
  <2>2. /\ TypeOK' /\ Settled' /\ Accounted'
        /\ BanksFollow' /\ BanksBelowStart' /\ BanksSortedDisjoint'
    BY <1>1, <1>3, <2>1
    DEF IInv, TypeOK, Settled, Accounted, BanksFollow, BanksBelowStart, BanksSortedDisjoint
  \* The first node gets no bank only if low memory fills its cap.
  <2>3. node = 0 => n - 2 = 0 /\ ~(cap > MMIO_HOLE_START)
    <3> SUFFICES ASSUME node = 0 PROVE n - 2 = 0 /\ ~(cap > MMIO_HOLE_START)
      OBVIOUS
    <3>1. n = 2 /\ taken = MMIO_HOLE_START /\ ram - remaining = MMIO_HOLE_START
      BY <1>7, <1>9
    <3>2. ram >= 4 * GIB
      <4>1. request.ram_gib >= 4
        BY <1>1 DEF IInv, Accounted
      <4> QED
        BY <1>2, <4>1, TimesGib, ScaleAssumption DEF ram
    <3>3. remaining > 0
      BY <1>2, <1>3, <3>1, <3>2, ScaleAssumption
    <3>4. Share = cap - taken
      BY <1>3, <1>4, <1>16, <3>3
    <3> QED
      BY <1>2, <1>3, <1>16, <3>1, <3>4, ScaleAssumption
  <2>4. IF cap > MMIO_HOLE_START
          THEN n - 2 >= 1 /\ regions[3].length + MMIO_HOLE_START <= cap
          ELSE n - 2 <= node
    <3>1. CASE node = 0
      <4>1. ~(cap > MMIO_HOLE_START) /\ n - 2 <= node
        BY <2>3, <3>1
      <4> QED
        BY <4>1
    <3>2. CASE node # 0
      BY <1>3, <1>7, <3>2
    <3> QED
      BY <3>1, <3>2
  <2>5. node + 1 > 0 /\ node + 1 # 0 /\ node + 1 - 1 = node /\ node + 1 <= request.numa_nodes
        /\ n - 2 <= node + 1
    BY <1>1, <1>2, <1>3, <1>7
  <2>6. IF (NodeCap * GIB)' > MMIO_HOLE_START
          THEN NodeBanks' >= 1 /\ regions'[3].length + MMIO_HOLE_START <= (NodeCap * GIB)'
          ELSE NodeBanks' <= node' - 1
    <3>1. (NodeCap * GIB)' = cap
      BY <1>2 DEF cap
    <3>2. NodeBanks' = n - 2 /\ regions'[3] = regions[3]
      BY <2>1 DEF NodeBanks
    <3>3. node' - 1 = node
      BY <1>1, <1>3
    <3> QED
      BY <2>4, <3>1, <3>2, <3>3
  <2>7. \A i \in 3..Len(regions') : regions'[i].length <= (NodeCap * GIB)'
    BY <1>2, <1>7, <2>1 DEF cap
  <2>8. SharesCapped'
    BY <1>1, <1>3, <2>1, <2>5, <2>6, <2>7 DEF SharesCapped, NodeBanks
  <2> QED
    BY <1>14, <2>2, <2>8 DEF IInv
<1> QED
  BY <1>4, <1>15, <1>16

LEMMA StepInvariant == IInv /\ [Next]_vars => IInv'
<1> SUFFICES ASSUME IInv, [Next]_vars PROVE IInv'
  OBVIOUS
<1>1. CASE TooSmall
  BY <1>1 DEF TooSmall, IInv, TypeOK, Accounted, BanksFollow, SharesCapped, NodesFilled,
              NodeBanks, NodeCap, Settled, Placing, BanksBelowStart,
              BanksSortedDisjoint
<1>2. CASE PlaceLowMemory
  BY <1>2, LowMemoryInvariant
<1>3. CASE PlaceNode
  BY <1>3, PlaceNodeInvariant
<1>4. CASE Finish
  <2>1. Placing /\ regions # <<>>
    BY <1>4 DEF Finish, Placing, IInv, TypeOK, BanksFollow
  <2>2. Placing' /\ NodeCap' = NodeCap /\ NodeBanks' = NodeBanks
    BY <1>4, <2>1 DEF Finish, Placing, NodeCap, NodeBanks
  <2>3. pc' = "placed" => remaining = 0
    BY <1>4, <2>1 DEF Finish, Fits, IInv, Accounted, TypeOK
  <2>4. pc' = "refused" => remaining > 0
    BY <1>4 DEF Finish, Fits, IInv, TypeOK
  <2>5. TypeOK' /\ Accounted' /\ BanksFollow' /\ NodesFilled'
        /\ BanksBelowStart' /\ BanksSortedDisjoint'
    BY <1>4, <2>1, <2>2
    DEF Finish, IInv, TypeOK, Accounted, BanksFollow, NodesFilled, BanksBelowStart,
        BanksSortedDisjoint
  <2>6. SharesCapped' /\ Settled'
    BY <1>4, <2>1, <2>2, <2>3, <2>4 DEF Finish, IInv, SharesCapped, Settled
  <2> QED
    BY <2>5, <2>6 DEF IInv
<1>5. CASE UNCHANGED vars
  BY <1>5 DEF vars, IInv, TypeOK, Accounted, BanksFollow, SharesCapped, NodesFilled,
              NodeBanks, NodeCap, Settled, Placing, BanksBelowStart,
              BanksSortedDisjoint
<1> QED
  BY <1>1, <1>2, <1>3, <1>4, <1>5 DEF Next

LEMMA InductiveInvariant == Spec => []IInv
BY InitInvariant, StepInvariant, PTL DEF Spec

(* ---- Theorems --------------------------------------------------------- *)

\* The variables keep their types: no bank has a negative address or length,
\* whatever the arguments.
THEOREM TypeCorrect == Spec => []TypeOK
<1>1. IInv => TypeOK
  BY DEF IInv
<1> QED
  BY <1>1, InductiveInvariant, PTL

\* The banks are handed on in order, disjoint and not empty.
THEOREM BanksAreSorted == Spec => []BanksSortedDisjoint
<1>1. IInv => BanksSortedDisjoint
  BY DEF IInv
<1> QED
  BY <1>1, InductiveInvariant, PTL

\* Nothing is left over, so the last bank ends where the RAM does.
LEMMA PlacedIsWhole == IInv => AllRamPlaced
<1> SUFFICES ASSUME IInv, pc = "placed" PROVE AllRamPlaced
  BY DEF AllRamPlaced
<1> DEFINE ram == request.ram_gib * GIB
           n == Len(regions)
<1>1. /\ Placing /\ remaining = 0 /\ n \in Nat /\ start \in Nat
      /\ request.ram_gib \in Int /\ request.ram_gib >= 4
  BY DEF Placing, IInv, TypeOK, Settled, Accounted
<1>2. ram \in Int /\ ram >= 4 * GIB /\ (request.ram_gib + 1) * GIB = ram + GIB
  BY <1>1, TimesGib, ScaleAssumption
<1>3. start + remaining = MMIO_HOLE_END + ram - MMIO_HOLE_START
  BY <1>1 DEF IInv, Accounted
<1> HIDE DEF ram
<1>4. start = ram + GIB /\ start # MMIO_HOLE_END
  BY <1>1, <1>2, <1>3, ScaleAssumption
<1>5. n # 2 /\ n >= 2 /\ start = End(regions[n])
  BY <1>1, <1>4 DEF IInv, BanksFollow
<1>6. \A i \in 3..n : regions[i].start = IF i = 3 THEN MMIO_HOLE_END ELSE End(regions[i - 1])
  BY <1>1 DEF IInv, BanksFollow
<1>7. n >= 3
  <2> HIDE DEF n
  <2> QED
    BY <1>1, <1>5
<1>8. End(regions[n]) = (request.ram_gib + 1) * GIB
  BY <1>2, <1>4, <1>5
<1> QED
  BY <1>6, <1>7, <1>8 DEF AllRamPlaced

\* A topology that is placed is the whole RAM, contiguous above 4 GiB.
THEOREM PlacesAllRam == Spec => []AllRamPlaced
BY PlacedIsWhole, InductiveInvariant, PTL

\* Above the hole no node exceeds what its cap leaves it.
THEOREM BanksWithinCap == Spec => []CapsRespected
<1>1. IInv => CapsRespected
  <2> SUFFICES ASSUME IInv, pc = "placed" PROVE CapsRespected
    BY DEF CapsRespected
  <2>1. Placing /\ remaining = 0
    BY DEF Placing, IInv, Settled
  <2>2. Len(regions) \in Nat /\ Len(regions) >= 3 /\ node \in Nat /\ request.numa_nodes \in Int
    BY PlacedIsWhole DEF AllRamPlaced, IInv, TypeOK
  <2>3. NodeBanks <= node /\ (node > 0 => node <= request.numa_nodes) /\ node >= request.numa_nodes
    BY <2>1 DEF IInv, SharesCapped, Settled
  <2>4. node > 0 /\ node = request.numa_nodes
    BY <2>2, <2>3 DEF NodeBanks
  <2>5. /\ \A i \in 3..Len(regions) : regions[i].length <= NodeCap * GIB
        /\ IF NodeCap * GIB > MMIO_HOLE_START
             THEN regions[3].length + MMIO_HOLE_START <= NodeCap * GIB
             ELSE NodeBanks <= node - 1
    BY <2>1, <2>4 DEF IInv, SharesCapped
  <2> QED
    BY <2>3, <2>4, <2>5 DEF CapsRespected, NodeBanks
<1> QED
  BY <1>1, InductiveInvariant, PTL

\* Only a topology that cannot hold the RAM is refused.
THEOREM RefusalIsRight == Spec => []RefusedOnlyIfItCannotFit
<1>1. IInv => RefusedOnlyIfItCannotFit
  <2> SUFFICES ASSUME IInv, pc = "refused", request.ram_gib >= 4, request.numa_nodes >= 1
               PROVE  request.numa_nodes * NodeCap < request.ram_gib
    BY DEF RefusedOnlyIfItCannotFit, IInv, TypeOK
  <2> DEFINE numa == request.numa_nodes
             ram == request.ram_gib
  <2>1. numa \in Int /\ ram \in Int /\ NodeCap \in Int /\ node \in Nat /\ remaining \in Int
    BY DEF IInv, TypeOK, NodeCap
  <2>2. Placing /\ remaining > 0 /\ node >= numa
    BY <2>1 DEF IInv, Settled
  <2>3. node = numa
    BY <2>1, <2>2 DEF IInv, SharesCapped
  <2>4. ram * GIB - remaining >= node * (NodeCap * GIB)
    BY <2>2 DEF IInv, NodesFilled
  <2> HIDE DEF numa, ram
  <2>5. ram * GIB \in Int /\ (numa * NodeCap) * GIB \in Int /\ numa * NodeCap \in Int
    BY <2>1, ScaleAssumption
  <2>6. numa * (NodeCap * GIB) = (numa * NodeCap) * GIB
    BY <2>1, ScaleAssumption
  <2>7. (numa * NodeCap) * GIB < ram * GIB
    BY <2>1, <2>2, <2>3, <2>4, <2>5, <2>6
  <2>8. numa * NodeCap < ram
    BY <2>1, <2>5, <2>7, LessTimesGib
  <2> QED
    BY <2>8 DEF numa, ram
<1> QED
  BY <1>1, InductiveInvariant, PTL

=============================================================================

----------------------- MODULE UnacceptedMemoryProofs -----------------------
(* Theorems about UnacceptedMemory, for every list of regions and banks.    *)
EXTENDS UnacceptedMemory, FiniteSetTheorems, FunctionTheorems, SequenceTheorems,
        WellFoundedInduction, TLAPS

(* ---- The inductive invariant ------------------------------------------ *)

(* The inductive invariant: what lies behind the cursor is exactly covered, *)
(* and the regions passed are behind all the RAM still to be swept.         *)
Swept(a) ==
  \/ \E b \in 1..(bank - 1) : In(a, sorted_ram[b])
  \/ pc = "sweep" /\ Ram.start <= a /\ a < cur_start
CoveredSoFar ==
  \A a \in Nat : InSome(a, unaccepted) <=> Swept(a) /\ ~InSome(a, sorted_private)
\* e is the end of something that is behind all that is still to be swept.
BehindSweep(e) ==
  /\ pc = "sweep" => e <= cur_start
  /\ \A b \in (IF pc = "sweep" THEN bank + 1 ELSE bank)..Len(sorted_ram) :
       e <= sorted_ram[b].start
PassedPrivates ==
  \A j \in 1..(priv_idx - 1) :
    sorted_private[j].length = 0 \/ BehindSweep(End(sorted_private[j]))
RangesBehind == \A i \in 1..Len(unaccepted) : BehindSweep(End(unaccepted[i]))
InBank ==
  /\ pc = "sweep" => bank <= Len(sorted_ram) /\ Ram.start <= cur_start /\ cur_start <= End(Ram)
  /\ pc = "done" => bank = Len(sorted_ram) + 1
InputsKept == sorted_private \in Privates /\ sorted_ram \in Banks

IInv ==
  /\ TypeOK
  /\ InputsKept
  /\ InBank
  /\ CoveredSoFar
  /\ PassedPrivates
  /\ RangesBehind
  /\ RangesInOrder

(* ---- Lemmas ----------------------------------------------------------- *)

\* An address is in a list with one more range if it is in the list or in it.
LEMMA InSomeAppend ==
  ASSUME NEW rs \in Seq(Region), NEW r \in Region, NEW a
  PROVE  InSome(a, Append(rs, r)) <=> InSome(a, rs) \/ In(a, r)
<1> DEFINE n == Len(rs)
           new == Append(rs, r)
<1>1. n \in Nat /\ Len(new) = n + 1 /\ new[n + 1] = r /\ \A i \in 1..n : new[i] = rs[i]
  OBVIOUS
<1> HIDE DEF n, new
<1>2. ASSUME NEW i \in 1..(n + 1), In(a, new[i])
      PROVE  (\E j \in 1..n : In(a, rs[j])) \/ In(a, r)
  BY <1>1, <1>2
<1>3. ASSUME NEW j \in 1..n, In(a, rs[j])
      PROVE  \E i \in 1..(n + 1) : In(a, new[i])
  BY <1>1, <1>3
<1>4. n + 1 \in 1..(n + 1)
  BY <1>1
<1> QED
  BY <1>1, <1>2, <1>3, <1>4 DEF InSome, n, new

\* A gap behind which the cursor moves on keeps the ranges in order.
LEMMA RangesAppend ==
  ASSUME NEW rs \in Seq(Region), NEW r \in Region, r.length > 0,
         \A i \in 1..Len(rs) :
           /\ rs[i].length > 0
           /\ \A j \in 1..(i - 1) : End(rs[j]) <= rs[i].start,
         \A i \in 1..Len(rs) : End(rs[i]) <= r.start
  PROVE  \A i \in 1..Len(Append(rs, r)) :
           /\ Append(rs, r)[i].length > 0
           /\ \A j \in 1..(i - 1) : End(Append(rs, r)[j]) <= Append(rs, r)[i].start
<1> DEFINE n == Len(rs)
           new == Append(rs, r)
<1>1. n \in Nat /\ Len(new) = n + 1 /\ new[n + 1] = r /\ \A i \in 1..n : new[i] = rs[i]
  OBVIOUS
<1>2. ASSUME NEW i \in 1..n
      PROVE  new[i].length > 0 /\ \A j \in 1..(i - 1) : End(new[j]) <= new[i].start
  <2>1. new[i] = rs[i] /\ \A j \in 1..(i - 1) : j \in 1..n /\ new[j] = rs[j]
    BY <1>1
  <2> HIDE DEF new
  <2> QED
    BY <2>1
<1>3. new[n + 1].length > 0 /\ \A j \in 1..n : End(new[j]) <= new[n + 1].start
  BY <1>1
<1> HIDE DEF n, new
<1>4. ASSUME NEW i \in 1..(n + 1)
      PROVE  new[i].length > 0 /\ \A j \in 1..(i - 1) : End(new[j]) <= new[i].start
  <2>1. CASE i \in 1..n
    BY <1>2, <2>1
  <2>2. CASE i \notin 1..n
    <3>1. i = n + 1 /\ i - 1 = n
      BY <1>1, <2>2
    <3> QED
      BY <1>3, <3>1
  <2> QED
    BY <2>1, <2>2
<1> QED
  BY <1>1, <1>4 DEF n, new

(* ---- The inductive invariant is kept ----------------------------------- *)

LEMMA InitInvariant == Init => IInv
BY PrivatesAssumption, BanksAssumption
   DEF Init, IInv, TypeOK, InputsKept, InBank, CoveredSoFar, PassedPrivates, RangesBehind,
       RangesInOrder, Swept, InSome, BehindSweep

\* Where the sweep stands inside a bank, as the steps below need it.
LEMMA SweepFacts ==
  ASSUME IInv, pc = "sweep"
  PROVE  /\ bank \in 1..Len(sorted_ram) /\ Ram \in Region
         /\ cur_start \in Nat /\ Ram.start <= cur_start /\ cur_start <= End(Ram)
         /\ End(Ram) \in Nat
         /\ \A b \in (bank + 1)..Len(sorted_ram) : End(Ram) <= sorted_ram[b].start
<1>1. bank \in 1..Len(sorted_ram) /\ sorted_ram \in Seq(Region) /\ sorted_ram \in Banks
  BY DEF IInv, TypeOK, InBank, InputsKept
<1>2. Ram \in Region
  BY <1>1, ElementOfSeq DEF Ram
<1>3. \A b \in (bank + 1)..Len(sorted_ram) : End(sorted_ram[bank]) <= sorted_ram[b].start
  BY <1>1, BanksAssumption
<1> QED
  BY <1>1, <1>2, <1>3 DEF IInv, TypeOK, InBank, Region, End, Ram

LEMMA PrivateFacts ==
  ASSUME IInv, priv_idx <= Len(sorted_private)
  PROVE  /\ priv_idx \in 1..Len(sorted_private)
         /\ Private \in Region /\ End(Private) \in Nat
         /\ \A j \in priv_idx..Len(sorted_private) : Private.start <= sorted_private[j].start
         /\ \A j \in 1..Len(sorted_private) : sorted_private[j] \in Region
<1>1. priv_idx \in 1..Len(sorted_private) /\ sorted_private \in Seq(Region) /\ sorted_private \in Privates
  BY DEF IInv, TypeOK, InputsKept
<1>2. \A j \in 1..Len(sorted_private) : sorted_private[j] \in Region
  BY <1>1, ElementOfSeq
<1>3. \A j \in (priv_idx + 1)..Len(sorted_private) : Private.start <= sorted_private[j].start
  BY <1>1, PrivatesAssumption DEF Private
<1> QED
  BY <1>1, <1>2, <1>3 DEF Private, Region, End

\* No firmware region reaches into the part of the bank between the cursor and
\* the next region, or the end of the bank if none is left.
LEMMA NoPrivateAhead ==
  ASSUME IInv, pc = "sweep", NEW a \in Nat, cur_start <= a,
         priv_idx <= Len(sorted_private) => a < Private.start
  PROVE  ~InSome(a, sorted_private)
<1> SUFFICES ASSUME NEW j \in 1..Len(sorted_private), In(a, sorted_private[j]) PROVE FALSE
  BY DEF InSome
<1>1. sorted_private[j] \in Region
  BY ElementOfSeq DEF IInv, TypeOK
<1>2. priv_idx \in Nat /\ cur_start \in Nat /\ Len(sorted_private) \in Nat
  BY DEF IInv, TypeOK
<1>3. CASE j < priv_idx
  <2>1. sorted_private[j].length = 0 \/ End(sorted_private[j]) <= cur_start
    BY <1>2, <1>3 DEF IInv, PassedPrivates, BehindSweep
  <2> QED
    BY <1>1, <1>2, <2>1 DEF In, End, Region
<1>4. CASE ~(j < priv_idx)
  <2>1. priv_idx <= Len(sorted_private) /\ j \in priv_idx..Len(sorted_private)
    BY <1>2, <1>4
  <2>2. Private.start <= sorted_private[j].start /\ Private \in Region
    BY <2>1, PrivateFacts
  <2> QED
    BY <1>1, <2>1, <2>2 DEF In, Region
<1> QED
  BY <1>3, <1>4

\* What is behind the cursor of a bank is behind the banks after it.
LEMMA BehindCursor ==
  ASSUME IInv, pc = "sweep", NEW e \in Nat, e <= cur_start
  PROVE  BehindSweep(e)
<1> USE SweepFacts
<1>1. \A b \in (bank + 1)..Len(sorted_ram) : e <= sorted_ram[b].start
  <2> TAKE b \in (bank + 1)..Len(sorted_ram)
  <2>1. b \in 1..Len(sorted_ram)
    BY DEF IInv, TypeOK
  <2>2. sorted_ram[b] \in Region
    BY <2>1, ElementOfSeq DEF IInv, TypeOK
  <2> QED
    BY <2>2 DEF Region
<1> QED
  BY <1>1 DEF BehindSweep

LEMMA SkipEmptyBankInvariant ==
  ASSUME IInv, SkipEmptyBank
  PROVE  IInv'
<1>1. /\ pc = "bank" /\ bank <= Len(sorted_ram) /\ Ram.length = 0
      /\ bank' = bank + 1
      /\ UNCHANGED <<sorted_private, sorted_ram, priv_idx, cur_start, unaccepted, pc>>
  BY DEF SkipEmptyBank
<1>2. bank \in 1..Len(sorted_ram) /\ bank \in Nat /\ Len(sorted_ram) \in Nat
  BY <1>1 DEF IInv, TypeOK
<1>3. Ram \in Region
  BY <1>2, ElementOfSeq DEF Ram, IInv, TypeOK
<1>4. \A a \in Nat : ~In(a, Ram)
  BY <1>1, <1>3 DEF In, End, Region
<1>5. \A a \in Nat : Swept(a)' <=> Swept(a)
  <2>1. 1..(bank' - 1) = (1..(bank - 1)) \cup {bank}
    BY <1>1, <1>2
  <2> QED
    BY <1>1, <1>4, <2>1 DEF Swept, Ram
<1>6. CoveredSoFar'
  BY <1>1, <1>5 DEF IInv, CoveredSoFar, InSome, In
<1>7. \A e : BehindSweep(e) => BehindSweep(e)'
  BY <1>1, <1>2 DEF BehindSweep
<1>8. TypeOK' /\ InputsKept' /\ InBank'
  BY <1>1, <1>2 DEF IInv, TypeOK, InputsKept, InBank
<1>9. PassedPrivates' /\ RangesBehind' /\ RangesInOrder'
  BY <1>1, <1>7 DEF IInv, PassedPrivates, RangesBehind, RangesInOrder, End
<1> QED
  BY <1>6, <1>8, <1>9 DEF IInv

LEMMA EnterBankInvariant ==
  ASSUME IInv, EnterBank
  PROVE  IInv'
<1>1. /\ pc = "bank" /\ bank <= Len(sorted_ram) /\ pc' = "sweep" /\ cur_start' = Ram.start
      /\ UNCHANGED <<sorted_private, sorted_ram, bank, priv_idx, unaccepted>>
  BY DEF EnterBank
<1>2. bank \in 1..Len(sorted_ram) /\ bank \in Nat /\ Len(sorted_ram) \in Nat
  BY <1>1 DEF IInv, TypeOK
<1>3. Ram \in Region /\ Ram' = Ram
  BY <1>1, <1>2, ElementOfSeq DEF Ram, IInv, TypeOK
<1>4. \A a \in Nat : Swept(a)' <=> Swept(a)
  BY <1>1, <1>3 DEF Swept, Region, In, End
<1>5. CoveredSoFar'
  BY <1>1, <1>4 DEF IInv, CoveredSoFar, InSome, In
<1>6. \A e : BehindSweep(e) => BehindSweep(e)'
  BY <1>1, <1>2 DEF BehindSweep, Ram
<1>7. TypeOK' /\ InputsKept' /\ InBank'
  BY <1>1, <1>2, <1>3 DEF IInv, TypeOK, InputsKept, InBank, Region, End
<1>8. PassedPrivates' /\ RangesBehind' /\ RangesInOrder'
  BY <1>1, <1>6 DEF IInv, PassedPrivates, RangesBehind, RangesInOrder, End
<1> QED
  BY <1>5, <1>7, <1>8 DEF IInv

LEMMA SkipPrivateInvariant ==
  ASSUME IInv, SkipPrivate
  PROVE  IInv'
<1>1. /\ pc = "sweep" /\ priv_idx <= Len(sorted_private) /\ Behind(Private)
      /\ priv_idx' = priv_idx + 1
      /\ UNCHANGED <<sorted_private, sorted_ram, bank, cur_start, unaccepted, pc>>
  BY DEF SkipPrivate, Sweeping
<1>2. priv_idx \in Nat /\ Len(sorted_private) \in Nat /\ priv_idx >= 1
  BY DEF IInv, TypeOK
<1>3. Private.length = 0 \/ BehindSweep(End(Private))
  BY <1>1, PrivateFacts, BehindCursor DEF Behind
<1>4. PassedPrivates'
  <2> SUFFICES ASSUME NEW j \in 1..priv_idx
               PROVE  sorted_private[j].length = 0 \/ BehindSweep(End(sorted_private[j]))'
    BY <1>1, <1>2 DEF PassedPrivates, End
  <2>1. BehindSweep(End(sorted_private[j]))' <=> BehindSweep(End(sorted_private[j]))
    BY <1>1 DEF BehindSweep, End
  <2>2. CASE j = priv_idx
    BY <1>3, <2>1, <2>2 DEF Private
  <2>3. CASE j # priv_idx
    <3>1. j \in 1..(priv_idx - 1)
      BY <1>2, <2>3
    <3> QED
      BY <2>1, <3>1 DEF IInv, PassedPrivates
  <2> QED
    BY <2>2, <2>3
<1> QED
  BY <1>1, <1>2, <1>4
  DEF IInv, TypeOK, InputsKept, InBank, CoveredSoFar, RangesBehind, RangesInOrder, Swept,
      InSome, In, End, Ram, BehindSweep

\* A gap from the cursor to an address, reported only if it is not empty.
WithGap(to) ==
  IF to > cur_start THEN Append(unaccepted, Gap(cur_start, to)) ELSE unaccepted

\* What reporting the gap up to an address does to the ranges.
LEMMA GapReported ==
  ASSUME IInv, pc = "sweep", NEW to \in Nat
  PROVE  /\ WithGap(to) \in Seq(Region)
         /\ \A a \in Nat :
              InSome(a, WithGap(to)) <=> InSome(a, unaccepted) \/ (cur_start <= a /\ a < to)
         /\ \A i \in 1..Len(WithGap(to)) :
              /\ WithGap(to)[i].length > 0
              /\ \A j \in 1..(i - 1) : End(WithGap(to)[j]) <= WithGap(to)[i].start
         /\ \A i \in 1..Len(WithGap(to)) :
              \/ End(WithGap(to)[i]) <= cur_start
              \/ to > cur_start /\ End(WithGap(to)[i]) = to
<1>1. /\ unaccepted \in Seq(Region) /\ cur_start \in Nat
      /\ \A i \in 1..Len(unaccepted) :
           /\ unaccepted[i].length > 0
           /\ \A j \in 1..(i - 1) : End(unaccepted[j]) <= unaccepted[i].start
  BY DEF IInv, TypeOK, RangesInOrder
<1>2. \A i \in 1..Len(unaccepted) : End(unaccepted[i]) <= cur_start
  BY DEF IInv, RangesBehind, BehindSweep
<1>3. CASE ~(to > cur_start)
  <2>1. WithGap(to) = unaccepted
    BY <1>3 DEF WithGap
  <2>2. \A a \in Nat : ~(cur_start <= a /\ a < to)
    BY <1>1, <1>3
  <2> QED
    BY <1>1, <1>2, <2>1, <2>2
<1>4. CASE to > cur_start
  <2> DEFINE g == Gap(cur_start, to)
             new == Append(unaccepted, g)
  <2>1. WithGap(to) = new
    BY <1>4 DEF WithGap
  <2>2. g \in Region /\ g.start = cur_start /\ g.length > 0 /\ End(g) = to
    BY <1>1, <1>4 DEF Gap, Region, End
  <2> HIDE DEF g
  <2>3. \A a \in Nat : InSome(a, new) <=> InSome(a, unaccepted) \/ In(a, g)
    BY <1>1, <2>2, InSomeAppend
  <2>4. \A i \in 1..Len(new) :
          /\ new[i].length > 0
          /\ \A j \in 1..(i - 1) : End(new[j]) <= new[i].start
    <3>1. \A i \in 1..Len(unaccepted) : End(unaccepted[i]) <= g.start
      BY <1>2, <2>2
    <3> QED
      BY <1>1, <2>2, <3>1, RangesAppend
  <2>5. \A i \in 1..Len(new) : new[i] = g \/ (i \in 1..Len(unaccepted) /\ new[i] = unaccepted[i])
    BY <1>1
  <2>6. new \in Seq(Region)
    BY <1>1, <2>2
  <2> HIDE DEF new
  <2>7. \A i \in 1..Len(new) : End(new[i]) <= cur_start \/ (to > cur_start /\ End(new[i]) = to)
    BY <1>2, <1>4, <2>2, <2>5
  <2>8. \A a \in Nat : In(a, g) <=> cur_start <= a /\ a < to
    BY <2>2 DEF In
  <2> QED
    BY <2>1, <2>3, <2>4, <2>6, <2>7, <2>8
<1> QED
  BY <1>3, <1>4

LEMMA CutPrivateInvariant ==
  ASSUME IInv, CutPrivate
  PROVE  IInv'
<1>1. /\ pc = "sweep" /\ cur_start < End(Ram) /\ priv_idx <= Len(sorted_private)
      /\ Private.length # 0 /\ ~(End(Private) <= cur_start) /\ ~(Private.start >= End(Ram))
      /\ unaccepted' = WithGap(Private.start)
      /\ cur_start' = Least(End(Private), End(Ram))
      /\ UNCHANGED <<sorted_private, sorted_ram, bank, priv_idx, pc>>
  BY DEF CutPrivate, Sweeping, Behind, Beyond, WithGap, GapBefore
<1>2. /\ bank \in 1..Len(sorted_ram) /\ Ram \in Region
      /\ cur_start \in Nat /\ Ram.start <= cur_start /\ End(Ram) \in Nat
      /\ \A b \in (bank + 1)..Len(sorted_ram) : End(Ram) <= sorted_ram[b].start
  BY <1>1, SweepFacts
<1>3. /\ priv_idx \in 1..Len(sorted_private)
      /\ Private.start \in Nat /\ End(Private) \in Nat
  BY <1>1, PrivateFacts DEF Region
<1>4. cur_start' \in Nat /\ cur_start < cur_start' /\ cur_start' <= End(Ram)
  BY <1>1, <1>2, <1>3 DEF Least
<1>5. cur_start' <= End(Private) /\ Private.start < cur_start'
  <2>1. Private.start < End(Private)
    BY <1>1, PrivateFacts DEF End, Region
  <2> QED
    BY <1>1, <1>2, <1>3, <2>1 DEF Least
<1>6. Ram' = Ram /\ Ram.start \in Nat
  BY <1>1, <1>2 DEF Ram, Region
<1>7. CoveredSoFar'
  <2> SUFFICES ASSUME NEW a \in Nat
               PROVE  InSome(a, unaccepted') <=> Swept(a)' /\ ~InSome(a, sorted_private)
    BY <1>1 DEF CoveredSoFar, InSome, In, End
  <2>1. a \in Nat
    OBVIOUS
  <2>2. InSome(a, unaccepted') <=>
          InSome(a, unaccepted) \/ (cur_start <= a /\ a < Private.start)
    BY <1>1, <1>3, <2>1, GapReported
  <2>3. InSome(a, unaccepted) <=> Swept(a) /\ ~InSome(a, sorted_private)
    BY DEF IInv, CoveredSoFar
  <2>4. Swept(a)' <=> Swept(a) \/ (cur_start <= a /\ a < cur_start')
    <3>1. Swept(a)' <=> \/ \E b \in 1..(bank - 1) : In(a, sorted_ram[b])
                        \/ Ram.start <= a /\ a < cur_start'
      BY <1>1, <1>6 DEF Swept, In, End
    <3>2. Swept(a) <=> \/ \E b \in 1..(bank - 1) : In(a, sorted_ram[b])
                       \/ Ram.start <= a /\ a < cur_start
      BY <1>1 DEF Swept
    <3> QED
      BY <1>2, <1>4, <1>6, <2>1, <3>1, <3>2
  <2>5. cur_start <= a /\ a < Private.start => ~InSome(a, sorted_private)
    BY <1>1, <2>1, NoPrivateAhead
  <2>6. Private.start <= a /\ a < cur_start' => InSome(a, sorted_private)
    BY <1>3, <1>4, <1>5, <2>1 DEF InSome, In, Private
  <2> QED
    BY <1>2, <1>3, <1>4, <1>5, <2>1, <2>2, <2>3, <2>4, <2>5, <2>6
<1>8. \A e \in Nat : e <= cur_start' => BehindSweep(e)'
  <2> SUFFICES ASSUME NEW e \in Nat, e <= cur_start',
                      NEW b \in (bank + 1)..Len(sorted_ram)
               PROVE  e <= sorted_ram[b].start
    BY <1>1 DEF BehindSweep
  <2>1. sorted_ram[b].start \in Nat
    <3>1. sorted_ram[b] \in Region
      BY <1>2, ElementOfSeq DEF IInv, TypeOK
    <3> QED
      BY <3>1 DEF Region
  <2> QED
    BY <1>2, <1>4, <2>1
<1>9. TypeOK' /\ InputsKept' /\ InBank'
  <2>1. unaccepted' \in Seq(Region)
    BY <1>1, <1>3, GapReported
  <2>2. Ram'.start <= cur_start' /\ cur_start' <= End(Ram)'
    BY <1>1, <1>2, <1>4, <1>6 DEF End
  <2> QED
    BY <1>1, <1>4, <2>1, <2>2 DEF IInv, TypeOK, InputsKept, InBank
<1>10. PassedPrivates'
  <2> SUFFICES ASSUME NEW j \in 1..(priv_idx - 1), sorted_private[j].length # 0
               PROVE  BehindSweep(End(sorted_private[j]))'
    BY <1>1 DEF PassedPrivates, End
  <2>1. BehindSweep(End(sorted_private[j]))
    BY DEF IInv, PassedPrivates
  <2>2. End(sorted_private[j]) <= cur_start /\ End(sorted_private[j]) \in Nat
    BY <1>1, <1>3, <2>1, PrivateFacts DEF BehindSweep, End, Region
  <2>3. End(sorted_private[j]) <= cur_start'
    BY <1>2, <1>4, <2>2
  <2> QED
    BY <1>1, <1>8, <2>2, <2>3 DEF BehindSweep, End
<1>11. RangesBehind'
  <2> SUFFICES ASSUME NEW i \in 1..Len(unaccepted')
               PROVE  BehindSweep(End(unaccepted[i]))'
    BY DEF RangesBehind
  <2>0. End(unaccepted[i])' = End(unaccepted'[i])
    BY DEF End
  <2>1. End(unaccepted'[i]) <= cur_start \/ End(unaccepted'[i]) = Private.start
    BY <1>1, <1>3, GapReported
  <2>2. End(unaccepted'[i]) \in Nat
    <3>1. unaccepted'[i] \in Region
      BY <1>9, ElementOfSeq DEF TypeOK
    <3> QED
      BY <3>1 DEF Region, End
  <2>3. End(unaccepted'[i]) <= cur_start'
    BY <1>2, <1>3, <1>4, <1>5, <2>1, <2>2
  <2> QED
    BY <1>1, <1>4, <1>8, <2>0, <2>2, <2>3 DEF BehindSweep
<1>12. RangesInOrder'
  BY <1>1, <1>3, GapReported DEF RangesInOrder, End
<1> QED
  BY <1>7, <1>9, <1>10, <1>11, <1>12 DEF IInv

LEMMA LeaveBankInvariant ==
  ASSUME IInv, LeaveBank
  PROVE  IInv'
<1>1. /\ pc = "sweep" /\ bank' = bank + 1 /\ pc' = "bank"
      /\ unaccepted' = WithGap(End(Ram))
      /\ UNCHANGED <<sorted_private, sorted_ram, priv_idx, cur_start>>
  <2>1. /\ pc = "sweep" /\ bank' = bank + 1 /\ pc' = "bank"
        /\ unaccepted' = IF cur_start < End(Ram)
                           THEN Append(unaccepted, Gap(cur_start, End(Ram))) ELSE unaccepted
        /\ UNCHANGED <<sorted_private, sorted_ram, priv_idx, cur_start>>
    BY DEF LeaveBank
  <2>2. cur_start < End(Ram) <=> End(Ram) > cur_start
    BY <2>1, SweepFacts
  <2> QED
    BY <2>1, <2>2 DEF WithGap
<1>2. /\ bank \in 1..Len(sorted_ram) /\ bank \in Nat /\ Len(sorted_ram) \in Nat /\ Ram \in Region
      /\ cur_start \in Nat /\ Ram.start <= cur_start /\ cur_start <= End(Ram) /\ End(Ram) \in Nat
      /\ \A b \in (bank + 1)..Len(sorted_ram) : End(Ram) <= sorted_ram[b].start
  BY <1>1, SweepFacts DEF IInv, TypeOK
\* The next firmware region, if there is RAM left to sweep, is beyond the bank.
<1>3. cur_start < End(Ram) /\ priv_idx <= Len(sorted_private) => Private.start >= End(Ram)
  BY <1>1 DEF LeaveBank, Sweeping, Beyond
<1>4. CoveredSoFar'
  <2> SUFFICES ASSUME NEW a \in Nat
               PROVE  InSome(a, unaccepted') <=> Swept(a)' /\ ~InSome(a, sorted_private)
    BY <1>1 DEF CoveredSoFar, InSome, In, End
  <2>1. a \in Nat /\ Ram.start \in Nat
    BY <1>2 DEF Region
  <2>2. InSome(a, unaccepted') <=> InSome(a, unaccepted) \/ (cur_start <= a /\ a < End(Ram))
    BY <1>1, <1>2, <2>1, GapReported
  <2>3. InSome(a, unaccepted) <=> Swept(a) /\ ~InSome(a, sorted_private)
    BY DEF IInv, CoveredSoFar
  <2>4. Swept(a)' <=> Swept(a) \/ (cur_start <= a /\ a < End(Ram))
    <3>1. Swept(a)' <=> \E b \in 1..bank : In(a, sorted_ram[b])
      BY <1>1, <1>2 DEF Swept, In, End
    <3>2. Swept(a) <=> \/ \E b \in 1..(bank - 1) : In(a, sorted_ram[b])
                       \/ Ram.start <= a /\ a < cur_start
      BY <1>1 DEF Swept
    <3>3. In(a, sorted_ram[bank]) <=> Ram.start <= a /\ a < End(Ram)
      BY DEF In, Ram
    <3>4. 1..bank = (1..(bank - 1)) \cup {bank}
      BY <1>2
    <3> QED
      BY <1>2, <2>1, <3>1, <3>2, <3>3, <3>4
  <2>5. cur_start <= a /\ a < End(Ram) => ~InSome(a, sorted_private)
    <3> SUFFICES ASSUME cur_start <= a, a < End(Ram) PROVE ~InSome(a, sorted_private)
      OBVIOUS
    <3>1. priv_idx <= Len(sorted_private) => a < Private.start
      <4> SUFFICES ASSUME priv_idx <= Len(sorted_private) PROVE a < Private.start
        OBVIOUS
      <4>1. Private.start \in Nat
        BY PrivateFacts DEF Region
      <4> QED
        BY <1>2, <1>3, <2>1, <4>1
    <3> QED
      BY <1>1, <2>1, <3>1, NoPrivateAhead
  <2> QED
    BY <2>2, <2>3, <2>4, <2>5
<1>5. \A e \in Nat : e <= End(Ram) => BehindSweep(e)'
  <2> SUFFICES ASSUME NEW e \in Nat, e <= End(Ram), NEW b \in (bank + 1)..Len(sorted_ram)
               PROVE  e <= sorted_ram[b].start
    BY <1>1 DEF BehindSweep
  <2>1. sorted_ram[b] \in Region
    BY <1>2, ElementOfSeq DEF IInv, TypeOK
  <2> QED
    BY <1>2, <2>1 DEF Region
<1>6. TypeOK' /\ InputsKept' /\ InBank'
  <2>1. unaccepted' \in Seq(Region)
    BY <1>1, <1>2, GapReported
  <2> QED
    BY <1>1, <1>2, <2>1 DEF IInv, TypeOK, InputsKept, InBank
<1>7. PassedPrivates'
  <2> SUFFICES ASSUME NEW j \in 1..(priv_idx - 1), sorted_private[j].length # 0
               PROVE  BehindSweep(End(sorted_private[j]))'
    BY <1>1 DEF PassedPrivates, End
  <2>1. End(sorted_private[j]) <= cur_start
    BY <1>1 DEF IInv, PassedPrivates, BehindSweep
  <2>2. End(sorted_private[j]) \in Nat
    <3>1. sorted_private[j] \in Region
      BY ElementOfSeq DEF IInv, TypeOK
    <3> QED
      BY <3>1 DEF End, Region
  <2>3. End(sorted_private[j]) <= End(Ram)
    BY <1>2, <2>1, <2>2
  <2> QED
    BY <1>1, <1>5, <2>2, <2>3 DEF BehindSweep, End
<1>8. RangesBehind'
  <2> SUFFICES ASSUME NEW i \in 1..Len(unaccepted')
               PROVE  BehindSweep(End(unaccepted[i]))'
    BY DEF RangesBehind
  <2>1. End(unaccepted[i])' = End(unaccepted'[i])
    BY DEF End
  <2>2. End(unaccepted'[i]) <= cur_start \/ End(unaccepted'[i]) = End(Ram)
    BY <1>1, <1>2, GapReported
  <2>3. End(unaccepted'[i]) \in Nat
    <3>1. unaccepted'[i] \in Region
      BY <1>6, ElementOfSeq DEF TypeOK
    <3> QED
      BY <3>1 DEF Region, End
  <2>4. End(unaccepted'[i]) <= End(Ram)
    BY <1>2, <2>2, <2>3
  <2> QED
    BY <1>1, <1>5, <2>1, <2>3, <2>4 DEF BehindSweep
<1>9. RangesInOrder'
  BY <1>1, <1>2, GapReported DEF RangesInOrder, End
<1> QED
  BY <1>4, <1>6, <1>7, <1>8, <1>9 DEF IInv

LEMMA ReturnInvariant ==
  ASSUME IInv, Return
  PROVE  IInv'
<1>1. /\ pc = "bank" /\ bank > Len(sorted_ram) /\ pc' = "done"
      /\ UNCHANGED <<sorted_private, sorted_ram, bank, priv_idx, cur_start, unaccepted>>
  BY DEF Return
<1>2. bank = Len(sorted_ram) + 1
  BY <1>1 DEF IInv, TypeOK
<1> QED
  BY <1>1, <1>2
  DEF IInv, TypeOK, InputsKept, InBank, CoveredSoFar, PassedPrivates, RangesBehind,
      RangesInOrder, Swept, InSome, In, End, BehindSweep

LEMMA StepInvariant == IInv /\ [Next]_vars => IInv'
<1> SUFFICES ASSUME IInv, [Next]_vars PROVE IInv'
  OBVIOUS
<1>1. CASE UNCHANGED vars
  BY <1>1 DEF vars, IInv, TypeOK, InputsKept, InBank, CoveredSoFar, PassedPrivates, RangesBehind,
              RangesInOrder, Swept, InSome, In, End, BehindSweep, Ram
<1> QED
  BY <1>1, SkipEmptyBankInvariant, EnterBankInvariant, SkipPrivateInvariant,
     CutPrivateInvariant, LeaveBankInvariant, ReturnInvariant DEF Next

\* The state of the sweep at every step: what is behind the cursor is exactly
\* covered (mrtd.py:334-361).
THEOREM InductiveInvariant == Spec => []IInv
BY InitInvariant, StepInvariant, PTL DEF Spec

(* ---- The properties --------------------------------------------------- *)

\* The cursor and the indices stay where their types say.
THEOREM TypeCorrect == Spec => []TypeOK
<1>1. IInv => TypeOK
  BY DEF IInv
<1> QED
  BY <1>1, InductiveInvariant, PTL

\* The TDHOB lists exactly the RAM that no firmware region covers, whatever the
\* regions and however they overlap.
THEOREM UnacceptedIsExact == Spec => []ExactCover
<1>1. ASSUME IInv PROVE ExactCover
  <2> SUFFICES ASSUME pc = "done", NEW a \in Addresses
               PROVE InSome(a, unaccepted) <=> InSome(a, sorted_ram) /\ ~InSome(a, sorted_private)
    BY DEF ExactCover
  <2>1. bank - 1 = Len(sorted_ram)
    BY <1>1 DEF IInv, TypeOK, InBank
  <2>2. Swept(a) <=> InSome(a, sorted_ram)
    BY <2>1 DEF Swept, InSome
  <2> QED
    BY <1>1, <2>2, AddressesAssumption DEF IInv, CoveredSoFar
<1> QED
  BY <1>1, InductiveInvariant, PTL

\* No address is listed twice.
THEOREM RangesNeverOverlap == Spec => []RangesInOrder
<1>1. IInv => RangesInOrder
  BY DEF IInv
<1> QED
  BY <1>1, InductiveInvariant, PTL

(* ---- The ranges are as large as can be ----------------------------------- *)

\* g lies in a bank, is free of firmware regions, and neither end could move.
WholeGap(g, b) ==
  /\ g \in Region /\ g.length > 0 /\ b.start <= g.start /\ End(g) <= End(b)
  /\ \A a \in Nat : In(a, g) => ~InSome(a, sorted_private)
  /\ g.start = b.start \/ InSome(g.start - 1, sorted_private)
  /\ End(g) = End(b) \/ InSome(End(g), sorted_private)

RangesAreWhole ==
  \A i \in 1..Len(unaccepted) : \E b \in 1..Len(sorted_ram) : WholeGap(unaccepted[i], sorted_ram[b])
\* The sweep goes on from the end of a region, or from the start of the bank.
CursorAtAnEdge ==
  pc = "sweep" => cur_start = Ram.start \/ InSome(cur_start - 1, sorted_private)

\* Reporting a gap that is whole keeps the ranges whole.
LEMMA WholeGapReported ==
  ASSUME IInv, RangesAreWhole, pc = "sweep", NEW to \in Nat,
         to > cur_start => WholeGap(Gap(cur_start, to), Ram)
  PROVE  \A i \in 1..Len(WithGap(to)) :
           \E b \in 1..Len(sorted_ram) : WholeGap(WithGap(to)[i], sorted_ram[b])
<1>1. bank \in 1..Len(sorted_ram) /\ Ram = sorted_ram[bank] /\ unaccepted \in Seq(Region)
  BY SweepFacts DEF Ram, IInv, TypeOK
<1>2. CASE to > cur_start
  <2> DEFINE g == Gap(cur_start, to)
             new == Append(unaccepted, g)
  <2>1. g \in Region
    BY <1>2, SweepFacts DEF WholeGap
  <2>2. WithGap(to) = new
    BY <1>2 DEF WithGap
  <2>3. WholeGap(g, sorted_ram[bank])
    BY <1>1, <1>2
  <2> HIDE DEF g
  <2>4. \A i \in 1..Len(new) : new[i] = g \/ (i \in 1..Len(unaccepted) /\ new[i] = unaccepted[i])
    BY <1>1
  <2> HIDE DEF new
  <2> QED
    BY <1>1, <2>2, <2>3, <2>4 DEF RangesAreWhole
<1>3. CASE ~(to > cur_start)
  BY <1>3 DEF WithGap, RangesAreWhole
<1> QED
  BY <1>2, <1>3

LEMMA WholeInvariant ==
  IInv /\ RangesAreWhole /\ CursorAtAnEdge /\ [Next]_vars
    => RangesAreWhole' /\ CursorAtAnEdge'
<1> SUFFICES ASSUME IInv, RangesAreWhole, CursorAtAnEdge, [Next]_vars
             PROVE  RangesAreWhole' /\ CursorAtAnEdge'
  OBVIOUS
<1>0. UNCHANGED <<sorted_private, sorted_ram>>
  BY DEF Next, vars, SkipEmptyBank, EnterBank, SkipPrivate, CutPrivate, LeaveBank, Return
<1>1. /\ \A g, b : WholeGap(g, b)' <=> WholeGap(g, b)
      /\ \A a : InSome(a, sorted_private)' <=> InSome(a, sorted_private)
  BY <1>0 DEF WholeGap, InSome, In, End
<1>2. ASSUME UNCHANGED unaccepted PROVE RangesAreWhole'
  BY <1>0, <1>1, <1>2 DEF RangesAreWhole
<1>3. CASE UNCHANGED vars \/ SkipPrivate \/ SkipEmptyBank \/ Return
  <2>1. UNCHANGED unaccepted /\ (pc' = "sweep" => pc = "sweep" /\ UNCHANGED <<bank, cur_start>>)
    BY <1>3 DEF vars, SkipPrivate, Sweeping, SkipEmptyBank, Return
  <2> QED
    BY <1>0, <1>1, <1>2, <2>1 DEF CursorAtAnEdge, Ram
<1>4. CASE EnterBank
  <2>1. UNCHANGED <<unaccepted, bank>> /\ cur_start' = Ram.start
    BY <1>4 DEF EnterBank
  <2> QED
    BY <1>0, <1>2, <2>1 DEF CursorAtAnEdge, Ram
<1>5. CASE CutPrivate
  <2>1. /\ pc = "sweep" /\ cur_start < End(Ram) /\ priv_idx <= Len(sorted_private)
        /\ Private.length # 0 /\ ~(End(Private) <= cur_start) /\ ~(Private.start >= End(Ram))
        /\ unaccepted' = WithGap(Private.start)
        /\ cur_start' = Least(End(Private), End(Ram)) /\ bank' = bank
    BY <1>5 DEF CutPrivate, Sweeping, Behind, Beyond, WithGap, GapBefore
  <2>2. /\ Ram \in Region /\ Ram.start \in Nat /\ End(Ram) \in Nat
        /\ cur_start \in Nat /\ Ram.start <= cur_start
    BY <2>1, SweepFacts DEF Region
  <2>3. /\ priv_idx \in 1..Len(sorted_private)
        /\ Private.start \in Nat /\ End(Private) \in Nat /\ Private.start < End(Private)
    <3>1. Private.start < End(Private)
      BY <2>1, PrivateFacts DEF End, Region
    <3> QED
      BY <2>1, <3>1, PrivateFacts DEF Region
  <2>4. \A a \in Nat : In(a, Private) => InSome(a, sorted_private)
    BY <2>3 DEF InSome, Private
  <2>5. InSome(Private.start, sorted_private)
    BY <2>3, <2>4 DEF In
  <2>6. InSome(cur_start' - 1, sorted_private)
    <3> DEFINE c == Least(End(Private), End(Ram))
               s == Private.start
               e == End(Private)
    <3>1. c \in Nat /\ s \in Nat /\ e \in Nat /\ s < c /\ c <= e
      BY <2>1, <2>2, <2>3 DEF Least
    <3> HIDE DEF c, s, e
    <3>2. c - 1 \in Nat /\ s <= c - 1 /\ c - 1 < e
      BY <3>1
    <3>3. In(c - 1, Private)
      BY <3>2 DEF In, s, e
    <3> QED
      BY <2>1, <2>4, <3>2, <3>3 DEF c
  <2>7. ASSUME Private.start > cur_start PROVE WholeGap(Gap(cur_start, Private.start), Ram)
    <3> DEFINE g == Gap(cur_start, Private.start)
    <3>1. g \in Region /\ g.start = cur_start /\ g.length > 0 /\ End(g) = Private.start
      BY <2>2, <2>3, <2>7 DEF Gap, Region, End
    <3> HIDE DEF g
    <3>2. ASSUME NEW a \in Nat, In(a, g) PROVE ~InSome(a, sorted_private)
      BY <2>1, <3>1, <3>2, NoPrivateAhead DEF In
    <3>3. End(g) <= End(Ram)
      BY <2>1, <2>2, <2>3, <3>1
    <3> QED
      BY <2>1, <2>2, <2>5, <3>1, <3>2, <3>3 DEF WholeGap, CursorAtAnEdge, g
  <2>8. RangesAreWhole'
    BY <1>0, <1>1, <2>1, <2>3, <2>7, WholeGapReported DEF RangesAreWhole
  <2> QED
    BY <1>1, <2>6, <2>8 DEF CursorAtAnEdge
<1>6. CASE LeaveBank
  <2>1. /\ pc = "sweep" /\ pc' = "bank"
        /\ unaccepted' = IF cur_start < End(Ram)
                           THEN Append(unaccepted, Gap(cur_start, End(Ram))) ELSE unaccepted
        /\ cur_start < End(Ram) /\ priv_idx <= Len(sorted_private) => Private.start >= End(Ram)
    BY <1>6 DEF LeaveBank, Sweeping, Beyond
  <2>2. /\ Ram \in Region /\ Ram.start \in Nat /\ End(Ram) \in Nat
        /\ cur_start \in Nat /\ Ram.start <= cur_start
    BY <2>1, SweepFacts DEF Region
  <2>3. unaccepted' = WithGap(End(Ram))
    BY <2>1, <2>2 DEF WithGap
  <2>4. ASSUME End(Ram) > cur_start PROVE WholeGap(Gap(cur_start, End(Ram)), Ram)
    <3> DEFINE g == Gap(cur_start, End(Ram))
    <3>1. g \in Region /\ g.start = cur_start /\ g.length > 0 /\ End(g) = End(Ram)
      BY <2>2, <2>4 DEF Gap, Region, End
    <3> HIDE DEF g
    <3>2. ASSUME NEW a \in Nat, In(a, g) PROVE ~InSome(a, sorted_private)
      <4>1. cur_start <= a /\ a < End(Ram)
        BY <3>1, <3>2 DEF In
      <4>2. ASSUME priv_idx <= Len(sorted_private) PROVE a < Private.start
        <5>1. Private.start \in Nat /\ Private.start >= End(Ram)
          BY <2>1, <2>2, <2>4, <4>2, PrivateFacts DEF Region
        <5> QED
          BY <2>2, <4>1, <5>1
      <4> QED
        BY <2>1, <4>1, <4>2, NoPrivateAhead
    <3>3. End(g) <= End(Ram)
      BY <2>2, <3>1
    <3> QED
      BY <2>1, <2>2, <3>1, <3>2, <3>3 DEF WholeGap, CursorAtAnEdge, g
  <2>5. RangesAreWhole'
    BY <1>0, <1>1, <2>1, <2>2, <2>3, <2>4, WholeGapReported DEF RangesAreWhole
  <2> QED
    BY <2>1, <2>5 DEF CursorAtAnEdge
<1> QED
  BY <1>3, <1>4, <1>5, <1>6 DEF Next

(* ---- The whole gaps are GapsIn -------------------------------------------- *)

\* Every set of naturals that is not empty has a least member.
LEMMA LeastMember ==
  ASSUME NEW T \in SUBSET Nat, T # {}
  PROVE  \E n \in T : \A m \in T : n <= m
<1> DEFINE R == OpToRel(<, Nat)
<1>1. IsWellFoundedOn(R, Nat)
  BY NatLessThanWellFounded
<1>2. PICK n \in T : \A m \in T : <<m, n>> \notin R
  BY <1>1, WFMin
<1>3. \A m \in T : ~(m < n)
  BY <1>2 DEF OpToRel
<1> QED
  BY <1>3

LEMMA GapsInAreWhole ==
  ASSUME NEW b \in Region, sorted_private \in Seq(Region)
  PROVE  \A g : g \in GapsIn(b, sorted_private) <=> WholeGap(g, b)
<1> DEFINE free == {a \in b.start..(End(b) - 1) : ~InSome(a, sorted_private)}
           first == {a \in free : a - 1 \notin free}
           Ends(a, n) == a + n \notin free /\ \A k \in 1..(n - 1) : a + k \in free
           Length(a) == CHOOSE n \in 1..b.length : Ends(a, n)
<1>1. GapsIn(b, sorted_private) = {[start |-> a, length |-> Length(a)] : a \in first}
  BY Zenon DEF GapsIn
<1>2. b.start \in Nat /\ b.length \in Nat /\ End(b) = b.start + b.length
  BY DEF Region, End
<1>3. \A a \in Int : a \in free <=> b.start <= a /\ a < End(b) /\ ~InSome(a, sorted_private)
  BY <1>2
<1>4. \A a \in free : a \in Nat
  BY <1>2
<1> HIDE DEF free
<1>5. ASSUME NEW a \in first
      PROVE  Length(a) \in 1..b.length /\ Ends(a, Length(a))
  <2> DEFINE T == {n \in Nat : n > 0 /\ a + n \notin free}
  <2>1. a \in Nat /\ b.start <= a /\ a < End(b) /\ a \in free
    BY <1>3, <1>4
  <2>2. End(b) - a \in T /\ End(b) - a <= b.length
    BY <1>2, <1>3, <2>1
  <2>3. PICK n \in T : \A m \in T : n <= m
    <3>1. T \in SUBSET Nat /\ T # {}
      BY <2>2
    <3> HIDE DEF T
    <3> QED
      BY <3>1, LeastMember
  <2>4. n \in 1..b.length
    BY <1>2, <2>2, <2>3
  <2>5. ASSUME NEW k \in 1..(n - 1) PROVE a + k \in free
    <3>1. k \in Nat /\ k > 0 /\ ~(n <= k)
      BY <2>3
    <3> QED
      BY <2>3, <3>1
  <2>6. Ends(a, n)
    BY <2>3, <2>5
  <2> HIDE DEF Ends
  <2> QED
    BY <2>4, <2>6
<1>6. ASSUME NEW a \in first
      PROVE  WholeGap([start |-> a, length |-> Length(a)], b)
  <2> DEFINE n == Length(a)
             g == [start |-> a, length |-> n]
  <2>1. a \in Nat /\ a \in free /\ b.start <= a /\ a < End(b) /\ a - 1 \notin free
    BY <1>3, <1>4
  <2>2. n \in 1..b.length /\ a + n \notin free /\ \A k \in 1..(n - 1) : a + k \in free
    BY <1>5
  <2> HIDE DEF n
  <2>3. g \in Region /\ g.start = a /\ g.length > 0 /\ End(g) = a + n
    BY <2>1, <2>2 DEF Region, End
  <2> HIDE DEF g
  <2>4. \A x \in Nat : a <= x /\ x < a + n => x \in free
    <3> SUFFICES ASSUME NEW x \in Nat, a <= x, x < a + n PROVE x \in free
      OBVIOUS
    <3>1. CASE x = a
      BY <2>1, <3>1
    <3>2. CASE x # a
      <4>1. x - a \in 1..(n - 1) /\ a + (x - a) = x
        BY <2>1, <2>2, <3>2
      <4> QED
        BY <2>2, <4>1
    <3> QED
      BY <3>1, <3>2
  <2>5. a + n <= End(b)
    <3>1. a + n - 1 \in Nat /\ a <= a + n - 1 /\ a + n - 1 < a + n
      BY <2>1, <2>2
    <3>2. a + n - 1 < End(b)
      BY <1>3, <2>4, <3>1
    <3> QED
      BY <1>2, <2>1, <2>2, <3>2
  <2>6. a = b.start \/ InSome(a - 1, sorted_private)
    BY <1>2, <1>3, <2>1
  <2>7. a + n = End(b) \/ InSome(a + n, sorted_private)
    BY <1>2, <1>3, <2>1, <2>2, <2>5
  <2>8. \A x \in Nat : In(x, g) => ~InSome(x, sorted_private)
    BY <1>3, <2>3, <2>4 DEF In
  <2> QED
    BY <2>1, <2>3, <2>5, <2>6, <2>7, <2>8 DEF WholeGap, g, n
<1>7. ASSUME NEW g, WholeGap(g, b)
      PROVE  g.start \in first /\ g = [start |-> g.start, length |-> Length(g.start)]
  <2> DEFINE a == g.start
             n == g.length
  <2>1. /\ a \in Nat /\ n \in Nat /\ n > 0 /\ g = [start |-> a, length |-> n]
        /\ End(g) = a + n /\ b.start <= a /\ a + n <= End(b)
    BY <1>7 DEF WholeGap, Region, End
  <2>2. \A x \in Nat : a <= x /\ x < a + n => ~InSome(x, sorted_private)
    BY <1>7, <2>1 DEF WholeGap, In
  <2>3. a = b.start \/ InSome(a - 1, sorted_private)
    BY <1>7 DEF WholeGap
  <2>4. a + n = End(b) \/ InSome(a + n, sorted_private)
    BY <1>7, <2>1 DEF WholeGap
  <2> HIDE DEF a, n
  <2>5. \A x \in Nat : a <= x /\ x < a + n => x \in free
    BY <1>2, <1>3, <2>1, <2>2
  <2>6. a \in free /\ a - 1 \notin free /\ a + n \notin free
    BY <1>2, <1>3, <2>1, <2>3, <2>4, <2>5
  <2>7. n \in 1..b.length /\ Ends(a, n)
    <3>1. n \in 1..b.length
      BY <1>2, <2>1
    <3>2. ASSUME NEW k \in 1..(n - 1) PROVE a + k \in free
      <4>1. a + k \in Nat /\ a <= a + k /\ a + k < a + n
        BY <2>1
      <4> QED
        BY <2>5, <4>1
    <3> QED
      BY <2>6, <3>1, <3>2
  <2>8. ASSUME NEW m \in 1..b.length, Ends(a, m) PROVE m = n
    <3>1. CASE m < n
      <4>1. m \in 1..(n - 1)
        BY <2>1, <3>1
      <4> QED
        BY <2>7, <2>8, <4>1
    <3>2. CASE n < m
      <4>1. n \in 1..(m - 1)
        BY <2>1, <3>2
      <4> QED
        BY <2>7, <2>8, <4>1
    <3> QED
      BY <2>1, <3>1, <3>2
  <2> HIDE DEF Ends
  <2>9. Length(a) = n
    BY <2>7, <2>8
  <2> QED
    BY <2>1, <2>6, <2>9 DEF a
<1> HIDE DEF Length, first
<1> QED
  BY <1>1, <1>6, <1>7

\* Two whole gaps of one bank that share an address are one.
LEMMA WholeGapsMeet ==
  ASSUME NEW b \in Region, NEW g, NEW h, WholeGap(g, b), WholeGap(h, b),
         NEW x \in Nat, In(x, g), In(x, h)
  PROVE  g = h
<1> DEFINE gs == g.start
           ge == End(g)
           hs == h.start
           he == End(h)
<1>1. /\ gs \in Nat /\ ge \in Nat /\ hs \in Nat /\ he \in Nat
      /\ gs <= x /\ x < ge /\ hs <= x /\ x < he
      /\ b.start <= gs /\ b.start <= hs /\ ge <= End(b) /\ he <= End(b)
      /\ b.start \in Nat /\ End(b) \in Nat
  BY DEF WholeGap, Region, End, In
<1>2. /\ \A a \in Nat : gs <= a /\ a < ge => ~InSome(a, sorted_private)
      /\ \A a \in Nat : hs <= a /\ a < he => ~InSome(a, sorted_private)
      /\ gs = b.start \/ InSome(gs - 1, sorted_private)
      /\ hs = b.start \/ InSome(hs - 1, sorted_private)
      /\ ge = End(b) \/ InSome(ge, sorted_private)
      /\ he = End(b) \/ InSome(he, sorted_private)
  BY DEF WholeGap, In
<1>3. g = [start |-> gs, length |-> ge - gs] /\ h = [start |-> hs, length |-> he - hs]
  BY DEF WholeGap, Region, End
<1> HIDE DEF gs, ge, hs, he
<1>4. gs = hs
  <2>1. CASE gs < hs
    <3>1. hs - 1 \in Nat /\ gs <= hs - 1 /\ hs - 1 < ge /\ hs # b.start
      BY <1>1, <2>1
    <3> QED
      BY <1>2, <3>1
  <2>2. CASE hs < gs
    <3>1. gs - 1 \in Nat /\ hs <= gs - 1 /\ gs - 1 < he /\ gs # b.start
      BY <1>1, <2>2
    <3> QED
      BY <1>2, <3>1
  <2> QED
    BY <1>1, <2>1, <2>2
<1>5. ge = he
  <2>1. CASE ge < he
    <3>1. hs <= ge /\ ge # End(b)
      BY <1>1, <2>1
    <3> QED
      BY <1>1, <1>2, <2>1, <3>1
  <2>2. CASE he < ge
    <3>1. gs <= he /\ he # End(b)
      BY <1>1, <2>2
    <3> QED
      BY <1>1, <1>2, <2>2, <3>1
  <2> QED
    BY <1>1, <2>1, <2>2
<1> QED
  BY <1>3, <1>4, <1>5

(* ---- A strictly ordered list is what Gaps makes of its range --------------- *)

LEMMA CountedByIndex ==
  ASSUME NEW rs \in Seq(Region),
         \A i, j \in 1..Len(rs) : i < j => rs[i].start < rs[j].start,
         NEW m \in 0..Len(rs)
  PROVE  Cardinality({rs[j] : j \in 1..m}) = m
<1> DEFINE S == {rs[j] : j \in 1..m}
           f == [j \in 1..m |-> rs[j]]
<1>1. m \in Nat /\ 1..m \subseteq 1..Len(rs)
  BY LenProperties
<1>2. \A j \in 1..m : rs[j].start \in Nat
  <2>1. \A j \in 1..m : rs[j] \in Region
    BY <1>1, ElementOfSeq
  <2> QED
    BY <2>1 DEF Region
<1>3. \A i, j \in 1..m : rs[i] = rs[j] => i = j
  <2> SUFFICES ASSUME NEW i \in 1..m, NEW j \in 1..m, rs[i] = rs[j], i # j PROVE FALSE
    OBVIOUS
  <2>1. i < j \/ j < i
    OBVIOUS
  <2> QED
    BY <1>1, <1>2, <2>1
<1>4. f \in Bijection(1..m, S)
  <2>1. f \in [1..m -> S]
    OBVIOUS
  <2>2. \A i, j \in 1..m : f[i] = f[j] => i = j
    BY <1>3
  <2>3. \A r \in S : \E j \in 1..m : f[j] = r
    OBVIOUS
  <2> HIDE DEF f, S
  <2> QED
    BY <2>1, <2>2, <2>3 DEF Bijection, Injection, Surjection, IsInjective
<1>5. ExistsBijection(1..m, S)
  BY <1>4 DEF ExistsBijection
<1> QED
  BY <1>1, <1>5, FS_CountingElements

LEMMA OrderedRangesAreGaps ==
  ASSUME NEW rs \in Seq(Region), NEW bs, NEW ps,
         \A i, j \in 1..Len(rs) : i < j => rs[i].start < rs[j].start,
         {rs[j] : j \in 1..Len(rs)} = UNION {GapsIn(bs[i], ps) : i \in 1..Len(bs)}
  PROVE  Gaps(bs, ps) = rs
<1> DEFINE all == {rs[j] : j \in 1..Len(rs)}
           Below(r) == Cardinality({s \in all : s.start < r.start})
           n == Len(rs)
<1>1. Gaps(bs, ps) = [i \in 1..Cardinality(all) |-> CHOOSE r \in all : Below(r) = i - 1]
  <2> DEFINE gaps == UNION {GapsIn(bs[i], ps) : i \in 1..Len(bs)}
             Lower(r) == Cardinality({s \in gaps : s.start < r.start})
  <2>1. Gaps(bs, ps) = [i \in 1..Cardinality(gaps) |-> CHOOSE r \in gaps : Lower(r) = i - 1]
    BY Zenon DEF Gaps
  <2>2. gaps = all
    OBVIOUS
  <2> HIDE DEF gaps, all
  <2> QED
    BY <2>1, <2>2
<1>2. n \in Nat
  BY LenProperties
<1>3. Cardinality(all) = n
  BY <1>2, CountedByIndex
<1>4. \A i \in 1..n : rs[i].start \in Nat
  <2>1. \A i \in 1..n : rs[i] \in Region
    BY ElementOfSeq
  <2> QED
    BY <2>1 DEF Region
<1>5. ASSUME NEW i \in 1..n PROVE Below(rs[i]) = i - 1
  <2>1. {s \in all : s.start < rs[i].start} = {rs[j] : j \in 1..(i - 1)}
    <3>1. \A j \in 1..n : rs[j].start < rs[i].start <=> j \in 1..(i - 1)
      <4> SUFFICES ASSUME NEW j \in 1..n
                   PROVE  rs[j].start < rs[i].start <=> j \in 1..(i - 1)
        OBVIOUS
      <4>1. j < i \/ j = i \/ i < j
        BY <1>2
      <4> QED
        BY <1>2, <1>4, <4>1
    <3>2. 1..(i - 1) \subseteq 1..n
      BY <1>2
    <3> QED
      BY <3>1, <3>2
  <2>2. i - 1 \in 0..Len(rs)
    BY <1>2
  <2> HIDE DEF all
  <2> QED
    BY <2>1, <2>2, CountedByIndex
<1>6. ASSUME NEW i \in 1..n PROVE (CHOOSE r \in all : Below(r) = i - 1) = rs[i]
  <2>1. rs[i] \in all /\ Below(rs[i]) = i - 1
    BY <1>5
  <2>2. ASSUME NEW r \in all, Below(r) = i - 1 PROVE r = rs[i]
    <3>1. PICK j \in 1..n : r = rs[j]
      OBVIOUS
    <3>2. j - 1 = i - 1
      BY <1>5, <2>2, <3>1
    <3> QED
      BY <1>2, <3>1, <3>2
  <2> HIDE DEF all, Below
  <2> QED
    BY <2>1, <2>2
<1>7. rs = [i \in 1..n |-> rs[i]]
  OBVIOUS
<1> HIDE DEF all, Below, n
<1> QED
  BY <1>1, <1>3, <1>6, <1>7

\* The TDHOB lists the unaccepted RAM in as few ranges as the banks allow, by
\* address: exactly the list of the largest gaps (mrtd.py:334-361).
THEOREM RangesAreTheGaps == Spec => []GapsAreWhole
<1>1. Init => RangesAreWhole /\ CursorAtAnEdge
  BY DEF Init, RangesAreWhole, CursorAtAnEdge
<1>2. IInv /\ RangesAreWhole => GapsAreWhole
  <2> SUFFICES ASSUME IInv, RangesAreWhole, pc = "done"
               PROVE  unaccepted = Gaps(sorted_ram, sorted_private)
    BY DEF GapsAreWhole
  <2> DEFINE banks == 1..Len(sorted_ram)
             all == UNION {GapsIn(sorted_ram[b], sorted_private) : b \in banks}
  <2>1. /\ unaccepted \in Seq(Region) /\ sorted_ram \in Seq(Region)
        /\ sorted_private \in Seq(Region) /\ sorted_ram \in Banks
        /\ bank - 1 = Len(sorted_ram) /\ Len(sorted_ram) \in Nat
    BY DEF IInv, TypeOK, InBank, InputsKept
  <2>2. \A b \in banks : sorted_ram[b] \in Region
    BY <2>1, ElementOfSeq
  <2>3. \A g : g \in all <=> \E b \in banks : WholeGap(g, sorted_ram[b])
    <3>1. \A b \in banks : \A g :
            g \in GapsIn(sorted_ram[b], sorted_private) <=> WholeGap(g, sorted_ram[b])
      BY <2>1, <2>2, GapsInAreWhole
    <3> QED
      BY <3>1
  <2>4. \A a \in Nat : InSome(a, unaccepted) <=> InSome(a, sorted_ram) /\ ~InSome(a, sorted_private)
    <3> TAKE a \in Nat
    <3>1. Swept(a) <=> InSome(a, sorted_ram)
      BY <2>1 DEF Swept, InSome
    <3> QED
      BY <3>1 DEF IInv, CoveredSoFar
  <2>5. ASSUME NEW g \in all PROVE \E i \in 1..Len(unaccepted) : g = unaccepted[i]
    <3>1. PICK b \in banks : WholeGap(g, sorted_ram[b])
      BY <2>3
    <3>2. g.start \in Nat /\ In(g.start, g) /\ In(g.start, sorted_ram[b])
      BY <2>2, <3>1 DEF WholeGap, Region, End, In
    <3>3. InSome(g.start, unaccepted)
      <4>1. InSome(g.start, sorted_ram)
        BY <3>2 DEF InSome
      <4>2. ~InSome(g.start, sorted_private)
        BY <3>1, <3>2 DEF WholeGap
      <4> QED
        BY <2>4, <3>2, <4>1, <4>2
    <3>4. PICK i \in 1..Len(unaccepted) : In(g.start, unaccepted[i])
      BY <3>3 DEF InSome
    <3>5. PICK c \in banks : WholeGap(unaccepted[i], sorted_ram[c])
      BY DEF RangesAreWhole
    <3>6. b = c
      <4>1. In(g.start, sorted_ram[c])
        <5> PICK u, r, x : u = unaccepted[i] /\ r = sorted_ram[c] /\ x = g.start
          OBVIOUS
        <5>1. r \in Region /\ u \in Region /\ x \in Nat /\ In(x, u)
          BY <2>2, <3>2, <3>4, <3>5 DEF WholeGap
        <5>2. r.start <= u.start /\ End(u) <= End(r)
          BY <3>5 DEF WholeGap
        <5>3. /\ r.start \in Nat /\ r.length \in Nat /\ u.start \in Nat /\ u.length \in Nat
          BY <5>1 DEF Region
        <5>4. In(x, r)
          BY <5>1, <5>2, <5>3 DEF End, In
        <5> QED
          BY <5>4
      <4>2. ASSUME NEW x \in banks, NEW y \in banks, x < y,
                   In(g.start, sorted_ram[x]), In(g.start, sorted_ram[y])
            PROVE  FALSE
        <5>1. End(sorted_ram[x]) <= sorted_ram[y].start
          BY <2>1, <4>2, BanksAssumption
        <5>2. End(sorted_ram[x]) \in Nat /\ sorted_ram[y].start \in Nat
          BY <2>2 DEF Region, End
        <5> QED
          BY <3>2, <4>2, <5>1, <5>2 DEF In
      <4>3. b < c \/ c < b \/ b = c
        BY <2>1
      <4> QED
        BY <3>2, <4>1, <4>2, <4>3
    <3> QED
      BY <2>2, <3>1, <3>2, <3>4, <3>5, <3>6, WholeGapsMeet
  <2>6. {unaccepted[i] : i \in 1..Len(unaccepted)} = all
    <3>1. ASSUME NEW i \in 1..Len(unaccepted) PROVE unaccepted[i] \in all
      BY <2>3 DEF RangesAreWhole
    <3> HIDE DEF all
    <3> QED
      BY <2>5, <3>1
  <2>7. \A i, j \in 1..Len(unaccepted) : i < j => unaccepted[i].start < unaccepted[j].start
    <3> SUFFICES ASSUME NEW i \in 1..Len(unaccepted), NEW j \in 1..Len(unaccepted), i < j
                 PROVE  unaccepted[i].start < unaccepted[j].start
      OBVIOUS
    <3>1. unaccepted[i] \in Region /\ unaccepted[j] \in Region
      BY <2>1, ElementOfSeq
    <3>2. i \in 1..(j - 1)
      OBVIOUS
    <3>3. unaccepted[i].length > 0 /\ End(unaccepted[i]) <= unaccepted[j].start
      BY <3>2 DEF IInv, RangesInOrder
    <3> QED
      BY <3>1, <3>3 DEF Region, End
  <2> QED
    BY <2>1, <2>6, <2>7, OrderedRangesAreGaps
<1> QED
  BY <1>1, <1>2, WholeInvariant, InductiveInvariant, PTL DEF Spec

=============================================================================

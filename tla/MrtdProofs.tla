----------------------------- MODULE MrtdProofs -----------------------------
(* Theorems about Mrtd, for every metadata table, RAM topology, image size  *)
(* and page size.                                                           *)
EXTENDS Mrtd, FiniteSetTheorems, FunctionTheorems, SequenceTheorems, TLAPS

(* ---- The inductive invariant ------------------------------------------ *)

ChunkType == [of : {"image", "hob", "zero"}, at : Nat]
MaterialRegion == [gpr : Region, host_buffer : Seq(ChunkType), extend_mr : BOOLEAN]
Operation == [op : {"page_add", "mr_extend"}, gpa : Nat, chunk : ChunkType]

Built == hob # NoHob

\* The inputs, and what the variables hold of them.
Typed ==
  /\ sections \in Seq(Section) /\ banks \in Seq(Region)
  /\ regions \in Seq(MaterialRegion) /\ Len(regions) <= Len(sections)
  /\ tdhob_index \in 0..Len(regions)
  /\ region \in 1..(Len(regions) + 1) /\ step \in Nat
  /\ digest \in Seq(Operation)
  /\ pc \in {"extract", "check", "measure", "done", "refused"}

\* What a region is measured with: the file's bytes, until the TDHOB is built.
BodyOf(i) == IF Built /\ i = tdhob_index THEN HobBuffer ELSE BufferOf(sections[i])

\* The regions are the sections read so far, in their order.
RegionsMirrorSections ==
  \A i \in 1..Len(regions) :
    /\ sections[i].type # "UNKNOWN"
    /\ sections[i].type = "TDHOB" <=> i = tdhob_index
    /\ regions[i] = [gpr |-> Gpr(sections[i]), host_buffer |-> BodyOf(i),
                     extend_mr |-> sections[i].extend_mr]

\* The list is built when all sections have been read, and never again.
HobIsBuilt ==
  IF Built
    THEN /\ pc # "extract" /\ tdhob_index # 0 /\ Len(regions) = Len(sections)
         /\ HobLength <= Tdhob.gpr.length
         /\ hob = [end |-> Tdhob.gpr.start + EndOfHobOffset, resources |-> Resources]
    ELSE pc \in {"extract", "refused"} /\ digest = <<>> /\ region = 1

\* The regions measured were fit to be, and step counts in the one being measured.
MeasuredInOrder ==
  /\ \A i \in 1..(region - 1) : Measurable(regions[i])
  /\ pc = "measure" => /\ region <= Len(regions) /\ Measurable(Measured)
                       /\ step <= Measured.gpr.length
  /\ pc # "measure" => step = 0
  /\ pc = "done" => region = Len(regions) + 1

\* Why a table was refused: by a section, by the room for the TDHOB or by a region.
Refusal ==
  pc = "refused" =>
    IF Built THEN region <= Len(regions) /\ ~Measurable(Measured)
    ELSE \/ /\ Len(regions) < Len(sections)
            /\ Taken.type = "UNKNOWN" \/ (Taken.type = "TDHOB" /\ tdhob_index # 0)
         \/ Len(regions) = Len(sections) /\ tdhob_index = 0
         \/ /\ Len(regions) = Len(sections) /\ tdhob_index # 0
            /\ HobLength > Tdhob.gpr.length

IInv ==
  /\ Typed
  /\ RegionsMirrorSections
  /\ HobIsBuilt
  /\ MeasuredInOrder
  /\ Refusal

\* The page the next chunk belongs to is the page added last.
PageIsOpen ==
  pc = "measure" /\ step > 0 =>
    \E j \in 1..Len(digest) :
      /\ digest[j].op = "page_add"
      /\ digest[j].gpa = PageOf(Measured.gpr.start + step - 1)
      /\ \A i \in (j + 1)..Len(digest) : digest[i].op # "page_add"

\* The sections that have been measured at an address.
Passed(a) ==
  {i \in 1..Len(sections) :
     /\ In(a, Gpr(sections[i]))
     /\ i < region \/ (i = region /\ a < sections[i].memory_base + step)}
\* What has been extended for an address is what those sections ask for.
CountedAt(a) ==
  Built =>
  /\ TimesMeasured("page_add", a) = IF PageOf(a) = a THEN Cardinality(Passed(a)) ELSE 0
  /\ TimesMeasured("mr_extend", a) = Cardinality({i \in Passed(a) : sections[i].extend_mr})
CountedSoFar == \A a \in Nat : CountedAt(a)

\* Every chunk passed has been extended, if its section asks for it.
ExtendedSoFar ==
  Built =>
    \A i \in 1..Len(regions) : \A k \in 1..regions[i].gpr.length :
      /\ regions[i].extend_mr
      /\ i < region \/ (i = region /\ k <= step)
      => \E n \in 1..Len(digest) :
           digest[n] = MrExtend(regions[i].gpr.start + k - 1, regions[i].host_buffer[k])

(* ---- Lemmas on pages, sequences and gaps ------------------------------- *)

LEMMA Division ==
  ASSUME NEW a \in Int, NEW P \in Int, P > 0
  PROVE  a = P * (a \div P) + (a % P) /\ a \div P \in Int /\ a % P \in 0..(P - 1)
<1>1. a = P * (a \div P) + (a % P)
  OBVIOUS
<1>2. a % P \in 0..(P - 1)
  OBVIOUS
<1>3. a \div P \in Int
  OBVIOUS
<1> QED
  BY <1>1, <1>2, <1>3

LEMMA Remainder ==
  ASSUME NEW q \in Int, NEW P \in Int, P > 0, NEW r \in 0..(P - 1)
  PROVE  (P * q + r) % P = r
OBVIOUS

\* From a page boundary on, an offset is as far into its page as its address.
LEMMA OffsetInPage ==
  ASSUME NEW s \in Nat, NEW a \in Nat, NEW P \in Nat \ {0}, a % P = 0
  PROVE  (a + s) % P = s % P
<1> DEFINE q == a \div P
           t == s \div P
           r == s % P
<1>1. a = P * q /\ s = P * t + r /\ q \in Int /\ t \in Int /\ r \in 0..(P - 1)
  BY Division
<1> HIDE DEF q, t, r
<1>2. a + s = P * (q + t) + r
  BY <1>1
<1>3. (P * (q + t) + r) % P = r
  BY <1>1, Remainder
<1> QED
  BY <1>2, <1>3 DEF r

\* An address that is not a page boundary is one further into its page than the
\* address before it.
LEMMA NextInPage ==
  ASSUME NEW s \in Nat, NEW P \in Nat \ {0}, (s + 1) % P # 0
  PROVE  (s + 1) % P = (s % P) + 1
<1> DEFINE t == s \div P
           r == s % P
<1>1. s = P * t + r /\ t \in Int /\ r \in 0..(P - 1)
  BY Division
<1> HIDE DEF t, r
<1>2. CASE r + 1 = P
  <2>1. s + 1 = P * (t + 1) + 0
    BY <1>1, <1>2
  <2>2. (P * (t + 1) + 0) % P = 0
    BY <1>1, Remainder
  <2> QED
    BY <2>1, <2>2
<1>3. CASE r + 1 # P
  <2>1. r + 1 \in 0..(P - 1) /\ s + 1 = P * t + (r + 1)
    BY <1>1, <1>3
  <2>2. (P * t + (r + 1)) % P = r + 1
    BY <1>1, <2>1, Remainder
  <2> QED
    BY <2>1, <2>2 DEF r
<1> QED
  BY <1>2, <1>3

\* A bank has finitely many gaps: they start at different addresses of it.
LEMMA GapsInFinite ==
  ASSUME NEW bank \in Region, NEW privates
  PROVE  IsFiniteSet(GapsIn(bank, privates))
<1> DEFINE free == {a \in bank.start..(End(bank) - 1) : ~InSome(a, privates)}
           first == {a \in free : a - 1 \notin free}
           Length(a) == CHOOSE n \in 1..bank.length :
                          /\ a + n \notin free
                          /\ \A k \in 1..(n - 1) : a + k \in free
           gap == [a \in first |-> [start |-> a, length |-> Length(a)]]
<1>1. bank.start \in Int /\ End(bank) - 1 \in Int
  BY DEF Region, End
<1>2. IsFiniteSet(bank.start..(End(bank) - 1))
  BY <1>1, FS_Interval
<1>3. IsFiniteSet(first)
  <2>1. first \in SUBSET (bank.start..(End(bank) - 1))
    OBVIOUS
  <2> HIDE DEF first
  <2> QED
    BY <1>2, <2>1, FS_Subset
<1>4. GapsIn(bank, privates) = {gap[a] : a \in first}
  BY DEF GapsIn
<1> HIDE DEF first, gap
<1>5. gap \in Surjection(first, {gap[a] : a \in first})
  <2>1. DOMAIN gap = first /\ gap = [a \in first |-> gap[a]]
    BY DEF gap
  <2> QED
    BY <2>1, Zenon DEF Surjection
<1> QED
  BY <1>3, <1>4, <1>5, FS_Surjection

LEMMA LenGaps ==
  ASSUME NEW bs \in Seq(Region), NEW privates
  PROVE  Len(Gaps(bs, privates)) \in Nat
<1> DEFINE I == 1..Len(bs)
           of == [i \in I |-> GapsIn(bs[i], privates)]
           all == {of[i] : i \in I}
<1>1. \A i \in I : IsFiniteSet(of[i])
  BY GapsInFinite, ElementOfSeq
<1>2. IsFiniteSet(I)
  BY LenProperties, FS_Interval
<1>3. UNION {GapsIn(bs[i], privates) : i \in I} = UNION all
  OBVIOUS
<1>4. of \in Surjection(I, all)
  <2>1. of \in [I -> all]
    OBVIOUS
  <2> QED
    BY <2>1, Zenon DEF Surjection
<1> HIDE DEF I, of
<1>5. IsFiniteSet(all)
  BY <1>2, <1>4, FS_Surjection
<1>6. IsFiniteSet(UNION all)
  BY <1>1, <1>5, FS_UNION
<1>7. Cardinality(UNION {GapsIn(bs[i], privates) : i \in I}) \in Nat
  BY <1>3, <1>6, FS_CardinalityType
<1> DEFINE gaps == UNION {GapsIn(bs[i], privates) : i \in 1..Len(bs)}
           Below(r) == Cardinality({s \in gaps : s.start < r.start})
           list == [i \in 1..Cardinality(gaps) |-> CHOOSE r \in gaps : Below(r) = i - 1]
<1>8. Gaps(bs, privates) = list
  BY Zenon DEF Gaps
<1>9. Cardinality(gaps) \in Nat
  BY <1>7 DEF I
<1> QED
  BY <1>8, <1>9

(* ---- Lemmas on what a region holds -------------------------------------- *)

\* A slice has the bytes asked for that the image has.
LEMMA SliceFacts ==
  ASSUME NEW offset \in Nat, NEW size \in Nat
  PROVE  /\ Slice(offset, size) \in Seq(ChunkType)
         /\ Len(Slice(offset, size)) = Lesser(offset + size, ImageSize) - Lesser(offset, ImageSize)
         /\ \A k \in 1..Len(Slice(offset, size)) :
              /\ Slice(offset, size)[k] = Image(offset + k - 1)
              /\ offset + k - 1 \in 0..(ImageSize - 1) /\ k <= size
<1> DEFINE n == Lesser(offset + size, ImageSize) - Lesser(offset, ImageSize)
<1>1. ImageSize \in Nat
  BY SizesAssumption
<1>2. n \in Nat /\ n <= size /\ (n > 0 => offset + n <= ImageSize)
  BY <1>1 DEF Lesser
<1>3. Slice(offset, size) = [i \in 1..n |-> Image(offset + i - 1)]
  BY DEF Slice
<1> HIDE DEF n
<1>4. \A k \in 1..n : Image(offset + k - 1) \in ChunkType
  BY DEF Image, ChunkType
<1>5. Slice(offset, size) \in Seq(ChunkType) /\ Len(Slice(offset, size)) = n
  <2>1. Slice(offset, size) \in [1..n -> ChunkType]
    BY <1>3, <1>4
  <2> QED
    BY <1>2, <2>1
<1> QED
  BY <1>1, <1>2, <1>3, <1>5 DEF n

LEMMA BufferFacts ==
  ASSUME NEW s \in Section
  PROVE  /\ BufferOf(s) \in Seq(ChunkType)
         /\ s.type \notin {"BFV", "CFV"} => BufferOf(s) = <<>>
         /\ s.type \in {"BFV", "CFV"} => BufferOf(s) = Slice(s.data_offset, s.data_size)
<1>1. s.data_offset \in Nat /\ s.data_size \in Nat
  BY DEF Section
<1>2. Slice(s.data_offset, s.data_size) \in Seq(ChunkType)
  BY <1>1, SliceFacts
<1> QED
  BY <1>2 DEF BufferOf

\* The list of resources has one for each region and each gap.
LEMMA HobFacts ==
  ASSUME Typed
  PROVE  /\ Len(Unaccepted) \in Nat /\ Len(Resources) = Len(regions) + Len(Unaccepted)
         /\ HobLength \in Nat /\ EndOfHobOffset \in Nat
         /\ EndOfHobOffset + EndMarkerSize = HobLength
         /\ EndOfHobOffset = HandoffSize + DescriptorSize * Len(Resources)
         /\ EndOfHobOffset > 0
         /\ HobLength = HandoffSize + EndMarkerSize
                          + DescriptorSize * (Len(regions) + Len(Unaccepted))
<1>1. Len(Unaccepted) \in Nat
  BY LenGaps DEF Typed, Unaccepted
<1>2. Len(regions) \in Nat
  BY DEF Typed
<1> DEFINE n == Len(regions)
           m == Len(Unaccepted)
           f == [i \in 1..n |-> [kind |-> "system", gpr |-> regions[i].gpr, early |-> FALSE]]
           g == [i \in 1..m |-> [kind |-> "unaccepted", gpr |-> Unaccepted[i],
                                 early |-> EarlyAccept(Unaccepted[i])]]
           S == {f[i] : i \in 1..n} \cup {g[i] : i \in 1..m}
<1>3. Resources = f \o g
  BY DEF Resources
<1> HIDE DEF f, g
<1>4. f \in Seq(S) /\ Len(f) = n
  <2>1. DOMAIN f = 1..n /\ f = [i \in 1..n |-> f[i]]
    BY DEF f
  <2>2. f \in [1..n -> S]
    BY <2>1
  <2> HIDE DEF S
  <2> QED
    BY <1>2, <2>2
<1>5. g \in Seq(S) /\ Len(g) = m
  <2>1. DOMAIN g = 1..m /\ g = [i \in 1..m |-> g[i]]
    BY DEF g
  <2>2. g \in [1..m -> S]
    BY <2>1
  <2> HIDE DEF S
  <2> QED
    BY <1>1, <2>2
<1> HIDE DEF S
<1>6. Len(Resources) = n + m
  <2>1. Len(f \o g) = Len(f) + Len(g)
    BY <1>4, <1>5, ConcatProperties
  <2> HIDE DEF n, m
  <2> QED
    BY <1>3, <1>4, <1>5, <2>1, Zenon
<1>7. HandoffSize \in Nat \ {0} /\ DescriptorSize \in Nat \ {0} /\ EndMarkerSize \in Nat \ {0}
  BY SizesAssumption
<1>8. DescriptorSize * (n + m) \in Nat
  BY <1>1, <1>2, <1>7
<1> HIDE DEF n, m
<1>9. EndOfHobOffset = HandoffSize + DescriptorSize * (n + m)
  BY DEF EndOfHobOffset, n, m
<1>10. HobLength = HandoffSize + DescriptorSize * (n + m) + EndMarkerSize
  BY <1>6 DEF HobLength
<1> DEFINE dd == DescriptorSize * (n + m)
<1> HIDE DEF dd
<1>11. /\ EndOfHobOffset \in Nat /\ HobLength \in Nat /\ EndOfHobOffset > 0
       /\ EndOfHobOffset + EndMarkerSize = HobLength
       /\ HobLength = HandoffSize + EndMarkerSize + DescriptorSize * (n + m)
  BY <1>7, <1>8, <1>9, <1>10 DEF dd
<1> QED
  BY <1>1, <1>6, <1>9, <1>11 DEF n, m

LEMMA TdhobType ==
  ASSUME Typed, tdhob_index # 0
  PROVE  Tdhob \in MaterialRegion /\ Tdhob.gpr.start \in Nat /\ Tdhob.gpr.length \in Nat
<1>1. Tdhob \in MaterialRegion
  BY DEF Typed, Tdhob
<1>2. Tdhob.gpr \in Region
  BY <1>1 DEF MaterialRegion
<1> QED
  BY <1>1, <1>2 DEF Region

LEMMA HobBufferFacts ==
  ASSUME Typed, tdhob_index # 0
  PROVE  /\ HobBuffer \in Seq(ChunkType) /\ Len(HobBuffer) = Tdhob.gpr.length
         /\ \A k \in 1..Tdhob.gpr.length :
              HobBuffer[k] = IF k <= HobLength THEN Hob(k) ELSE Zero
<1>2. Tdhob.gpr.length \in Nat
  BY TdhobType
<1>3. HobLength \in Nat
  BY HobFacts
<1> DEFINE n == Tdhob.gpr.length
<1>4. HobBuffer = [i \in 1..n |-> IF i <= HobLength THEN Hob(i) ELSE Zero]
  BY DEF HobBuffer
<1> HIDE DEF n
<1>5. \A i \in 1..n : (IF i <= HobLength THEN Hob(i) ELSE Zero) \in ChunkType
  BY DEF Hob, Zero, ChunkType
<1>6. n \in Nat
  BY <1>2 DEF n
<1>7. HobBuffer \in Seq(ChunkType) /\ Len(HobBuffer) = n
  BY <1>4, <1>5, <1>6
<1> QED
  BY <1>4, <1>7 DEF n

\* The list depends on where the regions lie, not on what they hold.
LEMMA HobStays ==
  ASSUME Typed, Typed', Len(regions') = Len(regions), banks' = banks,
         \A i \in 1..Len(regions) : regions'[i].gpr = regions[i].gpr,
         tdhob_index' = tdhob_index, tdhob_index # 0
  PROVE  /\ Resources' = Resources /\ HobLength' = HobLength /\ EndOfHobOffset' = EndOfHobOffset
         /\ HobBuffer' = HobBuffer /\ Tdhob'.gpr = Tdhob.gpr
<1>1. PrivateResources' = PrivateResources
  BY DEF PrivateResources
<1>2. Unaccepted' = Unaccepted
  BY <1>1 DEF Unaccepted
<1>3. Resources' = Resources
  <2> DEFINE f == [i \in 1..Len(regions) |->
                     [kind |-> "system", gpr |-> regions[i].gpr, early |-> FALSE]]
             g == [i \in 1..Len(Unaccepted) |->
                     [kind |-> "unaccepted", gpr |-> Unaccepted[i],
                      early |-> EarlyAccept(Unaccepted[i])]]
  <2>1. f' = f
    OBVIOUS
  <2>2. g' = g
    BY <1>2
  <2> HIDE DEF f, g
  <2> QED
    BY <2>1, <2>2 DEF Resources, f, g
<1>4. HobLength' = HobLength /\ EndOfHobOffset' = EndOfHobOffset
  BY <1>2, <1>3 DEF HobLength, EndOfHobOffset
<1>5. Tdhob'.gpr = Tdhob.gpr
  BY DEF Tdhob, Typed
<1>6. HobBuffer' = HobBuffer
  BY <1>4, <1>5 DEF HobBuffer
<1> QED
  BY <1>3, <1>4, <1>5, <1>6

\* What the invariant says of one region.
LEMMA RegionFacts ==
  ASSUME Typed, RegionsMirrorSections, NEW i \in 1..Len(regions)
  PROVE  /\ i \in 1..Len(sections) /\ sections[i] \in Section
         /\ regions[i] \in MaterialRegion
         /\ regions[i].gpr = [start |-> sections[i].memory_base, length |-> sections[i].memory_size]
         /\ regions[i].gpr.start = sections[i].memory_base /\ sections[i].memory_base \in Nat
         /\ regions[i].gpr.length = sections[i].memory_size /\ sections[i].memory_size \in Nat
         /\ regions[i].extend_mr = sections[i].extend_mr /\ sections[i].extend_mr \in BOOLEAN
         /\ regions[i].host_buffer = BodyOf(i) /\ BodyOf(i) \in Seq(ChunkType)
<1>1. i \in 1..Len(sections)
  BY DEF Typed
<1>2. sections[i] \in Section /\ regions[i] \in MaterialRegion
  BY <1>1, ElementOfSeq DEF Typed
<1>3. regions[i] = [gpr |-> Gpr(sections[i]), host_buffer |-> BodyOf(i),
                    extend_mr |-> sections[i].extend_mr]
  BY DEF RegionsMirrorSections
<1>4. sections[i].memory_base \in Nat /\ sections[i].memory_size \in Nat /\ sections[i].extend_mr \in BOOLEAN
  BY <1>2 DEF Section
<1>5. regions[i].host_buffer \in Seq(ChunkType)
  BY <1>2 DEF MaterialRegion
<1> QED
  BY <1>1, <1>2, <1>3, <1>4, <1>5 DEF Gpr

(* ---- The inductive invariant is kept ----------------------------------- *)

LEMMA InitInvariant == Init => IInv
<1> SUFFICES ASSUME Init PROVE IInv
  OBVIOUS
<1>1. sections \in Seq(Section) /\ banks \in Seq(Region)
  BY SectionsAssumption, BanksAssumption DEF Init
<1>2. Typed
  BY <1>1 DEF Init, Typed
<1>3. RegionsMirrorSections
  BY DEF Init, RegionsMirrorSections
<1>4. HobIsBuilt
  BY DEF Init, HobIsBuilt, Built
<1>5. MeasuredInOrder /\ Refusal
  BY DEF Init, MeasuredInOrder, Refusal
<1> QED
  BY <1>2, <1>3, <1>4, <1>5 DEF IInv

\* What depends on the inputs and the regions only does not change while these do not.
LEMMA Frame ==
  ASSUME UNCHANGED <<sections, banks, regions, tdhob_index, hob>>
  PROVE  /\ Resources' = Resources /\ HobLength' = HobLength /\ EndOfHobOffset' = EndOfHobOffset
         /\ HobBuffer' = HobBuffer /\ Tdhob' = Tdhob /\ Taken' = Taken /\ Built' = Built
         /\ RegionsMirrorSections' <=> RegionsMirrorSections
<1>1. Unaccepted' = Unaccepted
  BY DEF Unaccepted, PrivateResources
<1>2. Resources' = Resources
  BY <1>1 DEF Resources
<1>3. HobLength' = HobLength /\ EndOfHobOffset' = EndOfHobOffset
  BY <1>1, <1>2 DEF HobLength, EndOfHobOffset
<1>4. Tdhob' = Tdhob
  BY DEF Tdhob
<1>5. HobBuffer' = HobBuffer
  BY <1>3, <1>4 DEF HobBuffer
<1>6. Taken' = Taken /\ Built' = Built
  BY DEF Taken, Built
<1>7. RegionsMirrorSections' <=> RegionsMirrorSections
  BY <1>5, <1>6 DEF RegionsMirrorSections, BodyOf
<1> QED
  BY <1>2, <1>3, <1>4, <1>5, <1>6, <1>7

LEMMA ExtractRegionInvariant == IInv /\ ExtractRegion => IInv'
<1> SUFFICES ASSUME IInv, ExtractRegion PROVE IInv'
  OBVIOUS
<1> DEFINE n == Len(regions)
           new == [gpr |-> Gpr(Taken), host_buffer |-> BufferOf(Taken),
                   extend_mr |-> Taken.extend_mr]
<1>1. pc = "extract" /\ ~Built /\ digest = <<>> /\ region = 1 /\ step = 0 /\ Typed /\ RegionsMirrorSections
  BY DEF IInv, HobIsBuilt, ExtractRegion, MeasuredInOrder
<1>2. n + 1 \in 1..Len(sections) /\ n \in Nat /\ Taken = sections[n + 1] /\ Taken \in Section
  BY <1>1 DEF ExtractRegion, Typed, Taken
<1>3. new \in MaterialRegion
  BY <1>2, BufferFacts DEF MaterialRegion, Region, Gpr, Section
<1>4. regions' = Append(regions, new)
  BY DEF ExtractRegion
<1> HIDE DEF new
<1>5. /\ regions' \in Seq(MaterialRegion) /\ Len(regions') = n + 1
      /\ \A i \in 1..n : regions'[i] = regions[i]
      /\ regions'[n + 1] = new
  BY <1>1, <1>3, <1>4, AppendProperties DEF Typed
<1>6. tdhob_index' = IF Taken.type = "TDHOB" THEN n + 1 ELSE tdhob_index
  BY DEF ExtractRegion
<1>7. sections' = sections /\ banks' = banks /\ hob' = hob /\ region' = region /\ step' = step
      /\ digest' = digest /\ pc' = pc
  BY DEF ExtractRegion
<1>8. Typed'
  BY <1>1, <1>2, <1>5, <1>6, <1>7 DEF Typed
<1>9. ~Built'
  BY <1>1, <1>7 DEF Built
<1>10. RegionsMirrorSections'
  <2> SUFFICES ASSUME NEW i \in 1..(n + 1)
               PROVE  /\ sections[i].type # "UNKNOWN"
                      /\ sections[i].type = "TDHOB" <=> i = tdhob_index'
                      /\ regions'[i] = [gpr |-> Gpr(sections[i]),
                                        host_buffer |-> BufferOf(sections[i]),
                                        extend_mr |-> sections[i].extend_mr]
    BY <1>5, <1>7, <1>9 DEF RegionsMirrorSections, BodyOf
  <2>1. CASE i \in 1..n
    <3>1. /\ sections[i].type # "UNKNOWN"
          /\ sections[i].type = "TDHOB" <=> i = tdhob_index
          /\ regions[i] = [gpr |-> Gpr(sections[i]), host_buffer |-> BufferOf(sections[i]),
                           extend_mr |-> sections[i].extend_mr]
      BY <1>1, <2>1 DEF RegionsMirrorSections, BodyOf
    <3>2. Taken.type = "TDHOB" => tdhob_index = 0
      BY DEF ExtractRegion
    <3> QED
      BY <1>2, <1>5, <1>6, <2>1, <3>1, <3>2
  <2>2. CASE i = n + 1
    <3>1. Taken.type # "UNKNOWN"
      BY DEF ExtractRegion
    <3>2. tdhob_index \in 0..n
      BY <1>1 DEF Typed
    <3> QED
      BY <1>2, <1>5, <1>6, <2>2, <3>1, <3>2 DEF new
  <2> QED
    BY <1>2, <2>1, <2>2
<1>11. HobIsBuilt'
  BY <1>1, <1>7, <1>9 DEF HobIsBuilt
<1>12. MeasuredInOrder'
  BY <1>1, <1>7 DEF MeasuredInOrder
<1>13. Refusal'
  BY <1>1, <1>7 DEF Refusal
<1> QED
  BY <1>8, <1>10, <1>11, <1>12, <1>13 DEF IInv

LEMMA RefuseSectionsInvariant == IInv /\ RefuseSections => IInv'
<1> SUFFICES ASSUME IInv, RefuseSections PROVE IInv'
  OBVIOUS
<1>1. UNCHANGED <<sections, banks, regions, tdhob_index, hob>> /\ UNCHANGED <<region, step, digest>>
      /\ pc = "extract" /\ pc' = "refused"
  BY DEF RefuseSections
<1>2. ~Built /\ Typed /\ RegionsMirrorSections /\ digest = <<>> /\ region = 1 /\ step = 0
  BY <1>1 DEF IInv, HobIsBuilt, MeasuredInOrder
<1>3. ~Built' /\ RegionsMirrorSections'
  BY <1>1, <1>2, Frame
<1>4. Typed'
  BY <1>1, <1>2 DEF Typed
<1>5. HobIsBuilt' /\ MeasuredInOrder'
  BY <1>1, <1>2, <1>3 DEF HobIsBuilt, MeasuredInOrder
<1>6. Refusal'
  <2>1. \/ Len(regions) < Len(sections) /\ (Taken.type = "UNKNOWN" \/ (Taken.type = "TDHOB" /\ tdhob_index # 0))
        \/ Len(regions) = Len(sections) /\ tdhob_index = 0
    BY <1>2 DEF RefuseSections, Typed
  <2> QED
    BY <1>1, <1>3, <2>1, Frame DEF Refusal
<1> QED
  BY <1>3, <1>4, <1>5, <1>6 DEF IInv

LEMMA RefuseTdhobInvariant == IInv /\ RefuseTdhob => IInv'
<1> SUFFICES ASSUME IInv, RefuseTdhob PROVE IInv'
  OBVIOUS
<1>1. UNCHANGED <<sections, banks, regions, tdhob_index, hob>> /\ UNCHANGED <<region, step, digest>>
      /\ pc = "extract" /\ pc' = "refused"
  BY DEF RefuseTdhob
<1>2. ~Built /\ Typed /\ RegionsMirrorSections /\ digest = <<>> /\ region = 1 /\ step = 0
  BY <1>1 DEF IInv, HobIsBuilt, MeasuredInOrder
<1>3. ~Built' /\ RegionsMirrorSections'
  BY <1>1, <1>2, Frame
<1>4. Typed'
  BY <1>1, <1>2 DEF Typed
<1>5. HobIsBuilt' /\ MeasuredInOrder'
  BY <1>1, <1>2, <1>3 DEF HobIsBuilt, MeasuredInOrder
<1>6. Refusal'
  <2>1. Len(regions) = Len(sections) /\ tdhob_index # 0 /\ HobLength > Tdhob.gpr.length
    BY DEF RefuseTdhob
  <2>2. HobLength' = HobLength /\ Tdhob' = Tdhob
    BY <1>1, Frame
  <2> QED
    BY <1>1, <1>3, <2>1, <2>2 DEF Refusal
<1> QED
  BY <1>3, <1>4, <1>5, <1>6 DEF IInv

LEMMA BuildTdhobInvariant == IInv /\ BuildTdhob => IInv'
<1> SUFFICES ASSUME IInv, BuildTdhob PROVE IInv'
  OBVIOUS
<1> DEFINE t == tdhob_index
           n == Len(regions)
<1>1. /\ pc = "extract" /\ ~Built /\ digest = <<>> /\ region = 1 /\ step = 0
      /\ Typed /\ RegionsMirrorSections
  BY DEF IInv, HobIsBuilt, BuildTdhob, MeasuredInOrder
<1>2. /\ n = Len(sections) /\ t # 0 /\ HobLength <= Tdhob.gpr.length
      /\ hob' = [end |-> Tdhob.gpr.start + EndOfHobOffset, resources |-> Resources]
      /\ pc' = "check"
      /\ UNCHANGED <<sections, banks, tdhob_index, region, step, digest>>
  BY DEF BuildTdhob
<1>3. n \in Nat /\ t \in 1..n /\ Tdhob = regions[t] /\ Tdhob \in MaterialRegion
  BY <1>1, <1>2 DEF Typed, Tdhob
<1> DEFINE new == [regions[t] EXCEPT !.host_buffer = HobBuffer]
<1>4. new = [gpr |-> regions[t].gpr, host_buffer |-> HobBuffer, extend_mr |-> regions[t].extend_mr]
  BY <1>3 DEF MaterialRegion
<1>5. new \in MaterialRegion
  BY <1>1, <1>2, <1>3, <1>4, HobBufferFacts DEF MaterialRegion
<1>6. regions' = [regions EXCEPT ![t] = new]
  BY DEF BuildTdhob
<1> HIDE DEF new
<1>7. /\ regions' \in Seq(MaterialRegion) /\ Len(regions') = n
      /\ \A i \in 1..n : regions'[i] = IF i = t THEN new ELSE regions[i]
  BY <1>1, <1>3, <1>5, <1>6, ExceptSeq DEF Typed
<1>8. Typed'
  BY <1>1, <1>2, <1>7 DEF Typed
<1>9. \A i \in 1..n : regions'[i].gpr = regions[i].gpr
  BY <1>3, <1>4, <1>7
<1>10. /\ Resources' = Resources /\ HobLength' = HobLength /\ EndOfHobOffset' = EndOfHobOffset
       /\ HobBuffer' = HobBuffer /\ Tdhob'.gpr = Tdhob.gpr
  BY <1>1, <1>2, <1>7, <1>8, <1>9, HobStays
<1>11. Built'
  <2>1. Tdhob.gpr.start \in Nat
    BY <1>3 DEF MaterialRegion, Region
  <2>2. EndOfHobOffset \in Nat /\ EndOfHobOffset > 0
    BY <1>1, HobFacts
  <2>3. hob'.end > 0
    BY <1>2, <2>1, <2>2
  <2> QED
    BY <2>3 DEF Built, NoHob
<1>12. RegionsMirrorSections'
  <2> SUFFICES ASSUME NEW i \in 1..n
               PROVE  /\ sections[i].type # "UNKNOWN"
                      /\ sections[i].type = "TDHOB" <=> i = t
                      /\ regions'[i] = [gpr |-> Gpr(sections[i]), host_buffer |-> BodyOf(i)',
                                        extend_mr |-> sections[i].extend_mr]
    BY <1>2, <1>7 DEF RegionsMirrorSections
  <2>1. /\ sections[i].type # "UNKNOWN"
        /\ sections[i].type = "TDHOB" <=> i = t
        /\ regions[i] = [gpr |-> Gpr(sections[i]), host_buffer |-> BufferOf(sections[i]),
                         extend_mr |-> sections[i].extend_mr]
    BY <1>1 DEF RegionsMirrorSections, BodyOf
  <2>2. CASE i = t
    <3>1. BodyOf(i)' = HobBuffer
      BY <1>2, <1>10, <1>11, <2>2 DEF BodyOf
    <3> QED
      BY <1>4, <1>7, <2>1, <2>2, <3>1
  <2>3. CASE i # t
    <3>1. BodyOf(i)' = BufferOf(sections[i])
      BY <1>2, <2>3 DEF BodyOf
    <3> QED
      BY <1>7, <2>1, <2>3, <3>1
  <2> QED
    BY <2>2, <2>3
<1>13. HobIsBuilt'
  BY <1>2, <1>7, <1>10, <1>11 DEF HobIsBuilt
<1>14. MeasuredInOrder' /\ Refusal'
  BY <1>1, <1>2 DEF MeasuredInOrder, Refusal
<1> QED
  BY <1>8, <1>12, <1>13, <1>14 DEF IInv

\* What the invariant says while regions are measured.
LEMMA MeasuringFacts ==
  ASSUME IInv, pc \in {"check", "measure", "done"}
  PROVE  /\ Built /\ Typed /\ RegionsMirrorSections /\ Len(regions) = Len(sections)
         /\ tdhob_index # 0
BY DEF IInv, HobIsBuilt

\* A step that only measures keeps what holds of the inputs and of the regions.
LEMMA KeptByMeasuring ==
  ASSUME IInv, Built, pc' # "extract",
         UNCHANGED <<sections, banks, regions, tdhob_index, hob>>
  PROVE  RegionsMirrorSections' /\ HobIsBuilt' /\ Built'
<1>1. RegionsMirrorSections' /\ Built' /\ Resources' = Resources /\ HobLength' = HobLength
      /\ EndOfHobOffset' = EndOfHobOffset /\ Tdhob' = Tdhob
  BY Frame DEF IInv
<1> QED
  BY <1>1 DEF IInv, HobIsBuilt

LEMMA CheckRegionInvariant == IInv /\ CheckRegion => IInv'
<1> SUFFICES ASSUME IInv, CheckRegion PROVE IInv'
  OBVIOUS
<1>1. UNCHANGED <<sections, banks, regions, tdhob_index, hob>> /\ UNCHANGED <<region, step, digest>>
      /\ pc = "check" /\ region <= Len(regions)
      /\ pc' = IF Measurable(Measured) THEN "measure" ELSE "refused"
  BY DEF CheckRegion
<1>2. Built /\ Typed
  BY <1>1, MeasuringFacts
<1>3. RegionsMirrorSections' /\ HobIsBuilt' /\ Built'
  BY <1>1, <1>2, KeptByMeasuring
<1>4. Typed'
  BY <1>1, <1>2 DEF Typed
<1>5. step = 0 /\ \A i \in 1..(region - 1) : Measurable(regions[i])
  BY <1>1 DEF IInv, MeasuredInOrder
<1>6. Measured' = Measured
  BY <1>1 DEF Measured
<1>7. region \in 1..Len(regions)
  BY <1>1, <1>2 DEF Typed
<1>8. Measured.gpr.length \in Nat
  BY <1>2, <1>7, RegionFacts DEF Measured, IInv
<1>9. MeasuredInOrder'
  BY <1>1, <1>5, <1>6, <1>8 DEF MeasuredInOrder, Measurable
<1>10. Refusal'
  BY <1>1, <1>3, <1>6 DEF Refusal, Measurable
<1> QED
  BY <1>3, <1>4, <1>9, <1>10 DEF IInv

LEMMA NextRegionInvariant == IInv /\ NextRegion => IInv'
<1> SUFFICES ASSUME IInv, NextRegion PROVE IInv'
  OBVIOUS
<1>1. UNCHANGED <<sections, banks, regions, tdhob_index, hob>> /\ digest' = digest
      /\ pc = "measure" /\ pc' = "check" /\ region' = region + 1 /\ step' = 0
  BY DEF NextRegion
<1>2. Built /\ Typed
  BY <1>1, MeasuringFacts
<1>3. RegionsMirrorSections' /\ HobIsBuilt' /\ Built'
  BY <1>1, <1>2, KeptByMeasuring
<1>4. /\ region <= Len(regions) /\ Measurable(regions[region])
      /\ \A i \in 1..(region - 1) : Measurable(regions[i])
  BY <1>1 DEF IInv, MeasuredInOrder, Measured
<1>5. Typed'
  BY <1>1, <1>2, <1>4 DEF Typed
<1>6. region \in Nat
  BY <1>2 DEF Typed
<1>7. \A i \in 1..region : Measurable(regions[i])
  BY <1>4, <1>6
<1>8. MeasuredInOrder'
  BY <1>1, <1>6, <1>7 DEF MeasuredInOrder, Measurable
<1>9. Refusal'
  BY <1>1 DEF Refusal
<1> QED
  BY <1>3, <1>5, <1>8, <1>9 DEF IInv

LEMMA FinalizeInvariant == IInv /\ Finalize => IInv'
<1> SUFFICES ASSUME IInv, Finalize PROVE IInv'
  OBVIOUS
<1>1. UNCHANGED <<sections, banks, regions, tdhob_index, hob>> /\ UNCHANGED <<region, step, digest>>
      /\ pc = "check" /\ pc' = "done" /\ region > Len(regions)
  BY DEF Finalize
<1>2. Built /\ Typed
  BY <1>1, MeasuringFacts
<1>3. RegionsMirrorSections' /\ HobIsBuilt' /\ Built'
  BY <1>1, <1>2, KeptByMeasuring
<1>4. Typed'
  BY <1>1, <1>2 DEF Typed
<1>5. region = Len(regions) + 1
  BY <1>1, <1>2 DEF Typed
<1>6. MeasuredInOrder' /\ Refusal'
  BY <1>1, <1>5 DEF IInv, MeasuredInOrder, Refusal, Measurable
<1> QED
  BY <1>3, <1>4, <1>6 DEF IInv

\* A sequence with one more element, or none.
LEMMA ConcatAtMostOne ==
  ASSUME NEW S, NEW d \in Seq(S), NEW x \in S, NEW f, f = <<>> \/ f = <<x>>
  PROVE  /\ Len(f) \in {0, 1} /\ (f = <<x>> => Len(f) = 1)
         /\ d \o f \in Seq(S) /\ Len(d \o f) = Len(d) + Len(f)
         /\ \A k \in 1..Len(d) : (d \o f)[k] = d[k]
         /\ f = <<x>> => (d \o f)[Len(d) + 1] = x
<1>1. CASE f = <<x>>
  <2>1. d \o f = Append(d, x)
    BY <1>1, AppendIsConcat
  <2>2. <<x>> # <<>> /\ Len(<<x>>) = 1
    OBVIOUS
  <2>3. /\ Append(d, x) \in Seq(S) /\ Len(Append(d, x)) = Len(d) + 1
        /\ \A k \in 1..Len(d) : Append(d, x)[k] = d[k]
        /\ Append(d, x)[Len(d) + 1] = x
    BY AppendProperties
  <2> QED
    BY <1>1, <2>1, <2>2, <2>3
<1>2. CASE f = <<>>
  <2>1. d \o f = d
    BY <1>2, ConcatEmptySeq
  <2> QED
    BY <1>2, <2>1
<1> QED
  BY <1>1, <1>2

\* One chunk extends the digest by the page, at its start, and by the chunk, if the
\* region is to be measured.
Gpa == Measured.gpr.start + step
PageAdded == IF PageDue(step) THEN <<PageAdd(Gpa)>> ELSE <<>>
ChunkExtended ==
  IF Measured.extend_mr THEN <<MrExtend(Gpa, Measured.host_buffer[step + 1])>> ELSE <<>>

LEMMA DigestGrows ==
  ASSUME IInv, MeasureChunk,
         NEW n, n = Len(digest), NEW p, p = Len(PageAdded), NEW e, e = Len(ChunkExtended)
  PROVE  /\ n \in Nat /\ Gpa \in Nat /\ p \in {0, 1} /\ e \in {0, 1}
         /\ p = 1 <=> PageDue(step)
         /\ e = 1 <=> Measured.extend_mr
         /\ region \in 1..Len(regions) /\ step + 1 \in 1..Measured.gpr.length
         /\ digest' \in Seq(Operation)
         /\ Len(digest') = n + p + e
         /\ \A k \in 1..n : digest'[k] = digest[k]
         /\ p = 1 => digest'[n + 1] = PageAdd(Gpa)
         /\ e = 1 => digest'[n + p + 1] = MrExtend(Gpa, Measured.host_buffer[step + 1])
<1>1. /\ Built /\ Typed /\ RegionsMirrorSections /\ Measurable(Measured)
      /\ region \in 1..Len(regions) /\ step \in Nat /\ step < Measured.gpr.length
  <2>1. pc = "measure" /\ step < Measured.gpr.length
    BY DEF MeasureChunk, ChunksLeft
  <2> QED
    BY <2>1, MeasuringFacts DEF IInv, MeasuredInOrder, Typed
<1>2. /\ Measured.gpr.start \in Nat /\ Measured.gpr.length \in Nat
      /\ Measured.host_buffer \in Seq(ChunkType) /\ Measured.extend_mr \in BOOLEAN
  BY <1>1, RegionFacts DEF Measured
<1> DEFINE x == PageAdd(Gpa)
           y == MrExtend(Gpa, Measured.host_buffer[step + 1])
           mid == digest \o PageAdded
<1>3. Gpa \in Nat /\ step + 1 \in 1..Measured.gpr.length
  BY <1>1, <1>2 DEF Gpa
<1>4. x \in Operation
  BY <1>3 DEF PageAdd, Operation, Zero, ChunkType
<1>5. ASSUME Measured.extend_mr PROVE y \in Operation
  <2>1. step + 1 \in 1..Len(Measured.host_buffer)
    BY <1>1, <1>3, <1>5 DEF Measurable
  <2>2. Measured.host_buffer[step + 1] \in ChunkType
    BY <1>2, <2>1, ElementOfSeq
  <2> QED
    BY <1>3, <2>2 DEF MrExtend, Operation
<1>6. digest' = mid \o ChunkExtended
  BY DEF MeasureChunk, PageAdded, ChunkExtended, Gpa
<1>7. (PageAdded = <<>> \/ PageAdded = <<x>>) /\ (p = 1 <=> PageDue(step)) /\ (p = 1 => PageAdded = <<x>>)
  BY DEF PageAdded
<1>8. (ChunkExtended = <<>> \/ ChunkExtended = <<y>>) /\ (e = 1 <=> Measured.extend_mr)
      /\ (e = 1 => ChunkExtended = <<y>>) /\ (~Measured.extend_mr => ChunkExtended = <<>> /\ e = 0)
  BY DEF ChunkExtended
<1>9. digest \in Seq(Operation) /\ n \in Nat
  BY <1>1 DEF Typed
<1> HIDE DEF x, y
<1>10. /\ p \in {0, 1} /\ mid \in Seq(Operation) /\ Len(mid) = n + p
       /\ \A k \in 1..n : mid[k] = digest[k]
       /\ p = 1 => mid[n + 1] = x
  <2>1. /\ Len(PageAdded) \in {0, 1}
        /\ mid \in Seq(Operation) /\ Len(mid) = Len(digest) + Len(PageAdded)
        /\ \A k \in 1..Len(digest) : mid[k] = digest[k]
        /\ PageAdded = <<x>> => mid[Len(digest) + 1] = x
    BY <1>4, <1>7, <1>9, ConcatAtMostOne
  <2> QED
    BY <1>7, <2>1
<1> HIDE DEF mid
<1>11. /\ e \in {0, 1} /\ digest' \in Seq(Operation) /\ Len(digest') = Len(mid) + e
       /\ \A k \in 1..Len(mid) : digest'[k] = mid[k]
       /\ e = 1 => digest'[Len(mid) + 1] = y
  <2>1. CASE Measured.extend_mr
    <3>1. y \in Operation
      BY <1>5, <2>1
    <3>2. /\ Len(ChunkExtended) \in {0, 1}
          /\ mid \o ChunkExtended \in Seq(Operation)
          /\ Len(mid \o ChunkExtended) = Len(mid) + Len(ChunkExtended)
          /\ \A k \in 1..Len(mid) : (mid \o ChunkExtended)[k] = mid[k]
          /\ ChunkExtended = <<y>> => (mid \o ChunkExtended)[Len(mid) + 1] = y
      BY <1>8, <1>10, <3>1, ConcatAtMostOne
    <3> QED
      BY <1>6, <1>8, <3>2
  <2>2. CASE ~Measured.extend_mr
    <3>1. digest' = mid
      BY <1>6, <1>8, <1>10, <2>2, ConcatEmptySeq
    <3> QED
      BY <1>8, <1>10, <2>2, <3>1
  <2> QED
    BY <2>1, <2>2
<1>12. Len(digest') = n + p + e
  BY <1>10, <1>11
<1>13. \A k \in 1..n : k \in 1..(n + p)
  BY <1>9, <1>10
<1>14. \A k \in 1..n : digest'[k] = digest[k]
  BY <1>10, <1>11, <1>13
<1>15. p = 1 => digest'[n + 1] = x
  BY <1>9, <1>10, <1>11
<1>16. e = 1 => digest'[n + p + 1] = y
  BY <1>10, <1>11
<1> QED
  BY <1>1, <1>3, <1>7, <1>8, <1>9, <1>10, <1>11, <1>12, <1>14, <1>15, <1>16 DEF x, y

LEMMA MeasureChunkInvariant == IInv /\ MeasureChunk => IInv'
<1> SUFFICES ASSUME IInv, MeasureChunk PROVE IInv'
  OBVIOUS
<1>1. UNCHANGED <<sections, banks, regions, tdhob_index, hob>> /\ UNCHANGED <<region, pc>>
      /\ pc = "measure" /\ step' = step + 1
  BY DEF MeasureChunk
<1>2. Built /\ Typed
  BY <1>1, MeasuringFacts
<1>3. RegionsMirrorSections' /\ HobIsBuilt' /\ Built'
  BY <1>1, <1>2, KeptByMeasuring
<1>4. digest' \in Seq(Operation) /\ step + 1 \in 1..Measured.gpr.length
  BY DigestGrows
<1>5. Typed'
  BY <1>1, <1>2, <1>4 DEF Typed
<1>6. MeasuredInOrder' /\ Refusal'
  BY <1>1, <1>4 DEF IInv, MeasuredInOrder, Refusal, Measured, Measurable
<1> QED
  BY <1>3, <1>5, <1>6 DEF IInv

LEMMA Invariance == Spec => []IInv
<1>1. Init => IInv
  BY InitInvariant
<1>2. IInv /\ [Next]_vars => IInv'
  <2> SUFFICES ASSUME IInv, [Next]_vars PROVE IInv'
    OBVIOUS
  <2>1. CASE Next
    BY <2>1, ExtractRegionInvariant, RefuseSectionsInvariant, BuildTdhobInvariant,
       RefuseTdhobInvariant, CheckRegionInvariant, MeasureChunkInvariant, NextRegionInvariant,
       FinalizeInvariant DEF Next
  <2>2. CASE UNCHANGED vars
    <3>1. UNCHANGED <<sections, banks, regions, tdhob_index, hob>>
          /\ UNCHANGED <<region, step, digest, pc>>
      BY <2>2 DEF vars
    <3>2. RegionsMirrorSections' /\ Built' = Built /\ Resources' = Resources
          /\ HobLength' = HobLength /\ EndOfHobOffset' = EndOfHobOffset /\ Tdhob' = Tdhob
          /\ Taken' = Taken
      BY <3>1, Frame DEF IInv
    <3>3. Typed' /\ HobIsBuilt'
      BY <3>1, <3>2 DEF IInv, Typed, HobIsBuilt
    <3>4. MeasuredInOrder' /\ Refusal'
      BY <3>1, <3>2 DEF IInv, MeasuredInOrder, Refusal, Measured, Measurable
    <3> QED
      BY <3>2, <3>3, <3>4 DEF IInv
  <2> QED
    BY <2>1, <2>2
<1> QED
  BY <1>1, <1>2, PTL DEF Spec

(* ---- What follows from it ----------------------------------------------- *)

LEMMA BodyChunks ==
  ASSUME IInv, NEW i \in 1..Len(regions), NEW k \in 1..Len(BodyOf(i))
  PROVE  /\ BodyOf(i)[k] \in Chunk
         /\ ~(Built /\ i = tdhob_index) =>
              /\ sections[i].type \in {"BFV", "CFV"}
              /\ BodyOf(i)[k] = Image(sections[i].data_offset + k - 1)
              /\ k <= sections[i].data_size
              /\ sections[i].data_offset + k - 1 < ImageSize
         /\ Built /\ i = tdhob_index =>
              /\ k <= Tdhob.gpr.length
              /\ BodyOf(i)[k] = IF k <= HobLength THEN Hob(k) ELSE Zero
<1>1. Typed /\ sections[i] \in Section
  BY RegionFacts DEF IInv
<1>2. CASE Built /\ i = tdhob_index
  <2>1. BodyOf(i) = HobBuffer /\ tdhob_index # 0
    BY <1>2 DEF BodyOf, IInv, HobIsBuilt
  <2>2. Len(HobBuffer) = Tdhob.gpr.length
        /\ \A j \in 1..Tdhob.gpr.length : HobBuffer[j] = IF j <= HobLength THEN Hob(j) ELSE Zero
    BY <1>1, <2>1, HobBufferFacts
  <2>3. k \in Nat \ {0} /\ HobLength \in Nat
    BY <1>1, <2>1, <2>2, HobFacts
  <2>4. BodyOf(i)[k] = IF k <= HobLength THEN Hob(k) ELSE Zero
    BY <2>1, <2>2
  <2>5. k <= HobLength => k \in 1..HobLength
    BY <2>3
  <2>6. BodyOf(i)[k] \in Chunk
    BY <2>4, <2>5 DEF Chunk
  <2>7. k <= Tdhob.gpr.length
    <3>1. Tdhob.gpr.length \in Nat
      BY <1>1, <2>1, TdhobType
    <3> QED
      BY <2>1, <2>2, <3>1
  <2> QED
    BY <1>2, <2>4, <2>6, <2>7
<1>3. CASE ~(Built /\ i = tdhob_index)
  <2>1. BodyOf(i) = BufferOf(sections[i])
    BY <1>3 DEF BodyOf
  <2>2. sections[i].type \in {"BFV", "CFV"}
    <3>1. BufferOf(sections[i]) # <<>>
      BY <2>1
    <3> QED
      BY <1>1, <3>1, BufferFacts
  <2>3. BodyOf(i) = Slice(sections[i].data_offset, sections[i].data_size)
    BY <1>1, <2>1, <2>2, BufferFacts
  <2>4. sections[i].data_offset \in Nat /\ sections[i].data_size \in Nat
    BY <1>1 DEF Section
  <2>5. /\ BodyOf(i)[k] = Image(sections[i].data_offset + k - 1)
        /\ sections[i].data_offset + k - 1 \in 0..(ImageSize - 1) /\ k <= sections[i].data_size
    <3>1. k \in 1..Len(Slice(sections[i].data_offset, sections[i].data_size))
      BY <2>3
    <3>2. /\ Slice(sections[i].data_offset, sections[i].data_size)[k] =
               Image(sections[i].data_offset + k - 1)
          /\ sections[i].data_offset + k - 1 \in 0..(ImageSize - 1) /\ k <= sections[i].data_size
      BY <2>4, <3>1, SliceFacts
    <3> QED
      BY <2>3, <3>2
  <2>6. BodyOf(i)[k] \in Chunk
    BY <2>5 DEF Chunk
  <2>7. sections[i].data_offset + k - 1 < ImageSize
    BY <2>5, SizesAssumption
  <2> QED
    BY <1>3, <2>2, <2>5, <2>6, <2>7
<1> QED
  BY <1>2, <1>3

\* The type invariant: a region's buffer holds chunks of the image or of the list
\* or zeros, and tdhob_index names a region that has been extracted.
THEOREM TypeCorrect == Spec => []TypeOK
<1>1. IInv => TypeOK
  <2> SUFFICES ASSUME IInv PROVE TypeOK
    OBVIOUS
  <2>1. Typed /\ RegionsMirrorSections
    BY DEF IInv
  <2>2. ASSUME NEW i \in 1..Len(regions), NEW k \in 1..Len(regions[i].host_buffer)
        PROVE  regions[i].host_buffer[k] \in Chunk
    <3>1. regions[i].host_buffer = BodyOf(i)
      BY <2>1, RegionFacts
    <3>2. k \in 1..Len(BodyOf(i))
      BY <3>1
    <3>3. BodyOf(i)[k] \in Chunk
      BY <3>2, BodyChunks
    <3> QED
      BY <3>1, <3>3
  <2> QED
    BY <2>1, <2>2 DEF TypeOK, Typed
<1> QED
  BY <1>1, Invariance, PTL

\* The end marker of the TDHOB lies within its region, where the handoff table
\* that _build_tdhob writes first says.
THEOREM EndMarker == Spec => []EndMarkerIsThere
<1>1. IInv => EndMarkerIsThere
  <2> SUFFICES ASSUME IInv, Built
               PROVE  /\ hob.end = Tdhob.gpr.start + HandoffSize + DescriptorSize * Len(hob.resources)
                      /\ hob.end + EndMarkerSize <= End(Tdhob.gpr)
    BY DEF EndMarkerIsThere, Built
  <2>1. /\ Typed /\ tdhob_index # 0 /\ HobLength <= Tdhob.gpr.length
        /\ hob = [end |-> Tdhob.gpr.start + EndOfHobOffset, resources |-> Resources]
    BY DEF IInv, HobIsBuilt
  <2>2. Tdhob.gpr.start \in Nat /\ Tdhob.gpr.length \in Nat
    BY <2>1, TdhobType
  <2>3. /\ HobLength \in Nat /\ EndOfHobOffset \in Nat
        /\ EndOfHobOffset + EndMarkerSize = HobLength
        /\ EndOfHobOffset = HandoffSize + DescriptorSize * Len(Resources)
    BY <2>1, HobFacts
  <2> DEFINE dd == DescriptorSize * Len(Resources)
  <2>4. HandoffSize \in Nat /\ EndMarkerSize \in Nat /\ DescriptorSize \in Nat
    BY SizesAssumption
  <2>5. dd \in Nat
    BY <2>1, <2>4, HobFacts DEF Typed
  <2>6. hob.resources = Resources /\ hob.end = Tdhob.gpr.start + EndOfHobOffset
    BY <2>1
  <2>7. EndOfHobOffset = HandoffSize + dd
    BY <2>3
  <2> HIDE DEF dd
  <2>8. hob.end = Tdhob.gpr.start + HandoffSize + dd
    BY <2>2, <2>4, <2>5, <2>6, <2>7
  <2>9. hob.end + EndMarkerSize <= End(Tdhob.gpr)
    BY <2>1, <2>2, <2>3, <2>4, <2>6 DEF End
  <2> QED
    BY <2>6, <2>8, <2>9 DEF dd
<1> QED
  BY <1>1, Invariance, PTL

\* A section's address or size is a multiple of the page size exactly if it is the
\* start of its page.
LEMMA OnPageBoundary ==
  ASSUME NEW a \in Nat
  PROVE  (a = PageOf(a)) <=> (a % PageSize = 0)
<1>1. a % PageSize \in Int
  BY SizesAssumption, Division
<1> QED
  BY <1>1 DEF PageOf

(* The checks of the code taken together, and made of the table at once; what *)
(* is accepted lies between the two properties.                               *)
FillsItsRegion(s) ==
  /\ s.memory_size <= s.data_size
  /\ s.memory_size = 0 \/ s.data_offset + s.memory_size <= ImageSize
  /\ s.memory_size < s.data_size => s.data_offset + s.memory_size >= ImageSize

Accepted ==
  /\ \A i \in 1..Len(sections) :
       LET s == sections[i]
       IN  /\ s.type # "UNKNOWN"
           /\ s.memory_base = PageOf(s.memory_base)
           /\ s.memory_size = PageOf(s.memory_size)
           /\ s.extend_mr =>
                CASE s.type \in {"BFV", "CFV"} -> FillsItsRegion(s)
                  [] s.type = "TEMPMEM" -> s.memory_size = 0
                  [] OTHER -> TRUE
  /\ OneTdhobWithRoom

\* A slice is as long as the region exactly if it fills it.
LEMMA SliceFills ==
  ASSUME NEW s \in Section
  PROVE  (s.memory_size = Len(Slice(s.data_offset, s.data_size))) <=> FillsItsRegion(s)
<1> DEFINE o == s.data_offset
           d == s.data_size
           m == s.memory_size
           l == ImageSize
           n == Len(Slice(o, d))
<1>1. o \in Nat /\ d \in Nat /\ m \in Nat /\ l \in Nat
  BY SizesAssumption DEF Section
<1>2. n = Lesser(o + d, l) - Lesser(o, l)
  BY <1>1, SliceFacts
<1>3. FillsItsRegion(s) <=>
        m <= d /\ (m = 0 \/ o + m <= l) /\ (m < d => o + m >= l)
  BY DEF FillsItsRegion
<1> HIDE DEF o, d, m, l, n
<1>4. (m = n) <=> m <= d /\ (m = 0 \/ o + m <= l) /\ (m < d => o + m >= l)
  <2>1. CASE o + d <= l
    BY <1>1, <1>2, <2>1 DEF Lesser
  <2>2. CASE o + d > l /\ o <= l
    BY <1>1, <1>2, <2>2 DEF Lesser
  <2>3. CASE o > l
    BY <1>1, <1>2, <2>3 DEF Lesser
  <2> QED
    BY <1>1, <2>1, <2>2, <2>3
<1> QED
  BY <1>3, <1>4 DEF m, n, o, d

\* A region passes the checks exactly if its section is one a sound table may have.
LEMMA MeasurableIsSound ==
  ASSUME IInv, Built, NEW i \in 1..Len(regions), NEW s, s = sections[i]
  PROVE  Measurable(regions[i]) <=>
           /\ s.memory_base = PageOf(s.memory_base)
           /\ s.memory_size = PageOf(s.memory_size)
           /\ s.extend_mr =>
                CASE s.type \in {"BFV", "CFV"} -> FillsItsRegion(s)
                  [] s.type = "TEMPMEM" -> s.memory_size = 0
                  [] OTHER -> TRUE
<1>1. /\ Typed /\ s \in Section
      /\ regions[i].gpr.start = s.memory_base /\ s.memory_base \in Nat
      /\ regions[i].gpr.length = s.memory_size /\ s.memory_size \in Nat
      /\ regions[i].extend_mr = s.extend_mr
      /\ regions[i].host_buffer = BodyOf(i)
  BY RegionFacts DEF IInv
<1>2. s.type # "UNKNOWN" /\ (s.type = "TDHOB" <=> i = tdhob_index)
  BY DEF IInv, RegionsMirrorSections
<1>3. /\ s.memory_base = PageOf(s.memory_base) <=> regions[i].gpr.start % PageSize = 0
      /\ s.memory_size = PageOf(s.memory_size) <=> regions[i].gpr.length % PageSize = 0
  BY <1>1, OnPageBoundary
<1> DEFINE Fits == CASE s.type \in {"BFV", "CFV"} -> FillsItsRegion(s)
                     [] s.type = "TEMPMEM" -> s.memory_size = 0
                     [] OTHER -> TRUE
<1>4. (s.memory_size = Len(BodyOf(i))) <=> Fits
  <2>1. CASE s.type \in {"BFV", "CFV"}
    <3>1. BodyOf(i) = Slice(s.data_offset, s.data_size)
      BY <1>1, <1>2, <2>1, BufferFacts DEF BodyOf
    <3>4. (s.memory_size = Len(BodyOf(i))) <=> FillsItsRegion(s)
      BY <1>1, <3>1, SliceFills, Zenon
    <3> QED
      BY <2>1, <3>4
  <2>2. CASE s.type = "TDHOB"
    <3>1. BodyOf(i) = HobBuffer /\ tdhob_index = i /\ tdhob_index # 0
      BY <1>2, <2>2 DEF BodyOf
    <3>2. Len(HobBuffer) = s.memory_size
      BY <1>1, <3>1, HobBufferFacts DEF Tdhob
    <3>3. Fits
      BY <2>2
    <3> QED
      BY <3>1, <3>2, <3>3
  <2>3. CASE s.type = "TEMPMEM"
    <3>1. BodyOf(i) = <<>>
      BY <1>1, <1>2, <2>3, BufferFacts DEF BodyOf
    <3>2. Fits <=> s.memory_size = 0
      BY <2>3
    <3> QED
      BY <3>1, <3>2
  <2>4. s.type \in SectionTypes
    BY <1>1 DEF Section
  <2> QED
    BY <1>2, <2>1, <2>2, <2>3, <2>4 DEF SectionTypes
<1> HIDE DEF Fits
<1>5. Measurable(regions[i]) <=>
        /\ s.memory_base = PageOf(s.memory_base)
        /\ s.memory_size = PageOf(s.memory_size)
        /\ s.extend_mr => Fits
  BY <1>1, <1>3, <1>4 DEF Measurable
<1> QED
  BY <1>5 DEF Fits

\* What is measured passed every check, and what is refused fails one: a section
\* that is not known, no TDHOB or two, a TDHOB without room, or a region that is
\* out of line or not what the file has.
LEMMA MeasuredIfAccepted ==
  ASSUME IInv
  PROVE  (pc = "done" => Accepted) /\ (pc = "refused" => ~Accepted)
<1>1. Typed /\ RegionsMirrorSections
  BY DEF IInv
<1> DEFINE n == Len(sections)
           SoundSection(i) ==
             LET s == sections[i]
             IN  /\ s.type # "UNKNOWN"
                 /\ s.memory_base = PageOf(s.memory_base)
                 /\ s.memory_size = PageOf(s.memory_size)
                 /\ s.extend_mr =>
                      CASE s.type \in {"BFV", "CFV"} -> FillsItsRegion(s)
                        [] s.type = "TEMPMEM" -> s.memory_size = 0
                        [] OTHER -> TRUE
           Room == HandoffSize + EndMarkerSize
                     + DescriptorSize * (n + (IF banks = <<>> THEN 0 ELSE
                         Len(Gaps(banks, [k \in 1..n |-> Gpr(sections[k])]))))
           SoundTdhob(i) ==
             /\ sections[i].type = "TDHOB"
             /\ \A j \in 1..n : sections[j].type = "TDHOB" => j = i
             /\ Room <= sections[i].memory_size
<1>2. Accepted <=> (\A i \in 1..n : SoundSection(i)) /\ \E i \in 1..n : SoundTdhob(i)
  BY DEF Accepted, OneTdhobWithRoom
<1>3. ASSUME Len(regions) = n PROVE Room = HobLength
  <2>1. PrivateResources = [k \in 1..n |-> Gpr(sections[k])]
    <3>1. \A k \in 1..n : regions[k].gpr = Gpr(sections[k])
      BY <1>1, <1>3, RegionFacts DEF Gpr
    <3> QED
      BY <1>3, <3>1 DEF PrivateResources
  <2>2. Len(Unaccepted) = IF banks = <<>> THEN 0
                          ELSE Len(Gaps(banks, [k \in 1..n |-> Gpr(sections[k])]))
    BY <2>1 DEF Unaccepted
  <2> QED
    BY <1>1, <1>3, <2>2, HobFacts
<1> HIDE DEF Room
<1>4. ASSUME Built, NEW i \in 1..n
      PROVE  Measurable(regions[i]) <=> SoundSection(i)
  <2>1. i \in 1..Len(regions) /\ sections[i].type # "UNKNOWN"
    BY <1>1, <1>4 DEF IInv, HobIsBuilt, RegionsMirrorSections
  <2> QED
    BY <1>4, <2>1, MeasurableIsSound
<1>5. ASSUME Len(regions) = n, tdhob_index # 0
      PROVE  /\ tdhob_index \in 1..n /\ Tdhob.gpr.length = sections[tdhob_index].memory_size
             /\ \A j \in 1..n : sections[j].type = "TDHOB" <=> j = tdhob_index
  <2>1. tdhob_index \in 1..Len(regions)
    BY <1>1, <1>5 DEF Typed
  <2>2. Tdhob.gpr.length = sections[tdhob_index].memory_size
    BY <1>1, <2>1, RegionFacts DEF Tdhob
  <2>3. \A j \in 1..n : sections[j].type = "TDHOB" <=> j = tdhob_index
    BY <1>1, <1>5 DEF RegionsMirrorSections
  <2> QED
    BY <1>5, <2>1, <2>2, <2>3
<1>6. ASSUME pc = "done" PROVE Accepted
  <2>1. Built /\ Len(regions) = n /\ tdhob_index # 0 /\ HobLength <= Tdhob.gpr.length
    BY <1>6, MeasuringFacts DEF IInv, HobIsBuilt
  <2>2. \A i \in 1..n : Measurable(regions[i])
    BY <1>1, <1>6, <2>1 DEF IInv, MeasuredInOrder, Typed
  <2>3. \A i \in 1..n : SoundSection(i)
    BY <1>4, <2>1, <2>2
  <2>4. SoundTdhob(tdhob_index)
    BY <1>3, <1>5, <2>1
  <2>5. tdhob_index \in 1..n
    BY <1>5, <2>1
  <2> HIDE DEF SoundSection, SoundTdhob
  <2> QED
    BY <1>2, <2>3, <2>4, <2>5
<1>7. ASSUME pc = "refused", Accepted PROVE FALSE
  <2>1. PICK t \in 1..n : SoundTdhob(t)
    BY <1>2, <1>7
  <2>2. \A i \in 1..n : SoundSection(i)
    BY <1>2, <1>7
  <2>3. CASE Built
    <3>1. region <= Len(regions) /\ ~Measurable(regions[region]) /\ Len(regions) = n
      BY <1>7, <2>3 DEF IInv, Refusal, Measured, HobIsBuilt
    <3>2. region \in 1..n
      BY <1>1, <3>1 DEF Typed
    <3> QED
      BY <1>4, <2>2, <2>3, <3>1, <3>2
  <2>4. CASE ~Built /\ Len(regions) < n
    <3>1. Taken.type = "UNKNOWN" \/ (Taken.type = "TDHOB" /\ tdhob_index # 0)
      BY <1>7, <2>4 DEF IInv, Refusal
    <3>2. Len(regions) + 1 \in 1..n /\ Taken = sections[Len(regions) + 1]
      BY <1>1, <2>4 DEF Typed, Taken
    <3>3. Taken.type # "UNKNOWN"
      BY <2>2, <3>2
    <3>4. tdhob_index \in 1..Len(regions) /\ Taken.type = "TDHOB"
      BY <1>1, <3>1, <3>3 DEF Typed
    <3>5. sections[tdhob_index].type = "TDHOB" /\ tdhob_index \in 1..n
      <4>1. sections[tdhob_index].type = "TDHOB"
        BY <1>1, <3>4 DEF RegionsMirrorSections
      <4>2. Len(regions) \in Nat /\ n \in Nat
        BY <1>1 DEF Typed
      <4> QED
        BY <2>4, <3>4, <4>1, <4>2
    <3>6. tdhob_index = t /\ Len(regions) + 1 = t
      BY <2>1, <3>2, <3>4, <3>5
    <3> QED
      BY <1>1, <3>4, <3>6 DEF Typed
  <2>5. CASE ~Built /\ ~(Len(regions) < n)
    <3>1. Len(regions) = n
      BY <1>1, <2>5 DEF Typed
    <3>2. tdhob_index = 0 \/ (tdhob_index # 0 /\ HobLength > Tdhob.gpr.length)
      BY <1>7, <2>5 DEF IInv, Refusal
    <3>3. t = tdhob_index
      BY <1>1, <2>1, <3>1 DEF RegionsMirrorSections
    <3>4. tdhob_index # 0
      BY <2>1, <3>3
    <3>5. HobLength <= sections[t].memory_size
      BY <1>3, <2>1, <3>1
    <3>6. Tdhob.gpr.length = sections[t].memory_size
      BY <1>5, <3>1, <3>3, <3>4
    <3>7. HobLength \in Nat /\ Tdhob.gpr.length \in Nat
      BY <1>1, <3>4, HobFacts, TdhobType
    <3> QED
      BY <3>2, <3>4, <3>5, <3>6, <3>7
  <2> QED
    BY <2>3, <2>4, <2>5
<1> QED
  BY <1>6, <1>7

\* compute_mrtd returns a digest only for a table that can be loaded: the checks,
\* made region by region, leave no measured chunk without one in the image.
THEOREM OnlyLoadableIsMeasured == Spec => []MeasuredIsLoadable
<1>1. IInv => MeasuredIsLoadable
  <2> SUFFICES ASSUME IInv, pc = "done" PROVE MeasuredIsLoadable
    BY DEF MeasuredIsLoadable
  <2>1. Accepted
    BY MeasuredIfAccepted
  <2>2. ASSUME NEW i \in 1..Len(sections), NEW s, s = sections[i]
        PROVE  /\ s.type # "UNKNOWN" /\ OnPages(s)
               /\ s.extend_mr /\ IsVolume(s) =>
                    \A k \in 0..(s.memory_size - 1) :
                      k < s.data_size /\ s.data_offset + k < ImageSize
               /\ s.extend_mr /\ s.type = "TEMPMEM" => s.memory_size = 0
    <3>1. /\ s.type # "UNKNOWN" /\ OnPages(s)
          /\ s.extend_mr => CASE s.type \in {"BFV", "CFV"} -> FillsItsRegion(s)
                               [] s.type = "TEMPMEM" -> s.memory_size = 0
                               [] OTHER -> TRUE
      BY <2>1, <2>2 DEF Accepted, OnPages
    <3>2. s \in Section
      BY <2>2 DEF IInv, Typed
    <3>3. s.extend_mr /\ IsVolume(s) => FillsItsRegion(s)
      BY <3>1 DEF IsVolume
    <3>4. FillsItsRegion(s) => \A k \in 0..(s.memory_size - 1) :
                                 k < s.data_size /\ s.data_offset + k < ImageSize
      BY <3>2, SizesAssumption DEF FillsItsRegion, Section
    <3>5. s.extend_mr /\ s.type = "TEMPMEM" => s.memory_size = 0
      BY <3>1
    <3> QED
      BY <3>1, <3>3, <3>4, <3>5
  <2> QED
    BY <2>1, <2>2 DEF MeasuredIsLoadable, Accepted
<1> QED
  BY <1>1, Invariance, PTL

\* compute_mrtd refuses no table that is well-formed.
THEOREM MeasuresTheWellFormed == Spec => []WellFormedIsMeasured
<1>1. IInv => WellFormedIsMeasured
  <2> SUFFICES ASSUME IInv, WellFormed PROVE Accepted
    BY MeasuredIfAccepted DEF WellFormedIsMeasured
  <2>1. ASSUME NEW i \in 1..Len(sections), NEW s, s = sections[i]
        PROVE  /\ s.type # "UNKNOWN"
               /\ s.memory_base = PageOf(s.memory_base)
               /\ s.memory_size = PageOf(s.memory_size)
               /\ s.extend_mr =>
                    CASE s.type \in {"BFV", "CFV"} -> FillsItsRegion(s)
                      [] s.type = "TEMPMEM" -> s.memory_size = 0
                      [] OTHER -> TRUE
    <3>1. /\ s.type # "UNKNOWN" /\ OnPages(s)
          /\ IsVolume(s) => /\ s.data_offset + s.data_size <= ImageSize
                            /\ s.extend_mr => s.data_size = s.memory_size
          /\ s.type = "TEMPMEM" => ~s.extend_mr
      BY <2>1 DEF WellFormed
    <3>2. s \in Section
      BY <2>1 DEF IInv, Typed
    <3>3. s.extend_mr /\ IsVolume(s) => FillsItsRegion(s)
      BY <3>1, <3>2, SizesAssumption DEF FillsItsRegion, Section
    <3>4. s.extend_mr => CASE s.type \in {"BFV", "CFV"} -> FillsItsRegion(s)
                           [] s.type = "TEMPMEM" -> s.memory_size = 0
                           [] OTHER -> TRUE
      BY <3>1, <3>3 DEF IsVolume
    <3> QED
      BY <3>1, <3>4 DEF OnPages
  <2>2. OneTdhobWithRoom
    BY DEF WellFormed
  <2> QED
    BY <2>1, <2>2 DEF Accepted
<1> QED
  BY <1>1, Invariance, PTL

(* ---- What the digest is extended with ----------------------------------- *)

\* Only MeasureChunk extends the digest, and the regions are settled by then.
LEMMA OtherSteps ==
  ASSUME IInv, [Next]_vars, ~MeasureChunk
  PROVE  /\ digest' = digest
         /\ ~Built => digest = <<>> /\ region = 1 /\ step = 0
         /\ Built => UNCHANGED <<sections, banks, regions, tdhob_index, hob>>
         /\ ~Built => region' = 1 /\ step' = 0
         /\ UNCHANGED <<region, step>>
            \/ (pc = "measure" /\ ~ChunksLeft /\ pc' = "check" /\ region' = region + 1 /\ step' = 0)
<1>1. ~Built => digest = <<>> /\ region = 1 /\ step = 0
  BY DEF IInv, HobIsBuilt, MeasuredInOrder
<1>2. pc = "extract" => ~Built
  BY DEF IInv, HobIsBuilt
<1>3. pc = "measure" => Built
  BY MeasuringFacts
<1>4. CASE ExtractRegion
  BY <1>1, <1>2, <1>4 DEF ExtractRegion
<1>5. CASE RefuseSections
  BY <1>1, <1>2, <1>5 DEF RefuseSections
<1>6. CASE BuildTdhob
  BY <1>1, <1>2, <1>6 DEF BuildTdhob
<1>7. CASE RefuseTdhob
  BY <1>1, <1>2, <1>7 DEF RefuseTdhob
<1>8. CASE CheckRegion
  BY <1>1, <1>8 DEF CheckRegion
<1>9. CASE NextRegion
  BY <1>1, <1>3, <1>9 DEF NextRegion
<1>10. CASE Finalize
  BY <1>1, <1>10 DEF Finalize
<1>11. CASE UNCHANGED vars
  BY <1>1, <1>11 DEF vars
<1> QED
  BY <1>4, <1>5, <1>6, <1>7, <1>8, <1>9, <1>10, <1>11 DEF Next

\* After a chunk, the page added last is the chunk's.
LEMMA PageOpened ==
  ASSUME IInv, PageIsOpen, MeasureChunk,
         NEW n, n = Len(digest), NEW p, p = Len(PageAdded), NEW e, e = Len(ChunkExtended)
  PROVE  \E j \in 1..(n + p) :
           /\ digest'[j].op = "page_add" /\ digest'[j].gpa = PageOf(Gpa)
           /\ \A i \in (j + 1)..(n + p + e) : digest'[i].op # "page_add"
<1>1. /\ n \in Nat /\ Gpa \in Nat /\ p \in {0, 1} /\ e \in {0, 1}
      /\ p = 1 <=> PageDue(step)
      /\ region \in 1..Len(regions)
      /\ \A k \in 1..n : digest'[k] = digest[k]
      /\ p = 1 => digest'[n + 1] = PageAdd(Gpa)
      /\ e = 1 => digest'[n + p + 1] = MrExtend(Gpa, Measured.host_buffer[step + 1])
  BY DigestGrows
<1>2. e = 1 => digest'[n + p + 1].op # "page_add"
  BY <1>1 DEF MrExtend
<1>3. /\ Measured.gpr.start \in Nat /\ step \in Nat /\ Measured.gpr.start % PageSize = 0
      /\ PageSize \in Nat \ {0} /\ pc = "measure"
  <2>1. pc = "measure" /\ Measurable(Measured) /\ Typed
    BY DEF MeasureChunk, IInv, MeasuredInOrder
  <2>2. Measured.gpr.start \in Nat
    BY <1>1, RegionFacts DEF Measured, IInv
  <2> QED
    BY <2>1, <2>2, SizesAssumption DEF Measurable, Typed
<1>4. Gpa % PageSize = step % PageSize
  BY <1>3, OffsetInPage DEF Gpa
<1>5. CASE p = 1
  <2>1. Gpa = PageOf(Gpa)
    BY <1>1, <1>4, <1>5 DEF PageOf, PageDue
  <2>2. digest'[n + 1].op = "page_add" /\ digest'[n + 1].gpa = PageOf(Gpa)
    BY <1>1, <1>5, <2>1 DEF PageAdd
  <2>3. \A i \in (n + 2)..(n + p + e) : e = 1 /\ i = n + p + 1
    <3>1. n \in Nat /\ (e = 0 \/ e = 1)
      BY <1>1
    <3> QED
      BY <1>5, <3>1
  <2>4. n + 1 \in 1..(n + p) /\ (n + 1) + 1 = n + 2
    BY <1>1, <1>5
  <2> QED
    BY <1>2, <2>2, <2>3, <2>4
<1>6. CASE p = 0
  <2>1. step > 0 /\ step % PageSize # 0
    <3>1. step % PageSize # 0
      BY <1>1, <1>6 DEF PageDue
    <3>2. 0 % PageSize = 0
      BY <1>3
    <3> QED
      BY <1>3, <3>1, <3>2
  <2>2. PICK j \in 1..n :
          /\ digest[j].op = "page_add"
          /\ digest[j].gpa = PageOf(Measured.gpr.start + step - 1)
          /\ \A i \in (j + 1)..n : digest[i].op # "page_add"
    BY <1>1, <1>3, <2>1 DEF PageIsOpen
  <2>3. PageOf(Gpa) = PageOf(Measured.gpr.start + step - 1)
    <3> DEFINE a == Measured.gpr.start + step - 1
    <3>1. a \in Nat /\ a + 1 = Gpa
      BY <1>3, <2>1 DEF Gpa
    <3> HIDE DEF a
    <3>2. (a + 1) % PageSize # 0
      BY <1>4, <2>1, <3>1
    <3>3. (a + 1) % PageSize = (a % PageSize) + 1
      BY <1>3, <3>1, <3>2, NextInPage
    <3>4. a % PageSize \in Int
      BY <1>3, <3>1, Division
    <3>5. PageOf(Gpa) = PageOf(a)
      BY <3>1, <3>3, <3>4 DEF PageOf
    <3> QED
      BY <3>5 DEF a
  <2>4. \A i \in (j + 1)..(n + p + e) : i \in (j + 1)..n \/ (e = 1 /\ i = n + p + 1)
    BY <1>1, <1>6
  <2>5. \A i \in (j + 1)..n : i \in 1..n
    BY <1>1
  <2>6. j \in 1..(n + p)
    BY <1>1, <1>6
  <2>7. digest'[j].op = "page_add" /\ digest'[j].gpa = PageOf(Gpa)
    BY <1>1, <2>2, <2>3
  <2>8. \A i \in (j + 1)..(n + p + e) : digest'[i].op # "page_add"
    BY <1>1, <1>2, <2>2, <2>4, <2>5
  <2> QED
    BY <2>6, <2>7, <2>8
<1> QED
  BY <1>1, <1>5, <1>6

LEMMA PagesInvariant ==
  IInv /\ ExtendsFollowTheirPage /\ PageIsOpen /\ [Next]_vars
    => ExtendsFollowTheirPage' /\ PageIsOpen'
<1> SUFFICES ASSUME IInv, ExtendsFollowTheirPage, PageIsOpen, [Next]_vars
             PROVE  ExtendsFollowTheirPage' /\ PageIsOpen'
  OBVIOUS
<1>1. CASE ~MeasureChunk
  <2>1. digest' = digest
    BY <1>1, OtherSteps
  <2>2. ExtendsFollowTheirPage'
    BY <2>1 DEF ExtendsFollowTheirPage, PageOf
  <2>3. PageIsOpen'
    <3> SUFFICES ASSUME pc' = "measure", step' > 0
                 PROVE  pc = "measure" /\ UNCHANGED <<region, step, regions>>
      BY <2>1 DEF PageIsOpen, Measured, PageOf
    <3>1. UNCHANGED <<region, step>>
      BY <1>1, OtherSteps
    <3>2. step # 0
      BY <3>1
    <3>3. pc = "measure"
      BY <3>2 DEF IInv, MeasuredInOrder
    <3>4. Built
      BY <3>3, MeasuringFacts
    <3> QED
      BY <1>1, <3>1, <3>3, <3>4, OtherSteps
  <2> QED
    BY <2>2, <2>3
<1>2. CASE MeasureChunk
  <2> DEFINE n == Len(digest)
             p == Len(PageAdded)
             e == Len(ChunkExtended)
  <2>0. n = Len(digest) /\ p = Len(PageAdded) /\ e = Len(ChunkExtended)
    OBVIOUS
  <2> HIDE DEF n, p, e
  <2>1. /\ n \in Nat /\ Gpa \in Nat /\ p \in {0, 1} /\ e \in {0, 1}
        /\ Len(digest') = n + p + e
        /\ \A k \in 1..n : digest'[k] = digest[k]
        /\ p = 1 => digest'[n + 1] = PageAdd(Gpa)
        /\ e = 1 => digest'[n + p + 1] = MrExtend(Gpa, Measured.host_buffer[step + 1])
    BY <1>2, <2>0, DigestGrows
  <2>2. PICK j \in 1..(n + p) :
          /\ digest'[j].op = "page_add" /\ digest'[j].gpa = PageOf(Gpa)
          /\ \A i \in (j + 1)..(n + p + e) : digest'[i].op # "page_add"
    BY <1>2, <2>0, PageOpened
  <2>3. Gpa = Measured'.gpr.start + step' - 1
    <3>1. Measured' = Measured /\ step' = step + 1
      BY <1>2 DEF MeasureChunk, Measured
    <3>2. Measured.gpr.start \in Int /\ step \in Int
      <4>1. region \in 1..Len(regions) /\ Typed /\ RegionsMirrorSections
        BY <1>2, DigestGrows DEF IInv
      <4>2. Measured.gpr.start \in Nat
        BY <4>1, RegionFacts DEF Measured
      <4> QED
        BY <4>1, <4>2 DEF Typed
    <3> QED
      BY <3>1, <3>2 DEF Gpa
  <2>4. PageIsOpen'
    <3>1. j \in 1..Len(digest')
      BY <2>1
    <3> QED
      BY <2>1, <2>2, <2>3, <3>1 DEF PageIsOpen, PageOf
  <2>5. ExtendsFollowTheirPage'
    <3> SUFFICES ASSUME NEW k \in 1..(n + p + e), digest'[k].op = "mr_extend"
                 PROVE  LET adds == {i \in 1..k : digest'[i].op = "page_add"}
                        IN  \E m \in adds : /\ \A i \in adds : i <= m
                                            /\ digest'[m].gpa = PageOf(digest'[k].gpa)
      BY <2>1 DEF ExtendsFollowTheirPage, PageOf
    <3> DEFINE adds == {i \in 1..k : digest'[i].op = "page_add"}
    <3>1. CASE k \in 1..n
      <4>1. \A i \in 1..k : digest'[i] = digest[i]
        BY <2>1, <3>1
      <4>2. adds = {i \in 1..k : digest[i].op = "page_add"}
        BY <4>1
      <4> HIDE DEF adds
      <4>3. \E m \in adds : (\A i \in adds : i <= m) /\ digest[m].gpa = PageOf(digest[k].gpa)
        BY <2>1, <3>1, <4>2 DEF ExtendsFollowTheirPage, n
      <4>4. \A m \in adds : digest'[m] = digest[m]
        BY <4>1 DEF adds
      <4> QED
        BY <2>1, <3>1, <4>3, <4>4 DEF adds
    <3>2. CASE k \notin 1..n
      <4>1. k = n + p + 1 /\ e = 1
        BY <2>1, <3>2 DEF PageAdd
      <4>2. digest'[k].gpa = Gpa
        BY <2>1, <4>1 DEF MrExtend
      <4>3. j \in adds
        BY <2>1, <2>2, <4>1
      <4>4. \A i \in adds : i <= j
        BY <2>1, <2>2, <4>1
      <4> QED
        BY <2>2, <4>2, <4>3, <4>4
    <3> QED
      BY <3>1, <3>2
  <2> QED
    BY <2>4, <2>5
<1> QED
  BY <1>1, <1>2

\* Every chunk that init_memory_region extends goes into the page it added last.
THEOREM ExtendsIntoItsPage == Spec => []ExtendsFollowTheirPage
<1>1. Init => ExtendsFollowTheirPage /\ PageIsOpen
  BY DEF Init, ExtendsFollowTheirPage, PageIsOpen
<1> QED
  BY <1>1, PagesInvariant, Invariance, PTL DEF Spec

LEMMA HeldInvariant ==
  IInv /\ MeasuresWhatIsThere /\ [Next]_vars => MeasuresWhatIsThere'
<1> SUFFICES ASSUME IInv, MeasuresWhatIsThere, [Next]_vars PROVE MeasuresWhatIsThere'
  OBVIOUS
<1>1. CASE ~Built
  <2>1. ~MeasureChunk
    BY <1>1, MeasuringFacts DEF MeasureChunk
  <2>2. digest' = <<>>
    BY <1>1, <2>1, OtherSteps
  <2> QED
    BY <2>2 DEF MeasuresWhatIsThere
<1>2. CASE Built
  <2>1. UNCHANGED <<sections, banks, regions, tdhob_index, hob>>
    BY <1>2, OtherSteps DEF MeasureChunk
  <2>2. HobLength' = HobLength /\ sections' = sections
    BY <2>1, Frame
  <2> DEFINE There(d, k) ==
               \E i \in 1..Len(sections) :
                 In(d[k].gpa, Gpr(sections[i])) /\ d[k].chunk \in Held(sections[i], d[k].gpa)
  <2>3. MeasuresWhatIsThere <=> \A k \in 1..Len(digest) : digest[k].op = "mr_extend" => There(digest, k)
    BY DEF MeasuresWhatIsThere
  <2>4. MeasuresWhatIsThere' <=>
          \A k \in 1..Len(digest') : digest'[k].op = "mr_extend" => There(digest', k)
    BY <2>2 DEF MeasuresWhatIsThere, Held
  <2>5. CASE ~MeasureChunk
    BY <2>3, <2>4, <2>5, OtherSteps
  <2>6. CASE MeasureChunk
    <3> DEFINE n == Len(digest)
               p == Len(PageAdded)
               e == Len(ChunkExtended)
    <3>0. n = Len(digest) /\ p = Len(PageAdded) /\ e = Len(ChunkExtended)
      OBVIOUS
    <3> HIDE DEF n, p, e
    <3>1. /\ n \in Nat /\ Gpa \in Nat /\ p \in {0, 1} /\ e \in {0, 1}
          /\ region \in 1..Len(regions) /\ step + 1 \in 1..Measured.gpr.length
          /\ Len(digest') = n + p + e
          /\ \A k \in 1..n : digest'[k] = digest[k]
          /\ p = 1 => digest'[n + 1] = PageAdd(Gpa)
          /\ e = 1 => digest'[n + p + 1] = MrExtend(Gpa, Measured.host_buffer[step + 1])
      BY <2>6, <3>0, DigestGrows
    <3>2. ASSUME NEW k \in 1..n, digest'[k].op = "mr_extend" PROVE There(digest', k)
      <4>1. There(digest, k)
        BY <2>3, <3>0, <3>1, <3>2
      <4> QED
        BY <3>1, <4>1
    <3>3. ASSUME NEW k \in 1..(n + p + e), k \notin 1..n, digest'[k].op = "mr_extend"
          PROVE  There(digest', k)
      <4> DEFINE s == sections[region]
      <4>1. k = n + p + 1 /\ e = 1
        BY <3>1, <3>3 DEF PageAdd
      <4>2. digest'[k].gpa = Gpa /\ digest'[k].chunk = Measured.host_buffer[step + 1]
        BY <3>1, <4>1 DEF MrExtend
      <4>3. /\ region \in 1..Len(sections)
            /\ Measured.gpr.start = s.memory_base /\ s.memory_base \in Nat
            /\ Measured.gpr.length = s.memory_size /\ s.memory_size \in Nat
            /\ Measured.host_buffer = BodyOf(region)
        BY <3>1, RegionFacts DEF Measured, IInv
      <4>4. step \in Nat
        BY DEF IInv, Typed
      <4>5. Gpa = s.memory_base + step /\ Gpa - s.memory_base = step
        BY <4>3, <4>4 DEF Gpa
      <4>6. In(Gpa, Gpr(s))
        BY <3>1, <4>3, <4>4, <4>5 DEF In, Gpr, End
      <4>7. step + 1 \in 1..Len(BodyOf(region))
        <5>1. Measurable(Measured)
          BY <2>6 DEF MeasureChunk, IInv, MeasuredInOrder
        <5>2. Measured.extend_mr
          <6>1. Len(ChunkExtended) = 1
            BY <3>0, <4>1
          <6> QED
            BY <6>1 DEF ChunkExtended
        <5> QED
          BY <3>1, <4>3, <5>1, <5>2 DEF Measurable
      <4>8. BodyOf(region)[step + 1] \in Held(s, Gpa)
        <5>1. CASE region = tdhob_index
          <6>1. s.type = "TDHOB"
            BY <3>1, <5>1 DEF IInv, RegionsMirrorSections
          <6>2. BodyOf(region)[step + 1] = IF step + 1 <= HobLength THEN Hob(step + 1) ELSE Zero
            BY <1>2, <3>1, <4>7, <5>1, BodyChunks
          <6>3. HobLength \in Nat
            BY HobFacts DEF IInv
          <6>4. step + 1 <= HobLength <=> step < HobLength
            BY <4>4, <6>3
          <6> QED
            BY <4>5, <6>1, <6>2, <6>4 DEF Held
        <5>2. CASE region # tdhob_index
          <6>1. /\ s.type \in {"BFV", "CFV"}
                /\ BodyOf(region)[step + 1] = Image(s.data_offset + (step + 1) - 1)
                /\ step + 1 <= s.data_size
                /\ s.data_offset + (step + 1) - 1 < ImageSize
            BY <3>1, <4>7, <5>2, BodyChunks
          <6>2. s.data_offset \in Nat /\ s.data_size \in Nat
            BY <3>1, RegionFacts DEF IInv, Section
          <6>3. s.data_offset + (step + 1) - 1 = s.data_offset + step /\ step < s.data_size
            BY <4>4, <6>1, <6>2
          <6> QED
            BY <4>5, <6>1, <6>3 DEF Held
        <5> QED
          BY <5>1, <5>2
      <4>9. digest'[k].chunk \in Held(s, digest'[k].gpa)
        BY <4>2, <4>3, <4>8
      <4> QED
        BY <4>2, <4>3, <4>6, <4>9
    <3> HIDE DEF There
    <3> QED
      BY <2>4, <3>1, <3>2, <3>3
  <2> QED
    BY <2>5, <2>6
<1> QED
  BY <1>1, <1>2

\* What is extended for an address is what a section puts there: never a byte of
\* the image beside the section's bytes, nor one past the end of the image.
THEOREM MeasuresOnlyWhatIsThere == Spec => []MeasuresWhatIsThere
<1>1. Init => MeasuresWhatIsThere
  BY DEF Init, MeasuresWhatIsThere
<1> QED
  BY <1>1, HeldInvariant, Invariance, PTL DEF Spec

(* ---- How often an address is measured ----------------------------------- *)

\* The operations of a digest that are op, at address a.
Hits(d, op, a) == {k \in 1..Len(d) : d[k].op = op /\ d[k].gpa = a}

LEMMA PartOfInterval ==
  ASSUME NEW n \in Nat, NEW S, S \subseteq 1..n
  PROVE  IsFiniteSet(S)
<1>1. IsFiniteSet(1..n)
  BY FS_Interval
<1> QED
  BY <1>1, FS_Subset

LEMMA OneMore ==
  ASSUME NEW S, NEW x, NEW T, IsFiniteSet(S), x \notin S, T = S \cup {x}
  PROVE  Cardinality(T) = Cardinality(S) + 1
BY FS_AddElement

\* What the chunk at Gpa adds to the hits of an address.
LEMMA HitsGrow ==
  ASSUME IInv, MeasureChunk, NEW a \in Nat,
         NEW n, n = Len(digest), NEW p, p = Len(PageAdded), NEW e, e = Len(ChunkExtended)
  PROVE  /\ Hits(digest', "page_add", a)
              = Hits(digest, "page_add", a) \cup (IF p = 1 /\ a = Gpa THEN {n + 1} ELSE {})
         /\ Hits(digest', "mr_extend", a)
              = Hits(digest, "mr_extend", a) \cup (IF e = 1 /\ a = Gpa THEN {n + p + 1} ELSE {})
<1>1. /\ n \in Nat /\ p \in {0, 1} /\ e \in {0, 1}
      /\ Len(digest') = n + p + e
      /\ \A k \in 1..n : digest'[k] = digest[k]
      /\ p = 1 => digest'[n + 1] = PageAdd(Gpa)
      /\ e = 1 => digest'[n + p + 1] = MrExtend(Gpa, Measured.host_buffer[step + 1])
  BY DigestGrows
<1>2. /\ p = 1 => digest'[n + 1].op = "page_add" /\ digest'[n + 1].gpa = Gpa
      /\ e = 1 => digest'[n + p + 1].op = "mr_extend" /\ digest'[n + p + 1].gpa = Gpa
  BY <1>1 DEF PageAdd, MrExtend
<1>3. \A k : k \in 1..(n + p + e) <=>
               \/ k \in 1..n
               \/ p = 1 /\ k = n + 1
               \/ e = 1 /\ k = n + p + 1
  <2>1. n \in Nat /\ (p = 0 \/ p = 1) /\ (e = 0 \/ e = 1)
    BY <1>1
  <2> QED
    BY <2>1
<1>4. ASSUME NEW op \in {"page_add", "mr_extend"}, NEW k
      PROVE  k \in Hits(digest', op, a) <=>
               \/ k \in Hits(digest, op, a)
               \/ p = 1 /\ k = n + 1 /\ op = "page_add" /\ a = Gpa
               \/ e = 1 /\ k = n + p + 1 /\ op = "mr_extend" /\ a = Gpa
  <2>1. k \in Hits(digest', op, a) <=>
          k \in 1..(n + p + e) /\ digest'[k].op = op /\ digest'[k].gpa = a
    BY <1>1 DEF Hits
  <2>2. k \in 1..n => (k \in Hits(digest', op, a) <=> k \in Hits(digest, op, a))
    BY <1>1, <1>3, <2>1 DEF Hits
  <2>3. k \notin 1..n => k \notin Hits(digest, op, a)
    BY DEF Hits
  <2>4. p = 1 /\ k = n + 1 =>
          (k \in Hits(digest', op, a) <=> op = "page_add" /\ a = Gpa)
    BY <1>2, <1>3, <2>1
  <2>5. e = 1 /\ k = n + p + 1 =>
          (k \in Hits(digest', op, a) <=> op = "mr_extend" /\ a = Gpa)
    BY <1>2, <1>3, <2>1
  <2>6. /\ (p = 1 /\ k = n + 1) => k \notin 1..n /\ ~(e = 1 /\ k = n + p + 1)
        /\ (e = 1 /\ k = n + p + 1) => k \notin 1..n
    BY <1>1
  <2> QED
    BY <1>3, <2>1, <2>2, <2>3, <2>4, <2>5, <2>6
<1>5. Hits(digest', "page_add", a)
        = Hits(digest, "page_add", a) \cup (IF p = 1 /\ a = Gpa THEN {n + 1} ELSE {})
  BY <1>4
<1>6. Hits(digest', "mr_extend", a)
        = Hits(digest, "mr_extend", a) \cup (IF e = 1 /\ a = Gpa THEN {n + p + 1} ELSE {})
  BY <1>4
<1> QED
  BY <1>5, <1>6

\* A section is passed at an address by the step that measures its chunk there.
LEMMA PassedGrows ==
  ASSUME IInv, MeasureChunk, NEW a \in Nat
  PROVE  /\ Passed(a)' = Passed(a) \cup (IF a = Gpa THEN {region} ELSE {})
         /\ region \notin Passed(Gpa) /\ Passed(a) \subseteq 1..Len(sections)
         /\ region \in 1..Len(sections) /\ sections[region].extend_mr = Measured.extend_mr
<1>1. /\ region \in 1..Len(regions) /\ step + 1 \in 1..Measured.gpr.length
      /\ Gpa \in Nat /\ Typed /\ RegionsMirrorSections
  <2>1. Typed /\ RegionsMirrorSections
    BY DEF IInv
  <2> DEFINE n == Len(digest)
             p == Len(PageAdded)
             e == Len(ChunkExtended)
  <2>2. n = Len(digest) /\ p = Len(PageAdded) /\ e = Len(ChunkExtended)
    OBVIOUS
  <2> HIDE DEF n, p, e
  <2>3. region \in 1..Len(regions)
    BY <2>2, DigestGrows
  <2>4. step + 1 \in 1..Measured.gpr.length /\ Gpa \in Nat
    BY <2>2, DigestGrows
  <2> QED
    BY <2>1, <2>3, <2>4
<1> DEFINE s == sections[region]
<1>2. /\ region \in 1..Len(sections)
      /\ Measured.gpr.start = s.memory_base /\ s.memory_base \in Nat
      /\ Measured.gpr.length = s.memory_size /\ s.memory_size \in Nat
      /\ s.extend_mr = Measured.extend_mr
  BY <1>1, RegionFacts DEF Measured
<1>3. step \in Nat /\ region \in Nat
  BY <1>1 DEF Typed
<1>4. sections' = sections /\ region' = region /\ step' = step + 1
  BY DEF MeasureChunk
<1>5. Gpa = s.memory_base + step
  BY <1>2 DEF Gpa
<1>6. In(Gpa, Gpr(s))
  BY <1>1, <1>2, <1>3, <1>5 DEF In, Gpr, End
<1>7. ASSUME NEW i \in 1..Len(sections)
      PROVE  i \in Passed(a)' <=> i \in Passed(a) \/ (a = Gpa /\ i = region)
  <2>1. CASE i # region
    BY <1>4, <2>1 DEF Passed
  <2>2. CASE i = region
    <3>1. i \in Passed(a)' <=> In(a, Gpr(s)) /\ a < s.memory_base + (step + 1)
      BY <1>2, <1>3, <1>4, <2>2 DEF Passed
    <3>2. i \in Passed(a) <=> In(a, Gpr(s)) /\ a < s.memory_base + step
      BY <1>2, <1>3, <2>2 DEF Passed
    <3>3. a < s.memory_base + (step + 1) <=> a < s.memory_base + step \/ a = Gpa
      BY <1>2, <1>3, <1>5
    <3> QED
      BY <1>6, <2>2, <3>1, <3>2, <3>3
  <2> QED
    BY <2>1, <2>2
<1>8. Passed(a)' \subseteq 1..Len(sections) /\ Passed(a) \subseteq 1..Len(sections)
  BY <1>4 DEF Passed
<1>9. region \notin Passed(Gpa)
  BY <1>2, <1>3, <1>5 DEF Passed
<1>10. Passed(a)' = Passed(a) \cup (IF a = Gpa THEN {region} ELSE {})
  BY <1>2, <1>7, <1>8
<1> QED
  BY <1>2, <1>8, <1>9, <1>10

\* A page is due exactly where the address is a page's.
LEMMA DueAtAPage ==
  ASSUME IInv, MeasureChunk
  PROVE  PageDue(step) <=> PageOf(Gpa) = Gpa
<1>1. pc = "measure" /\ Measurable(Measured) /\ Typed /\ region \in 1..Len(regions)
  BY DEF MeasureChunk, IInv, MeasuredInOrder, Typed
<1>2. Measured.gpr.start \in Nat
  BY <1>1, RegionFacts DEF Measured, IInv
<1>3. Measured.gpr.start % PageSize = 0 /\ step \in Nat /\ PageSize \in Nat \ {0}
  BY <1>1, SizesAssumption DEF Measurable, Typed
<1>4. Gpa % PageSize = step % PageSize
  BY <1>2, <1>3, OffsetInPage DEF Gpa
<1>5. Gpa \in Nat
  BY <1>2, <1>3 DEF Gpa
<1>6. PageOf(Gpa) = Gpa <=> Gpa % PageSize = 0
  BY <1>5, OnPageBoundary
<1> QED
  BY <1>4, <1>6 DEF PageDue

LEMMA CountedInvariant ==
  IInv /\ IInv' /\ CountedSoFar /\ [Next]_vars => CountedSoFar'
<1> SUFFICES ASSUME IInv, IInv', CountedSoFar, [Next]_vars, NEW a \in Nat, Built'
             PROVE  /\ TimesMeasured("page_add", a)'
                         = IF PageOf(a) = a THEN Cardinality(Passed(a)') ELSE 0
                    /\ TimesMeasured("mr_extend", a)'
                         = Cardinality({i \in Passed(a)' : sections'[i].extend_mr})
  BY DEF CountedSoFar, CountedAt, PageOf
<1>1. /\ TimesMeasured("page_add", a)' = Cardinality(Hits(digest', "page_add", a))
      /\ TimesMeasured("mr_extend", a)' = Cardinality(Hits(digest', "mr_extend", a))
  BY DEF TimesMeasured, Hits
<1>2. CASE ~Built
  <2>1. ~MeasureChunk
    BY <1>2, MeasuringFacts DEF MeasureChunk
  <2>2. digest' = <<>> /\ region' = 1 /\ step' = 0
    BY <1>2, <2>1, OtherSteps
  <2>3. \A op : Hits(digest', op, a) = {}
    BY <2>2 DEF Hits
  <2>4. Passed(a)' = {}
    <3>1. sections' \in Seq(Section)
      BY DEF IInv, Typed
    <3>2. ASSUME NEW i \in 1..Len(sections') PROVE i \notin Passed(a)'
      <4>0. sections'[i] \in Section
        BY <3>1, <3>2, ElementOfSeq
      <4>1. sections'[i].memory_base \in Nat
        BY <4>0 DEF Section
      <4> QED
        BY <2>2, <4>1 DEF Passed, In, Gpr
    <3> QED
      BY <3>2 DEF Passed
  <2> QED
    BY <1>1, <2>3, <2>4, FS_EmptySet
<1>3. CASE Built
  <2>1. UNCHANGED <<sections, banks, regions, tdhob_index, hob>>
    BY <1>3, OtherSteps DEF MeasureChunk
  <2>2. /\ Cardinality(Hits(digest, "page_add", a))
             = IF PageOf(a) = a THEN Cardinality(Passed(a)) ELSE 0
        /\ Cardinality(Hits(digest, "mr_extend", a))
             = Cardinality({i \in Passed(a) : sections[i].extend_mr})
    BY <1>3 DEF CountedSoFar, CountedAt, TimesMeasured, Hits
  <2>3. CASE ~MeasureChunk
    <3>1. digest' = digest
      BY <2>3, OtherSteps
    <3>2. Passed(a)' = Passed(a)
      <4>1. CASE UNCHANGED <<region, step>>
        BY <2>1, <4>1 DEF Passed
      <4>2. CASE /\ pc = "measure" /\ ~ChunksLeft
                 /\ region' = region + 1 /\ step' = 0
        <5>1. /\ region \in 1..Len(regions) /\ step = Measured.gpr.length
          <6>1. /\ region \in 1..Len(regions) /\ step \in Nat
                /\ step <= Measured.gpr.length /\ ~(step < Measured.gpr.length)
            BY <4>2 DEF IInv, MeasuredInOrder, Typed, ChunksLeft
          <6>2. Measured.gpr.length \in Nat
            BY <6>1, RegionFacts DEF Measured, IInv
          <6> QED
            BY <6>1, <6>2
        <5>2. ASSUME NEW i \in 1..Len(sections)
              PROVE  i \in Passed(a)' <=> i \in Passed(a)
          <6>1. /\ sections[i].memory_base \in Nat /\ sections[i].memory_size \in Nat
                /\ region \in Nat
            <7>1. sections \in Seq(Section) /\ region \in Nat
              BY DEF IInv, Typed
            <7>2. sections[i] \in Section
              BY <7>1, ElementOfSeq
            <7> QED
              BY <7>1, <7>2 DEF Section
          <6>2. i \in Passed(a)' <=>
                  In(a, Gpr(sections[i]))
                  /\ (i < region + 1 \/ (i = region + 1 /\ a < sections[i].memory_base + 0))
            BY <2>1, <4>2 DEF Passed
          <6>3. i = region => step = sections[i].memory_size
            BY <5>1, RegionFacts DEF Measured, IInv
          <6> QED
            BY <6>1, <6>2, <6>3 DEF Passed, In, Gpr, End
        <5> QED
          BY <2>1, <5>2 DEF Passed
      <4> QED
        BY <2>3, <4>1, <4>2, OtherSteps
    <3> QED
      BY <1>1, <2>1, <2>2, <3>1, <3>2
  <2>4. CASE MeasureChunk
    <3> DEFINE n == Len(digest)
               p == Len(PageAdded)
               e == Len(ChunkExtended)
               adds == Hits(digest, "page_add", a)
               extends == Hits(digest, "mr_extend", a)
               asked == {i \in Passed(a) : sections[i].extend_mr}
    <3>0. n = Len(digest) /\ p = Len(PageAdded) /\ e = Len(ChunkExtended)
      OBVIOUS
    <3>1. adds \subseteq 1..n /\ extends \subseteq 1..n
      BY DEF Hits
    <3> HIDE DEF n, p, e
    <3>2. n \in Nat /\ p \in {0, 1} /\ e \in {0, 1} /\ Gpa \in Nat /\ (p = 1 <=> PageDue(step))
      BY <2>4, <3>0, DigestGrows
    <3>3. e = 1 <=> Measured.extend_mr
      BY <3>0 DEF ChunkExtended
    <3>4. /\ Hits(digest', "page_add", a) = adds \cup (IF p = 1 /\ a = Gpa THEN {n + 1} ELSE {})
          /\ Hits(digest', "mr_extend", a)
               = extends \cup (IF e = 1 /\ a = Gpa THEN {n + p + 1} ELSE {})
      BY <2>4, <3>0, HitsGrow
    <3>5. /\ Passed(a)' = Passed(a) \cup (IF a = Gpa THEN {region} ELSE {})
          /\ region \notin Passed(Gpa) /\ Passed(a) \subseteq 1..Len(sections)
          /\ region \in 1..Len(sections)
      BY <2>4, PassedGrows
    <3>6. sections[region].extend_mr <=> Measured.extend_mr
      BY <2>4, PassedGrows
    <3>7. IsFiniteSet(adds) /\ IsFiniteSet(extends) /\ n + 1 \notin adds /\ n + p + 1 \notin extends
      BY <3>1, <3>2, PartOfInterval
    <3>8. IsFiniteSet(Passed(a)) /\ IsFiniteSet(asked)
      <4>1. Len(sections) \in Nat /\ asked \subseteq 1..Len(sections)
        BY <3>5 DEF IInv, Typed
      <4> QED
        BY <3>5, <4>1, PartOfInterval
    <3>9. (p = 1 /\ a = Gpa) <=> (PageOf(a) = a /\ a = Gpa)
      BY <2>4, <3>2, DueAtAPage
    <3>10. Cardinality(Hits(digest', "page_add", a))
             = IF PageOf(a) = a THEN Cardinality(Passed(a)') ELSE 0
      <4>1. CASE p = 1 /\ a = Gpa
        <5>1. Cardinality(Hits(digest', "page_add", a)) = Cardinality(adds) + 1
          <6>1. Hits(digest', "page_add", a) = adds \cup {n + 1}
            BY <3>4, <4>1
          <6> QED
            BY <3>7, <6>1, OneMore
        <5>2. Cardinality(Passed(a)') = Cardinality(Passed(a)) + 1
          <6>1. Passed(a)' = Passed(a) \cup {region} /\ region \notin Passed(a)
            BY <3>5, <4>1
          <6> QED
            BY <3>8, <6>1, OneMore
        <5> QED
          BY <2>2, <3>9, <4>1, <5>1, <5>2
      <4>2. CASE ~(p = 1 /\ a = Gpa)
        <5>1. Hits(digest', "page_add", a) = adds
          BY <3>4, <4>2
        <5>2. PageOf(a) = a => Passed(a)' = Passed(a)
          BY <3>5, <3>9, <4>2
        <5> QED
          BY <2>2, <5>1, <5>2
      <4> QED
        BY <4>1, <4>2
    <3>11. Cardinality(Hits(digest', "mr_extend", a))
             = Cardinality({i \in Passed(a)' : sections'[i].extend_mr})
      <4> DEFINE asked2 == {i \in Passed(a)' : sections'[i].extend_mr}
      <4>1. CASE e = 1 /\ a = Gpa
        <5>1. Cardinality(Hits(digest', "mr_extend", a)) = Cardinality(extends) + 1
          <6>1. Hits(digest', "mr_extend", a) = extends \cup {n + p + 1}
            BY <3>4, <4>1
          <6> QED
            BY <3>7, <6>1, OneMore
        <5>2. Cardinality(asked2) = Cardinality(asked) + 1
          <6>1. asked2 = asked \cup {region} /\ region \notin asked
            BY <2>1, <3>3, <3>5, <3>6, <4>1
          <6> QED
            BY <3>8, <6>1, OneMore
        <5> QED
          BY <2>2, <5>1, <5>2
      <4>2. CASE ~(e = 1 /\ a = Gpa)
        <5>1. Hits(digest', "mr_extend", a) = extends
          BY <3>4, <4>2
        <5>2. asked2 = asked
          BY <2>1, <3>3, <3>5, <3>6, <4>2
        <5> QED
          BY <2>2, <5>1, <5>2
      <4> QED
        BY <4>1, <4>2
    <3> QED
      BY <1>1, <3>10, <3>11
  <2> QED
    BY <2>3, <2>4
<1> QED
  BY <1>2, <1>3

\* In a finished measurement each page of a section has been added once for it,
\* and each chunk extended once if the section asks for it; nothing else has.
THEOREM MeasuresEverySection == Spec => []EverySectionMeasured
<1>1. Init => CountedSoFar
  BY DEF Init, CountedSoFar, CountedAt, Built
<1>2. IInv /\ CountedSoFar => EverySectionMeasured
  <2> SUFFICES ASSUME IInv, CountedSoFar, pc = "done",
                      NEW j \in 1..Len(sections),
                      NEW a \in Gpr(sections[j]).start..End(Gpr(sections[j]))
               PROVE  /\ TimesMeasured("page_add", a) =
                           IF PageOf(a) = a THEN Covering(a, LAMBDA s : TRUE) ELSE 0
                      /\ TimesMeasured("mr_extend", a) = Covering(a, LAMBDA s : s.extend_mr)
    BY DEF EverySectionMeasured
  <2>1. /\ sections \in Seq(Section) /\ Len(regions) = Len(sections) /\ Built
        /\ region = Len(sections) + 1 /\ Len(sections) \in Nat
    BY MeasuringFacts DEF IInv, Typed, HobIsBuilt, MeasuredInOrder
  <2>2. a \in Nat
    <3>1. sections[j] \in Section
      BY <2>1, ElementOfSeq
    <3>2. sections[j].memory_base \in Nat /\ sections[j].memory_size \in Nat
      BY <3>1 DEF Section
    <3> QED
      BY <3>2 DEF Gpr, End
  <2>3. Passed(a) = {i \in 1..Len(sections) : In(a, Gpr(sections[i]))}
    BY <2>1 DEF Passed
  <2>4. /\ Covering(a, LAMBDA s : TRUE) = Cardinality(Passed(a))
        /\ Covering(a, LAMBDA s : s.extend_mr)
             = Cardinality({i \in Passed(a) : sections[i].extend_mr})
    <3>1. Passed(a) = {i \in 1..Len(sections) : In(a, Gpr(sections[i])) /\ TRUE}
      BY <2>3
    <3>2. {i \in Passed(a) : sections[i].extend_mr}
            = {i \in 1..Len(sections) : In(a, Gpr(sections[i])) /\ sections[i].extend_mr}
      BY <2>3
    <3> QED
      BY <3>1, <3>2 DEF Covering
  <2> QED
    BY <2>1, <2>2, <2>4 DEF CountedSoFar, CountedAt
<1> QED
  BY <1>1, <1>2, CountedInvariant, Invariance, PTL DEF Spec

(* ---- The CFV of RTMR[0] and of MRTD -------------------------------------- *)

LEMMA ExtendedInvariant ==
  IInv /\ ExtendedSoFar /\ [Next]_vars => ExtendedSoFar'
<1> SUFFICES ASSUME IInv, ExtendedSoFar, [Next]_vars, Built',
                    NEW i \in 1..Len(regions'), NEW k \in 1..regions'[i].gpr.length,
                    regions'[i].extend_mr,
                    i < region' \/ (i = region' /\ k <= step')
             PROVE  \E m \in 1..Len(digest') :
                      digest'[m] = MrExtend(regions'[i].gpr.start + k - 1,
                                            regions'[i].host_buffer[k])
  BY DEF ExtendedSoFar, MrExtend
<1>1. CASE ~Built
  <2>1. ~MeasureChunk
    BY <1>1, MeasuringFacts DEF MeasureChunk
  <2>2. region' = 1 /\ step' = 0
    BY <1>1, <2>1, OtherSteps
  <2> QED
    BY <2>2
<1>2. CASE Built
  <2>1. UNCHANGED <<sections, banks, regions, tdhob_index, hob>>
    BY <1>2, OtherSteps DEF MeasureChunk
  <2> DEFINE Done(d, j, h) ==
               \E m \in 1..Len(d) :
                 d[m] = MrExtend(regions[j].gpr.start + h - 1, regions[j].host_buffer[h])
  <2>2. ASSUME i < region \/ (i = region /\ k <= step) PROVE Done(digest, i, k)
    BY <1>2, <2>1, <2>2 DEF ExtendedSoFar
  <2>3. SUFFICES Done(digest', i, k)
    BY <2>1
  <2>4. CASE ~MeasureChunk
    <3>1. digest' = digest
      BY <2>4, OtherSteps
    <3>2. i < region \/ (i = region /\ k <= step)
      <4>1. CASE UNCHANGED <<region, step>>
        BY <4>1
      <4>2. CASE pc = "measure" /\ ~ChunksLeft /\ region' = region + 1 /\ step' = 0
        <5>1. /\ region \in 1..Len(regions) /\ step \in Nat
              /\ ~(step < Measured.gpr.length)
          BY <4>2 DEF IInv, MeasuredInOrder, Typed, ChunksLeft
        <5>2. Measured.gpr.length \in Nat
          BY <5>1, RegionFacts DEF Measured, IInv
        <5>3. i = region => k <= step
          BY <2>1, <5>1, <5>2 DEF Measured
        <5>4. i \in Nat /\ ~(i = region + 1 /\ k <= 0)
          BY <2>1
        <5> QED
          BY <4>2, <5>1, <5>3, <5>4
      <4> QED
        BY <2>4, <4>1, <4>2, OtherSteps
    <3> QED
      BY <2>2, <3>1, <3>2
  <2>5. CASE MeasureChunk
    <3> DEFINE n == Len(digest)
               p == Len(PageAdded)
               e == Len(ChunkExtended)
    <3>0. n = Len(digest) /\ p = Len(PageAdded) /\ e = Len(ChunkExtended)
      OBVIOUS
    <3> HIDE DEF n, p, e
    <3>1. /\ n \in Nat /\ p \in {0, 1} /\ e \in {0, 1}
          /\ Len(digest') = n + p + e
          /\ \A m \in 1..n : digest'[m] = digest[m]
          /\ e = 1 => digest'[n + p + 1] = MrExtend(Gpa, Measured.host_buffer[step + 1])
      BY <2>5, <3>0, DigestGrows
    <3>2. CASE i < region \/ (i = region /\ k <= step)
      <4>1. PICK m \in 1..n : digest[m] = MrExtend(regions[i].gpr.start + k - 1,
                                                   regions[i].host_buffer[k])
        BY <2>2, <3>0, <3>2
      <4>2. m \in 1..Len(digest') /\ digest'[m] = digest[m]
        BY <3>1
      <4> QED
        BY <4>1, <4>2
    <3>3. CASE ~(i < region \/ (i = region /\ k <= step))
      <4>1. i = region /\ k = step + 1
        <5>1. region' = region /\ step' = step + 1 /\ step \in Nat
          BY <2>5 DEF MeasureChunk, IInv, Typed
        <5>2. k \in Int
          OBVIOUS
        <5> QED
          BY <3>3, <5>1, <5>2
      <4>2. e = 1
        BY <2>1, <3>0, <4>1 DEF ChunkExtended, Measured
      <4>3. Gpa = regions[i].gpr.start + k - 1
        <5>1. regions[i].gpr.start \in Nat /\ step \in Nat
          BY <2>1, RegionFacts DEF IInv, Typed
        <5> QED
          BY <4>1, <5>1 DEF Gpa, Measured
      <4>4. digest'[n + p + 1] = MrExtend(regions[i].gpr.start + k - 1,
                                          regions[i].host_buffer[k])
        BY <3>1, <4>1, <4>2, <4>3 DEF Measured
      <4>5. n + p + 1 \in 1..Len(digest')
        BY <3>1, <4>2
      <4> QED
        BY <4>4, <4>5
    <3> QED
      BY <3>2, <3>3
  <2> QED
    BY <2>4, <2>5
<1> QED
  BY <1>1, <1>2

\* The CFV that cfv_image returns has its size in memory and all its bytes of the
\* image; a table that extends it is measured only with the same bytes.
THEOREM CfvMeasuredWhole == Spec => []CfvIsWhole
<1>1. Init => ExtendedSoFar
  BY DEF Init, ExtendedSoFar, Built
<1>2. IInv /\ ExtendedSoFar => CfvIsWhole
  <2> SUFFICES ASSUME IInv, ExtendedSoFar, CfvUsable
               PROVE  /\ Len(cfv_image) = Cfv.memory_size
                      /\ \A k \in 1..Cfv.data_size :
                           cfv_image[k] = Image(Cfv.data_offset + k - 1)
                      /\ pc = "done" /\ Cfv.extend_mr =>
                           \A k \in 1..Cfv.memory_size :
                             MrExtend(Cfv.memory_base + k - 1, cfv_image[k]) \in ToSet(digest)
    BY DEF CfvIsWhole
  <2> DEFINE c == CHOOSE i \in CfvSections : TRUE
             o == Cfv.data_offset
             d == Cfv.data_size
             m == Cfv.memory_size
             file == Slice(o, d)
  <2>1. CfvSections # {}
    BY FS_EmptySet DEF CfvUsable
  <2>2. c \in CfvSections
    BY <2>1
  <2>3. Cfv = sections[c] /\ c \in 1..Len(sections) /\ Cfv.type = "CFV"
    BY <2>2 DEF Cfv, CfvSections
  <2> HIDE DEF c
  <2>4. Typed /\ Cfv \in Section
    BY <2>3, ElementOfSeq DEF IInv, Typed
  <2>5. o \in Nat /\ d \in Nat /\ m \in Nat /\ d <= m /\ o + d <= ImageSize /\ ImageSize \in Nat
    BY <2>4, SizesAssumption DEF Section, CfvUsable
  <2>6. /\ file \in Seq(ChunkType) /\ Len(file) = d
        /\ \A k \in 1..d : file[k] = Image(o + k - 1)
    <3> HIDE DEF o, d
    <3>1. /\ file \in Seq(ChunkType) /\ Len(file) = Lesser(o + d, ImageSize) - Lesser(o, ImageSize)
      BY <2>5, SliceFacts
    <3>2. Lesser(o + d, ImageSize) = o + d /\ Lesser(o, ImageSize) = o
      BY <2>5 DEF Lesser
    <3>3. Len(file) = d
      BY <2>5, <3>1, <3>2
    <3>4. \A k \in 1..d : file[k] = Image(o + k - 1)
      BY <2>5, <3>2 DEF Slice
    <3> QED
      BY <3>1, <3>3, <3>4
  <2>7. cfv_image = file \o Zeros(m - d)
    BY <2>6 DEF cfv_image
  <2> HIDE DEF o, d, m, file
  <2>8. Zeros(m - d) \in Seq(ChunkType) /\ Len(Zeros(m - d)) = m - d
    BY <2>5 DEF Zeros, Zero, ChunkType
  <2>9. Len(cfv_image) = m /\ \A k \in 1..d : cfv_image[k] = Image(o + k - 1)
    BY <2>5, <2>6, <2>7, <2>8
  <2>10. ASSUME pc = "done", Cfv.extend_mr, NEW k \in 1..m
         PROVE  MrExtend(Cfv.memory_base + k - 1, cfv_image[k]) \in ToSet(digest)
    <3>1. Built /\ Len(regions) = Len(sections) /\ region = Len(regions) + 1
      BY <2>10, MeasuringFacts DEF IInv, HobIsBuilt, MeasuredInOrder
    <3>2. /\ c \in 1..Len(regions) /\ c < region /\ Measurable(regions[c])
      BY <2>3, <2>4, <3>1 DEF IInv, MeasuredInOrder, Typed
    <3>3. /\ regions[c].gpr.start = Cfv.memory_base /\ regions[c].gpr.length = m
          /\ regions[c].extend_mr /\ regions[c].host_buffer = BodyOf(c)
      BY <2>3, <2>10, <3>2, RegionFacts DEF IInv, m
    <3>4. BodyOf(c) = file
      <4>1. c # tdhob_index
        BY <2>3, <3>2 DEF IInv, RegionsMirrorSections
      <4> QED
        BY <2>3, <4>1 DEF BodyOf, BufferOf, file, o, d
    <3>5. d = m
      BY <2>6, <3>2, <3>3, <3>4 DEF Measurable
    <3>6. cfv_image[k] = regions[c].host_buffer[k]
      BY <2>6, <2>9, <3>3, <3>4, <3>5
    <3>7. \E j \in 1..Len(digest) :
             digest[j] = MrExtend(Cfv.memory_base + k - 1, cfv_image[k])
      BY <3>1, <3>2, <3>3, <3>6 DEF ExtendedSoFar
    <3>8. DOMAIN digest = 1..Len(digest)
      BY <2>4 DEF Typed
    <3> QED
      BY <3>7, <3>8 DEF ToSet
  <2> QED
    BY <2>9, <2>10 DEF o, d, m
<1> QED
  BY <1>1, <1>2, ExtendedInvariant, Invariance, PTL DEF Spec

=============================================================================

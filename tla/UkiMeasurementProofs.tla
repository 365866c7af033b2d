------------------------ MODULE UkiMeasurementProofs ------------------------
(* Theorems about UkiMeasurement, for every UKI and every initdata file.    *)
EXTENDS UkiMeasurement, FiniteSetTheorems, FunctionTheorems, SequenceTheorems,
        WellFoundedInduction, TLAPS

\* Every set of naturals that is not empty has a least member.
LEMMA LeastMember ==
  ASSUME NEW T \in SUBSET Nat, T # {}
  PROVE  \E n \in T : \A m \in T : n <= m
<1> DEFINE R == OpToRel(<, Nat)
<1>1. IsWellFoundedOn(R, Nat)
  BY NatLessThanWellFounded
<1>2. PICK n \in T : \A m \in T : <<m, n>> \notin R
  BY <1>1, WFMin
<1>3. \A m \in T : ~(m < n)
  BY <1>2 DEF OpToRel
<1> QED
  BY <1>3

\* f is what the recursion along 0..N makes of the base.
IsStep(step, N, V) == step \in [(1..N) \X V -> V]
Solves(f, N, V, base, step) ==
  f \in [0..N -> V] /\ f[0] = base /\ \A i \in 1..N : f[i] = step[<<i, f[i - 1]>>]

\* Recursion along 0..N has a solution.
LEMMA Recursion ==
  ASSUME NEW N \in Nat, NEW V, NEW base \in V, NEW step, IsStep(step, N, V)
  PROVE  \E f : Solves(f, N, V, base, step)
<1> DEFINE Upto(f, n) == /\ f \in [0..n -> V] /\ f[0] = base
                         /\ \A i \in 1..n : f[i] = step[<<i, f[i - 1]>>]
           T == {n \in 0..N : ~\E f : Upto(f, n)}
<1>1. \E f : Upto(f, N)
  <2> HIDE DEF Upto
  <2> SUFFICES ASSUME T # {} PROVE FALSE
    OBVIOUS
  <2>1. PICK n \in T : \A m \in T : n <= m
    <3>1. T \in SUBSET Nat
      OBVIOUS
    <3> HIDE DEF T
    <3> QED
      BY <3>1, LeastMember
  <2>2. n \in 0..N /\ ~\E f : Upto(f, n)
    OBVIOUS
  <2>3. n # 0
    <3>1. Upto([i \in 0..0 |-> base], 0)
      BY DEF Upto
    <3> QED
      BY <2>2, <3>1
  <2>4. n - 1 \in 0..N /\ n - 1 \notin T
    <3>1. n - 1 \in 0..N /\ ~(n <= n - 1)
      BY <2>2, <2>3
    <3> HIDE DEF T
    <3> QED
      BY <2>1, <3>1
  <2>5. PICK f : Upto(f, n - 1)
    BY <2>4
  <2>10. PICK next : next = step[<<n, f[n - 1]>>]
    OBVIOUS
  <2>6. next \in V
    BY <2>2, <2>3, <2>5, <2>10 DEF Upto, IsStep
  <2> DEFINE g == [i \in 0..n |-> IF i = n THEN next ELSE f[i]]
  <2>7. g \in [0..n -> V] /\ g[0] = base
    <3>1. \A i \in 0..n : i # n => f[i] \in V
      BY <2>2, <2>5 DEF Upto
    <3>2. f[0] = base
      BY <2>5 DEF Upto
    <3> QED
      BY <2>2, <2>3, <2>6, <3>1, <3>2
  <2>8. ASSUME NEW i \in 1..n PROVE g[i] = step[<<i, g[i - 1]>>]
    <3>1. i \in 0..n /\ i - 1 \in 0..n /\ i - 1 # n
      BY <2>2
    <3>2. i # n => i \in 1..(n - 1)
      BY <2>2
    <3> QED
      BY <2>5, <2>10, <3>1, <3>2 DEF Upto
  <2> HIDE DEF g
  <2>9. Upto(g, n)
    BY <2>7, <2>8 DEF Upto
  <2> QED
    BY <2>2, <2>9
<1> QED
  BY <1>1 DEF Solves

(* ---- Spans of a file ---------------------------------------------------- *)

\* A header and a content of some length.
IsImage(image) == image.header \in PeHeader /\ PeSize(image) \in Nat

\* A slice has the positions from its start up to its end or that of the file.
LEMMA SpanFacts ==
  ASSUME NEW image, IsImage(image), NEW from \in Nat, NEW to \in Int
  PROVE  /\ Span(image, from, to) \in Seq(Nat)
         /\ ToSet(Span(image, from, to)) = {k \in Nat : from <= k /\ k < to /\ k < PeSize(image)}
<1>1. PICK size \in Nat : size = PeSize(image)
  BY DEF IsImage
<1>2. PICK end \in Int : end = IF to <= size THEN to ELSE size
  BY <1>1
<1>3. PICK n \in Nat : n = IF end > from THEN end - from ELSE 0
  BY <1>2
<1>4. Span(image, from, to) = [k \in 1..n |-> from + k - 1]
  BY <1>1, <1>2, <1>3 DEF Span
<1>5. PICK s : s = [k \in 1..n |-> from + k - 1]
  OBVIOUS
<1>6. s \in Seq(Nat) /\ DOMAIN s = 1..n
  BY <1>3, <1>5
<1>7. ASSUME NEW k \in Nat, from <= k, k < to, k < size PROVE k \in ToSet(s)
  <2>1. k - from + 1 \in 1..n /\ s[k - from + 1] = k
    BY <1>1, <1>2, <1>3, <1>5, <1>7
  <2> QED
    BY <1>6, <2>1 DEF ToSet
<1>8. ASSUME NEW k \in ToSet(s) PROVE k \in Nat /\ from <= k /\ k < to /\ k < size
  <2>1. PICK j \in 1..n : k = from + j - 1
    BY <1>5, <1>6, <1>8 DEF ToSet
  <2> QED
    BY <1>1, <1>2, <1>3, <2>1
<1> QED
  BY <1>1, <1>4, <1>5, <1>6, <1>7, <1>8

\* Two spans, the second where the first ends.
LEMMA SpansMeet ==
  ASSUME NEW image, IsImage(image), NEW a \in Nat, NEW b \in Nat, NEW c \in Int,
         a <= b, b <= c, c <= PeSize(image)
  PROVE  Span(image, a, b) \o Span(image, b, c) = Span(image, a, c)
<1>1. PICK size \in Nat : size = PeSize(image)
  BY DEF IsImage
<1>2. PICK s, t, u : /\ s = [k \in 1..(b - a) |-> a + k - 1]
                     /\ t = [k \in 1..(c - b) |-> b + k - 1]
                     /\ u = [k \in 1..(c - a) |-> a + k - 1]
  OBVIOUS
<1>3. Span(image, a, b) = s /\ Span(image, b, c) = t /\ Span(image, a, c) = u
  <2>1. ASSUME NEW from \in Nat, NEW to \in Int, from <= to, to <= size
        PROVE  Span(image, from, to) = [k \in 1..(to - from) |-> from + k - 1]
    <3>1. (IF to > from THEN to - from ELSE 0) = to - from
      BY <2>1
    <3> QED
      BY <1>1, <2>1, <3>1 DEF Span
  <2> QED
    BY <1>1, <1>2, <2>1
<1>4. /\ s \in Seq(Nat) /\ t \in Seq(Nat) /\ u \in Seq(Nat)
      /\ Len(s) = b - a /\ Len(t) = c - b /\ Len(u) = c - a
  BY <1>2
<1>5. /\ s \o t \in Seq(Nat) /\ Len(s \o t) = Len(s) + Len(t)
      /\ \A i \in 1..(Len(s) + Len(t)) : (s \o t)[i] = IF i <= Len(s) THEN s[i] ELSE t[i - Len(s)]
  BY <1>4, ConcatProperties
<1>6. ASSUME NEW i \in 1..Len(u) PROVE (s \o t)[i] = u[i]
  <2>1. i \in 1..(c - a) /\ i \in 1..(Len(s) + Len(t))
    BY <1>4
  <2>2. u[i] = a + i - 1
    BY <1>2, <2>1
  <2>3. CASE i <= b - a
    BY <1>2, <1>4, <1>5, <2>1, <2>2, <2>3
  <2>4. CASE i > b - a
    <3>1. i - (b - a) \in 1..(c - b)
      BY <2>1, <2>4
    <3>2. t[i - (b - a)] = a + i - 1
      BY <1>2, <3>1
    <3>3. ~(i <= Len(s))
      BY <1>4, <2>4
    <3> QED
      BY <1>4, <1>5, <2>1, <2>2, <3>2, <3>3
  <2> QED
    BY <2>1, <2>3, <2>4
<1>7. Len(s \o t) = Len(u)
  BY <1>4, <1>5
<1>8. s \o t = u
  BY <1>4, <1>5, <1>6, <1>7, SeqEqual
<1> QED
  BY <1>3, <1>8

(* ---- The order of the sections in the file ------------------------------ *)

\* The entries are numbers, and their sections have sizes and places.
LEMMA SectionTypes ==
  ASSUME NEW image, IsImage(image)
  PROVE  /\ Contents(image) \in SUBSET Nat /\ IsFiniteSet(Contents(image))
         /\ DOMAIN SectionsOf(image) \in SUBSET Nat
         /\ \A i \in DOMAIN SectionsOf(image) : SectionsOf(image)[i] \in PeSection
         /\ \A i \in Contents(image) :
              /\ i \in DOMAIN SectionsOf(image) /\ HasContent(SectionsOf(image)[i])
              /\ SectionsOf(image)[i].raw_ptr \in Nat /\ SectionsOf(image)[i].raw_size \in Nat
              /\ RawEnd(SectionsOf(image)[i]) \in Nat
              /\ RawEnd(SectionsOf(image)[i]) =
                   SectionsOf(image)[i].raw_ptr + SectionsOf(image)[i].raw_size
              /\ SectionsOf(image)[i].raw_size # 0
         /\ image.header.size_of_headers \in Nat
<1>1. PICK sections \in Seq(PeSection) : sections = SectionsOf(image)
  BY DEF IsImage, PeHeader, SectionsOf
<1>2. DOMAIN sections = 1..Len(sections) /\ Len(sections) \in Nat
  BY LenProperties
<1>3. ASSUME NEW i \in DOMAIN sections PROVE sections[i] \in PeSection
  BY <1>2, ElementOfSeq
<1>4. DOMAIN sections \in SUBSET Nat /\ IsFiniteSet(DOMAIN sections)
  BY <1>2, FS_Interval
<1>5. Contents(image) \in SUBSET DOMAIN sections
  BY <1>1 DEF Contents
<1>6. IsFiniteSet(Contents(image))
  BY <1>4, <1>5, FS_Subset
<1>7. ASSUME NEW i \in Contents(image)
      PROVE  /\ i \in DOMAIN sections /\ HasContent(sections[i])
             /\ sections[i].raw_ptr \in Nat /\ sections[i].raw_size \in Nat
             /\ RawEnd(sections[i]) \in Nat
             /\ RawEnd(sections[i]) = sections[i].raw_ptr + sections[i].raw_size
             /\ sections[i].raw_size # 0
  <2>1. i \in DOMAIN sections /\ HasContent(sections[i])
    BY <1>1, <1>7 DEF Contents
  <2>2. PICK s \in PeSection : s = sections[i]
    BY <1>3, <2>1
  <2>3. s.raw_ptr \in Nat /\ s.raw_size \in Nat
    BY DEF PeSection
  <2>4. s.raw_size # 0
    BY <2>1, <2>2 DEF HasContent
  <2>5. RawEnd(s) = s.raw_ptr + s.raw_size
    BY DEF RawEnd
  <2> QED
    BY <2>1, <2>2, <2>3, <2>4, <2>5
<1>8. image.header.size_of_headers \in Nat
  BY DEF IsImage, PeHeader
<1> QED
  BY <1>1, <1>3, <1>4, <1>5, <1>6, <1>7, <1>8

\* Sorting by place, size and entry leaves no two sections unordered.
LEMMA BeforeIsOrder ==
  ASSUME NEW image, IsImage(image), NEW i \in Contents(image), NEW j \in Contents(image)
  PROVE  /\ ~Before(image, i, i)
         /\ i # j => Before(image, i, j) \/ Before(image, j, i)
         /\ ~(Before(image, i, j) /\ Before(image, j, i))
         /\ \A k \in Contents(image) :
              Before(image, i, j) /\ Before(image, j, k) => Before(image, i, k)
<1>1. \A k \in Contents(image) : /\ k \in Nat /\ SectionsOf(image)[k].raw_ptr \in Nat
                                 /\ SectionsOf(image)[k].raw_size \in Nat
  BY SectionTypes
<1> QED
  BY <1>1 DEF Before

\* What is in order: g[1], g[2], ..., g[n] are the entries with content.
SectionOrder(image, g, n) ==
  /\ n \in Nat /\ g \in [1..n -> Contents(image)]
  /\ \A j, k \in 1..n : j < k => Before(image, g[j], g[k])
  /\ \A i \in Contents(image) : \E k \in 1..n : g[k] = i

\* InFileOrder lists all sections with content, sorted.
LEMMA FileOrder ==
  ASSUME NEW image, IsImage(image)
  PROVE  /\ SectionOrder(image, InFileOrder(image), Len(InFileOrder(image)))
         /\ Len(InFileOrder(image)) = Cardinality(Contents(image))
<1>1. PICK C : C = Contents(image)
  OBVIOUS
<1>2. PICK n : n = Cardinality(C)
  OBVIOUS
<1>3. IsFiniteSet(C) /\ n \in Nat
  BY <1>1, <1>2, SectionTypes, FS_CardinalityType
<1>4. PICK ahead : ahead = [i \in C |-> {j \in C : Before(image, j, i)}]
  OBVIOUS
<1>5. PICK place : place = [i \in C |-> Cardinality(ahead[i])]
  OBVIOUS
<1>6. ASSUME NEW i \in C
      PROVE  /\ IsFiniteSet(ahead[i]) /\ place[i] \in 0..(n - 1) /\ place[i] = Cardinality(ahead[i])
  <2>1. ahead[i] \in SUBSET (C \ {i})
    BY <1>1, <1>4, BeforeIsOrder
  <2>2. IsFiniteSet(C \ {i}) /\ Cardinality(C \ {i}) = n - 1
    BY <1>2, <1>3, FS_RemoveElement
  <2>3. IsFiniteSet(ahead[i]) /\ Cardinality(ahead[i]) <= n - 1
    BY <2>1, <2>2, FS_Subset
  <2>4. Cardinality(ahead[i]) \in Nat
    BY <2>3, FS_CardinalityType
  <2> QED
    BY <1>3, <1>5, <2>3, <2>4
<1>7. ASSUME NEW i \in C, NEW j \in C, Before(image, i, j) PROVE place[i] < place[j]
  <2>1. ahead[i] \in SUBSET ahead[j]
    BY <1>1, <1>4, <1>7, BeforeIsOrder
  <2>2. i \in ahead[j] /\ i \notin ahead[i]
    BY <1>1, <1>4, <1>7, BeforeIsOrder
  <2>3. Cardinality(ahead[i]) <= Cardinality(ahead[j]) /\ Cardinality(ahead[i]) # Cardinality(ahead[j])
    BY <1>6, <2>1, <2>2, FS_Subset
  <2>4. place[i] \in 0..(n - 1) /\ place[j] \in 0..(n - 1)
    BY <1>6
  <2> QED
    BY <1>3, <1>6, <2>3, <2>4
<1>8. place \in Injection(C, 0..(n - 1))
  <2>1. ASSUME NEW i \in C, NEW j \in C, place[i] = place[j] PROVE i = j
    <3>1. place[i] \in Int /\ place[j] \in Int
      BY <1>3, <1>6
    <3>2. ~Before(image, i, j) /\ ~Before(image, j, i)
      BY <1>7, <2>1, <3>1
    <3> QED
      BY <1>1, <3>2, BeforeIsOrder
  <2>2. place \in [C -> 0..(n - 1)]
    BY <1>5, <1>6
  <2> QED
    BY <2>1, <2>2 DEF Injection, IsInjective
<1>9. place \in Surjection(C, 0..(n - 1))
  <2>1. IsFiniteSet(0..(n - 1)) /\ Cardinality(0..(n - 1)) = n
    BY <1>3, FS_Interval
  <2> QED
    BY <1>2, <1>8, <2>1, FS_Injection
<1>10. PICK g : g = [k \in 1..n |-> CHOOSE i \in C : place[i] = k - 1]
  OBVIOUS
<1>11. ASSUME NEW k \in 1..n PROVE g[k] \in C /\ place[g[k]] = k - 1
  <2>1. k - 1 \in 0..(n - 1)
    BY <1>3
  <2>2. \E i \in C : place[i] = k - 1
    BY <1>9, <2>1 DEF Surjection
  <2> QED
    BY <1>10, <2>2
<1>12. InFileOrder(image) = g
  <2>1. ASSUME NEW k \in 1..n
        PROVE  (CHOOSE i \in C : Cardinality({j \in C : Before(image, j, i)}) = k - 1)
                 = CHOOSE i \in C : place[i] = k - 1
    <3>1. \A i \in C : Cardinality({j \in C : Before(image, j, i)}) = place[i]
      BY <1>4, <1>5
    <3> QED
      BY <3>1
  <2>2. InFileOrder(image) =
          [k \in 1..n |-> CHOOSE i \in C : Cardinality({j \in C : Before(image, j, i)}) = k - 1]
    BY <1>1, <1>2 DEF InFileOrder
  <2> QED
    BY <1>10, <2>1, <2>2
<1>13. g \in [1..n -> C] /\ Len(g) = n
  BY <1>3, <1>10, <1>11
<1>14. ASSUME NEW j \in 1..n, NEW k \in 1..n, j < k PROVE Before(image, g[j], g[k])
  <2>1. /\ g[j] \in C /\ place[g[j]] = j - 1
        /\ g[k] \in C /\ place[g[k]] = k - 1
    BY <1>11
  <2>2. j - 1 < k - 1 /\ j - 1 # k - 1 /\ ~(k - 1 < j - 1)
    BY <1>3, <1>14
  <2>3. ~Before(image, g[k], g[j]) /\ g[j] # g[k]
    BY <1>7, <2>1, <2>2
  <2> QED
    BY <1>1, <2>1, <2>3, BeforeIsOrder
<1>15. ASSUME NEW i \in C PROVE \E k \in 1..n : g[k] = i
  <2>1. place[i] \in 0..(n - 1)
    BY <1>6
  <2>2. PICK k \in 1..n : k = place[i] + 1
    BY <1>3, <2>1
  <2>3. g[k] \in C /\ place[g[k]] = place[i]
    BY <1>3, <1>11, <2>1, <2>2
  <2>4. g[k] = i
    BY <1>8, <2>3 DEF Injection, IsInjective
  <2> QED
    BY <2>4
<1> QED
  BY <1>1, <1>2, <1>3, <1>12, <1>13, <1>14, <1>15 DEF SectionOrder

\* What is in the file up to the k-th section: its bytes by their sizes, and
\* the positions hashed.
LEMMA SumFacts ==
  ASSUME NEW image, IsImage(image)
  PROVE  LET g == InFileOrder(image)
             n == Len(g)
         IN  \E sum \in [0..n -> Nat] :
           /\ sum[0] = image.header.size_of_headers /\ SumOfBytes(image) = sum[n]
           /\ \A k \in 1..n : sum[k] = sum[k - 1] + SectionsOf(image)[g[k]].raw_size
<1> DEFINE g == InFileOrder(image)
           n == Len(g)
           headers == image.header.size_of_headers
           size(k) == SectionsOf(image)[g[k]].raw_size
           P(f) == f = [k \in 0..n |-> IF k = 0 THEN headers ELSE f[k - 1] + size(k)]
           sum == CHOOSE f : P(f)
<1>1. SumOfBytes(image) = sum[n]
  BY Zenon DEF SumOfBytes
<1>2. n \in Nat /\ headers \in Nat /\ \A k \in 1..n : size(k) \in Nat
  BY FileOrder, SectionTypes DEF SectionOrder
<1> HIDE DEF g, n, headers, size
<1>3. PICK step \in [(1..n) \X Nat -> Nat] : step = [p \in (1..n) \X Nat |-> p[2] + size(p[1])]
  <2>1. ASSUME NEW p \in (1..n) \X Nat PROVE p[2] + size(p[1]) \in Nat
    <3>1. p[2] \in Nat /\ size(p[1]) \in Nat
      BY <1>2
    <3> QED
      BY <3>1
  <2> QED
    BY <2>1
<1>4. PICK f \in [0..n -> Nat] : f[0] = headers /\ \A i \in 1..n : f[i] = step[<<i, f[i - 1]>>]
  <2>1. n \in Nat /\ headers \in Nat
    BY <1>2
  <2>2. IsStep(step, n, Nat)
    BY DEF IsStep
  <2>3. PICK f : Solves(f, n, Nat, headers, step)
    BY <2>1, <2>2, Recursion
  <2> QED
    BY <2>3 DEF Solves
<1>5. \A i \in 1..n : f[i] = f[i - 1] + size(i)
  <2> TAKE i \in 1..n
  <2>1. i - 1 \in 0..n /\ f[i - 1] \in Nat
    BY <1>2
  <2>2. <<i, f[i - 1]>> \in (1..n) \X Nat
    BY <2>1
  <2> QED
    BY <1>3, <1>4, <2>2
<1>6. P(f)
  <2>1. \A i \in 0..n : f[i] = IF i = 0 THEN headers ELSE f[i - 1] + size(i)
    <3>1. \A i \in 0..n : i # 0 => i \in 1..n
      BY <1>2
    <3> QED
      BY <1>4, <1>5, <3>1
  <2>2. f = [i \in 0..n |-> f[i]]
    OBVIOUS
  <2> QED
    BY <2>1, <2>2
<1>7. P(sum)
  BY <1>6, Zenon
<1> HIDE DEF sum
<1>8. \A i \in 0..n : sum[i] = IF i = 0 THEN headers ELSE sum[i - 1] + size(i)
  BY <1>7, Zenon
<1>9. sum = [i \in 0..n |-> sum[i]]
  BY <1>7, <1>8
<1> HIDE DEF P
<1>10. ASSUME NEW i \in 0..n PROVE sum[i] = f[i]
  <2> DEFINE T == {k \in 0..n : sum[k] # f[k]}
  <2> SUFFICES ASSUME T # {} PROVE FALSE
    BY <1>10
  <2>1. PICK k \in T : \A m \in T : k <= m
    <3>1. T \in SUBSET Nat
      OBVIOUS
    <3> HIDE DEF T
    <3> QED
      BY <3>1, LeastMember
  <2>2. k \in 0..n /\ sum[k] # f[k]
    OBVIOUS
  <2>3. k # 0 /\ k \in 1..n /\ k - 1 \in 0..n
    BY <1>2, <1>4, <1>8, <2>2
  <2>4. sum[k - 1] = f[k - 1]
    BY <1>2, <2>1, <2>3
  <2> QED
    BY <1>5, <1>8, <2>2, <2>3, <2>4
<1>11. sum = f
  BY <1>9, <1>10
<1>12. f[0] = image.header.size_of_headers /\ \A k \in 1..n : f[k] = f[k - 1] + SectionsOf(image)[g[k]].raw_size
  BY <1>4, <1>5 DEF headers, size
<1> QED
  BY <1>1, <1>11, <1>12 DEF g, n

\* What is hashed of the sections, section by section.
LEMMA HashedFacts ==
  ASSUME NEW image, IsImage(image)
  PROVE  LET g == InFileOrder(image)
             n == Len(g)
         IN  \E hashed \in [0..n -> Seq(Nat)] :
           /\ hashed[0] = <<>> /\ HashedSections(image) = hashed[n]
           /\ \A k \in 1..n : hashed[k] = hashed[k - 1] \o SectionSpan(image, g[k])
<1> DEFINE g == InFileOrder(image)
           n == Len(g)
           part(k) == SectionSpan(image, g[k])
           P(f) == f = [k \in 0..n |-> IF k = 0 THEN <<>> ELSE f[k - 1] \o part(k)]
           hashed == CHOOSE f : P(f)
<1>1. HashedSections(image) = hashed[n]
  BY Zenon DEF HashedSections
<1>2. n \in Nat /\ \A k \in 1..n : part(k) \in Seq(Nat)
  <2>1. n \in Nat /\ \A k \in 1..n : g[k] \in Contents(image)
    BY FileOrder DEF SectionOrder
  <2>2. ASSUME NEW i \in Contents(image) PROVE SectionSpan(image, i) \in Seq(Nat)
    <3>1. SectionsOf(image)[i].raw_ptr \in Nat /\ RawEnd(SectionsOf(image)[i]) \in Int
      BY SectionTypes
    <3> QED
      BY <3>1, SpanFacts DEF SectionSpan
  <2> QED
    BY <2>1, <2>2
<1> HIDE DEF g, n, part
<1>3. PICK step \in [(1..n) \X Seq(Nat) -> Seq(Nat)] :
        step = [p \in (1..n) \X Seq(Nat) |-> p[2] \o part(p[1])]
  <2>1. ASSUME NEW p \in (1..n) \X Seq(Nat) PROVE p[2] \o part(p[1]) \in Seq(Nat)
    <3>1. p[2] \in Seq(Nat) /\ part(p[1]) \in Seq(Nat)
      BY <1>2
    <3> QED
      BY <3>1
  <2> QED
    BY <2>1
<1>13. <<>> \in Seq(Nat)
  OBVIOUS
<1>14. PICK empty \in Seq(Nat) : empty = <<>>
  BY <1>13
<1>4. PICK f \in [0..n -> Seq(Nat)] : f[0] = <<>> /\ \A i \in 1..n : f[i] = step[<<i, f[i - 1]>>]
  <2>1. \E f \in [0..n -> Seq(Nat)] : f[0] = empty /\ \A i \in 1..n : f[i] = step[<<i, f[i - 1]>>]
    <3>1. n \in Nat
      BY <1>2
    <3>2. IsStep(step, n, Seq(Nat))
      BY DEF IsStep
    <3>3. PICK f : Solves(f, n, Seq(Nat), empty, step)
      BY <3>1, <3>2, Recursion
    <3> QED
      BY <3>3 DEF Solves
  <2> QED
    BY <1>14, <2>1
<1>5. \A i \in 1..n : f[i] = f[i - 1] \o part(i)
  <2> TAKE i \in 1..n
  <2>1. i - 1 \in 0..n /\ f[i - 1] \in Seq(Nat)
    BY <1>2
  <2>2. <<i, f[i - 1]>> \in (1..n) \X Seq(Nat)
    BY <2>1
  <2> QED
    BY <1>3, <1>4, <2>2
<1>6. P(f)
  <2>1. \A i \in 0..n : f[i] = IF i = 0 THEN <<>> ELSE f[i - 1] \o part(i)
    <3>1. \A i \in 0..n : i # 0 => i \in 1..n
      BY <1>2
    <3> QED
      BY <1>4, <1>5, <3>1
  <2>2. f = [i \in 0..n |-> f[i]]
    OBVIOUS
  <2> QED
    BY <2>1, <2>2
<1>7. P(hashed)
  BY <1>6, Zenon
<1> HIDE DEF hashed
<1>8. \A i \in 0..n : hashed[i] = IF i = 0 THEN <<>> ELSE hashed[i - 1] \o part(i)
  BY <1>7, Zenon
<1>9. hashed = [i \in 0..n |-> hashed[i]]
  BY <1>7, <1>8
<1> HIDE DEF P
<1>10. ASSUME NEW i \in 0..n PROVE hashed[i] = f[i]
  <2> DEFINE T == {k \in 0..n : hashed[k] # f[k]}
  <2> SUFFICES ASSUME T # {} PROVE FALSE
    BY <1>10
  <2>1. PICK k \in T : \A m \in T : k <= m
    <3>1. T \in SUBSET Nat
      OBVIOUS
    <3> HIDE DEF T
    <3> QED
      BY <3>1, LeastMember
  <2>2. k \in 0..n /\ hashed[k] # f[k]
    OBVIOUS
  <2>3. k # 0 /\ k \in 1..n /\ k - 1 \in 0..n
    BY <1>2, <1>4, <1>8, <2>2
  <2>4. hashed[k - 1] = f[k - 1]
    BY <1>2, <2>1, <2>3
  <2> QED
    BY <1>5, <1>8, <2>2, <2>3, <2>4
<1>11. hashed = f
  BY <1>9, <1>10
<1>12. \A k \in 1..n : f[k] = f[k - 1] \o SectionSpan(image, g[k])
  BY <1>5 DEF part
<1> QED
  BY <1>1, <1>4, <1>11, <1>12 DEF g, n

(* ---- What the digest covers --------------------------------------------- *)

\* Where the fields of the headers are, and their order.
LEMMA FieldFacts ==
  ASSUME NEW image, IsImage(image)
  PROVE  /\ ChecksumAt(image) \in Nat /\ CertEntryAt(image) \in Nat /\ AfterFields(image) \in Nat
         /\ ChecksumAt(image) < NumRvaAt(image) /\ CertEntryAt(image) = NumRvaAt(image) + 1
         /\ image.header.opt < NumRvaAt(image) /\ NumRvaAt(image) \in Nat
         /\ HasCertEntry(image) => AfterFields(image) = CertEntryAt(image) + 1
         /\ ~HasCertEntry(image) => AfterFields(image) = ChecksumAt(image) + 1
         /\ CertSize(image) \in Nat /\ (~HasCertEntry(image) => CertSize(image) = 0)
         /\ ExtraEnd(image) \in Int /\ ExtraEnd(image) <= PeSize(image)
         /\ ExtraEnd(image) = PeSize(image) - CertSize(image)
         /\ image.header.size_of_headers \in Nat /\ SectionTable(image) \in Nat
         /\ image.header.opt \in Nat /\ PeSize(image) \in Nat
<1>1. /\ image.header.opt \in Nat /\ image.header.opt_size \in Nat
      /\ image.header.cert_size \in Nat /\ image.header.size_of_headers \in Nat
      /\ PeSize(image) \in Nat
  BY DEF IsImage, PeHeader
<1>2. PICK opt \in Nat : opt = image.header.opt
  BY <1>1
<1>3. PICK rva \in Nat : rva = NumRvaAt(image) /\ (rva = opt + 4 \/ rva = opt + 5)
  <2>1. NumRvaAt(image) = opt + 4 \/ NumRvaAt(image) = opt + 5
    BY <1>2 DEF NumRvaAt
  <2> QED
    BY <2>1
<1>4. ChecksumAt(image) = opt + 3 /\ CertEntryAt(image) = rva + 1
  BY <1>2, <1>3 DEF ChecksumAt, CertEntryAt
<1>5. /\ HasCertEntry(image) => AfterFields(image) = CertEntryAt(image) + 1
      /\ ~HasCertEntry(image) => AfterFields(image) = ChecksumAt(image) + 1
  BY DEF AfterFields
<1>6. CertSize(image) \in Nat /\ (~HasCertEntry(image) => CertSize(image) = 0)
  BY <1>1 DEF CertSize
<1>7. ExtraEnd(image) = PeSize(image) - CertSize(image)
  BY DEF ExtraEnd
<1>8. SectionTable(image) \in Nat
  BY <1>1 DEF SectionTable
<1>9. AfterFields(image) \in Nat
  BY <1>3, <1>4, <1>5
<1> QED
  BY <1>1, <1>2, <1>3, <1>4, <1>5, <1>6, <1>7, <1>8, <1>9

\* A concatenation has the elements of both of its parts.
LEMMA ToSetOfConcat ==
  ASSUME NEW s \in Seq(Nat), NEW t \in Seq(Nat)
  PROVE  s \o t \in Seq(Nat) /\ ToSet(s \o t) = ToSet(s) \cup ToSet(t)
<1>1. PICK u : u = s \o t
  OBVIOUS
<1>2. /\ u \in Seq(Nat) /\ Len(u) = Len(s) + Len(t)
      /\ \A i \in 1..(Len(s) + Len(t)) : u[i] = IF i <= Len(s) THEN s[i] ELSE t[i - Len(s)]
  BY <1>1, ConcatProperties
<1>3. /\ Len(s) \in Nat /\ Len(t) \in Nat /\ DOMAIN s = 1..Len(s) /\ DOMAIN t = 1..Len(t)
      /\ DOMAIN u = 1..(Len(s) + Len(t))
  BY <1>2, LenProperties
<1>4. ASSUME NEW k \in 1..Len(s) PROVE \E i \in DOMAIN u : u[i] = s[k]
  <2>1. k \in 1..(Len(s) + Len(t)) /\ k <= Len(s)
    BY <1>3
  <2> QED
    BY <1>2, <1>3, <2>1
<1>5. ASSUME NEW k \in 1..Len(t) PROVE \E i \in DOMAIN u : u[i] = t[k]
  <2>1. /\ k + Len(s) \in 1..(Len(s) + Len(t)) /\ ~(k + Len(s) <= Len(s))
        /\ (k + Len(s)) - Len(s) = k
    BY <1>3
  <2> QED
    BY <1>2, <1>3, <2>1
<1>6. ASSUME NEW i \in DOMAIN u PROVE u[i] \in ToSet(s) \cup ToSet(t)
  <2>1. CASE i <= Len(s)
    BY <1>2, <1>3, <2>1 DEF ToSet
  <2>2. CASE ~(i <= Len(s))
    <3>1. i - Len(s) \in 1..Len(t)
      BY <1>3, <2>2
    <3> QED
      BY <1>2, <1>3, <2>2, <3>1 DEF ToSet
  <2> QED
    BY <2>1, <2>2
<1>7. ToSet(u) = ToSet(s) \cup ToSet(t)
  BY <1>3, <1>4, <1>5, <1>6 DEF ToSet
<1> QED
  BY <1>1, <1>2, <1>7

\* A section that ends within the file is hashed with all its bytes.
LEMMA SectionSpanFacts ==
  ASSUME NEW image, IsImage(image), NEW i \in Contents(image)
  PROVE  /\ SectionSpan(image, i) \in Seq(Nat)
         /\ ToSet(SectionSpan(image, i)) =
              {k \in Nat : /\ SectionsOf(image)[i].raw_ptr <= k /\ k < RawEnd(SectionsOf(image)[i])
                           /\ k < PeSize(image)}
<1>1. SectionsOf(image)[i].raw_ptr \in Nat /\ RawEnd(SectionsOf(image)[i]) \in Int
  BY SectionTypes
<1> QED
  BY <1>1, SpanFacts DEF SectionSpan

\* All sections' bytes are among the positions hashed, and positions of the file
\* only.
LEMMA SectionsCovered ==
  ASSUME NEW image, IsImage(image)
  PROVE  /\ HashedSections(image) \in Seq(Nat)
         /\ \A x : x \in ToSet(HashedSections(image))
                     <=> \E i \in Contents(image) : x \in ToSet(SectionSpan(image, i))
<1>1. PICK g, n : g = InFileOrder(image) /\ n = Len(g)
  OBVIOUS
<1>2. SectionOrder(image, g, n)
  BY <1>1, FileOrder
<1>3. PICK hashed \in [0..n -> Seq(Nat)] :
        /\ hashed[0] = <<>> /\ HashedSections(image) = hashed[n]
        /\ \A k \in 1..n : hashed[k] = hashed[k - 1] \o SectionSpan(image, g[k])
  BY <1>1, HashedFacts
<1>4. n \in Nat /\ \A k \in 1..n : g[k] \in Contents(image)
  BY <1>2 DEF SectionOrder
<1> DEFINE Good(k) == \A x : x \in ToSet(hashed[k])
                               <=> \E j \in 1..k : x \in ToSet(SectionSpan(image, g[j]))
           T == {k \in 0..n : ~Good(k)}
<1>5. ASSUME T # {} PROVE FALSE
  <2>1. PICK k \in T : \A m \in T : k <= m
    <3>1. T \in SUBSET Nat
      BY <1>4
    <3> HIDE DEF T
    <3> QED
      BY <1>5, <3>1, LeastMember
  <2>2. k \in 0..n /\ ~Good(k)
    OBVIOUS
  <2>3. k # 0
    <3>1. ToSet(hashed[0]) = {}
      BY <1>3 DEF ToSet
    <3>2. Good(0)
      BY <3>1
    <3> QED
      BY <2>2, <3>2
  <2>4. k - 1 \in 0..n /\ k \in 1..n /\ k - 1 \notin T
    <3>1. k - 1 \in 0..n /\ k \in 1..n /\ ~(k <= k - 1)
      BY <1>4, <2>2, <2>3
    <3> HIDE DEF T
    <3> QED
      BY <2>1, <3>1
  <2>5. Good(k - 1)
    BY <2>4
  <2>6. hashed[k - 1] \in Seq(Nat) /\ SectionSpan(image, g[k]) \in Seq(Nat)
    BY <1>3, <1>4, <2>4, SectionSpanFacts
  <2>7. ToSet(hashed[k]) = ToSet(hashed[k - 1]) \cup ToSet(SectionSpan(image, g[k]))
    BY <1>3, <2>4, <2>6, ToSetOfConcat
  <2>8. \A j : j \in 1..k <=> j \in 1..(k - 1) \/ j = k
    BY <1>4, <2>4
  <2>9. Good(k)
    BY <2>5, <2>7, <2>8
  <2> QED
    BY <2>2, <2>9
<1>6. Good(n) /\ hashed[n] \in Seq(Nat)
  <2>1. n \in 0..n
    BY <1>4
  <2> QED
    BY <1>5, <2>1
<1>7. \A x : (\E j \in 1..n : x \in ToSet(SectionSpan(image, g[j])))
               <=> \E i \in Contents(image) : x \in ToSet(SectionSpan(image, i))
  BY <1>2 DEF SectionOrder
<1> QED
  BY <1>3, <1>6, <1>7

\* The three spans of the headers leave out the two fields and nothing else.
LEMMA HeadersCovered ==
  ASSUME NEW image, IsImage(image)
  PROVE  /\ HashedHeaders(image) \in Seq(Nat)
         /\ \A x \in ToSet(HashedHeaders(image)) : x \in Nat /\ x < PeSize(image)
         /\ \A x \in Nat : /\ x < image.header.size_of_headers /\ x < PeSize(image)
                           /\ x # ChecksumAt(image) /\ (HasCertEntry(image) => x # CertEntryAt(image))
                           => x \in ToSet(HashedHeaders(image))
<1> DEFINE checksum == ChecksumAt(image)
           cert == CertEntryAt(image)
           after == AfterFields(image)
           headers == image.header.size_of_headers
           first == Span(image, 0, checksum)
           between == Span(image, checksum + 1, cert)
           second == IF HasCertEntry(image) THEN between ELSE <<>>
           third == Span(image, after, headers)
<1>1. /\ checksum \in Nat /\ cert \in Nat /\ after \in Nat /\ headers \in Nat /\ PeSize(image) \in Nat
      /\ HasCertEntry(image) => after = cert + 1
      /\ ~HasCertEntry(image) => after = checksum + 1
      /\ 0 \in Nat /\ checksum \in Int /\ checksum + 1 \in Nat /\ cert \in Int /\ headers \in Int
  BY FieldFacts
<1>2. /\ first \in Seq(Nat) /\ between \in Seq(Nat) /\ third \in Seq(Nat)
      /\ ToSet(first) = {k \in Nat : 0 <= k /\ k < checksum /\ k < PeSize(image)}
      /\ ToSet(between) = {k \in Nat : checksum + 1 <= k /\ k < cert /\ k < PeSize(image)}
      /\ ToSet(third) = {k \in Nat : after <= k /\ k < headers /\ k < PeSize(image)}
  <2>4. ASSUME NEW from \in Nat, NEW to \in Int
        PROVE  /\ Span(image, from, to) \in Seq(Nat)
               /\ ToSet(Span(image, from, to)) = {k \in Nat : from <= k /\ k < to /\ k < PeSize(image)}
    BY SpanFacts
  <2> HIDE DEF checksum, cert, after, headers
  <2>1. /\ first \in Seq(Nat)
        /\ ToSet(first) = {k \in Nat : 0 <= k /\ k < checksum /\ k < PeSize(image)}
    BY <1>1, <2>4
  <2>2. /\ between \in Seq(Nat)
        /\ ToSet(between) = {k \in Nat : checksum + 1 <= k /\ k < cert /\ k < PeSize(image)}
    BY <1>1, <2>4
  <2>3. /\ third \in Seq(Nat)
        /\ ToSet(third) = {k \in Nat : after <= k /\ k < headers /\ k < PeSize(image)}
    BY <1>1, <2>4
  <2> QED
    BY <2>1, <2>2, <2>3
<1>3. HashedHeaders(image) = first \o second \o third
  BY DEF HashedHeaders
<1>4. <<>> \in Seq(Nat) /\ ToSet(<<>>) = {}
  BY DEF ToSet
<1>5. /\ second \in Seq(Nat)
      /\ HasCertEntry(image) => ToSet(second) = ToSet(between)
      /\ ~HasCertEntry(image) => ToSet(second) = {}
  BY <1>2, <1>4
<1> HIDE DEF first, second, third, between, checksum, cert, after, headers
<1>6. /\ first \o second \o third \in Seq(Nat)
      /\ ToSet(first \o second \o third) = ToSet(first) \cup ToSet(second) \cup ToSet(third)
  <2>1. first \o second \in Seq(Nat) /\ ToSet(first \o second) = ToSet(first) \cup ToSet(second)
    BY <1>2, <1>5, ToSetOfConcat
  <2>2. PICK u \in Seq(Nat) : u = first \o second
    BY <2>1
  <2>3. u \o third \in Seq(Nat) /\ ToSet(u \o third) = ToSet(u) \cup ToSet(third)
    BY <1>2, ToSetOfConcat
  <2> QED
    BY <2>1, <2>2, <2>3
<1>7. ASSUME NEW x \in ToSet(HashedHeaders(image)) PROVE x \in Nat /\ x < PeSize(image)
  BY <1>2, <1>3, <1>5, <1>6
<1>8. ASSUME NEW x \in Nat, x < headers, x < PeSize(image), x # checksum, HasCertEntry(image) => x # cert
      PROVE  x \in ToSet(HashedHeaders(image))
  <2>1. CASE x < checksum
    BY <1>1, <1>2, <1>3, <1>6, <1>8, <2>1
  <2>2. CASE x > checksum /\ HasCertEntry(image)
    <3>1. CASE x < cert
      <4>1. x \in ToSet(between)
        BY <1>1, <1>2, <1>8, <2>2, <3>1
      <4> QED
        BY <1>3, <1>5, <1>6, <2>2, <4>1
    <3>2. CASE x > cert
      <4>1. x \in ToSet(third)
        BY <1>1, <1>2, <1>8, <2>2, <3>2
      <4> QED
        BY <1>3, <1>6, <4>1
    <3> QED
      BY <1>1, <1>8, <2>2, <3>1, <3>2
  <2>3. CASE x > checksum /\ ~HasCertEntry(image)
    BY <1>1, <1>2, <1>3, <1>6, <1>8, <2>3
  <2> QED
    BY <1>1, <1>8, <2>1, <2>2, <2>3
<1> QED
  BY <1>3, <1>6, <1>7, <1>8 DEF checksum, cert, headers

\* What is hashed is of the headers, of the sections or behind them.
LEMMA HashedIsASequence ==
  ASSUME NEW image, IsImage(image), AuthenticodeDefined(image)
  PROVE  /\ SumOfBytes(image) \in Nat
         /\ Hashed(image) \in Seq(Nat)
         /\ \A x : x \in ToSet(Hashed(image)) <=>
                     \/ x \in ToSet(HashedHeaders(image)) \/ x \in ToSet(HashedSections(image))
                     \/ x \in ToSet(Span(image, SumOfBytes(image), ExtraEnd(image)))
<1>1. SumOfBytes(image) \in Nat
  <2>1. Len(InFileOrder(image)) \in Nat
    BY FileOrder DEF SectionOrder
  <2>2. Len(InFileOrder(image)) \in 0..Len(InFileOrder(image))
    BY <2>1
  <2> QED
    BY <2>2, SumFacts
<1>2. PICK h, s, t : /\ h = HashedHeaders(image) /\ s = HashedSections(image)
                     /\ t = Span(image, SumOfBytes(image), ExtraEnd(image))
  OBVIOUS
<1>3. h \in Seq(Nat) /\ s \in Seq(Nat) /\ t \in Seq(Nat)
  <2>1. ExtraEnd(image) \in Int
    BY FieldFacts
  <2>2. t \in Seq(Nat)
    BY <1>1, <1>2, <2>1, SpanFacts
  <2> QED
    BY <1>2, <2>2, HeadersCovered, SectionsCovered
<1>4. PICK u : u = h \o s
  OBVIOUS
<1>5. u \in Seq(Nat) /\ ToSet(u) = ToSet(h) \cup ToSet(s)
  BY <1>3, <1>4, ToSetOfConcat
<1>6. u \o t \in Seq(Nat) /\ ToSet(u \o t) = ToSet(u) \cup ToSet(t)
  BY <1>3, <1>5, ToSetOfConcat
<1>7. Hashed(image) = u \o t
  BY <1>2, <1>4 DEF Hashed
<1> QED
  BY <1>1, <1>2, <1>5, <1>6, <1>7

\* A digest that is computed covers the headers and the sections declared.
LEMMA NoSpanIsCut ==
  ASSUME NEW image, IsImage(image), AuthenticodeDefined(image)
  PROVE  LET headers == 0..(image.header.size_of_headers - 1)
             fields == {ChecksumAt(image)} \cup (IF HasCertEntry(image) THEN {CertEntryAt(image)} ELSE {})
             sections == UNION {SectionsOf(image)[i].raw_ptr..(RawEnd(SectionsOf(image)[i]) - 1) :
                                  i \in Contents(image)}
             hashed == Hashed(image)
         IN /\ (headers \ fields) \cup sections \subseteq ToSet(hashed)
            /\ ToSet(hashed) \subseteq 0..(PeSize(image) - 1)
<1>1. /\ image.header.size_of_headers <= PeSize(image)
      /\ \A i \in Contents(image) : RawEnd(SectionsOf(image)[i]) <= PeSize(image)
  BY DEF AuthenticodeDefined
<1>2. image.header.size_of_headers \in Nat /\ PeSize(image) \in Nat
  BY FieldFacts
<1>3. \A x : x \in ToSet(Hashed(image)) <=>
               \/ x \in ToSet(HashedHeaders(image)) \/ x \in ToSet(HashedSections(image))
               \/ x \in ToSet(Span(image, SumOfBytes(image), ExtraEnd(image)))
  BY HashedIsASequence
<1>4. ASSUME NEW x \in 0..(image.header.size_of_headers - 1), x # ChecksumAt(image),
             HasCertEntry(image) => x # CertEntryAt(image)
      PROVE  x \in ToSet(Hashed(image))
  <2>1. x \in Nat /\ x < image.header.size_of_headers /\ x < PeSize(image)
    BY <1>1, <1>2
  <2> QED
    BY <1>3, <1>4, <2>1, HeadersCovered
<1>5. ASSUME NEW i \in Contents(image),
             NEW x \in SectionsOf(image)[i].raw_ptr..(RawEnd(SectionsOf(image)[i]) - 1)
      PROVE  x \in ToSet(Hashed(image))
  <2>1. /\ SectionsOf(image)[i].raw_ptr \in Nat /\ RawEnd(SectionsOf(image)[i]) \in Nat
    BY SectionTypes
  <2>2. /\ x \in Nat /\ SectionsOf(image)[i].raw_ptr <= x /\ x < RawEnd(SectionsOf(image)[i])
        /\ x < PeSize(image)
    BY <1>1, <1>2, <2>1
  <2>3. x \in ToSet(SectionSpan(image, i))
    BY <2>2, SectionSpanFacts
  <2> QED
    BY <1>3, <2>3, SectionsCovered
<1>6. ASSUME NEW x \in ToSet(Hashed(image)) PROVE x \in 0..(PeSize(image) - 1)
  <2>1. SumOfBytes(image) \in Nat /\ ExtraEnd(image) \in Int
    BY HashedIsASequence, FieldFacts
  <2>2. CASE x \in ToSet(HashedHeaders(image))
    BY <1>2, <2>2, HeadersCovered
  <2>3. CASE x \in ToSet(HashedSections(image))
    <3>1. PICK i \in Contents(image) : x \in ToSet(SectionSpan(image, i))
      BY <2>3, SectionsCovered
    <3>2. x \in Nat /\ x < PeSize(image)
      BY <3>1, SectionSpanFacts
    <3> QED
      BY <1>2, <3>2
  <2>4. CASE x \in ToSet(Span(image, SumOfBytes(image), ExtraEnd(image)))
    <3>1. x \in Nat /\ x < PeSize(image)
      BY <2>1, <2>4, SpanFacts
    <3> QED
      BY <1>2, <3>1
  <2> QED
    BY <1>3, <2>2, <2>3, <2>4
<1> QED
  BY <1>4, <1>5, <1>6

(* ---- Regular images ------------------------------------------------------ *)

\* What a regular image's sections are, entry by entry.
LEMMA RegularSections ==
  ASSUME NEW image, IsImage(image), Regular(image), NEW i \in Contents(image)
  PROVE  LET ptr(k) == SectionsOf(image)[k].raw_ptr
             end(k) == RawEnd(SectionsOf(image)[k])
         IN /\ ptr(i) \in Nat /\ end(i) \in Nat /\ ptr(i) < end(i)
            /\ image.header.size_of_headers <= ptr(i) /\ end(i) <= ExtraEnd(image)
            /\ ptr(i) = image.header.size_of_headers
                 \/ \E j \in Contents(image) : ptr(j) < ptr(i) /\ ptr(i) <= end(j)
            /\ \A j \in Contents(image) : Before(image, i, j) => end(i) <= ptr(j)
<1> DEFINE ptr(k) == SectionsOf(image)[k].raw_ptr
           end(k) == RawEnd(SectionsOf(image)[k])
           Bytes(k) == ptr(k)..(end(k) - 1)
           headers == image.header.size_of_headers
           sections == UNION {Bytes(k) : k \in Contents(image)}
<1>1. \A k \in Contents(image) : ptr(k) \in Nat /\ end(k) \in Nat /\ ptr(k) < end(k)
  <2> TAKE k \in Contents(image)
  <2>1. /\ ptr(k) \in Nat /\ SectionsOf(image)[k].raw_size \in Nat
        /\ end(k) = ptr(k) + SectionsOf(image)[k].raw_size /\ SectionsOf(image)[k].raw_size # 0
    BY SectionTypes
  <2> QED
    BY <2>1
<1>2. headers \in Nat /\ ExtraEnd(image) \in Int
  BY FieldFacts
<1>3. /\ sections \subseteq headers..(ExtraEnd(image) - 1)
      /\ \A j, k \in Contents(image) : j # k => Bytes(j) \cap Bytes(k) = {}
      /\ \A k \in sections : k = headers \/ k - 1 \in sections
  BY DEF Regular
<1>12. \A j, k \in Contents(image) : Before(image, j, k) => ptr(j) <= ptr(k)
  BY <1>1 DEF Before
<1>13. \A k \in Contents(image) : ~Before(image, k, k)
  BY BeforeIsOrder
<1>4. \A k \in Contents(image) : \A x \in Bytes(k) : x \in sections
  OBVIOUS
<1>5. \A x \in sections : \E k \in Contents(image) : x \in Bytes(k)
  OBVIOUS
<1> HIDE DEF ptr, end, sections, headers
<1>6. ptr(i) \in Bytes(i) /\ end(i) - 1 \in Bytes(i)
  BY <1>1
<1>7. headers <= ptr(i) /\ end(i) <= ExtraEnd(image)
  <2>1. ptr(i) \in headers..(ExtraEnd(image) - 1) /\ end(i) - 1 \in headers..(ExtraEnd(image) - 1)
    BY <1>3, <1>4, <1>6
  <2> QED
    BY <1>1, <1>2, <2>1
<1>8. ptr(i) = headers \/ \E j \in Contents(image) : ptr(j) < ptr(i) /\ ptr(i) <= end(j)
  <2>1. ptr(i) = headers \/ ptr(i) - 1 \in sections
    BY <1>3, <1>4, <1>6
  <2>2. ASSUME ptr(i) - 1 \in sections
        PROVE  \E j \in Contents(image) : ptr(j) < ptr(i) /\ ptr(i) <= end(j)
    <3>1. PICK j \in Contents(image) : ptr(i) - 1 \in Bytes(j)
      BY <1>5, <2>2
    <3>2. ptr(j) < ptr(i) /\ ptr(i) <= end(j)
      BY <1>1, <3>1
    <3> QED
      BY <3>2
  <2> QED
    BY <2>1, <2>2
<1>9. ASSUME NEW j \in Contents(image), Before(image, i, j) PROVE end(i) <= ptr(j)
  <2>1. ptr(i) <= ptr(j) /\ i # j
    BY <1>9, <1>12, <1>13
  <2>2. ptr(j) \in Bytes(j) /\ ptr(j) \notin Bytes(i)
    BY <1>1, <1>3, <2>1
  <2> QED
    BY <1>1, <2>1, <2>2
<1>10. ptr(i) \in Nat /\ end(i) \in Nat /\ ptr(i) < end(i)
  BY <1>1
<1> QED
  BY <1>7, <1>8, <1>9, <1>10 DEF ptr, end, headers

\* In the order of the file every section starts where the one before it ends,
\* and the first where the headers end.
LEMMA Tiling ==
  ASSUME NEW image, IsImage(image), Regular(image), NEW g, NEW n, SectionOrder(image, g, n)
  PROVE  \A k \in 1..n :
           /\ k = 1 => SectionsOf(image)[g[k]].raw_ptr = image.header.size_of_headers
           /\ k # 1 => SectionsOf(image)[g[k]].raw_ptr = RawEnd(SectionsOf(image)[g[k - 1]])
<1> DEFINE ptr(k) == SectionsOf(image)[k].raw_ptr
           end(k) == RawEnd(SectionsOf(image)[k])
           headers == image.header.size_of_headers
<1> SUFFICES \A k \in 1..n : /\ k = 1 => ptr(g[k]) = headers
                             /\ k # 1 => ptr(g[k]) = end(g[k - 1])
  OBVIOUS
<1>1. /\ n \in Nat /\ \A k \in 1..n : g[k] \in Contents(image)
      /\ \A j, k \in 1..n : j < k => Before(image, g[j], g[k])
      /\ \A i \in Contents(image) : \E k \in 1..n : g[k] = i
  BY DEF SectionOrder
<1>2. \A i \in Contents(image) :
        /\ ptr(i) \in Nat /\ end(i) \in Nat /\ ptr(i) < end(i) /\ headers <= ptr(i)
        /\ ptr(i) = headers \/ \E j \in Contents(image) : ptr(j) < ptr(i) /\ ptr(i) <= end(j)
        /\ \A j \in Contents(image) : Before(image, i, j) => end(i) <= ptr(j)
  BY RegularSections
<1>3. headers \in Nat
  BY FieldFacts
<1> HIDE DEF ptr, end, headers
<1>4. ASSUME NEW j \in 1..n, NEW k \in 1..n, j < k PROVE end(g[j]) <= ptr(g[k])
  BY <1>1, <1>2, <1>4
<1>5. ASSUME NEW k \in 1..n, ptr(g[k]) = headers PROVE k = 1
  <2> SUFFICES ASSUME k # 1 PROVE FALSE
    OBVIOUS
  <2>1. 1 \in 1..n /\ 1 < k
    BY <1>1
  <2>2. end(g[1]) <= ptr(g[k]) /\ ptr(g[1]) < end(g[1]) /\ headers <= ptr(g[1])
    BY <1>1, <1>2, <1>4, <2>1
  <2>3. g[1] \in Contents(image) /\ g[k] \in Contents(image)
    BY <1>1, <2>1
  <2>4. ptr(g[1]) \in Nat /\ end(g[1]) \in Nat
    BY <1>2, <2>3
  <2> QED
    BY <1>3, <1>5, <2>2, <2>4
<1>6. ASSUME NEW k \in 1..n, ptr(g[k]) # headers PROVE k # 1 /\ ptr(g[k]) = end(g[k - 1])
  <2>1. PICK i \in Contents(image) : ptr(i) < ptr(g[k]) /\ ptr(g[k]) <= end(i)
    BY <1>1, <1>2, <1>6
  <2>2. PICK m \in 1..n : g[m] = i
    BY <1>1
  <2>3. g[m] \in Contents(image) /\ g[k] \in Contents(image) /\ m \in Int /\ k \in Int
    BY <1>1
  <2>4. /\ ptr(g[m]) \in Nat /\ end(g[m]) \in Nat /\ ptr(g[k]) \in Nat /\ end(g[k]) \in Nat
        /\ ptr(g[k]) < end(g[k])
    BY <1>2, <2>3
  <2>5. m < k
    <3>1. ~(k < m)
      <4> SUFFICES ASSUME k < m PROVE FALSE
        OBVIOUS
      <4>1. end(g[k]) <= ptr(g[m])
        BY <1>4
      <4> QED
        BY <2>1, <2>2, <2>4, <4>1
    <3>2. m # k
      BY <2>1, <2>2, <2>4
    <3> QED
      BY <2>3, <3>1, <3>2
  <2>6. end(g[m]) = ptr(g[k])
    <3>1. end(g[m]) <= ptr(g[k])
      BY <1>4, <2>5
    <3> QED
      BY <2>1, <2>2, <2>4, <3>1
  <2>7. m = k - 1
    <3> SUFFICES ASSUME m # k - 1 PROVE FALSE
      OBVIOUS
    <3>1. k - 1 \in 1..n /\ m < k - 1 /\ k - 1 < k
      BY <1>1, <2>3, <2>5
    <3>2. end(g[m]) <= ptr(g[k - 1]) /\ end(g[k - 1]) <= ptr(g[k])
      BY <1>4, <3>1
    <3>3. g[k - 1] \in Contents(image)
      BY <1>1, <3>1
    <3>4. ptr(g[k - 1]) \in Nat /\ end(g[k - 1]) \in Nat /\ ptr(g[k - 1]) < end(g[k - 1])
      BY <1>2, <3>3
    <3> QED
      BY <2>4, <2>6, <3>2, <3>4
  <2>8. k # 1
    BY <1>1, <2>5
  <2> QED
    BY <2>6, <2>7, <2>8
<1>7. ASSUME NEW k \in 1..n
      PROVE  /\ k = 1 => ptr(g[k]) = headers
             /\ k # 1 => ptr(g[k]) = end(g[k - 1])
  BY <1>5, <1>6
<1> QED
  BY <1>7

\* The elements of a concatenation, place by place.
LEMMA JoinElements ==
  ASSUME NEW s \in Seq(Nat), NEW t \in Seq(Nat)
  PROVE  /\ s \o t \in Seq(Nat) /\ Len(s \o t) = Len(s) + Len(t)
         /\ \A i \in 1..Len(s) : (s \o t)[i] = s[i]
         /\ \A i \in 1..Len(t) : (s \o t)[Len(s) + i] = t[i]
<1>1. Len(s) \in Nat /\ Len(t) \in Nat
  BY LenProperties
<1>2. /\ s \o t \in Seq(Nat) /\ Len(s \o t) = Len(s) + Len(t)
      /\ \A i \in 1..(Len(s) + Len(t)) : (s \o t)[i] = IF i <= Len(s) THEN s[i] ELSE t[i - Len(s)]
  BY ConcatProperties
<1> QED
  BY <1>1, <1>2

\* Concatenation is associative.
LEMMA JoinAssociative ==
  ASSUME NEW s \in Seq(Nat), NEW t \in Seq(Nat), NEW u \in Seq(Nat)
  PROVE  (s \o t) \o u = s \o (t \o u)
<1>1. PICK st, tu : st = s \o t /\ tu = t \o u
  OBVIOUS
<1>2. /\ st \in Seq(Nat) /\ Len(st) = Len(s) + Len(t)
      /\ \A i \in 1..Len(s) : st[i] = s[i]
      /\ \A i \in 1..Len(t) : st[Len(s) + i] = t[i]
  BY <1>1, JoinElements
<1>3. /\ tu \in Seq(Nat) /\ Len(tu) = Len(t) + Len(u)
      /\ \A i \in 1..Len(t) : tu[i] = t[i]
      /\ \A i \in 1..Len(u) : tu[Len(t) + i] = u[i]
  BY <1>1, JoinElements
<1>4. PICK a, b : a = st \o u /\ b = s \o tu
  OBVIOUS
<1>11. st \in Seq(Nat) /\ u \in Seq(Nat)
  BY <1>2
<1>12. s \in Seq(Nat) /\ tu \in Seq(Nat)
  BY <1>3
<1>5. /\ a \in Seq(Nat) /\ Len(a) = Len(st) + Len(u)
      /\ \A i \in 1..Len(st) : a[i] = st[i]
      /\ \A i \in 1..Len(u) : a[Len(st) + i] = u[i]
  BY ONLY <1>11, <1>4, JoinElements
<1>6. /\ b \in Seq(Nat) /\ Len(b) = Len(s) + Len(tu)
      /\ \A i \in 1..Len(s) : b[i] = s[i]
      /\ \A i \in 1..Len(tu) : b[Len(s) + i] = tu[i]
  BY ONLY <1>12, <1>4, JoinElements
<1>7. Len(s) \in Nat /\ Len(t) \in Nat /\ Len(u) \in Nat
  BY LenProperties
<1>13. \A i \in 1..Len(s) : a[i] = b[i]
  <2>1. \A i \in 1..Len(s) : i \in 1..Len(st)
    BY <1>2, <1>7
  <2> QED
    BY ONLY <1>2, <1>5, <1>6, <2>1
<1>14. \A i \in 1..Len(t) : a[Len(s) + i] = b[Len(s) + i]
  <2>1. \A i \in 1..Len(t) : Len(s) + i \in 1..Len(st) /\ i \in 1..Len(tu)
    BY <1>2, <1>3, <1>7
  <2> QED
    BY ONLY <1>2, <1>3, <1>5, <1>6, <2>1
<1>15. \A i \in 1..Len(u) : a[Len(s) + (Len(t) + i)] = b[Len(s) + (Len(t) + i)]
  <2>1. \A i \in 1..Len(u) : Len(t) + i \in 1..Len(tu) /\ Len(st) + i = Len(s) + (Len(t) + i)
    BY <1>2, <1>3, <1>7
  <2> QED
    BY ONLY <1>3, <1>5, <1>6, <2>1
<1>8. ASSUME NEW i \in 1..(Len(s) + Len(t) + Len(u)) PROVE a[i] = b[i]
  <2>1. CASE i <= Len(s)
    BY <1>7, <1>13, <2>1
  <2>2. CASE i > Len(s) /\ i <= Len(s) + Len(t)
    <3>1. i - Len(s) \in 1..Len(t) /\ i = Len(s) + (i - Len(s))
      BY <1>7, <2>2
    <3> QED
      BY ONLY <1>14, <3>1
  <2>3. CASE i > Len(s) + Len(t)
    <3>1. PICK j \in 1..Len(u) : i = Len(s) + (Len(t) + j)
      <4>1. i - Len(s) - Len(t) \in 1..Len(u) /\ i = Len(s) + (Len(t) + (i - Len(s) - Len(t)))
        BY <1>7, <2>3
      <4> QED
        BY <4>1
    <3> QED
      BY <1>15, <3>1
  <2> QED
    BY <1>7, <2>1, <2>2, <2>3
<1>9. Len(a) = Len(s) + Len(t) + Len(u) /\ Len(b) = Len(a)
  BY <1>2, <1>3, <1>5, <1>6, <1>7
<1>10. a = b
  BY <1>5, <1>6, <1>8, <1>9, SeqEqual
<1> QED
  BY <1>1, <1>4, <1>10

\* A slice that ends where it starts has nothing.
LEMMA EmptySpan ==
  ASSUME NEW image, IsImage(image), NEW a \in Nat
  PROVE  Span(image, a, a) = <<>>
<1>1. PICK end \in Int : end = IF a <= PeSize(image) THEN a ELSE PeSize(image)
  BY DEF IsImage
<1>2. ~(end > a)
  BY <1>1 DEF IsImage
<1>3. Span(image, a, a) = [k \in 1..0 |-> a + k - 1]
  BY <1>1, <1>2 DEF Span
<1> QED
  BY <1>3

\* The sections of a regular image are hashed as one span behind the headers.
LEMMA RegularSums ==
  ASSUME NEW image, IsImage(image), Regular(image)
  PROVE  /\ SumOfBytes(image) \in Nat
         /\ image.header.size_of_headers <= SumOfBytes(image)
         /\ SumOfBytes(image) <= ExtraEnd(image)
         /\ HashedSections(image) = Span(image, image.header.size_of_headers, SumOfBytes(image))
<1> DEFINE headers == image.header.size_of_headers
           extra == ExtraEnd(image)
<1>1. PICK g, n : g = InFileOrder(image) /\ n = Len(g)
  OBVIOUS
<1>2. SectionOrder(image, g, n)
  BY <1>1, FileOrder
<1>3. PICK sum \in [0..n -> Nat] :
        /\ sum[0] = headers /\ SumOfBytes(image) = sum[n]
        /\ \A k \in 1..n : sum[k] = sum[k - 1] + SectionsOf(image)[g[k]].raw_size
  BY <1>1, SumFacts
<1>4. PICK hashed \in [0..n -> Seq(Nat)] :
        /\ hashed[0] = <<>> /\ HashedSections(image) = hashed[n]
        /\ \A k \in 1..n : hashed[k] = hashed[k - 1] \o SectionSpan(image, g[k])
  BY <1>1, HashedFacts
<1>5. n \in Nat /\ \A k \in 1..n : g[k] \in Contents(image)
  BY <1>2 DEF SectionOrder
<1>6. headers \in Nat /\ extra \in Int /\ extra <= PeSize(image) /\ PeSize(image) \in Nat /\ headers <= extra
  BY FieldFacts DEF Regular
<1> HIDE DEF headers, extra
<1> DEFINE Good(k) == /\ k = 0 => sum[k] = headers
                      /\ k # 0 => sum[k] = RawEnd(SectionsOf(image)[g[k]])
                      /\ headers <= sum[k] /\ sum[k] <= extra
                      /\ hashed[k] = Span(image, headers, sum[k])
           T == {k \in 0..n : ~Good(k)}
<1>7. ASSUME T # {} PROVE FALSE
  <2>1. PICK k \in T : \A m \in T : k <= m
    <3>1. T \in SUBSET Nat
      BY <1>5
    <3> HIDE DEF T
    <3> QED
      BY <1>7, <3>1, LeastMember
  <2>2. k \in 0..n /\ ~Good(k)
    OBVIOUS
  <2>3. k # 0
    <3>1. Span(image, headers, headers) = <<>>
      BY <1>6, EmptySpan
    <3>2. Good(0)
      BY <1>3, <1>4, <1>6, <3>1
    <3> QED
      BY <2>2, <3>2
  <2>4. k - 1 \in 0..n /\ k \in 1..n /\ k - 1 \notin T
    <3>1. k - 1 \in 0..n /\ k \in 1..n /\ ~(k <= k - 1)
      BY <1>5, <2>2, <2>3
    <3> HIDE DEF T
    <3> QED
      BY <2>1, <3>1
  <2>5. Good(k - 1)
    BY <2>4
  <2> DEFINE s == SectionsOf(image)[g[k]]
  <2>6. /\ s.raw_ptr \in Nat /\ RawEnd(s) \in Nat /\ RawEnd(s) = s.raw_ptr + s.raw_size
        /\ s.raw_size \in Nat
    BY <1>5, <2>4, SectionTypes
  <2>7. RawEnd(s) <= extra
    BY <1>5, <2>4, RegularSections DEF extra
  <2>8. s.raw_ptr = sum[k - 1]
    <3>1. /\ k = 1 => s.raw_ptr = headers
          /\ k # 1 => s.raw_ptr = RawEnd(SectionsOf(image)[g[k - 1]])
      BY <1>2, <2>4, Tiling DEF headers
    <3>2. k = 1 <=> k - 1 = 0
      BY <2>4
    <3> QED
      BY <2>5, <3>1, <3>2
  <2>9. sum[k] = RawEnd(s)
    BY <1>3, <2>4, <2>6, <2>8
  <2>10. sum[k - 1] \in Nat /\ sum[k - 1] <= sum[k] /\ headers <= sum[k - 1]
    BY <1>3, <2>4, <2>5, <2>6, <2>8, <2>9
  <2>11. hashed[k] = Span(image, headers, sum[k])
    <3>1. hashed[k] = Span(image, headers, sum[k - 1]) \o Span(image, sum[k - 1], sum[k])
      BY <1>4, <2>4, <2>5, <2>8, <2>9 DEF SectionSpan
    <3>2. sum[k] \in Int /\ sum[k] <= PeSize(image)
      BY <1>6, <2>6, <2>7, <2>9
    <3> QED
      BY <1>6, <2>10, <3>1, <3>2, SpansMeet
  <2>12. headers <= sum[k]
    BY <1>6, <2>6, <2>9, <2>10
  <2>13. Good(k)
    BY <2>3, <2>7, <2>9, <2>11, <2>12
  <2> QED
    BY <2>2, <2>13
<1>8. Good(n) /\ n \in 0..n
  <2>1. n \in 0..n
    BY <1>5
  <2> QED
    BY <1>7, <2>1
<1> QED
  BY <1>3, <1>4, <1>8 DEF headers, extra

\* No regular image is refused.
LEMMA RegularIsDefined ==
  ASSUME NEW image, IsImage(image), Regular(image)
  PROVE  AuthenticodeDefined(image) /\ NamesReadable(image)
<1>1. /\ NamesReadable(image) /\ image.header.magic # "ROM"
      /\ CertEntryAt(image) <= SectionTable(image)
      /\ SectionTable(image) + Len(SectionsOf(image)) <= image.header.size_of_headers
      /\ image.header.size_of_headers <= ExtraEnd(image)
  BY DEF Regular
<1>2. /\ image.header.magic \in {"PE32", "PE32+"} /\ Len(SectionsOf(image)) \in Nat
  BY <1>1 DEF IsImage, PeHeader, SectionsOf
<1>3. /\ ChecksumAt(image) < NumRvaAt(image) /\ CertEntryAt(image) = NumRvaAt(image) + 1
      /\ image.header.opt < NumRvaAt(image) /\ NumRvaAt(image) \in Nat /\ image.header.opt \in Nat
      /\ HasCertEntry(image) => AfterFields(image) = CertEntryAt(image) + 1
      /\ ~HasCertEntry(image) => AfterFields(image) = ChecksumAt(image) + 1
      /\ ExtraEnd(image) \in Int /\ ExtraEnd(image) <= PeSize(image)
      /\ image.header.size_of_headers \in Nat /\ SectionTable(image) \in Nat
      /\ ChecksumAt(image) \in Nat /\ CertEntryAt(image) \in Nat /\ PeSize(image) \in Nat
  BY FieldFacts
<1>4. /\ image.header.opt < PeSize(image) /\ NumRvaAt(image) < PeSize(image)
      /\ image.header.size_of_headers <= PeSize(image)
  BY <1>1, <1>2, <1>3
<1>5. ASSUME NEW i \in Contents(image) PROVE RawEnd(SectionsOf(image)[i]) <= PeSize(image)
  <2>1. RawEnd(SectionsOf(image)[i]) \in Nat /\ RawEnd(SectionsOf(image)[i]) <= ExtraEnd(image)
    BY RegularSections
  <2> QED
    BY <1>3, <2>1
<1>6. AfterFields(image) <= image.header.size_of_headers
  <2>1. HasCertEntry(image) => CertEntryAt(image) + 1 <= SectionTable(image)
    BY DEF HasCertEntry
  <2> QED
    BY <1>1, <1>2, <1>3, <2>1
<1>7. ExtraEnd(image) >= SumOfBytes(image)
  BY <1>3, RegularSums
<1>8. /\ IsPe(image) /\ HeaderFits(image)
      /\ \A i \in DOMAIN SectionsOf(image) : EntryFits(image, i)
  BY <1>1 DEF NamesReadable
<1> QED
  BY <1>1, <1>2, <1>4, <1>5, <1>6, <1>7, <1>8 DEF AuthenticodeDefined

\* The spans hashed of a regular image make up the whole file.
LEMMA HashedIsWhole ==
  ASSUME NEW image, IsImage(image), Regular(image)
  PROVE  Hashed(image) = WholeFile(image)
<1>1. PICK headers, sum, extra, after, size :
        /\ headers = image.header.size_of_headers /\ sum = SumOfBytes(image)
        /\ extra = ExtraEnd(image) /\ after = AfterFields(image) /\ size = PeSize(image)
  OBVIOUS
<1>2. /\ headers \in Nat /\ sum \in Nat /\ extra \in Int /\ after \in Nat /\ size \in Nat
      /\ after <= headers /\ headers <= sum /\ sum <= extra /\ extra <= size
  <2>1. headers \in Nat /\ extra \in Int /\ after \in Nat /\ size \in Nat /\ extra <= size
    BY <1>1, FieldFacts
  <2>2. sum \in Nat /\ headers <= sum /\ sum <= extra
    BY <1>1, RegularSums
  <2>3. after <= headers
    BY <1>1, RegularIsDefined DEF AuthenticodeDefined
  <2> QED
    BY <2>1, <2>2, <2>3
<1>3. \A from \in Nat, to \in Int : Span(image, from, to) \in Seq(Nat)
  BY SpanFacts
<1>4. PICK third, sections, tail, all :
        /\ third = Span(image, after, headers) /\ sections = Span(image, headers, sum)
        /\ tail = Span(image, sum, extra) /\ all = Span(image, after, extra)
  OBVIOUS
<1>5. third \in Seq(Nat) /\ sections \in Seq(Nat) /\ tail \in Seq(Nat) /\ all \in Seq(Nat)
  BY <1>2, <1>3, <1>4
<1>6. third \o (sections \o tail) = all
  <2>1. sections \o tail = Span(image, headers, extra)
    <3>1. headers \in Nat /\ sum \in Nat /\ extra \in Int /\ headers <= sum /\ sum <= extra /\ extra <= PeSize(image)
      BY <1>1, <1>2
    <3>2. Span(image, headers, sum) \o Span(image, sum, extra) = Span(image, headers, extra)
      BY <3>1, SpansMeet
    <3> QED
      BY <1>4, <3>2
  <2>2. after \in Nat /\ headers \in Nat /\ extra \in Int /\ after <= headers /\ headers <= extra /\ extra <= PeSize(image)
    BY <1>1, <1>2
  <2>3. Span(image, after, headers) \o Span(image, headers, extra) = Span(image, after, extra)
    BY <2>2, SpansMeet
  <2> QED
    BY <1>4, <2>1, <2>3
<1>7. HashedSections(image) = sections
  BY <1>1, <1>4, RegularSums
<1>8. ASSUME NEW prefix \in Seq(Nat)
      PROVE  ((prefix \o third) \o sections) \o tail = prefix \o all
  <2>1. PICK u : u = prefix \o third
    OBVIOUS
  <2>2. u \in Seq(Nat)
    BY <1>5, <2>1, ConcatProperties
  <2>3. (u \o sections) \o tail = u \o (sections \o tail)
    <3>1. u \in Seq(Nat) /\ sections \in Seq(Nat) /\ tail \in Seq(Nat)
      BY <1>5, <2>2
    <3> QED
      BY ONLY <3>1, JoinAssociative
  <2>4. PICK v : v = sections \o tail
    OBVIOUS
  <2>5. v \in Seq(Nat)
    BY <1>5, <2>4, ConcatProperties
  <2>6. (prefix \o third) \o v = prefix \o (third \o v)
    <3>1. prefix \in Seq(Nat) /\ third \in Seq(Nat) /\ v \in Seq(Nat)
      BY <1>5, <2>5
    <3> QED
      BY ONLY <3>1, JoinAssociative
  <2> QED
    BY <1>6, <2>1, <2>3, <2>4, <2>6
<1>9. PICK first, between : /\ first = Span(image, 0, ChecksumAt(image))
                           /\ between = Span(image, ChecksumAt(image) + 1, CertEntryAt(image))
  OBVIOUS
<1>10. first \in Seq(Nat) /\ between \in Seq(Nat)
  <2>1. /\ ChecksumAt(image) \in Nat /\ ChecksumAt(image) \in Int /\ CertEntryAt(image) \in Int
        /\ 0 \in Nat /\ ChecksumAt(image) + 1 \in Nat
    BY FieldFacts
  <2> QED
    BY <1>3, <1>9, <2>1
<1>11. CASE HasCertEntry(image)
  <2>1. Hashed(image) = (((first \o between) \o third) \o sections) \o tail
    BY <1>1, <1>4, <1>7, <1>9, <1>11 DEF Hashed, HashedHeaders
  <2>2. WholeFile(image) = (first \o between) \o all
    <3>1. after = CertEntryAt(image) + 1
      BY <1>1, <1>11, FieldFacts
    <3> QED
      BY <1>1, <1>4, <1>9, <1>11, <3>1 DEF WholeFile
  <2>3. PICK prefix : prefix = first \o between
    OBVIOUS
  <2>4. prefix \in Seq(Nat)
    BY <1>10, <2>3, ConcatProperties
  <2> QED
    BY <1>8, <2>1, <2>2, <2>3, <2>4
<1>12. CASE ~HasCertEntry(image)
  <2>1. Hashed(image) = (((first \o <<>>) \o third) \o sections) \o tail
    BY <1>1, <1>4, <1>7, <1>9, <1>12 DEF Hashed, HashedHeaders
  <2>2. WholeFile(image) = first \o all
    <3>1. after = ChecksumAt(image) + 1
      BY <1>1, <1>12, FieldFacts
    <3> QED
      BY <1>1, <1>4, <1>9, <1>12, <3>1 DEF WholeFile
  <2>3. first \o <<>> = first
    BY <1>10, ConcatEmptySeq
  <2> QED
    BY <1>8, <1>10, <2>1, <2>2, <2>3
<1> QED
  BY <1>11, <1>12

(* ---- What a selection keeps -------------------------------------------- *)

\* The ranks of the places of a set are 1, 2, 3 and so on.
LEMMA RankOfPlace ==
  ASSUME NEW K \in SUBSET Nat, IsFiniteSet(K)
  PROVE  /\ \A i \in K : Rank(i, K) \in 1..Cardinality(K)
         /\ \A i, j \in K : i < j => Rank(i, K) < Rank(j, K)
<1> DEFINE Upto(i) == {j \in K : j <= i}
<1>1. ASSUME NEW i \in K
      PROVE  /\ IsFiniteSet(Upto(i)) /\ Cardinality(Upto(i)) \in Nat
             /\ Cardinality(Upto(i)) <= Cardinality(K)
             /\ Cardinality(Upto(i)) # 0
  <2>1. Upto(i) \in SUBSET K /\ i \in Upto(i)
    OBVIOUS
  <2> HIDE DEF Upto
  <2>2. IsFiniteSet(Upto(i)) /\ Cardinality(Upto(i)) <= Cardinality(K)
    BY <2>1, FS_Subset
  <2> QED
    BY <2>1, <2>2, FS_CardinalityType, FS_EmptySet
<1>2. ASSUME NEW i \in K, NEW j \in K, i < j
      PROVE  Cardinality(Upto(i)) < Cardinality(Upto(j))
  <2>1. Upto(i) \in SUBSET Upto(j) /\ Upto(i) # Upto(j)
    <3>1. j \in Upto(j) /\ j \notin Upto(i)
      BY <1>2
    <3>2. \A x \in Upto(i) : x \in Upto(j)
      BY <1>2
    <3> QED
      BY <3>1, <3>2
  <2> HIDE DEF Upto
  <2>2. /\ Cardinality(Upto(i)) <= Cardinality(Upto(j))
        /\ Cardinality(Upto(i)) # Cardinality(Upto(j))
    BY <1>1, <2>1, FS_Subset
  <2> QED
    BY <1>1, <2>2
<1>3. ASSUME NEW i \in K PROVE Rank(i, K) = Cardinality(Upto(i))
  <2>1. i \in Nat /\ \A j \in K : j \in Nat /\ (j \in 0..i <=> j <= i)
    OBVIOUS
  <2>2. K \cap 0..i = Upto(i)
    BY <2>1
  <2> QED
    BY <2>2 DEF Rank
<1>4. Cardinality(K) \in Nat
  BY FS_CardinalityType
<1> HIDE DEF Upto
<1> QED
  BY <1>1, <1>2, <1>3, <1>4


\* There is a place of each rank.
LEMMA EveryRank ==
  ASSUME NEW K \in SUBSET Nat, IsFiniteSet(K), NEW k \in 1..Cardinality(K)
  PROVE  \E i \in K : Rank(i, K) = k
<1>1. PICK n : n = Cardinality(K)
  OBVIOUS
<1>2. n \in Nat
  BY <1>1, FS_CardinalityType
<1>3. PICK rank : rank = [i \in K |-> Rank(i, K)]
  OBVIOUS
<1>4. rank \in [K -> 1..n] /\ \A i, j \in K : i < j => rank[i] < rank[j]
  BY <1>1, <1>3, RankOfPlace
<1>5. rank \in Injection(K, 1..n)
  <2>1. ASSUME NEW i \in K, NEW j \in K, rank[i] = rank[j] PROVE i = j
    <3>1. i \in Nat /\ j \in Nat /\ rank[i] \in 1..n /\ rank[j] \in 1..n
      BY <1>4
    <3>2. ~(i < j) /\ ~(j < i)
      BY <1>4, <2>1, <3>1
    <3> QED
      BY <3>1, <3>2
  <2> QED
    BY <1>4, <2>1 DEF Injection, IsInjective
<1>6. IsFiniteSet(1..n) /\ Cardinality(1..n) = n
  BY ONLY <1>2, FS_Interval
<1>7. rank \in Surjection(K, 1..n)
  BY <1>1, <1>5, <1>6, FS_Injection
<1> QED
  BY <1>1, <1>3, <1>7 DEF Surjection

\* A selection is known from another by an order-preserving map of its places.
LEMMA TakenElsewhere ==
  ASSUME NEW s, NEW t, NEW K \in SUBSET Nat, NEW L \in SUBSET Nat, IsFiniteSet(K), IsFiniteSet(L),
         NEW f \in [K -> L],
         \A i, j \in K : i < j => f[i] < f[j],
         \A l \in L : \E i \in K : f[i] = l,
         \A i \in K : t[f[i]] = s[i]
  PROVE  Taken(s, K) = Taken(t, L)
<1>1. ASSUME NEW i \in K PROVE Rank(f[i], L) = Rank(i, K)
  <2> DEFINE A == {j \in K : j <= i}
             B == {j \in L : j <= f[i]}
             h == [j \in A |-> f[j]]
  <2>1. \A j \in K : f[j] <= f[i] <=> j <= i
    <3>1. ASSUME NEW j \in K PROVE f[j] <= f[i] <=> j <= i
      <4>1. i \in Nat /\ j \in Nat /\ f[i] \in Nat /\ f[j] \in Nat
        OBVIOUS
      <4>2. (i < j => f[i] < f[j]) /\ (j < i => f[j] < f[i])
        OBVIOUS
      <4>3. i = j => f[i] = f[j]
        OBVIOUS
      <4> QED
        BY <4>1, <4>2, <4>3
    <3> QED
      BY <3>1
  <2>2. h \in [A -> B]
    BY <2>1
  <2>3. ASSUME NEW j \in A, NEW k \in A, h[j] = h[k] PROVE j = k
    <3>1. j \in K /\ k \in K /\ f[j] = f[k] /\ j \in Nat /\ k \in Nat /\ f[j] \in Nat
      BY <2>3
    <3>2. ~(j < k) /\ ~(k < j)
      BY <3>1
    <3> QED
      BY <3>1, <3>2
  <2>4. \A b \in B : \E j \in A : h[j] = b
    BY <2>1
  <2>5. h \in Bijection(A, B)
    BY <2>2, <2>3, <2>4 DEF Bijection, Injection, IsInjective, Surjection
  <2>6. IsFiniteSet(A)
    <3>1. A \in SUBSET K
      OBVIOUS
    <3> QED
      BY <3>1, FS_Subset
  <2> HIDE DEF A, B, h
  <2>7. Cardinality(A) = Cardinality(B)
    <3>1. ExistsBijection(A, B)
      BY <2>5 DEF ExistsBijection
    <3> QED
      BY <2>6, <3>1, FS_Bijection
  <2>8. K \cap 0..i = A
    <3>1. i \in Nat /\ \A j \in K : j \in Nat /\ (j \in 0..i <=> j <= i)
      OBVIOUS
    <3> QED
      BY <3>1 DEF A
  <2>9. L \cap 0..f[i] = B
    <3>1. PICK m \in Nat : m = f[i]
      OBVIOUS
    <3>2. \A j \in Nat : j \in 0..m <=> j <= m
      BY ONLY <3>1
    <3>3. L \cap 0..m = {j \in L : j <= m}
      BY <3>2
    <3> QED
      BY <3>1, <3>3 DEF B
  <2> QED
    BY <2>7, <2>8, <2>9 DEF Rank
<1>2. PICK n : n = Cardinality(K)
  OBVIOUS
<1>3. Cardinality(L) = n
  <2>1. ASSUME NEW j \in K, NEW k \in K, f[j] = f[k] PROVE j = k
    <3>1. j \in Nat /\ k \in Nat /\ f[j] \in Nat
      OBVIOUS
    <3>2. ~(j < k) /\ ~(k < j)
      BY <2>1, <3>1
    <3> QED
      BY <3>1, <3>2
  <2>2. f \in Bijection(K, L)
    BY <2>1 DEF Bijection, Injection, IsInjective, Surjection
  <2>3. ExistsBijection(K, L)
    BY <2>2 DEF ExistsBijection
  <2> QED
    BY <1>2, <2>3, FS_Bijection
<1>4. n \in Nat
  BY <1>2, FS_CardinalityType
<1>5. ASSUME NEW k \in 1..n
      PROVE  s[CHOOSE i \in K : Rank(i, K) = k] = t[CHOOSE l \in L : Rank(l, L) = k]
  <2>1. PICK i \in K : Rank(i, K) = k
    <3>1. k \in 1..Cardinality(K)
      BY <1>2
    <3> QED
      BY <3>1, EveryRank
  <2>2. ASSUME NEW j \in K, Rank(j, K) = k PROVE j = i
    <3>1. i \in Nat /\ j \in Nat /\ Rank(i, K) \in 1..Cardinality(K)
      BY RankOfPlace
    <3>2. (i < j => Rank(i, K) < Rank(j, K)) /\ (j < i => Rank(j, K) < Rank(i, K))
      BY RankOfPlace
    <3> QED
      BY <1>2, <1>4, <2>1, <2>2, <3>1, <3>2
  <2>3. (CHOOSE j \in K : Rank(j, K) = k) = i
    BY <2>1, <2>2
  <2>4. ASSUME NEW l \in L, Rank(l, L) = k PROVE l = f[i]
    <3>1. PICK j \in K : f[j] = l
      OBVIOUS
    <3>2. Rank(j, K) = k
      BY <1>1, <2>4, <3>1
    <3> QED
      BY <2>2, <3>1, <3>2
  <2>5. f[i] \in L /\ Rank(f[i], L) = k
    BY <1>1, <2>1
  <2>6. (CHOOSE l \in L : Rank(l, L) = k) = f[i]
    BY <2>4, <2>5
  <2> QED
    BY <2>3, <2>6
<1> QED
  BY <1>2, <1>3, <1>5 DEF Taken

(* ---- What the guest measures of the sections ----------------------------- *)

\* systemd's list is the one the code has, and the signature as the tenth.
Twin(i) == IF i <= 9 THEN i ELSE i + 1

\* The two lists, place by place.
LEMMA SectionLists ==
  /\ Len(UKI_MEASURED_SECTIONS) = 14 /\ Len(UnifiedSections) = 15
  /\ DOMAIN UKI_MEASURED_SECTIONS = 1..14 /\ DOMAIN UnifiedSections = 1..15
  /\ \A i \in 1..14 : /\ UnifiedSections[Twin(i)] = UKI_MEASURED_SECTIONS[i]
                      /\ UKI_MEASURED_SECTIONS[i] # ".pcrsig"
  /\ UnifiedSections[10] = ".pcrsig"
  /\ ".profile" \in ToSet(UnifiedSections)
<1>1. /\ Len(UKI_MEASURED_SECTIONS) = 14 /\ Len(UnifiedSections) = 15
      /\ DOMAIN UKI_MEASURED_SECTIONS = 1..14 /\ DOMAIN UnifiedSections = 1..15
      /\ UnifiedSections[10] = ".pcrsig"
  BY DEF UKI_MEASURED_SECTIONS, UnifiedSections
<1>2. ASSUME NEW i \in 1..14
      PROVE  /\ UnifiedSections[Twin(i)] = UKI_MEASURED_SECTIONS[i]
             /\ UKI_MEASURED_SECTIONS[i] # ".pcrsig"
  <2>1. i \in {1, 2, 3, 4, 5, 6, 7, 8, 9, 10, 11, 12, 13, 14}
    OBVIOUS
  <2>2. CASE i \in {1, 2, 3, 4, 5, 6, 7}
    BY <2>2 DEF UKI_MEASURED_SECTIONS, UnifiedSections, Twin
  <2>3. CASE i \in {8, 9, 10, 11, 12, 13, 14}
    BY <2>3 DEF UKI_MEASURED_SECTIONS, UnifiedSections, Twin
  <2> QED
    BY <2>1, <2>2, <2>3
<1>3. UnifiedSections[12] = ".profile" /\ 12 \in 1..15
  BY DEF UnifiedSections
<1> QED
  BY <1>1, <1>2, <1>3 DEF ToSet

\* The names that the registers are about are measured, and known to the stub.
LEMMA MeasuredNamesFacts ==
  /\ ToSet(UKI_MEASURED_SECTIONS) = MeasuredNames
  /\ MeasuredNames \subseteq ToSet(UnifiedSections)
  /\ {".linux", ".cmdline", ".initrd", ".ucode"} \subseteq MeasuredNames
<1>1. ASSUME NEW name \in MeasuredNames PROVE name \in ToSet(UnifiedSections)
  <2>1. PICK i \in 1..14 : UKI_MEASURED_SECTIONS[i] = name
    BY SectionLists DEF MeasuredNames, ToSet
  <2>2. Twin(i) \in 1..15
    BY DEF Twin
  <2> QED
    BY <2>1, <2>2, SectionLists DEF ToSet
<1>2. /\ UKI_MEASURED_SECTIONS[1] = ".linux" /\ UKI_MEASURED_SECTIONS[3] = ".cmdline"
      /\ UKI_MEASURED_SECTIONS[4] = ".initrd" /\ UKI_MEASURED_SECTIONS[5] = ".ucode"
  BY DEF UKI_MEASURED_SECTIONS
<1> QED
  BY <1>1, <1>2, SectionLists DEF MeasuredNames, ToSet

\* Without a profile both lists select the same names.
LEMMA SameNames ==
  ASSUME NEW P, ".profile" \notin P, NEW profile
  PROVE  LET Stub(name) == name \in P /\ name # ".pcrsig" /\ (name = ".profile" => profile)
         IN Taken(UKI_MEASURED_SECTIONS,
                  {i \in 1..Len(UKI_MEASURED_SECTIONS) : UKI_MEASURED_SECTIONS[i] \in P})
            = Taken(UnifiedSections, {i \in 1..Len(UnifiedSections) : Stub(UnifiedSections[i])})
<1> DEFINE Stub(name) == name \in P /\ name # ".pcrsig" /\ (name = ".profile" => profile)
<1>1. PICK s, t : s = UKI_MEASURED_SECTIONS /\ t = UnifiedSections
  OBVIOUS
<1>2. /\ Len(s) = 14 /\ Len(t) = 15 /\ t[10] = ".pcrsig"
      /\ \A i \in 1..14 : t[Twin(i)] = s[i] /\ s[i] # ".pcrsig"
  BY <1>1, SectionLists
<1> DEFINE K == {i \in 1..14 : s[i] \in P}
           L == {i \in 1..15 : Stub(t[i])}
           f == [i \in K |-> Twin(i)]
<1>3. K \in SUBSET Nat /\ L \in SUBSET Nat
  OBVIOUS
<1>4. IsFiniteSet(K) /\ IsFiniteSet(L)
  <2>1. IsFiniteSet(1..14) /\ IsFiniteSet(1..15)
    <3>1. \A n \in Nat : IsFiniteSet(1..n)
      BY ONLY FS_Interval
    <3> QED
      BY <3>1
  <2>2. K \in SUBSET (1..14) /\ L \in SUBSET (1..15)
    OBVIOUS
  <2> HIDE DEF K, L
  <2> QED
    BY <2>1, <2>2, FS_Subset
<1>5. ASSUME NEW i \in K PROVE Twin(i) \in L
  <2>1. i \in 1..14 /\ Twin(i) \in 1..15
    BY DEF Twin
  <2>2. t[Twin(i)] = s[i] /\ s[i] # ".pcrsig" /\ s[i] \in P /\ s[i] # ".profile"
    BY <1>2
  <2> QED
    BY <2>1, <2>2
<1>6. f \in [K -> L]
  BY <1>5
<1>7. \A i, j \in K : i < j => f[i] < f[j]
  BY DEF Twin
<1>8. ASSUME NEW l \in L PROVE \E i \in K : f[i] = l
  <2>1. l \in 1..15 /\ l # 10 /\ t[l] \in P
    BY <1>2
  <2>2. PICK i \in 1..14 : Twin(i) = l
    <3>1. CASE l <= 9
      <4>1. l \in 1..14 /\ Twin(l) = l
        BY <2>1, <3>1 DEF Twin
      <4> QED
        BY <4>1
    <3>2. CASE ~(l <= 9)
      <4>1. l - 1 \in 1..14 /\ Twin(l - 1) = l
        BY <2>1, <3>2 DEF Twin
      <4> QED
        BY <4>1
    <3> QED
      BY <3>1, <3>2
  <2>3. i \in K
    BY <1>2, <2>1, <2>2
  <2> QED
    BY <2>2, <2>3
<1>9. \A i \in K : t[f[i]] = s[i]
  BY <1>2
<1>10. Taken(s, K) = Taken(t, L)
  <2> HIDE DEF K, L, f
  <2> QED
    BY <1>3, <1>4, <1>6, <1>7, <1>8, <1>9, TakenElsewhere
<1>11. /\ K = {i \in 1..Len(s) : s[i] \in P}
       /\ L = {i \in 1..Len(t) : Stub(t[i])}
  BY <1>2
<1> QED
  BY <1>1, <1>10, <1>11

\* What is taken of a list is of the list.
LEMMA TakenOf ==
  ASSUME NEW s, NEW K \in SUBSET Nat, IsFiniteSet(K), NEW k \in 1..Cardinality(K)
  PROVE  \E i \in K : Taken(s, K)[k] = s[i]
<1>1. \E i \in K : Rank(i, K) = k
  BY EveryRank
<1> QED
  BY <1>1 DEF Taken

(* ---- The image and its sections ------------------------------------------ *)

\* The UKI of a case is an image, and its section table a list of sections.
LEMMA UkiImage ==
  ASSUME input \in Cases
  PROVE  /\ IsImage(pe) /\ pe.content \in Seq(Nat) /\ input.uki.kernel \in PeHeader
         /\ DOMAIN SectionsOf(pe) = 1..Len(SectionsOf(pe)) /\ Len(SectionsOf(pe)) \in Nat
         /\ \A i \in DOMAIN SectionsOf(pe) : SectionsOf(pe)[i] \in PeSection
<1>1. pe.content \in Seq(Nat) /\ pe.header \in PeHeader /\ input.uki.kernel \in PeHeader
  BY CasesAssumption DEF pe
<1>2. Len(pe.content) \in Nat
  BY <1>1, LenProperties
<1>3. SectionsOf(pe) \in Seq(PeSection)
  BY <1>1 DEF PeHeader, SectionsOf
<1>4. PICK s : s = SectionsOf(pe)
  OBVIOUS
<1>5. DOMAIN s = 1..Len(s) /\ Len(s) \in Nat /\ \A i \in DOMAIN s : s[i] \in PeSection
  <2>1. s \in Seq(PeSection)
    BY <1>3, <1>4
  <2> QED
    BY <2>1, LenProperties, ElementOfSeq
<1> QED
  BY <1>1, <1>2, <1>4, <1>5 DEF IsImage, PeSize

\* The least of a set of entries.
LEMMA FirstIsLeast ==
  ASSUME NEW T \in SUBSET Nat, T # {}
  PROVE  First(T) \in T /\ \A j \in T : First(T) <= j
<1>1. \E n \in T : \A m \in T : n <= m
  BY LeastMember
<1> QED
  BY <1>1 DEF First

\* The entries of a name are finitely many numbers.
LEMMA NamedEntries ==
  ASSUME input \in Cases, NEW name
  PROVE  NamedSections(pe, name) \in SUBSET Nat /\ IsFiniteSet(NamedSections(pe, name))
<1>1. PICK n \in Nat : n = Len(SectionsOf(pe)) /\ DOMAIN SectionsOf(pe) = 1..n
  BY UkiImage
<1>2. PICK T : T = NamedSections(pe, name)
  OBVIOUS
<1>3. T \in SUBSET (1..n)
  BY <1>1, <1>2 DEF NamedSections
<1>4. IsFiniteSet(1..n)
  BY ONLY <1>1, FS_Interval
<1>5. IsFiniteSet(T)
  BY ONLY <1>3, <1>4, FS_Subset
<1>6. T \in SUBSET Nat
  BY <1>1, <1>3
<1> QED
  BY <1>2, <1>5, <1>6

\* A byte of the file, or of what is filled up.
Cell == Nat \cup {Zero}

\* A section whose raw data is in the file is loaded as the stub finds it.
LEMMA LoadedIsInMemory ==
  ASSUME input \in Cases, NEW s \in PeSection, RawEnd(s) <= PeSize(pe)
  PROVE  /\ Loaded(pe, s) = InMemory(s) /\ Len(InMemory(s)) = s.virt_size
         /\ InMemory(s) \in Seq(Cell)
<1>1. PICK content, raw : content = pe.content /\ raw = SubSeq(content, s.raw_ptr + 1, RawEnd(s))
  OBVIOUS
<1>2. content \in Seq(Nat) /\ Len(content) = PeSize(pe) /\ Len(content) \in Nat
  BY <1>1, UkiImage, LenProperties DEF PeSize
<1>3. PICK ptr \in Nat, size \in Nat, virt \in Nat :
        ptr = s.raw_ptr /\ size = s.raw_size /\ virt = s.virt_size
  BY DEF PeSection
<1>4. RawEnd(s) = ptr + size /\ ptr + size <= Len(content)
  BY <1>2, <1>3 DEF RawEnd
<1>5. raw = [k \in 1..size |-> content[ptr + k]]
  <2>1. SubSeq(content, ptr + 1, ptr + size) =
          [k \in 1..(ptr + size - (ptr + 1) + 1) |-> content[k + (ptr + 1) - 1]]
    <3>1. content \in Seq(Nat) /\ ptr + 1 \in Int /\ ptr + size \in Int
      BY <1>2
    <3>2. \A m, n \in Int : SubSeq(content, m, n) = [k \in 1..(n - m + 1) |-> content[k + m - 1]]
      BY ONLY <3>1
    <3> QED
      BY <3>1, <3>2
  <2>2. ptr + size - (ptr + 1) + 1 = size /\ \A k \in Int : k + (ptr + 1) - 1 = ptr + k
    OBVIOUS
  <2>3. raw = SubSeq(content, ptr + 1, ptr + size)
    BY <1>1, <1>3, <1>4
  <2>4. [k \in 1..size |-> content[k + (ptr + 1) - 1]] = [k \in 1..size |-> content[ptr + k]]
    BY <2>2
  <2> QED
    BY <2>1, <2>2, <2>3, <2>4
<1>6. ASSUME NEW k \in 1..size PROVE content[ptr + k] \in Cell
  <2>1. ptr + k \in 1..Len(content)
    BY <1>2, <1>4
  <2>2. content[ptr + k] \in Nat
    BY <1>2, <2>1, ElementOfSeq
  <2> QED
    BY <2>2 DEF Cell
<1>7. raw \in Seq(Cell) /\ Len(raw) = size
  BY <1>5, <1>6
<1>8. PICK memory : memory = [k \in 1..virt |-> IF k <= size THEN content[ptr + k] ELSE Zero]
  OBVIOUS
<1>9. InMemory(s) = memory
  BY <1>1, <1>3, <1>8 DEF InMemory
<1>10. Len(memory) = virt /\ memory \in Seq(Cell)
  BY <1>6, <1>8 DEF Cell
<1>11. Loaded(pe, s) = memory
  <2>1. CASE virt <= size
    <3>1. SubSeq(raw, 1, virt) = [k \in 1..virt |-> raw[k]]
      BY <1>7, <2>1
    <3>2. \A k \in 1..virt : k \in 1..size
      BY <2>1
    <3>3. SubSeq(raw, 1, virt) = memory
      BY <1>5, <1>8, <3>1, <3>2
    <3> QED
      BY <1>1, <1>3, <2>1, <3>3 DEF Loaded
  <2>2. CASE ~(virt <= size)
    <3>1. PICK zeros : zeros = [k \in 1..(virt - size) |-> Zero]
      OBVIOUS
    <3>2. virt - size \in Nat /\ zeros \in Seq(Cell) /\ Len(zeros) = virt - size
      BY <2>2, <3>1 DEF Cell
    <3>7. raw \in Seq(Cell) /\ zeros \in Seq(Cell)
      BY <1>7, <3>2
    <3>8. /\ raw \o zeros \in Seq(Cell) /\ Len(raw \o zeros) = Len(raw) + Len(zeros)
          /\ \A k \in 1..(Len(raw) + Len(zeros)) :
               (raw \o zeros)[k] = IF k <= Len(raw) THEN raw[k] ELSE zeros[k - Len(raw)]
      BY ONLY <3>7, ConcatProperties
    <3>9. PICK both : both = raw \o zeros
      OBVIOUS
    <3>3. both = [k \in 1..(size + (virt - size)) |-> IF k <= size THEN raw[k] ELSE zeros[k - size]]
      <4>1. /\ both \in Seq(Cell) /\ Len(both) = size + (virt - size)
            /\ \A k \in 1..(size + (virt - size)) :
                 both[k] = IF k <= size THEN raw[k] ELSE zeros[k - size]
        BY <1>7, <3>2, <3>8, <3>9
      <4>2. both = [k \in 1..Len(both) |-> both[k]]
        BY <4>1
      <4> QED
        BY <4>1, <4>2
    <3>4. size + (virt - size) = virt
      OBVIOUS
    <3>5. ASSUME NEW k \in 1..virt
          PROVE  (IF k <= size THEN raw[k] ELSE zeros[k - size]) = memory[k]
      <4>1. k <= size => k \in 1..size
        OBVIOUS
      <4>2. ~(k <= size) => k - size \in 1..(virt - size)
        OBVIOUS
      <4> QED
        BY <1>5, <1>8, <3>1, <4>1, <4>2
    <3>6. raw \o zeros = memory
      BY <1>8, <3>3, <3>4, <3>5, <3>9
    <3> QED
      BY <1>1, <1>3, <2>2, <3>1, <3>6 DEF Loaded
  <2> QED
    BY <2>1, <2>2
<1> QED
  BY <1>3, <1>9, <1>10, <1>11

\* A measured name stands at most once.
OneEach == \A name \in MeasuredNames : \A i, j \in NamedSections(pe, name) : i = j

\* What the code extracts of a name that stands once the stub has too.
LEMMA StubTakesTheSame ==
  ASSUME input \in Cases, OneEach, NamesReadable(pe),
         NEW name \in MeasuredNames, ExtractDefined(pe, name)
  PROVE  /\ Extracted(pe, name) # <<>> <=> name \in Present
         /\ \A choice \in StubChoices : StubSection(choice, name) = Extracted(pe, name)
         /\ Extracted(pe, name) \in Seq(Cell)
<1>1. PICK named : named = NamedSections(pe, name)
  OBVIOUS
<1>2. named \in SUBSET Nat /\ \A i, j \in named : i = j
  BY <1>1, NamedEntries DEF OneEach
<1>3. name \in Present <=> Loadable(name) # {}
  BY MeasuredNamesFacts DEF Present
<1>4. ASSUME NEW choice \in StubChoices, name \in Present
      PROVE  choice[name] \in Loadable(name)
  BY <1>4 DEF StubChoices
<1>5. IsPe(pe)
  BY DEF NamesReadable
<1>6. CASE named = {}
  <2>1. Loadable(name) = {}
    BY <1>1, <1>6 DEF Loadable
  <2>2. Extracted(pe, name) = <<>>
    BY <1>1, <1>6 DEF Extracted
  <2> QED
    BY <1>3, <2>1, <2>2 DEF StubSection
<1>7. CASE named # {}
  <2>1. PICK i, s : i = First(named) /\ s = SectionsOf(pe)[i]
    OBVIOUS
  <2>2. i \in named /\ \A j \in named : j = i
    BY <1>2, <1>7, <2>1, FirstIsLeast
  <2>3. LoadDefined(pe, s)
    BY <1>1, <1>5, <1>7, <2>1 DEF ExtractDefined
  <2>4. Extracted(pe, name) = IF HasContent(s) THEN Loaded(pe, s) ELSE <<>>
    BY <1>1, <1>5, <1>7, <2>1 DEF Extracted
  <2>5. Loadable(name) =
          IF HasContent(s) /\ s.virt_size # 0 /\ RawEnd(s) <= PeSize(pe) THEN {i} ELSE {}
    BY <1>1, <2>1, <2>2 DEF Loadable
  <2>6. s \in PeSection
    BY <1>1, <2>1, <2>2, UkiImage DEF NamedSections
  <2>7. CASE ~HasContent(s)
    BY <1>3, <2>4, <2>5, <2>7 DEF StubSection
  <2>8. CASE HasContent(s)
    <3>1. RawEnd(s) <= PeSize(pe)
      BY <2>3, <2>8 DEF LoadDefined
    <3>2. /\ Extracted(pe, name) = InMemory(s) /\ Len(InMemory(s)) = s.virt_size
          /\ InMemory(s) \in Seq(Cell)
      BY <2>4, <2>6, <2>8, <3>1, LoadedIsInMemory
    <3>3. Extracted(pe, name) = <<>> <=> s.virt_size = 0
      <4>1. PICK m \in Seq(Cell) : m = InMemory(s)
        BY <3>2
      <4>2. m = <<>> <=> Len(m) = 0
        BY EmptySeq
      <4> QED
        BY <3>2, <4>1, <4>2
    <3>4. CASE s.virt_size = 0
      BY <1>3, <2>5, <3>2, <3>3, <3>4 DEF StubSection
    <3>5. CASE s.virt_size # 0
      <4>1. Loadable(name) = {i}
        BY <2>5, <2>8, <3>1, <3>5
      <4>2. name \in Present
        BY <1>3, <4>1
      <4>3. ASSUME NEW choice \in StubChoices PROVE StubSection(choice, name) = InMemory(s)
        <5>1. choice[name] = i
          BY <1>4, <4>1, <4>2
        <5> QED
          BY <2>1, <4>2, <5>1 DEF StubSection
      <4> QED
        BY <3>2, <3>3, <3>5, <4>2, <4>3
    <3> QED
      BY <3>4, <3>5
  <2> QED
    BY <2>7, <2>8
<1> QED
  BY <1>6, <1>7

\* A set of at most one element, said by its size and by its elements.
LEMMA AtMostOne ==
  ASSUME NEW S, IsFiniteSet(S)
  PROVE  Cardinality(S) <= 1 <=> \A i, j \in S : i = j
<1>1. ASSUME Cardinality(S) <= 1, NEW i \in S, NEW j \in S PROVE i = j
  <2>1. {i} \in SUBSET S
    OBVIOUS
  <2>2. IsFiniteSet({i}) /\ Cardinality({i}) = 1
    BY FS_Singleton
  <2>3. /\ Cardinality({i}) <= Cardinality(S) /\ Cardinality(S) \in Nat
        /\ Cardinality({i}) = Cardinality(S) => S = {i}
    BY <2>1, FS_Subset, FS_CardinalityType
  <2>4. S = {i}
    BY <1>1, <2>2, <2>3
  <2> QED
    BY <2>4
<1>2. ASSUME \A i, j \in S : i = j PROVE Cardinality(S) <= 1
  <2>1. CASE S = {}
    <3>1. Cardinality(S) = 0
      BY <2>1, FS_EmptySet
    <3> QED
      BY <3>1
  <2>2. CASE S # {}
    <3>1. PICK i \in S : S = {i}
      BY <1>2, <2>2
    <3>2. Cardinality(S) = 1
      BY <3>1, FS_Singleton
    <3> QED
      BY <3>2
  <2> QED
    BY <2>1, <2>2
<1> QED
  BY <1>1, <1>2

\* What reject_unmodelled_uki counts is that a name stands at most once.
LEMMA ModelledOneEach ==
  ASSUME input \in Cases
  PROVE  OneEach <=> \A name \in MeasuredNames : Cardinality(NamedSections(pe, name)) <= 1
<1>1. ASSUME NEW name
      PROVE  Cardinality(NamedSections(pe, name)) <= 1 <=>
               \A i, j \in NamedSections(pe, name) : i = j
  <2>1. IsFiniteSet(NamedSections(pe, name))
    BY NamedEntries
  <2> QED
    BY <2>1, AtMostOne
<1> QED
  BY <1>1 DEF OneEach

(* ---- What is computed is what the guest measures ------------------------- *)

\* For every section that is measured the stub has what is extracted.
LEMMA ExtractedAsByTheStub ==
  ASSUME input \in Cases, SectionsDefined, NEW name \in MeasuredNames
  PROVE  /\ Extracted(pe, name) # <<>> <=> name \in Present
         /\ \A choice \in StubChoices : StubSection(choice, name) = Extracted(pe, name)
         /\ Extracted(pe, name) \in Seq(Cell)
<1>1. OneEach /\ NamesReadable(pe) /\ ExtractDefined(pe, name)
  BY ModelledOneEach DEF SectionsDefined, UkiModelled
<1> QED
  BY <1>1, StubTakesTheSame

\* systemd's names but the signature's are the measured ones.
LEMMA MeasuredOfUnified ==
  ASSUME NEW i \in 1..15, UnifiedSections[i] # ".pcrsig"
  PROVE  UnifiedSections[i] \in MeasuredNames
<1>1. i # 10
  BY SectionLists
<1>2. PICK j \in 1..14 : Twin(j) = i
  <2>1. CASE i <= 9
    <3>1. i \in 1..14 /\ Twin(i) = i
      BY <2>1 DEF Twin
    <3> QED
      BY <3>1
  <2>2. CASE ~(i <= 9)
    <3>1. i - 1 \in 1..14 /\ Twin(i - 1) = i
      BY <1>1, <2>2 DEF Twin
    <3> QED
      BY <3>1
  <2> QED
    BY <2>1, <2>2
<1>3. UnifiedSections[i] = UKI_MEASURED_SECTIONS[j]
  BY <1>2, SectionLists
<1> QED
  BY <1>3, SectionLists DEF MeasuredNames, ToSet

\* The names and contents that are extended are those the stub extends.
LEMMA SectionsAreTheStubs ==
  ASSUME input \in Cases, SectionsDefined, NEW choice \in StubChoices, NEW profile \in BOOLEAN
  PROVE  SectionDigests = GuestSections(choice, profile)
<1>1. PICK P : P = {name \in MeasuredNames : Extracted(pe, name) # <<>>}
  OBVIOUS
<1>2. ".profile" \notin P
  <2>1. NamedSections(pe, ".profile") = {}
    BY DEF SectionsDefined, UkiModelled
  <2> QED
    BY <1>1, <2>1 DEF Extracted
<1> DEFINE Stub(name) == name \in P /\ name # ".pcrsig" /\ (name = ".profile" => profile)
           K == {i \in 1..Len(UKI_MEASURED_SECTIONS) : UKI_MEASURED_SECTIONS[i] \in P}
           L == {i \in 1..Len(UnifiedSections) : Stub(UnifiedSections[i])}
<1>3. Taken(UKI_MEASURED_SECTIONS, K) = Taken(UnifiedSections, L)
  BY <1>2, SameNames
<1>4. MeasuredSections = Taken(UKI_MEASURED_SECTIONS, K)
  <2>1. \A i \in 1..Len(UKI_MEASURED_SECTIONS) :
          UKI_MEASURED_SECTIONS[i] \in P <=> Extracted(pe, UKI_MEASURED_SECTIONS[i]) # <<>>
    BY <1>1, SectionLists DEF MeasuredNames, ToSet
  <2>2. K = {i \in 1..Len(UKI_MEASURED_SECTIONS) : Extracted(pe, UKI_MEASURED_SECTIONS[i]) # <<>>}
    BY <2>1
  <2> QED
    BY <2>2 DEF MeasuredSections, Chosen, Places
<1>5. StubMeasures(choice, profile) = Taken(UnifiedSections, L)
  <2> DEFINE t == UnifiedSections
  <2>1. ASSUME NEW i \in 1..Len(UnifiedSections)
        PROVE  Stub(t[i]) <=> t[i] \in Present /\ t[i] # ".pcrsig" /\ (t[i] = ".profile" => profile)
    <3>1. CASE t[i] = ".pcrsig"
      BY <3>1
    <3>2. CASE t[i] # ".pcrsig"
      <4>1. t[i] \in MeasuredNames
        BY <3>2, MeasuredOfUnified, SectionLists
      <4>2. t[i] \in P <=> t[i] \in Present
        BY <1>1, <4>1, ExtractedAsByTheStub
      <4> QED
        BY <4>2
    <3> QED
      BY <3>1, <3>2
  <2>2. L = {i \in 1..Len(t) : t[i] \in Present /\ t[i] # ".pcrsig" /\ (t[i] = ".profile" => profile)}
    BY <2>1
  <2> HIDE DEF L
  <2> QED
    BY <2>2 DEF StubMeasures, Chosen, Places
<1>6. PICK names : names = MeasuredSections /\ names = StubMeasures(choice, profile)
                   /\ names = Taken(UKI_MEASURED_SECTIONS, K)
  BY <1>3, <1>4, <1>5
<1>7. ASSUME NEW k \in DOMAIN names PROVE names[k] \in MeasuredNames
  <2>1. k \in 1..Cardinality(K)
    BY <1>6, <1>7 DEF Taken
  <2>2. K \in SUBSET (1..14) /\ K \in SUBSET Nat
    BY SectionLists
  <2>3. IsFiniteSet(K)
    <3>1. \A n \in Nat : IsFiniteSet(1..n)
      BY ONLY FS_Interval
    <3>2. IsFiniteSet(1..14)
      BY <3>1
    <3> HIDE DEF K
    <3> QED
      BY <2>2, <3>2, FS_Subset
  <2>4. \E i \in K : Taken(UKI_MEASURED_SECTIONS, K)[k] = UKI_MEASURED_SECTIONS[i]
    <3> HIDE DEF K
    <3> QED
      BY <2>1, <2>2, <2>3, TakenOf
  <2> QED
    BY <1>1, <1>6, <2>4
<1>8. [k \in DOMAIN names |-> Extracted(pe, names[k])]
        = [k \in DOMAIN names |-> StubSection(choice, names[k])]
  BY <1>7, ExtractedAsByTheStub
<1> QED
  BY <1>6, <1>8 DEF SectionDigests, GuestSections

\* What is extracted is a sequence, of a name that stands more than once too.
LEMMA KernelIsAnImage ==
  ASSUME input \in Cases, IsPe(pe), ExtractDefined(pe, ".linux")
  PROVE  IsImage(Kernel)
<1>1. PICK kernel : kernel = Extracted(pe, ".linux")
  OBVIOUS
<1>2. Len(kernel) \in Nat
  <2>1. PICK named, i, s : /\ named = NamedSections(pe, ".linux") /\ i = First(named)
                           /\ s = SectionsOf(pe)[i]
    OBVIOUS
  <2>2. CASE named # {} /\ HasContent(s)
    <3>1. i \in named
      BY <2>1, <2>2, NamedEntries, FirstIsLeast
    <3>2. s \in PeSection
      BY <2>1, <3>1, UkiImage DEF NamedSections
    <3>3. RawEnd(s) <= PeSize(pe)
      BY <2>1, <2>2 DEF ExtractDefined, LoadDefined
    <3>4. kernel = Loaded(pe, s)
      BY <1>1, <2>1, <2>2 DEF Extracted
    <3>5. Len(kernel) = s.virt_size
      BY <3>2, <3>3, <3>4, LoadedIsInMemory
    <3> QED
      BY <3>2, <3>5 DEF PeSection
  <2>3. CASE ~(named # {} /\ HasContent(s))
    <3>1. kernel = <<>>
      BY <1>1, <2>1, <2>3 DEF Extracted
    <3> QED
      BY <3>1
  <2> QED
    BY <2>2, <2>3
<1>3. input.uki.kernel \in PeHeader
  BY UkiImage
<1> QED
  BY <1>1, <1>2, <1>3 DEF Kernel, File, IsImage, PeSize

\* Whichever .linux section the stub takes, it is the kernel.
LEMMA KernelIsTheStubs ==
  ASSUME input \in Cases, SectionsDefined
  PROVE  /\ IsImage(Kernel)
         /\ \A choice \in StubChoices : GuestKernel(choice) = Kernel
<1>1. /\ \A choice \in StubChoices : StubSection(choice, ".linux") = Extracted(pe, ".linux")
      /\ Extracted(pe, ".linux") \in Seq(Cell)
  BY MeasuredNamesFacts, ExtractedAsByTheStub
<1>2. Len(Extracted(pe, ".linux")) \in Nat
  BY <1>1, LenProperties
<1>3. input.uki.kernel \in PeHeader
  BY UkiImage
<1> QED
  BY <1>1, <1>2, <1>3 DEF Kernel, GuestKernel, File, IsImage, PeSize

\* The digests of regular images are those firmware takes.
LEMMA BootChainIsTheGuests ==
  ASSUME input \in Cases, SectionsDefined, NEW choice \in StubChoices,
         Regular(pe), Regular(GuestKernel(choice))
  PROVE  BootChain = GuestBoot(choice)
<1>1. IsImage(pe) /\ IsImage(Kernel) /\ GuestKernel(choice) = Kernel
  BY UkiImage, KernelIsTheStubs
<1>2. Hashed(pe) = WholeFile(pe) /\ Hashed(Kernel) = WholeFile(Kernel)
  <2>1. Regular(Kernel)
    BY <1>1
  <2> QED
    BY <1>1, <2>1, HashedIsWhole
<1> QED
  BY <1>1, <1>2 DEF BootChain, GuestBoot, AuthenticodeDigest, WholeDigest

(* ---- Initdata ---------------------------------------------------------- *)

\* A declaration that is accepted is a key of the top level, and if there is
\* but one such key it is the one.
LEMMA AcceptedIsTopLevel ==
  ASSUME NEW toml \in Seq(Line), DeclaresAlgorithm(toml)
  PROVE  /\ AlgorithmKeys(toml) # {}
         /\ ParsedAlgorithm(toml) \in SUPPORTED_ALGORITHMS
         /\ WellFormed(toml) => ParsedAlgorithm(toml) = TheAlgorithm(toml)
<1>1. PICK i \in SettledBy(toml) : toml[i].kind = "algorithm" /\ toml[i].name \in SUPPORTED_ALGORITHMS
  BY DEF DeclaresAlgorithm
<1>2. i \in DOMAIN toml /\ DOMAIN toml = 1..Len(toml) /\ Len(toml) \in Nat
  BY <1>1 DEF SettledBy
<1>3. ASSUME NEW j \in SettledBy(toml) PROVE j = i
  <2>1. j \in DOMAIN toml /\ Settles(toml[i]) /\ Settles(toml[j])
    BY <1>1, <1>3 DEF SettledBy
  <2>2. ~(j < i) /\ ~(i < j)
    BY <1>1, <1>2, <1>3, <2>1 DEF SettledBy
  <2> QED
    BY <1>2, <2>1, <2>2
<1>4. (CHOOSE k \in SettledBy(toml) : TRUE) = i
  BY <1>1, <1>3
<1>5. ASSUME NEW j \in 1..i PROVE toml[j].kind # "table"
  <2>1. CASE j = i
    BY <1>1, <2>1
  <2>2. CASE j # i
    BY <1>1, <1>2, <2>2 DEF SettledBy, Settles
  <2> QED
    BY <2>1, <2>2
<1>6. i \in AlgorithmKeys(toml)
  BY <1>1, <1>2, <1>5 DEF AlgorithmKeys, TopLevel
<1>7. WellFormed(toml) => (CHOOSE k \in AlgorithmKeys(toml) : TRUE) = i
  BY <1>6 DEF WellFormed
<1> QED
  BY <1>1, <1>4, <1>6, <1>7 DEF ParsedAlgorithm, TheAlgorithm

\* What PCR 8 is extended with is as much of the digest as it holds.
LEMMA DigestWidths ==
  ASSUME NEW algorithm \in SUPPORTED_ALGORITHMS, NEW toml
  PROVE  /\ Truncated(DigestOf(algorithm, toml)) =
              [k \in 1..Sha256Width |-> DigestOf(algorithm, toml)[k]]
         /\ algorithm = "sha384" =>
              DigestOf(algorithm, toml) =
                [k \in 1..Width("sha384") |-> DigestOf(algorithm, toml)[k]]
<1>1. /\ Width("sha256") = 2 /\ Width("sha384") = 3 /\ Width("sha512") = 4
      /\ Sha256Width = 2
  BY DEF Width, Sha256Width
<1>2. Width(algorithm) \in Nat /\ Width(algorithm) >= 2
  BY <1>1 DEF SUPPORTED_ALGORITHMS
<1> DEFINE digest == DigestOf(algorithm, toml)
<1>3. /\ digest = [k \in 1..Width(algorithm) |-> <<algorithm, toml, k>>]
      /\ Len(digest) = Width(algorithm) /\ DOMAIN digest = 1..Width(algorithm)
  BY <1>2 DEF DigestOf
<1>4. SubSeq(digest, 1, 2) = [k \in 1..2 |-> digest[k]]
  BY <1>2, <1>3
<1> QED
  BY <1>1, <1>3, <1>4 DEF Truncated

(* ---- The command line ---------------------------------------------------- *)

\* A set of places that is not empty has a last one.
LEMMA LastMember ==
  ASSUME NEW n \in Nat, NEW T \in SUBSET (1..n), T # {}
  PROVE  /\ (CHOOSE k \in T : \A j \in T : j <= k) \in T
         /\ \A j \in T : j <= (CHOOSE k \in T : \A j2 \in T : j2 <= k)
<1>1. \E k \in T : \A j \in T : j <= k
  <2> DEFINE S == {n - k : k \in T}
  <2>1. S \in SUBSET Nat /\ S # {}
    <3>1. \A k \in T : n - k \in Nat
      OBVIOUS
    <3> QED
      BY <3>1
  <2>2. PICK m \in S : \A j \in S : m <= j
    <3> HIDE DEF S
    <3> QED
      BY <2>1, LeastMember
  <2>3. PICK k \in T : m = n - k
    OBVIOUS
  <2>4. ASSUME NEW j \in T PROVE j <= k
    <3>1. n - k <= n - j
      BY <2>2, <2>3
    <3> QED
      BY <3>1
  <2> QED
    BY <2>4
<1> QED
  BY <1>1

\* Where the string ends, whether one strips NULs or stops at the first.
LEMMA StrippedIs ==
  ASSUME NEW string \in Seq(Cell), NEW m \in 0..Len(string),
         \A k \in 1..Len(string) : IsNul(string[k]) <=> k > m
  PROVE  /\ Stripped(string) = [k \in 1..m |-> string[k]]
         /\ Terminated(string) = [k \in 1..m |-> string[k]]
<1>1. /\ Len(string) \in Nat /\ DOMAIN string = 1..Len(string) /\ m \in Nat
      /\ string = [k \in 1..Len(string) |-> string[k]]
  BY LenProperties
<1>2. \A j \in Int : SubSeq(string, 1, j) = [k \in 1..j |-> string[k]]
  <2>1. \A j \in Int : SubSeq(string, 1, j) = [k \in 1..(j - 1 + 1) |-> string[k + 1 - 1]]
    OBVIOUS
  <2>2. ASSUME NEW j \in Int
        PROVE  [k \in 1..(j - 1 + 1) |-> string[k + 1 - 1]] = [k \in 1..j |-> string[k]]
    <3>1. j - 1 + 1 = j /\ \A k \in Int : k + 1 - 1 = k
      OBVIOUS
    <3> QED
      BY <3>1
  <2> QED
    BY <2>1, <2>2
<1>3. PICK rest, nuls : /\ rest = {k \in DOMAIN string : ~IsNul(string[k])}
                        /\ nuls = {k \in DOMAIN string : IsNul(string[k])}
  OBVIOUS
<1>4. rest = 1..m
  BY <1>1, <1>3
<1>5. nuls = (m + 1)..Len(string)
  BY <1>1, <1>3
<1>6. Stripped(string) = [k \in 1..m |-> string[k]]
  <2>1. CASE m = 0
    <3>1. rest = {} /\ [k \in 1..m |-> string[k]] = <<>>
      BY <1>4, <2>1
    <3> QED
      BY <1>3, <3>1 DEF Stripped
  <2>2. CASE m # 0
    <3>1. rest # {} /\ (CHOOSE k \in rest : \A j \in rest : j <= k) = m
      <4>1. m \in rest /\ \A j \in rest : j <= m
        BY <1>1, <1>4, <2>2
      <4>2. \A k \in rest : (\A j \in rest : j <= k) => k = m
        BY <1>1, <1>4, <4>1
      <4> QED
        BY <4>1, <4>2
    <3>2. Stripped(string) = SubSeq(string, 1, m)
      BY <1>3, <3>1 DEF Stripped
    <3> QED
      BY <1>1, <1>2, <3>2
  <2> QED
    BY <2>1, <2>2
<1>7. Terminated(string) = [k \in 1..m |-> string[k]]
  <2>1. CASE m = Len(string)
    <3>1. nuls = {}
      BY <1>1, <1>5, <2>1
    <3> QED
      BY <1>1, <1>3, <2>1, <3>1 DEF Terminated
  <2>2. CASE m # Len(string)
    <3>1. m + 1 \in nuls /\ \A j \in nuls : m + 1 <= j
      BY <1>1, <1>5, <2>2
    <3>2. First(nuls) = m + 1
      <4>1. \A k \in nuls : (\A j \in nuls : k <= j) => k = m + 1
        BY <1>1, <1>5, <3>1
      <4> QED
        BY <3>1, <4>1 DEF First
    <3>3. Terminated(string) = SubSeq(string, 1, (m + 1) - 1)
      BY <1>3, <3>1, <3>2 DEF Terminated
    <3>4. (m + 1) - 1 = m
      BY <1>1
    <3> QED
      BY <1>1, <1>2, <3>3, <3>4
  <2> QED
    BY <2>1, <2>2
<1> QED
  BY <1>6, <1>7

\* A command line that is not refused has its NULs at the end.
LEMMA CmdlineEnds ==
  ASSUME NEW string \in Seq(Cell), CmdlineDefined(string)
  PROVE  \E m \in 0..Len(string) : \A k \in 1..Len(string) : IsNul(string[k]) <=> k > m
<1>1. Len(string) \in Nat /\ DOMAIN string = 1..Len(string)
  BY LenProperties
<1>2. PICK rest : rest = {k \in DOMAIN string : ~IsNul(string[k])}
  OBVIOUS
<1>3. rest \in SUBSET (1..Len(string))
  BY <1>1, <1>2
<1>4. CASE rest = {}
  <2>1. 0 \in 0..Len(string) /\ \A k \in 1..Len(string) : IsNul(string[k]) /\ k > 0
    BY <1>1, <1>2, <1>4
  <2> QED
    BY <2>1
<1>5. CASE rest # {}
  <2>1. PICK m : m = CHOOSE k \in rest : \A j \in rest : j <= k
    OBVIOUS
  <2>2. m \in rest /\ \A j \in rest : j <= m
    BY <1>1, <1>3, <1>5, <2>1, LastMember
  <2>3. m \in 1..Len(string) /\ m \in 0..Len(string)
    BY <1>1, <1>3, <2>2
  <2>4. PICK stripped : stripped = SubSeq(string, 1, m)
    OBVIOUS
  <2>5. Stripped(string) = stripped
    BY <1>2, <1>5, <2>1, <2>4 DEF Stripped
  <2>6. DOMAIN stripped = 1..m /\ \A k \in 1..m : stripped[k] = string[k]
    <3>1. \A j \in Int : SubSeq(string, 1, j) = [k \in 1..(j - 1 + 1) |-> string[k + 1 - 1]]
      OBVIOUS
    <3>2. m \in Int /\ m - 1 + 1 = m /\ \A k \in Int : k + 1 - 1 = k
      BY <2>3
    <3>3. stripped = [k \in 1..m |-> string[k + 1 - 1]]
      BY <2>4, <3>1, <3>2
    <3> QED
      BY <3>2, <3>3
  <2>7. \A k \in 1..m : ~IsNul(string[k])
    BY <2>5, <2>6 DEF CmdlineDefined
  <2>8. ASSUME NEW k \in 1..Len(string) PROVE IsNul(string[k]) <=> k > m
    <3>1. CASE k > m
      BY <1>1, <1>2, <2>2, <2>3, <3>1
    <3>2. CASE ~(k > m)
      BY <1>1, <2>3, <2>7, <3>2
    <3> QED
      BY <3>1, <3>2
  <2> QED
    BY <2>3, <2>8
<1> QED
  BY <1>4, <1>5

\* An accepted command line ends where the stub has it end.
LEMMA CmdlineIsTheStubs ==
  ASSUME NEW string \in Seq(Cell), CmdlineDefined(string)
  PROVE  Stripped(string) = Terminated(string)
<1>1. PICK m \in 0..Len(string) : \A k \in 1..Len(string) : IsNul(string[k]) <=> k > m
  BY CmdlineEnds
<1> QED
  BY <1>1, StrippedIs

\* A string with nothing but NULs behind its text is not refused.
LEMMA TerminatedIsDefined ==
  ASSUME NEW string \in Seq(Cell),
         \A k \in DOMAIN Terminated(string) : Terminated(string)[k] \notin input.uki.invalid,
         \A k \in DOMAIN string : k > Len(Terminated(string)) => IsNul(string[k])
  PROVE  CmdlineDefined(string)
<1>1. /\ Len(string) \in Nat /\ DOMAIN string = 1..Len(string)
      /\ string = [k \in 1..Len(string) |-> string[k]]
  BY LenProperties
<1>2. PICK nuls : nuls = {k \in DOMAIN string : IsNul(string[k])}
  OBVIOUS
<1>3. PICK m \in 0..Len(string) :
        /\ \A k \in 1..m : ~IsNul(string[k])
        /\ Len(Terminated(string)) = m
  <2>1. CASE nuls = {}
    <3>1. Terminated(string) = string
      BY <1>2, <2>1 DEF Terminated
    <3>2. \A k \in 1..Len(string) : ~IsNul(string[k])
      BY <1>1, <1>2, <2>1
    <3> QED
      BY <1>1, <3>1, <3>2
  <2>2. CASE nuls # {}
    <3>1. nuls \in SUBSET Nat
      BY <1>1, <1>2
    <3>2. First(nuls) \in nuls /\ \A j \in nuls : First(nuls) <= j
      BY <2>2, <3>1, FirstIsLeast
    <3>3. PICK f \in 1..Len(string) : f = First(nuls)
      BY <1>1, <1>2, <3>2
    <3>4. f - 1 \in 0..Len(string) /\ f - 1 \in Nat
      BY <1>1
    <3>5. Terminated(string) = SubSeq(string, 1, f - 1)
      BY <1>2, <2>2, <3>3 DEF Terminated
    <3>6. Len(SubSeq(string, 1, f - 1)) = f - 1
      BY <1>1, <3>4
    <3>7. \A k \in 1..(f - 1) : ~IsNul(string[k])
      <4>1. ASSUME NEW k \in 1..(f - 1) PROVE k \in DOMAIN string /\ k \notin nuls
        <5>1. k \in 1..Len(string) /\ ~(f <= k)
          BY <1>1
        <5> QED
          BY <1>1, <3>2, <3>3, <5>1
      <4> QED
        BY <1>2, <4>1
    <3> QED
      BY <3>4, <3>5, <3>6, <3>7
  <2> QED
    BY <2>1, <2>2
<1>4. ASSUME NEW k \in 1..Len(string) PROVE IsNul(string[k]) <=> k > m
  <2>1. CASE k > m
    BY <1>1, <1>3, <2>1
  <2>2. CASE ~(k > m)
    BY <1>1, <1>3, <2>2
  <2> QED
    BY <2>1, <2>2
<1>5. PICK text : text = [k \in 1..m |-> string[k]]
  OBVIOUS
<1>6. Stripped(string) = text /\ Terminated(string) = text
  BY <1>4, <1>5, StrippedIs
<1>7. DOMAIN text = 1..m /\ \A k \in 1..m : text[k] = string[k] /\ ~IsNul(string[k])
  BY <1>3, <1>5
<1> QED
  BY <1>6, <1>7 DEF CmdlineDefined

(* ---- What is supported is not refused ------------------------------------ *)

\* The key that the file declares is the line that settles the matter.
LEMMA WellFormedIsAccepted ==
  ASSUME NEW toml \in Seq(Line), WellFormed(toml)
  PROVE  /\ DeclaresAlgorithm(toml) /\ ParsedAlgorithm(toml) = TheAlgorithm(toml)
         /\ Len(InitdataDigest(toml)) >= Sha256Width
<1>1. PICK i \in AlgorithmKeys(toml) : toml[i].name \in SUPPORTED_ALGORITHMS
  BY DEF WellFormed
<1>2. \A j \in AlgorithmKeys(toml) : j = i
  BY DEF WellFormed
<1>3. DOMAIN toml = 1..Len(toml) /\ Len(toml) \in Nat
  BY LenProperties
<1>4. i \in 1..Len(toml) /\ toml[i].kind = "algorithm" /\ \A j \in 1..i : toml[j].kind # "table"
  BY <1>1, <1>3 DEF AlgorithmKeys, TopLevel
<1>5. ASSUME NEW j \in 1..(i - 1) PROVE ~Settles(toml[j])
  <2>1. j \in 1..Len(toml) /\ j \in 1..i /\ j # i /\ \A k \in 1..j : k \in 1..i
    BY <1>3, <1>4
  <2>2. toml[j].kind # "algorithm"
    BY <1>2, <1>3, <1>4, <2>1 DEF AlgorithmKeys, TopLevel
  <2> QED
    BY <1>4, <2>1, <2>2 DEF Settles
<1>6. i \in SettledBy(toml)
  BY <1>3, <1>4, <1>5 DEF SettledBy, Settles
<1>7. DeclaresAlgorithm(toml)
  BY <1>1, <1>4, <1>6 DEF DeclaresAlgorithm
<1>8. ParsedAlgorithm(toml) = TheAlgorithm(toml) /\ ParsedAlgorithm(toml) \in SUPPORTED_ALGORITHMS
  BY <1>7, AcceptedIsTopLevel
<1>9. PICK algorithm \in SUPPORTED_ALGORITHMS : algorithm = ParsedAlgorithm(toml)
  BY <1>8
<1>10. Len(DigestOf(algorithm, toml)) >= Sha256Width
  <2>1. /\ Width("sha256") = 2 /\ Width("sha384") = 3 /\ Width("sha512") = 4 /\ Sha256Width = 2
    BY DEF Width, Sha256Width
  <2>2. Width(algorithm) \in Nat /\ Width(algorithm) >= 2
    BY <2>1 DEF SUPPORTED_ALGORITHMS
  <2>3. Len(DigestOf(algorithm, toml)) = Width(algorithm)
    BY <2>2 DEF DigestOf
  <2> QED
    BY <2>1, <2>2, <2>3
<1> QED
  BY <1>7, <1>8, <1>9, <1>10 DEF InitdataDigest

\* There is something the stub may take of every section that is present.
LEMMA StubChoiceExists == StubChoices # {}
<1>1. PICK choice : choice = [name \in Present |-> CHOOSE i \in Loadable(name) : TRUE]
  OBVIOUS
<1>2. ASSUME NEW name \in Present PROVE choice[name] \in Loadable(name)
  BY <1>1 DEF Present
<1>3. choice \in [Present -> UNION {Loadable(name) : name \in Present}]
  BY <1>1, <1>2
<1> QED
  BY <1>2, <1>3 DEF StubChoices

\* A section within the limits of the stub is extracted.
LEMMA SupportedIsExtracted ==
  ASSUME input \in Cases, UkiSupported, NEW name \in MeasuredNames
  PROVE  ExtractDefined(pe, name)
<1>1. /\ IsImage(pe) /\ Regular(pe)
      /\ \A i \in Contents(pe) :
           SectionsOf(pe)[i].name \in MeasuredNames => SectionSupported(SectionsOf(pe)[i])
  BY UkiImage DEF UkiSupported
<1>2. AuthenticodeDefined(pe) /\ NamesReadable(pe)
  BY <1>1, RegularIsDefined
<1>3. /\ HeaderFits(pe) /\ \A i \in DOMAIN SectionsOf(pe) : EntryFits(pe, i)
      /\ \A i \in Contents(pe) : RawEnd(SectionsOf(pe)[i]) <= PeSize(pe)
  BY <1>2 DEF NamesReadable, AuthenticodeDefined
<1>4. PICK named : named = NamedSections(pe, name)
  OBVIOUS
<1>5. ASSUME named # {}
      PROVE  EntryFits(pe, First(named)) /\ LoadDefined(pe, SectionsOf(pe)[First(named)])
  <2>1. PICK i, s : i = First(named) /\ s = SectionsOf(pe)[i]
    OBVIOUS
  <2>2. i \in named
    BY <1>4, <1>5, <2>1, NamedEntries, FirstIsLeast
  <2>3. i \in DOMAIN SectionsOf(pe) /\ s.name = name /\ s \in PeSection
    BY <1>4, <2>1, <2>2, UkiImage DEF NamedSections
  <2>4. CASE ~HasContent(s)
    BY <1>3, <2>1, <2>3, <2>4 DEF LoadDefined
  <2>5. CASE HasContent(s)
    <3>1. i \in Contents(pe)
      BY <2>1, <2>3, <2>5 DEF Contents
    <3>2. SectionSupported(s) /\ RawEnd(s) <= PeSize(pe)
      BY <1>1, <1>3, <2>1, <2>3, <3>1
    <3>3. s.virt_size \in Nat /\ s.raw_size \in Nat /\ MAX_VIRTUAL_PADDING_BYTES \in Nat
      BY <2>3, PaddingAssumption DEF PeSection
    <3>4. s.virt_size # 0 =>
            /\ s.virt_addr + s.virt_size <= pe.header.image_size
            /\ s.virt_size - s.raw_size <= MAX_VIRTUAL_PADDING_BYTES
      BY <3>2, <3>3 DEF SectionSupported
    <3> QED
      BY <1>3, <2>1, <2>3, <3>2, <3>4 DEF LoadDefined
  <2> QED
    BY <2>4, <2>5
<1> QED
  BY <1>3, <1>4, <1>5 DEF ExtractDefined

\* A UKI that is supported passes the checks of its sections.
LEMMA SupportedSections ==
  ASSUME input \in Cases, UkiSupported
  PROVE  SectionsDefined
<1>1. NamesReadable(pe)
  BY UkiImage, RegularIsDefined DEF UkiSupported
<1>2. OneEach
  BY DEF UkiSupported, OneEach
<1>3. UkiModelled
  BY <1>1, <1>2, ModelledOneEach DEF UkiModelled, UkiSupported
<1> QED
  BY <1>3, SupportedIsExtracted DEF SectionsDefined

\* A UKI that is supported passes the checks of both digests.
LEMMA SupportedBootChain ==
  ASSUME input \in Cases, UkiSupported
  PROVE  BootChainDefined
<1>1. SectionsDefined
  BY SupportedSections
<1>2. ".linux" \in MeasuredNames
  BY MeasuredNamesFacts
<1>3. ExtractDefined(pe, ".linux") /\ Extracted(pe, ".linux") # <<>>
  BY <1>1, <1>2, SupportedIsExtracted, ExtractedAsByTheStub DEF UkiSupported
<1>4. PICK choice \in StubChoices : TRUE
  BY StubChoiceExists
<1>5. IsImage(Kernel) /\ Regular(Kernel)
  BY <1>1, KernelIsTheStubs, <1>4 DEF UkiSupported
<1>6. AuthenticodeDefined(Kernel)
  BY <1>5, RegularIsDefined
<1>7. AuthenticodeDefined(pe)
  BY UkiImage, RegularIsDefined DEF UkiSupported
<1> QED
  BY <1>3, <1>6, <1>7 DEF BootChainDefined, Kernel, File

\* A command line that is supported passes the checks of PCR 9.
LEMMA SupportedCmdline ==
  ASSUME input \in Cases, UkiSupported, CmdlineSupported
  PROVE  Pcr9Defined
<1>1. SectionsDefined
  BY SupportedSections
<1>2. {".cmdline", ".initrd", ".ucode"} \subseteq MeasuredNames
  BY MeasuredNamesFacts
<1>3. \A name \in {".cmdline", ".initrd", ".ucode"} : ExtractDefined(pe, name)
  BY <1>2, SupportedIsExtracted
<1>4. Extracted(pe, ".cmdline") # <<>> /\ Extracted(pe, ".initrd") # <<>>
  BY <1>1, <1>2, ExtractedAsByTheStub DEF CmdlineSupported
<1>5. PICK choice \in StubChoices : TRUE
  BY StubChoiceExists
<1>6. PICK string \in Seq(Cell) :
        string = Extracted(pe, ".cmdline") /\ string = StubSection(choice, ".cmdline")
  BY <1>1, <1>2, <1>5, ExtractedAsByTheStub
<1>7. /\ \A k \in DOMAIN Terminated(string) : Terminated(string)[k] \notin input.uki.invalid
      /\ \A k \in DOMAIN string : k > Len(Terminated(string)) => IsNul(string[k])
  BY <1>5, <1>6 DEF CmdlineSupported
<1>8. CmdlineDefined(string)
  BY <1>7, TerminatedIsDefined
<1> QED
  BY <1>3, <1>4, <1>6, <1>8 DEF Pcr9Defined

(* ---- Stages ------------------------------------------------------------ *)

AzureStages == {"pcr4", "pcr5", "pcr8", "pcr9", "pcr11"}
TdxStages == {"rtmr3", "rtmr1", "rtmr2"}

\* The five registers of an Azure guest.
LEMMA OfAzure ==
  ASSUME input.platform = "azure"
  PROVE  LET stages == Stages[input.platform]
         IN /\ DOMAIN stages = 1..5
            /\ stages[1] = "pcr4" /\ stages[2] = "pcr5" /\ stages[3] = "pcr8"
            /\ stages[4] = "pcr9" /\ stages[5] = "pcr11"
            /\ Len(stages) = 5
            /\ ToSet(stages) = AzureStages
BY DEF Stages, ToSet, AzureStages

\* The three registers of a TDX guest.
LEMMA OfTdx ==
  ASSUME input.platform = "tdx"
  PROVE  LET stages == Stages[input.platform]
         IN /\ DOMAIN stages = 1..3
            /\ stages[1] = "rtmr3" /\ stages[2] = "rtmr1" /\ stages[3] = "rtmr2"
            /\ Len(stages) = 3
            /\ ToSet(stages) = TdxStages
BY DEF Stages, ToSet, TdxStages

\* Which register follows which, and which are ahead of it, on Azure.
LEMMA AzureOrder ==
  ASSUME input.platform = "azure"
  PROVE  /\ StageAfter("pcr4") = "pcr5" /\ StageAfter("pcr5") = "pcr8"
         /\ StageAfter("pcr8") = "pcr9" /\ StageAfter("pcr9") = "pcr11"
         /\ StageAfter("pcr11") = "done"
         /\ Ahead("pcr4") = {} /\ Ahead("pcr5") = {"pcr4"} /\ Ahead("pcr8") = {"pcr4", "pcr5"}
         /\ Ahead("pcr9") = {"pcr4", "pcr5", "pcr8"}
         /\ Ahead("pcr11") = {"pcr4", "pcr5", "pcr8", "pcr9"}
<1> DEFINE stages == Stages[input.platform]
<1>1. /\ DOMAIN stages = 1..5 /\ Len(stages) = 5
      /\ stages[1] = "pcr4" /\ stages[2] = "pcr5" /\ stages[3] = "pcr8"
      /\ stages[4] = "pcr9" /\ stages[5] = "pcr11"
  BY OfAzure
<1> HIDE DEF stages
<1>2. ASSUME NEW n \in 1..5, NEW k \in 1..5, stages[k] = stages[n]
      PROVE  k = n
  <2>1. n \in {1, 2, 3, 4, 5} /\ k \in {1, 2, 3, 4, 5}
    OBVIOUS
  <2> QED
    BY <1>1, <1>2, <2>1
<1>3. ASSUME NEW n \in 1..5
      PROVE  /\ StageAfter(stages[n]) = IF n = 5 THEN "done" ELSE stages[n + 1]
             /\ Ahead(stages[n]) = {stages[k] : k \in 1..(n - 1)}
  <2>1. (CHOOSE k \in 1..5 : stages[k] = stages[n]) = n
    BY <1>2
  <2>2. {j \in 1..5 : \E i \in 1..5 : j < i /\ stages[i] = stages[n]} = 1..(n - 1)
    BY <1>2
  <2> QED
    BY <1>1, <2>1, <2>2 DEF StageAfter, Ahead, stages
<1>4. /\ 1..(1 - 1) = {} /\ 1..(2 - 1) = {1} /\ 1..(3 - 1) = {1, 2}
      /\ 1..(4 - 1) = {1, 2, 3} /\ 1..(5 - 1) = {1, 2, 3, 4}
  OBVIOUS
<1>5. StageAfter("pcr4") = "pcr5" /\ Ahead("pcr4") = {}
  BY <1>1, <1>3, <1>4
<1>6. StageAfter("pcr5") = "pcr8" /\ Ahead("pcr5") = {"pcr4"}
  BY <1>1, <1>3, <1>4
<1>7. StageAfter("pcr8") = "pcr9" /\ Ahead("pcr8") = {"pcr4", "pcr5"}
  <2>1. Ahead(stages[3]) = {stages[k] : k \in {1, 2}}
    BY <1>3, <1>4
  <2> QED
    BY <1>1, <1>3, <2>1
<1>8. StageAfter("pcr9") = "pcr11" /\ Ahead("pcr9") = {"pcr4", "pcr5", "pcr8"}
  <2>1. Ahead(stages[4]) = {stages[k] : k \in {1, 2, 3}}
    BY <1>3, <1>4
  <2> QED
    BY <1>1, <1>3, <2>1
<1>9. StageAfter("pcr11") = "done" /\ Ahead("pcr11") = {"pcr4", "pcr5", "pcr8", "pcr9"}
  <2>1. Ahead(stages[5]) = {stages[k] : k \in {1, 2, 3, 4}}
    BY <1>3, <1>4
  <2> QED
    BY <1>1, <1>3, <2>1
<1> QED
  BY <1>5, <1>6, <1>7, <1>8, <1>9

\* The same on TDX.
LEMMA TdxOrder ==
  ASSUME input.platform = "tdx"
  PROVE  /\ StageAfter("rtmr3") = "rtmr1" /\ StageAfter("rtmr1") = "rtmr2"
         /\ StageAfter("rtmr2") = "done"
         /\ Ahead("rtmr3") = {} /\ Ahead("rtmr1") = {"rtmr3"}
         /\ Ahead("rtmr2") = {"rtmr3", "rtmr1"}
BY OfTdx DEF StageAfter, Ahead

(* ---- The inductive invariant ------------------------------------------- *)

Pcr4Value == <<CallingBootOption, Separator>> \o BootChain
Rtmr1Value == <<CallingBootOption, Separator, Gpt>> \o BootChain \o ExitBootServices
Pcr9Value == <<<<"cmdline", Stripped(Extracted(pe, ".cmdline"))>>,
               <<"initrd", Extracted(pe, ".ucode") \o Extracted(pe, ".initrd")>>>>

\* A register was computed of an input that none of its checks refuses.
BootChainKnown ==
  /\ \A r \in Computed({"pcr4"}) : BootChainDefined /\ registers[r] = Pcr4Value
  /\ \A r \in Computed({"rtmr1"}) : BootChainDefined /\ registers[r] = Rtmr1Value
SectionsKnown ==
  \A r \in Computed({"pcr11", "rtmr2"}) : SectionsDefined /\ registers[r] = SectionDigests
Pcr9Known ==
  \A r \in Computed({"pcr9"}) : Pcr9Defined /\ registers[r] = Pcr9Value

InitdataRefused ==
  IF input.initdata = NoInitdata THEN input.hex = "bad"
  ELSE \/ input.hex # "none"
       \/ input.platform = "tdx" /\ ~DigestDefined(input.initdata, "sha384")
       \/ input.platform = "azure" /\ ~(/\ DigestDefined(input.initdata, "")
                                        /\ Len(InitdataDigest(input.initdata)) >= Sha256Width)

\* One of the checks refuses the input.
Refusable ==
  \/ ~BootChainDefined \/ ~SectionsDefined \/ InitdataRefused
  \/ input.platform = "azure" /\ ~Pcr9Defined
CauseOfRefusal == pc = "refused" => Refusable

Known == BootChainKnown /\ SectionsKnown /\ Pcr9Known /\ CauseOfRefusal
IInv == input \in Cases /\ TypeOK /\ InitdataReproduced /\ Known

\* Nothing is computed at first.
LEMMA InitInvariant == Init => IInv
<1> SUFFICES ASSUME Init PROVE IInv
  OBVIOUS
<1>1. /\ input \in Cases /\ input.platform \in {"azure", "tdx"} /\ DOMAIN registers = {}
      /\ pc = Stages[input.platform][1]
  BY CasesAssumption DEF Init
<1>2. TypeOK
  <2>1. CASE input.platform = "azure"
    BY <1>1, <2>1, OfAzure, AzureOrder DEF TypeOK, AzureStages
  <2>2. CASE input.platform = "tdx"
    BY <1>1, <2>2, OfTdx, TdxOrder DEF TypeOK, TdxStages
  <2> QED
    BY <1>1, <2>1, <2>2
<1>3. InitdataReproduced
  BY <1>1 DEF InitdataReproduced, Computed
<1>4. Known
  <2>1. pc # "refused"
    BY <1>1, OfAzure, OfTdx
  <2> QED
    BY <1>1, <2>1 DEF Known, BootChainKnown, SectionsKnown, Pcr9Known, CauseOfRefusal, Computed
<1> QED
  BY <1>1, <1>2, <1>3, <1>4 DEF IInv

\* Every step adds the register that is due, or drops them all.
LEMMA OutcomeTypeOK ==
  ASSUME IInv, NEW defined, NEW value, pc \notin {"done", "refused"}, Outcome(defined, value)
  PROVE  TypeOK'
<1>1. /\ input' = input /\ input.platform \in {"azure", "tdx"}
      /\ pc \in ToSet(Stages[input.platform]) /\ DOMAIN registers = Ahead(pc)
  BY CasesAssumption DEF IInv, TypeOK, Outcome
<1>2. \/ pc' = "refused" /\ DOMAIN registers' = {}
      \/ pc' = StageAfter(pc) /\ DOMAIN registers' = DOMAIN registers \cup {pc}
  BY DEF Outcome
<1>3. \/ pc' = "refused" /\ DOMAIN registers' = {}
      \/ pc' = "done" /\ DOMAIN registers' = ToSet(Stages[input.platform])
      \/ pc' \in ToSet(Stages[input.platform]) /\ DOMAIN registers' = Ahead(pc')
  <2>1. CASE input.platform = "azure"
    <3>1. ToSet(Stages[input.platform]) = AzureStages
      BY <2>1, OfAzure
    <3>2. pc \in AzureStages
      BY <1>1, <3>1
    <3>3. ASSUME pc # "pcr11"
          PROVE  StageAfter(pc) \in AzureStages /\ Ahead(StageAfter(pc)) = Ahead(pc) \cup {pc}
      BY <2>1, <3>2, <3>3, AzureOrder DEF AzureStages
    <3>4. ASSUME pc = "pcr11"
          PROVE  StageAfter(pc) = "done" /\ AzureStages = Ahead(pc) \cup {pc}
      BY <2>1, <3>4, AzureOrder DEF AzureStages
    <3> QED
      BY <1>1, <1>2, <3>1, <3>3, <3>4
  <2>2. CASE input.platform = "tdx"
    <3>1. ToSet(Stages[input.platform]) = TdxStages
      BY <2>2, OfTdx
    <3>2. pc \in TdxStages
      BY <1>1, <3>1
    <3> QED
      BY <1>1, <1>2, <2>2, <3>1, <3>2, TdxOrder DEF TdxStages
  <2> QED
    BY <1>1, <2>1, <2>2
<1> QED
  BY <1>1, <1>3 DEF TypeOK, Ahead

\* A register that is not PCR 8 or RTMR[3] leaves what is known of them.
LEMMA OutcomeKeepsInitdata ==
  ASSUME IInv, NEW defined, NEW value, pc \notin {"pcr8", "rtmr3"}, Outcome(defined, value)
  PROVE  InitdataReproduced'
<1>1. /\ input' = input
      /\ \A r \in Computed({"pcr8", "rtmr3"})' :
           r \in Computed({"pcr8", "rtmr3"}) /\ registers'[r] = registers[r]
  BY DEF Outcome, Computed
<1>2. GuestInitdata' = GuestInitdata
  BY <1>1 DEF GuestInitdata
<1> QED
  BY <1>1, <1>2 DEF IInv, InitdataReproduced

\* The two registers are due on their own platforms only, and alone of the two.
LEMMA OutcomeOfInitdata ==
  ASSUME IInv, NEW require, NEW wide_enough, NEW digest, pc \in {"pcr8", "rtmr3"},
         Resolved(require, wide_enough, digest),
         /\ input.initdata # NoInitdata /\ DigestDefined(input.initdata, require)
           /\ WellFormed(input.initdata)
         => <<<<"extended", digest>>>> = GuestInitdata
  PROVE  InitdataReproduced'
<1> SUFFICES ASSUME NEW r \in Computed({"pcr8", "rtmr3"})'
             PROVE  (IF input.initdata = NoInitdata
                       THEN registers[r] = IF input.hex = "good" THEN Given ELSE <<>>
                       ELSE /\ AlgorithmKeys(input.initdata) # {}
                            /\ WellFormed(input.initdata) => registers[r] = GuestInitdata)'
  BY DEF InitdataReproduced
<1>1. input' = input /\ GuestInitdata' = GuestInitdata
  BY DEF Resolved, Outcome, GuestInitdata
<1>2. r \in {"pcr8", "rtmr3"} /\ r \in DOMAIN registers'
  BY DEF Computed
<1>3. CASE r # pc
  <2>1. r \in Computed({"pcr8", "rtmr3"}) /\ registers'[r] = registers[r]
    BY <1>2, <1>3 DEF Resolved, Outcome, Computed
  <2> QED
    BY <1>1, <2>1 DEF IInv, InitdataReproduced
<1>4. CASE r = pc /\ input.initdata = NoInitdata
  <2>1. registers'[r] = IF input.hex = "good" THEN Given ELSE <<>>
    BY <1>2, <1>4 DEF Resolved, Outcome
  <2> QED
    BY <1>1, <1>4, <2>1 DEF Given
<1>5. CASE r = pc /\ input.initdata # NoInitdata
  <2>1. DigestDefined(input.initdata, require) /\ registers'[r] = <<<<"extended", digest>>>>
    BY <1>2, <1>5 DEF Resolved, Outcome
  <2>2. input.initdata \in Seq(Line)
    BY <1>5, CasesAssumption DEF IInv
  <2>3. AlgorithmKeys(input.initdata) # {}
    BY <2>1, <2>2, AcceptedIsTopLevel DEF DigestDefined
  <2> QED
    BY <1>1, <1>5, <2>1, <2>3
<1> QED
  BY <1>3, <1>4, <1>5

\* A register is due on its own platform only.
LEMMA Platforms ==
  ASSUME IInv
  PROVE  /\ pc \in {"pcr8", "pcr9"} => input.platform = "azure"
         /\ pc = "rtmr3" => input.platform = "tdx"
<1>1. input.platform \in {"azure", "tdx"}
  BY CasesAssumption DEF IInv
<1>2. CASE input.platform = "azure"
  BY <1>2, OfAzure DEF IInv, TypeOK, AzureStages
<1>3. CASE input.platform = "tdx"
  BY <1>3, OfTdx DEF IInv, TypeOK, TdxStages
<1> QED
  BY <1>1, <1>2, <1>3

\* PCR 8 has the declared digest, cut to the width of SHA-256.
LEMMA Pcr8Invariant ==
  ASSUME IInv, ResolvePcr8
  PROVE  InitdataReproduced'
<1> DEFINE toml == input.initdata
           any == ""
           digest == InitdataDigest(toml)
           wide == Len(digest) >= Sha256Width
           cut == Truncated(digest)
<1>1. pc = "pcr8" /\ input.platform = "azure"
  BY Platforms DEF ResolvePcr8
<1>3. Resolved(any, wide, cut)
  BY DEF ResolvePcr8
<1>2. ASSUME toml # NoInitdata, DigestDefined(toml, ""), WellFormed(toml)
      PROVE  <<<<"extended", Truncated(digest)>>>> = GuestInitdata
  <2>1. toml \in Seq(Line) /\ DeclaresAlgorithm(toml)
    BY <1>2, CasesAssumption DEF IInv, DigestDefined
  <2>2. ParsedAlgorithm(toml) = TheAlgorithm(toml) /\ TheAlgorithm(toml) \in SUPPORTED_ALGORITHMS
    BY <1>2, <2>1, AcceptedIsTopLevel
  <2>3. Truncated(digest) = [k \in 1..Sha256Width |-> DigestOf(TheAlgorithm(toml), toml)[k]]
    BY <2>2, DigestWidths DEF InitdataDigest
  <2>4. RegisterWidth[input.platform] = Sha256Width
    BY <1>1 DEF RegisterWidth
  <2> QED
    BY <2>3, <2>4 DEF GuestInitdata
<1>4. /\ input.initdata # NoInitdata /\ DigestDefined(input.initdata, any)
        /\ WellFormed(input.initdata)
      => <<<<"extended", cut>>>> = GuestInitdata
  BY <1>2
<1> HIDE DEF any, toml, digest, wide, cut
<1> QED
  BY <1>1, <1>3, <1>4, OutcomeOfInitdata

\* RTMR[3] has the declared digest, which has to be a SHA-384.
LEMMA Rtmr3Invariant ==
  ASSUME IInv, ResolveRtmr3
  PROVE  InitdataReproduced'
<1> DEFINE toml == input.initdata
           digest == InitdataDigest(toml)
           wide == TRUE
<1>1. pc = "rtmr3" /\ input.platform = "tdx"
  BY Platforms DEF ResolveRtmr3
<1>3. Resolved("sha384", wide, digest)
  BY DEF ResolveRtmr3
<1>2. ASSUME toml # NoInitdata, DigestDefined(toml, "sha384"), WellFormed(toml)
      PROVE  <<<<"extended", digest>>>> = GuestInitdata
  <2>1. toml \in Seq(Line) /\ DeclaresAlgorithm(toml) /\ ParsedAlgorithm(toml) = "sha384"
    BY <1>2, CasesAssumption DEF IInv, DigestDefined
  <2>2. TheAlgorithm(toml) = "sha384" /\ "sha384" \in SUPPORTED_ALGORITHMS
    BY <1>2, <2>1, AcceptedIsTopLevel
  <2>3. digest = [k \in 1..Width("sha384") |-> DigestOf(TheAlgorithm(toml), toml)[k]]
    <3>1. digest = DigestOf("sha384", toml)
      BY <2>1 DEF InitdataDigest
    <3>2. DigestOf("sha384", toml) = [k \in 1..Width("sha384") |-> DigestOf("sha384", toml)[k]]
      BY <2>2, DigestWidths
    <3> QED
      BY <2>2, <3>1, <3>2
  <2>4. RegisterWidth[input.platform] = Width("sha384")
    BY <1>1 DEF RegisterWidth
  <2> QED
    BY <2>3, <2>4 DEF GuestInitdata
<1> HIDE DEF toml, wide, digest
<1>4. /\ input.initdata # NoInitdata /\ DigestDefined(input.initdata, "sha384")
        /\ WellFormed(input.initdata)
      => <<<<"extended", digest>>>> = GuestInitdata
  BY <1>2 DEF toml, digest
<1> QED
  BY <1>1, <1>3, <1>4, OutcomeOfInitdata

\* No register is followed by a refusal.
LEMMA StageIsNoRefusal ==
  ASSUME IInv, pc \notin {"done", "refused"}
  PROVE  StageAfter(pc) # "refused"
<1>1. input.platform \in {"azure", "tdx"} /\ pc \in ToSet(Stages[input.platform])
  BY CasesAssumption DEF IInv, TypeOK
<1>2. CASE input.platform = "azure"
  BY <1>1, <1>2, OfAzure, AzureOrder DEF AzureStages
<1>3. CASE input.platform = "tdx"
  BY <1>1, <1>3, OfTdx, TdxOrder DEF TdxStages
<1> QED
  BY <1>1, <1>2, <1>3

\* What a register is computed from is the input, which never changes.
LEMMA SameInput ==
  ASSUME input' = input
  PROVE  /\ BootChainDefined' = BootChainDefined /\ SectionsDefined' = SectionsDefined
         /\ Pcr9Defined' = Pcr9Defined /\ InitdataRefused' = InitdataRefused
         /\ Refusable' = Refusable
         /\ Pcr4Value' = Pcr4Value /\ Rtmr1Value' = Rtmr1Value /\ Pcr9Value' = Pcr9Value
         /\ SectionDigests' = SectionDigests
<1>1. pe' = pe
  BY DEF pe
<1>2. Kernel' = Kernel
  BY <1>1 DEF Kernel
<1>3. BootChainDefined' = BootChainDefined /\ BootChain' = BootChain
  BY <1>1, <1>2 DEF BootChainDefined, BootChain
<1>4. SectionsDefined' = SectionsDefined
  BY <1>1 DEF SectionsDefined, UkiModelled
<1>5. MeasuredSections' = MeasuredSections
  BY <1>1 DEF MeasuredSections, Chosen, Places
<1>6. SectionDigests' = SectionDigests
  BY <1>1, <1>5 DEF SectionDigests
<1>7. Stripped(Extracted(pe, ".cmdline"))' = Stripped(Extracted(pe, ".cmdline"))
  BY <1>1 DEF Stripped, IsNul
<1>8. CmdlineDefined(Extracted(pe, ".cmdline"))' = CmdlineDefined(Extracted(pe, ".cmdline"))
  BY <1>1, <1>7 DEF CmdlineDefined, Stripped, IsNul
<1>9. Pcr9Defined' = Pcr9Defined
  BY <1>1, <1>8 DEF Pcr9Defined
<1>10. Pcr9Value' = Pcr9Value
  BY <1>1, <1>7 DEF Pcr9Value
<1>11. InitdataRefused' = InitdataRefused
  BY DEF InitdataRefused
<1>12. Pcr4Value' = Pcr4Value /\ Rtmr1Value' = Rtmr1Value
  BY <1>3 DEF Pcr4Value, Rtmr1Value, CallingBootOption, Separator, Gpt, ExitBootServices, Action
<1>13. Refusable' = Refusable
  BY <1>3, <1>4, <1>9, <1>11 DEF Refusable
<1> QED
  BY <1>3, <1>4, <1>6, <1>9, <1>10, <1>11, <1>12, <1>13

\* A step that computes its register of an input that is not refused, and
\* otherwise ends for a cause, keeps what is known.
LEMMA OutcomeKnown ==
  ASSUME IInv, NEW defined \in BOOLEAN, NEW value, pc \notin {"done", "refused"},
         Outcome(defined, value),
         pc = "pcr4" /\ defined => BootChainDefined /\ value = Pcr4Value,
         pc = "rtmr1" /\ defined => BootChainDefined /\ value = Rtmr1Value,
         pc \in {"pcr11", "rtmr2"} /\ defined => SectionsDefined /\ value = SectionDigests,
         pc = "pcr9" /\ defined => Pcr9Defined /\ value = Pcr9Value,
         ~defined => Refusable
  PROVE  Known'
<1>1. input' = input
  BY DEF Outcome
<1>2. ASSUME NEW r, r \in DOMAIN registers'
      PROVE  /\ defined
             /\ IF r = pc THEN registers'[r] = value
                ELSE r \in DOMAIN registers /\ registers'[r] = registers[r]
  BY <1>2 DEF Outcome
<1>3. BootChainKnown'
  <2>1. ASSUME NEW r, r \in Computed({"pcr4"})'
        PROVE  BootChainDefined /\ registers'[r] = Pcr4Value
    <3>1. r = "pcr4" /\ r \in DOMAIN registers'
      BY <2>1 DEF Computed
    <3> QED
      BY <1>2, <3>1 DEF IInv, Known, BootChainKnown, Computed
  <2>2. ASSUME NEW r, r \in Computed({"rtmr1"})'
        PROVE  BootChainDefined /\ registers'[r] = Rtmr1Value
    <3>1. r = "rtmr1" /\ r \in DOMAIN registers'
      BY <2>2 DEF Computed
    <3> QED
      BY <1>2, <3>1 DEF IInv, Known, BootChainKnown, Computed
  <2> QED
    BY <1>1, <2>1, <2>2, SameInput DEF BootChainKnown
<1>4. SectionsKnown'
  <2>1. ASSUME NEW r, r \in Computed({"pcr11", "rtmr2"})'
        PROVE  SectionsDefined /\ registers'[r] = SectionDigests
    <3>1. r \in {"pcr11", "rtmr2"} /\ r \in DOMAIN registers'
      BY <2>1 DEF Computed
    <3> QED
      BY <1>2, <3>1 DEF IInv, Known, SectionsKnown, Computed
  <2> QED
    BY <1>1, <2>1, SameInput DEF SectionsKnown
<1>5. Pcr9Known'
  <2>1. ASSUME NEW r, r \in Computed({"pcr9"})'
        PROVE  Pcr9Defined /\ registers'[r] = Pcr9Value
    <3>1. r = "pcr9" /\ r \in DOMAIN registers'
      BY <2>1 DEF Computed
    <3> QED
      BY <1>2, <3>1 DEF IInv, Known, Pcr9Known, Computed
  <2> QED
    BY <1>1, <2>1, SameInput DEF Pcr9Known
<1>6. CauseOfRefusal'
  <2>1. ASSUME pc' = "refused" PROVE Refusable
    <3>1. CASE defined
      <4>1. pc' = StageAfter(pc)
        BY <3>1 DEF Outcome
      <4>2. StageAfter(pc) # "refused"
        BY StageIsNoRefusal
      <4> QED
        BY <2>1, <4>1, <4>2
    <3> QED
      BY <3>1
  <2> QED
    BY <1>1, <2>1, SameInput DEF CauseOfRefusal
<1> QED
  BY <1>3, <1>4, <1>5, <1>6 DEF Known

\* A stutter keeps what is known.
LEMMA UnchangedKnown ==
  ASSUME IInv, UNCHANGED vars
  PROVE  Known'
<1>1. input' = input /\ registers' = registers /\ pc' = pc
  BY DEF vars
<1> QED
  BY <1>1, SameInput DEF IInv, Known, BootChainKnown, SectionsKnown, Pcr9Known, CauseOfRefusal, Computed

\* Initdata registers that are refused have a cause.
LEMMA ResolvedKnown ==
  ASSUME IInv, ResolvePcr8 \/ ResolveRtmr3
  PROVE  Known'
<1>1. input.hex \in {"none", "good", "bad"}
  BY CasesAssumption DEF IInv
<1> DEFINE toml == input.initdata
           require == IF pc = "pcr8" THEN "" ELSE "sha384"
           wide == IF pc = "pcr8" THEN Len(InitdataDigest(toml)) >= Sha256Width ELSE TRUE
<1>2. PICK defined, value :
        /\ defined \in BOOLEAN /\ Outcome(defined, value)
        /\ defined <=> IF toml # NoInitdata
                         THEN input.hex = "none" /\ DigestDefined(toml, require) /\ wide
                         ELSE input.hex # "bad"
  <2> DEFINE accepted == IF toml # NoInitdata
                           THEN input.hex = "none" /\ DigestDefined(toml, require) /\ wide
                           ELSE input.hex # "bad"
  <2>1. \E value : Outcome(accepted, value)
    BY DEF ResolvePcr8, ResolveRtmr3, Resolved
  <2>2. accepted \in BOOLEAN
    OBVIOUS
  <2> HIDE DEF accepted
  <2>3. \E defined, value : defined \in BOOLEAN /\ Outcome(defined, value) /\ (defined <=> accepted)
    BY <2>1, <2>2
  <2> QED
    BY <2>3 DEF accepted
<1>3. pc \in {"pcr8", "rtmr3"}
  BY DEF ResolvePcr8, ResolveRtmr3
<1>4. ~defined => Refusable
  <2>1. CASE pc = "pcr8"
    BY <1>1, <1>2, <2>1, Platforms DEF Refusable, InitdataRefused
  <2>2. CASE pc = "rtmr3"
    BY <1>1, <1>2, <2>2, Platforms DEF Refusable, InitdataRefused
  <2> QED
    BY <1>3, <2>1, <2>2
<1> HIDE DEF toml, require, wide
<1> QED
  BY <1>2, <1>3, <1>4, OutcomeKnown

\* So does each register computed of the UKI.
LEMMA ComputedKnown ==
  ASSUME IInv, \/ ComputePcr4 \/ ComputePcr5 \/ ComputePcr9 \/ ComputePcr11
               \/ ComputeRtmr1 \/ ComputeRtmr2
  PROVE  Known'
<1>1. CASE ComputePcr4
  <2>1. PICK defined, value : /\ defined \in BOOLEAN /\ defined = BootChainDefined /\ value = Pcr4Value
                              /\ Outcome(defined, value)
    BY <1>1 DEF ComputePcr4, Pcr4Value, BootChainDefined
  <2>2. pc = "pcr4"
    BY <1>1 DEF ComputePcr4
  <2> QED
    BY <2>1, <2>2, OutcomeKnown DEF Refusable
<1>2. CASE ComputePcr5
  <2>1. PICK defined, value : defined \in BOOLEAN /\ defined = TRUE /\ Outcome(defined, value)
    BY <1>2 DEF ComputePcr5
  <2>2. pc = "pcr5"
    BY <1>2 DEF ComputePcr5
  <2> QED
    BY <2>1, <2>2, OutcomeKnown
<1>3. CASE ComputePcr9
  <2>1. PICK defined, value : /\ defined \in BOOLEAN /\ defined = Pcr9Defined /\ value = Pcr9Value
                              /\ Outcome(defined, value)
    BY <1>3 DEF ComputePcr9, Pcr9Value, Pcr9Defined
  <2>2. pc = "pcr9" /\ input.platform = "azure"
    BY <1>3, Platforms DEF ComputePcr9
  <2> QED
    BY <2>1, <2>2, OutcomeKnown DEF Refusable
<1>4. CASE ComputePcr11 \/ ComputeRtmr2
  <2>1. PICK defined, value : /\ defined \in BOOLEAN /\ defined = SectionsDefined /\ value = SectionDigests
                              /\ Outcome(defined, value)
    BY <1>4 DEF ComputePcr11, ComputeRtmr2, SectionsDefined
  <2>2. pc \in {"pcr11", "rtmr2"}
    BY <1>4 DEF ComputePcr11, ComputeRtmr2
  <2> QED
    BY <2>1, <2>2, OutcomeKnown DEF Refusable
<1>5. CASE ComputeRtmr1
  <2>1. PICK defined, value : /\ defined \in BOOLEAN /\ defined = BootChainDefined /\ value = Rtmr1Value
                              /\ Outcome(defined, value)
    BY <1>5 DEF ComputeRtmr1, Rtmr1Value, BootChainDefined
  <2>2. pc = "rtmr1"
    BY <1>5 DEF ComputeRtmr1
  <2> QED
    BY <2>1, <2>2, OutcomeKnown DEF Refusable
<1> QED
  BY <1>1, <1>2, <1>3, <1>4, <1>5

\* Every step keeps the invariant.
LEMMA StepInvariant == IInv /\ [Next]_vars => IInv'
<1> SUFFICES ASSUME IInv, [Next]_vars PROVE IInv'
  OBVIOUS
<1>1. CASE UNCHANGED vars
  <2>1. GuestInitdata' = GuestInitdata
    BY <1>1 DEF vars, GuestInitdata
  <2>2. Known'
    BY <1>1, UnchangedKnown
  <2> QED
    BY <1>1, <2>1, <2>2 DEF vars, IInv, TypeOK, Ahead, InitdataReproduced, Computed, Given
<1>2. CASE ResolvePcr8
  <2>1. TypeOK' /\ input' = input
    BY <1>2, OutcomeTypeOK DEF ResolvePcr8, Resolved, Outcome
  <2> QED
    BY <1>2, <2>1, Pcr8Invariant, ResolvedKnown DEF IInv
<1>3. CASE ResolveRtmr3
  <2>1. TypeOK' /\ input' = input
    BY <1>3, OutcomeTypeOK DEF ResolveRtmr3, Resolved, Outcome
  <2> QED
    BY <1>3, <2>1, Rtmr3Invariant, ResolvedKnown DEF IInv
<1>4. ASSUME NEW defined, NEW value, Outcome(defined, value),
             pc \notin {"done", "refused", "pcr8", "rtmr3"}, Known'
      PROVE  IInv'
  BY <1>4, OutcomeTypeOK, OutcomeKeepsInitdata DEF IInv, Outcome
<1>5. CASE ComputePcr4 \/ ComputePcr5 \/ ComputePcr9 \/ ComputePcr11
  <2>1. Known'
    BY <1>5, ComputedKnown
  <2> QED
    BY <1>4, <1>5, <2>1 DEF ComputePcr4, ComputePcr5, ComputePcr9, ComputePcr11
<1>6. CASE ComputeRtmr1 \/ ComputeRtmr2
  <2>1. Known'
    BY <1>6, ComputedKnown
  <2> QED
    BY <1>4, <1>6, <2>1 DEF ComputeRtmr1, ComputeRtmr2
<1> QED
  BY <1>1, <1>2, <1>3, <1>5, <1>6 DEF Next

\* The invariant holds of every behaviour.
LEMMA InductiveInvariant == Spec => []IInv
BY InitInvariant, StepInvariant, PTL DEF Spec

(* ---- Theorems ---------------------------------------------------------- *)

\* The registers computed are always those ahead of the one to come, and none
\* once the input is refused: no report has some registers and not others.
THEOREM AllRegistersOrNone == Spec => []TypeOK
<1>1. IInv => TypeOK
  BY DEF IInv
<1> QED
  BY <1>1, InductiveInvariant, PTL

\* PCR 8 and RTMR[3] have the digest of the algorithm the file declares at its
\* top level, cut to the register's width, whatever else the file holds.
THEOREM InitdataIsReproduced == Spec => []InitdataReproduced
<1>1. IInv => InitdataReproduced
  BY DEF IInv
<1> QED
  BY <1>1, InductiveInvariant, PTL

\* A digest that is computed covers all bytes of the headers and the sections
\* that the image declares, but for the two fields Authenticode leaves out, and
\* bytes of the file only, for every UKI and every kernel in it
\* (tdx/pe.py:146-208).
THEOREM NothingIsClamped == Spec => []NothingClamped
<1>1. IInv => NothingClamped
  <2> SUFFICES ASSUME IInv, Computed({"pcr4", "rtmr1"}) # {}, NEW image \in {pe, Kernel}
               PROVE  LET headers == 0..(image.header.size_of_headers - 1)
                          fields == {ChecksumAt(image)}
                                    \cup (IF HasCertEntry(image) THEN {CertEntryAt(image)} ELSE {})
                          sections == UNION {SectionsOf(image)[i].raw_ptr..(RawEnd(SectionsOf(image)[i]) - 1) :
                                               i \in Contents(image)}
                          hashed == Hashed(image)
                      IN /\ (headers \ fields) \cup sections \subseteq ToSet(hashed)
                         /\ ToSet(hashed) \subseteq 0..(PeSize(image) - 1)
    BY DEF NothingClamped
  <2>1. input \in Cases /\ BootChainDefined
    BY DEF IInv, Known, BootChainKnown, Computed
  <2>2. IsImage(pe) /\ IsImage(Kernel)
    BY <2>1, UkiImage, KernelIsAnImage DEF BootChainDefined, AuthenticodeDefined
  <2>3. AuthenticodeDefined(pe) /\ AuthenticodeDefined(Kernel)
    BY <2>1 DEF BootChainDefined
  <2> QED
    BY <2>2, <2>3, NoSpanIsCut
<1> QED
  BY <1>1, InductiveInvariant, PTL

\* PCR 11 and RTMR[2] have what systemd-stub measures, for every UKI that is not
\* refused, whichever section of a name the stub takes and whether or not a
\* profile is selected (uki.py:64-108).
THEOREM SectionsAreReproduced == Spec => []SectionsReproduced
<1>1. IInv => SectionsReproduced
  <2> SUFFICES ASSUME IInv, NEW r \in Computed({"pcr11", "rtmr2"}),
                      NEW choice \in StubChoices, NEW profile \in BOOLEAN
               PROVE  registers[r] = GuestSections(choice, profile)
    BY DEF SectionsReproduced
  <2> QED
    BY SectionsAreTheStubs DEF IInv, Known, SectionsKnown
<1> QED
  BY <1>1, InductiveInvariant, PTL

\* A command that is done has computed the register that refuses a UKI whose
\* sections the stub might take otherwise.
LEMMA DoneIsDefined ==
  ASSUME IInv, pc = "done"
  PROVE  /\ SectionsDefined
         /\ input.platform = "azure" => "pcr9" \in DOMAIN registers
<1>1. input.platform \in {"azure", "tdx"} /\ DOMAIN registers = ToSet(Stages[input.platform])
  <2>1. input.platform \in {"azure", "tdx"}
    BY CasesAssumption DEF IInv
  <2>2. "done" \notin ToSet(Stages[input.platform])
    BY <2>1, OfAzure, OfTdx DEF AzureStages, TdxStages
  <2> QED
    BY <2>1, <2>2 DEF IInv, TypeOK
<1>2. \E r \in {"pcr11", "rtmr2"} : r \in DOMAIN registers
  BY <1>1, OfAzure, OfTdx DEF AzureStages, TdxStages
<1>3. SectionsDefined
  BY <1>2 DEF IInv, Known, SectionsKnown, Computed
<1>4. input.platform = "azure" => "pcr9" \in DOMAIN registers
  BY <1>1, OfAzure DEF AzureStages
<1> QED
  BY <1>3, <1>4

\* PCR 4 and RTMR[1] have the two digests that firmware takes of regular images,
\* of the whole file and of the kernel as the stub loads it, for every regular
\* UKI that is not refused (azure_snp/registers.py:161-196, tdx/registers.py:269-322).
THEOREM BootChainIsReproduced == Spec => []BootChainReproduced
<1>1. IInv => BootChainReproduced
  <2> SUFFICES ASSUME IInv, pc = "done",
                      NEW r \in Computed({"pcr4", "rtmr1"}), NEW choice \in StubChoices,
                      Regular(pe), Regular(GuestKernel(choice))
               PROVE  registers[r] = GuestBootRegister(choice)[r]
    BY DEF BootChainReproduced
  <2>1. BootChain = GuestBoot(choice)
    BY DoneIsDefined, BootChainIsTheGuests DEF IInv
  <2>2. CASE r = "pcr4"
    <3>1. registers[r] = Pcr4Value
      BY <2>2 DEF IInv, Known, BootChainKnown, Computed
    <3> QED
      BY <2>1, <2>2, <3>1 DEF Pcr4Value, GuestBootRegister
  <2>3. CASE r = "rtmr1"
    <3>1. registers[r] = Rtmr1Value
      BY <2>3 DEF IInv, Known, BootChainKnown, Computed
    <3> QED
      BY <2>1, <2>3, <3>1 DEF Rtmr1Value, GuestBootRegister
  <2> QED
    BY <2>2, <2>3 DEF Computed
<1> QED
  BY <1>1, InductiveInvariant, PTL

\* PCR 9 has the command line as the stub passes it on and the microcode ahead
\* of the initrd, for every UKI that is not refused (azure_snp/registers.py:255-332).
THEOREM CmdlineAndInitrdAreReproduced == Spec => []CmdlineAndInitrdReproduced
<1>1. IInv => CmdlineAndInitrdReproduced
  <2> SUFFICES ASSUME IInv, pc = "done", input.platform = "azure", NEW choice \in StubChoices
               PROVE  registers["pcr9"] = <<GuestCmdline(choice), GuestInitrd(choice)>>
    BY DEF CmdlineAndInitrdReproduced
  <2>1. input \in Cases /\ SectionsDefined /\ Pcr9Defined /\ registers["pcr9"] = Pcr9Value
    BY DoneIsDefined DEF IInv, Known, Pcr9Known, Computed
  <2>2. PICK cmdline, ucode, initrd :
          /\ cmdline = Extracted(pe, ".cmdline") /\ cmdline = StubSection(choice, ".cmdline")
          /\ ucode = Extracted(pe, ".ucode") /\ ucode = StubSection(choice, ".ucode")
          /\ initrd = Extracted(pe, ".initrd") /\ initrd = StubSection(choice, ".initrd")
          /\ cmdline \in Seq(Cell)
    BY <2>1, MeasuredNamesFacts, ExtractedAsByTheStub
  <2>3. Stripped(cmdline) = Terminated(cmdline)
    BY <2>1, <2>2, CmdlineIsTheStubs DEF Pcr9Defined
  <2> QED
    BY <2>1, <2>2, <2>3 DEF Pcr9Value, GuestCmdline, GuestInitrd
<1> QED
  BY <1>1, InductiveInvariant, PTL

\* No guest that the code undertakes to measure is refused: not for the image,
\* its sections, its command line or its initdata, on the limits of every check
\* too (uki.py:85-108, tdx/pe.py:150-294, initdata.py:53-96).
THEOREM RefusedOnlyForAReason == Spec => []RefusedForAReason
<1>1. IInv => RefusedForAReason
  <2> SUFFICES ASSUME IInv, pc = "refused", UkiSupported, InitdataSupported,
                      input.platform = "azure" => CmdlineSupported
               PROVE  FALSE
    BY DEF RefusedForAReason
  <2>1. input \in Cases /\ Refusable
    BY DEF IInv, Known, CauseOfRefusal
  <2>2. BootChainDefined /\ SectionsDefined
    BY <2>1, SupportedBootChain, SupportedSections
  <2>3. input.platform = "azure" => Pcr9Defined
    BY <2>1, SupportedCmdline
  <2>4. ~InitdataRefused
    <3>1. CASE input.initdata = NoInitdata
      BY <3>1 DEF InitdataRefused, InitdataSupported
    <3>2. CASE input.initdata # NoInitdata
      <4>1. input.initdata \in Seq(Line) /\ input.hex = "none" /\ WellFormed(input.initdata)
        BY <2>1, <3>2, CasesAssumption DEF InitdataSupported
      <4>2. /\ DeclaresAlgorithm(input.initdata)
            /\ ParsedAlgorithm(input.initdata) = TheAlgorithm(input.initdata)
            /\ Len(InitdataDigest(input.initdata)) >= Sha256Width
        BY <4>1, WellFormedIsAccepted
      <4>3. input.platform = "tdx" => TheAlgorithm(input.initdata) = "sha384"
        BY <3>2 DEF InitdataSupported
      <4> QED
        BY <3>2, <4>1, <4>2, <4>3 DEF InitdataRefused, DigestDefined
    <3> QED
      BY <3>1, <3>2
  <2> QED
    BY <2>1, <2>2, <2>3, <2>4 DEF Refusable
<1> QED
  BY <1>1, InductiveInvariant, PTL
=============================================================================

----------------------------- MODULE DiskProofs -----------------------------
(* Theorems about Disk, for every disk, limit, chunk and entry size; and the *)
(* lemmas about a selection (Selection) they rest on.                        *)
EXTENDS Disk, FiniteSetTheorems, FunctionTheorems, SequenceTheorems, WellFoundedInduction, TLAPS

LEMMA Limits == MaxExtractBytes \in Nat
BY SizesAssumption

LEMMA InitInvariant == Init => IInv
<1> SUFFICES ASSUME Init PROVE IInv
  OBVIOUS
<1>1. /\ input \in Inputs /\ job \in {"gpt", "uki"} /\ pc = "open" /\ tmpdir = FALSE
      /\ copied = 0 /\ result = NoResult /\ output \in {NoResult, Stale}
  BY DEF Init
<1>2. NoResult.of = "nothing" /\ Stale.of = "stale"
  BY DEF NoResult, Stale
<1>3. TypeOK
  BY <1>1, <1>2 DEF TypeOK
<1>4. WithinLimit
  BY <1>1, Limits DEF WithinLimit
<1> QED
  BY <1>1, <1>2, <1>3, <1>4 DEF IInv, DirectoryWhileItIsUsed, CopyOfTheMember, ResultsInOrder

\* The member that is copied has a size, and so has the chunk read next.
LEMMA MemberHasSize ==
  ASSUME IInv, pc = "copy"
  PROVE  Member.length \in Nat
<1>1. PICK i \in Candidates : Candidates = {i}
  BY DEF IInv, CopyOfTheMember, Unambiguous
<1>2. Member = input.members[i] /\ i \in DOMAIN input.members
  BY <1>1 DEF Member, Candidates
<1> QED
  BY <1>2, InputsAssumption DEF IInv

LEMMA ChunkIsSmall ==
  ASSUME IInv, pc = "copy", copied < Member.length
  PROVE  Chunk \in Nat
BY MemberHasSize, SizesAssumption DEF IInv, TypeOK, Chunk

LEMMA RaiseInvariant ==
  ASSUME IInv, pc \in {"choose", "copy"}, RaiseFromResolve
  PROVE  IInv'
<1>1. /\ tmpdir' = FALSE /\ pc' = "raised"
      /\ UNCHANGED <<input, job, copied, output, result>>
  BY DEF RaiseFromResolve, TmpdirAfterFailure
<1>2. TypeOK'
  BY <1>1 DEF IInv, TypeOK
<1> QED
  BY <1>1, <1>2
  DEF IInv, DirectoryWhileItIsUsed, WithinLimit, CopyOfTheMember, ResultsInOrder

LEMMA CopyChunkInvariant ==
  ASSUME IInv, CopyChunk
  PROVE  IInv'
<1>1. pc = "copy" /\ copied < Member.length /\ Chunk \in Nat /\ copied \in Nat
  BY ChunkIsSmall DEF CopyChunk, IInv, TypeOK
<1>2. CASE OverLimit(copied + Chunk)
  BY <1>1, <1>2, RaiseInvariant DEF CopyChunk
<1>3. CASE ~OverLimit(copied + Chunk)
  <2>1. copied' = copied + Chunk /\ UNCHANGED <<input, job, tmpdir, output, result, pc>>
    BY <1>3 DEF CopyChunk
  <2>2. copied' \in Nat /\ copied' <= MaxExtractBytes
    BY <1>1, <1>3, <2>1, SizesAssumption DEF OverLimit
  <2>3. Unambiguous' = Unambiguous
    BY <2>1 DEF Unambiguous, Candidates
  <2> QED
    BY <2>1, <2>2, <2>3
    DEF IInv, TypeOK, DirectoryWhileItIsUsed, WithinLimit, CopyOfTheMember, ResultsInOrder
<1> QED
  BY <1>2, <1>3

LEMMA McopyInvariant ==
  ASSUME IInv, NEW status \in {0, 1}, Mcopy(status)
  PROVE  IInv'
<1>1. /\ pc = "mcopy" /\ pc' = "cleanup" /\ result = NoResult
      /\ UNCHANGED <<input, job, tmpdir, copied>>
  BY DEF Mcopy, IInv, ResultsInOrder
<1>2. output'.of \in {"nothing", "stale", "partial", "uki"}
  <2>1. output' = Copied \/ output' = output \/ output' = Partial
    BY DEF Mcopy
  <2>2. Copied.of = "uki" /\ Partial.of = "partial"
    BY DEF Copied, UkiOf, UkiIn, Partial
  <2> QED
    BY <2>1, <2>2 DEF IInv, TypeOK
<1>3. /\ result'.of \in {"nothing", "output"} /\ (result'.of = "nothing" => result' = NoResult)
      /\ result'.of = "output" => output'.of = "uki"
  <2>1. CASE status = 0
    BY <2>1 DEF Mcopy, Copied, UkiOf, UkiIn, Succeeded
  <2>2. CASE status # 0
    BY <2>2 DEF Mcopy, Succeeded, NoResult
  <2> QED
    BY <2>1, <2>2
<1>4. TypeOK'
  BY <1>1, <1>2, <1>3 DEF IInv, TypeOK
<1>5. job = "uki"
  BY <1>1 DEF IInv, ResultsInOrder
<1> QED
  BY <1>1, <1>3, <1>4, <1>5
  DEF IInv, DirectoryWhileItIsUsed, WithinLimit, CopyOfTheMember, ResultsInOrder

LEMMA CleanupInvariant ==
  ASSUME IInv, Cleanup
  PROVE  IInv'
<1>1. /\ pc = "cleanup" /\ tmpdir' = FALSE
      /\ UNCHANGED <<input, job, copied, output, result>>
  BY DEF Cleanup
<1>2. result.of \in {"nothing", "gpt", "output"} /\ job \in {"gpt", "uki"}
  BY <1>1 DEF IInv, TypeOK
<1>3. \/ result = NoResult /\ pc' = "raised"
      \/ result # NoResult /\ job = "gpt" /\ pc' = "returned"
      \/ result # NoResult /\ job = "uki" /\ pc' = "digest"
  BY <1>2 DEF Cleanup
<1>4. result # NoResult => result.of # "nothing"
  BY DEF IInv, ResultsInOrder
<1>5. TypeOK'
  BY <1>1, <1>2, <1>3 DEF IInv, TypeOK
<1>6. ResultsInOrder'
  BY <1>1, <1>2, <1>3, <1>4 DEF IInv, ResultsInOrder
<1> QED
  BY <1>1, <1>3, <1>5, <1>6
  DEF IInv, DirectoryWhileItIsUsed, WithinLimit, CopyOfTheMember

\* The other actions change pc and little else.
LEMMA OtherInvariant ==
  ASSUME IInv, \/ UseRawDisk \/ MakeTempDir \/ ChooseMember \/ EndCopy \/ FindEsp
  PROVE  IInv'
<1>1. CASE UseRawDisk
  <2>1. pc' = "read" /\ pc = "open" /\ UNCHANGED <<input, job, tmpdir, copied, output, result>>
    BY <1>1 DEF UseRawDisk
  <2> QED
    BY <2>1 DEF IInv, TypeOK, DirectoryWhileItIsUsed, WithinLimit, CopyOfTheMember, ResultsInOrder
<1>2. CASE MakeTempDir
  <2>1. /\ pc' = "choose" /\ pc = "open" /\ tmpdir' = TRUE
        /\ UNCHANGED <<input, job, copied, output, result>>
    BY <1>2 DEF MakeTempDir
  <2> QED
    BY <2>1 DEF IInv, TypeOK, DirectoryWhileItIsUsed, WithinLimit, CopyOfTheMember, ResultsInOrder
<1>3. CASE ChooseMember
  <2>1. CASE ~MemberAcceptable
    BY <1>3, <2>1, RaiseInvariant DEF ChooseMember
  <2>2. CASE MemberAcceptable
    <3>1. /\ pc' = "copy" /\ pc = "choose" /\ Unambiguous
          /\ UNCHANGED <<input, job, tmpdir, copied, output, result>>
      BY <1>3, <2>2 DEF ChooseMember, MemberAcceptable
    <3>2. Unambiguous'
      BY <3>1 DEF Unambiguous, Candidates
    <3> QED
      BY <3>1, <3>2
      DEF IInv, TypeOK, DirectoryWhileItIsUsed, WithinLimit, CopyOfTheMember, ResultsInOrder
  <2> QED
    BY <2>1, <2>2
<1>4. CASE EndCopy
  <2>1. pc' = "read" /\ pc = "copy" /\ UNCHANGED <<input, job, tmpdir, copied, output, result>>
    BY <1>4 DEF EndCopy
  <2> QED
    BY <2>1 DEF IInv, TypeOK, DirectoryWhileItIsUsed, WithinLimit, CopyOfTheMember, ResultsInOrder
<1>5. CASE FindEsp
  <2>1. /\ pc' \in {"mcopy", "cleanup"} /\ pc = "read" /\ job = "uki" /\ result = NoResult
        /\ UNCHANGED <<input, job, tmpdir, copied, output, result>>
    BY <1>5 DEF FindEsp, IInv, ResultsInOrder
  <2>2. result.of = "nothing"
    BY <2>1 DEF NoResult
  <2> QED
    BY <2>1, <2>2
    DEF IInv, TypeOK, DirectoryWhileItIsUsed, WithinLimit, CopyOfTheMember, ResultsInOrder
<1> QED
  BY <1>1, <1>2, <1>3, <1>4, <1>5

LEMMA ReadTableInvariant ==
  ASSUME IInv, ReadTable
  PROVE  IInv'
<1>1. /\ pc = "read" /\ job = "gpt" /\ pc' = "cleanup"
      /\ UNCHANGED <<input, job, tmpdir, copied, output>>
  BY DEF ReadTable
<1>2. \/ result' = NoResult
      \/ result' = EventData(PrefixOf(RawImage.header), Entries(RawImage))
  BY DEF ReadTable
<1>3. result'.of \in {"nothing", "gpt"} /\ (result'.of = "nothing" => result' = NoResult)
  BY <1>2 DEF NoResult, EventData
<1> QED
  BY <1>1, <1>3
  DEF IInv, TypeOK, DirectoryWhileItIsUsed, WithinLimit, CopyOfTheMember, ResultsInOrder

LEMMA DigestInvariant ==
  ASSUME IInv, Digest
  PROVE  IInv'
<1>1. /\ pc = "digest" /\ pc' = "returned" /\ result' = output
      /\ UNCHANGED <<input, job, tmpdir, copied, output>>
  BY DEF Digest
<1>2. output.of = "uki" /\ job = "uki" /\ tmpdir = FALSE
  BY <1>1 DEF IInv, ResultsInOrder, DirectoryWhileItIsUsed, TypeOK
<1> QED
  BY <1>1, <1>2
  DEF IInv, TypeOK, DirectoryWhileItIsUsed, WithinLimit, CopyOfTheMember, ResultsInOrder

LEMMA StepInvariant == IInv /\ [Next]_vars => IInv'
<1> SUFFICES ASSUME IInv, [Next]_vars PROVE IInv'
  OBVIOUS
<1>1. CASE UseRawDisk \/ MakeTempDir \/ ChooseMember \/ EndCopy \/ FindEsp
  BY <1>1, OtherInvariant
<1>2. CASE ArchiveFails
  BY <1>2, RaiseInvariant DEF ArchiveFails
<1>3. CASE CopyChunk
  BY <1>3, CopyChunkInvariant
<1>4. CASE ReadTable
  BY <1>4, ReadTableInvariant
<1>5. CASE \E status \in {0, 1} : Mcopy(status)
  BY <1>5, McopyInvariant
<1>6. CASE Cleanup
  BY <1>6, CleanupInvariant
<1>7. CASE Digest
  BY <1>7, DigestInvariant
<1>8. CASE UNCHANGED vars
  BY <1>8
  DEF vars, IInv, TypeOK, DirectoryWhileItIsUsed, WithinLimit, CopyOfTheMember, ResultsInOrder,
      Unambiguous, Candidates
<1> QED
  BY <1>1, <1>2, <1>3, <1>4, <1>5, <1>6, <1>7, <1>8 DEF Next

LEMMA InductiveInvariant == Spec => []IInv
BY InitInvariant, StepInvariant, PTL DEF Spec

(* ---- Theorems --------------------------------------------------------- *)

\* The variables keep their types: in particular what a call for a UKI returns
\* is a UKI mcopy has written, never the file that was there before nor a part.
THEOREM TypeCorrect == Spec => []TypeOK
<1>1. IInv => TypeOK
  BY DEF IInv
<1> QED
  BY <1>1, InductiveInvariant, PTL

\* However a call ends, the temporary directory is gone.
THEOREM NothingRemains == Spec => []NothingLeftBehind
<1>1. IInv => NothingLeftBehind
  BY DEF IInv, DirectoryWhileItIsUsed, NothingLeftBehind
<1> QED
  BY <1>1, InductiveInvariant, PTL

\* What an archive unpacks to never exceeds the limit.
THEOREM CopyIsBounded == Spec => []WithinLimit
<1>1. IInv => WithinLimit
  BY DEF IInv
<1> QED
  BY <1>1, InductiveInvariant, PTL

\* Every set of naturals that is not empty has a least member.
LEMMA LeastMember ==
  ASSUME NEW T \in SUBSET Nat, T # {}
  PROVE  \E n \in T : \A m \in T : n <= m
<1> DEFINE R == OpToRel(<, Nat)
<1>1. IsWellFoundedOn(R, Nat)
  BY NatLessThanWellFounded
<1>2. PICK n \in T : \A m \in T : <<m, n>> \notin R
  BY <1>1, WFMin
<1>3. \A m \in T : ~(m < n)
  BY <1>2 DEF OpToRel
<1> QED
  BY <1>3

\* The places of K are g[1], g[2], ..., g[n].
InOrder(g, n, K) ==
  /\ n \in Nat /\ g \in [1..n -> K]
  /\ \A j, k \in 1..n : j < k => g[j] < g[k]
  /\ \A i \in K : \E k \in 1..n : g[k] = i

LEMMA RankOfPlace ==
  ASSUME NEW K \in SUBSET Nat, IsFiniteSet(K)
  PROVE  /\ \A i \in K : Rank(i, K) \in 1..Cardinality(K)
         /\ \A i, j \in K : i < j => Rank(i, K) < Rank(j, K)
<1> DEFINE Upto(i) == {j \in K : j <= i}
<1>1. ASSUME NEW i \in K
      PROVE  /\ IsFiniteSet(Upto(i)) /\ Cardinality(Upto(i)) \in Nat
             /\ Cardinality(Upto(i)) <= Cardinality(K)
             /\ Cardinality(Upto(i)) # 0
  <2>1. Upto(i) \in SUBSET K /\ i \in Upto(i)
    OBVIOUS
  <2> HIDE DEF Upto
  <2>2. IsFiniteSet(Upto(i)) /\ Cardinality(Upto(i)) <= Cardinality(K)
    BY <2>1, FS_Subset
  <2> QED
    BY <2>1, <2>2, FS_CardinalityType, FS_EmptySet
<1>2. ASSUME NEW i \in K, NEW j \in K, i < j
      PROVE  Cardinality(Upto(i)) < Cardinality(Upto(j))
  <2>1. Upto(i) \in SUBSET Upto(j) /\ Upto(i) # Upto(j)
    <3>1. j \in Upto(j) /\ j \notin Upto(i)
      BY <1>2
    <3>2. \A x \in Upto(i) : x \in Upto(j)
      BY <1>2
    <3> QED
      BY <3>1, <3>2
  <2> HIDE DEF Upto
  <2>2. /\ Cardinality(Upto(i)) <= Cardinality(Upto(j))
        /\ Cardinality(Upto(i)) # Cardinality(Upto(j))
    BY <1>1, <2>1, FS_Subset
  <2> QED
    BY <1>1, <2>2
<1>3. ASSUME NEW i \in K PROVE Rank(i, K) = Cardinality(Upto(i))
  <2>1. i \in Nat /\ \A j \in K : j \in Nat /\ (j \in 0..i <=> j <= i)
    OBVIOUS
  <2>2. K \cap 0..i = Upto(i)
    BY <2>1
  <2> QED
    BY <2>2 DEF Rank
<1>4. Cardinality(K) \in Nat
  BY FS_CardinalityType
<1> HIDE DEF Upto
<1> QED
  BY <1>1, <1>2, <1>3, <1>4

\* There is such an order.
LEMMA OrderExists ==
  ASSUME NEW K \in SUBSET Nat, IsFiniteSet(K)
  PROVE  \E n, g : InOrder(g, n, K)
<1>11. PICK n : n = Cardinality(K)
  OBVIOUS
<1>1. n \in Nat /\ IsFiniteSet(1..n) /\ Cardinality(1..n) = n
  BY <1>11, FS_CardinalityType, FS_Interval
<1>12. PICK rank : rank = [i \in K |-> Rank(i, K)]
  OBVIOUS
<1>2. rank \in [K -> 1..n] /\ \A i, j \in K : i < j => rank[i] < rank[j]
  BY <1>11, <1>12, RankOfPlace
<1>3. rank \in Injection(K, 1..n)
  <2>1. ASSUME NEW i \in K, NEW j \in K, rank[i] = rank[j] PROVE i = j
    <3>1. i \in Nat /\ j \in Nat /\ rank[i] \in 1..n /\ rank[j] \in 1..n
      BY <1>2
    <3>2. ~(i < j) /\ ~(j < i)
      BY <1>2, <2>1, <3>1
    <3> QED
      BY <3>1, <3>2
  <2> QED
    BY <1>2, <2>1 DEF Injection, IsInjective
<1>4. rank \in Surjection(K, 1..n)
  BY <1>1, <1>3, <1>11, FS_Injection
<1>5. \A k \in 1..n : \E i \in K : rank[i] = k
  BY <1>4 DEF Surjection
<1>10. PICK g : g = [k \in 1..n |-> CHOOSE i \in K : rank[i] = k]
  OBVIOUS
<1>6. \A k \in 1..n : g[k] \in K /\ rank[g[k]] = k
  BY <1>5, <1>10
<1>7. g \in [1..n -> K]
  BY <1>6, <1>10
<1>8. ASSUME NEW j \in 1..n, NEW k \in 1..n, j < k PROVE g[j] < g[k]
  <2>1. g[j] \in K /\ g[k] \in K /\ rank[g[j]] = j /\ rank[g[k]] = k
    BY <1>6
  <2>2. g[k] < g[j] => k < j
    BY <1>2, <2>1
  <2>3. j \in Nat /\ k \in Nat /\ ~(k < j) /\ j # k
    BY <1>1, <1>8
  <2>4. g[j] \in Nat /\ g[k] \in Nat /\ g[j] # g[k]
    BY <2>1, <2>3
  <2> QED
    BY <2>2, <2>3, <2>4
<1>9. ASSUME NEW i \in K PROVE \E k \in 1..n : g[k] = i
  <2>1. rank[i] \in 1..n /\ rank[g[rank[i]]] = rank[i] /\ g[rank[i]] \in K
    BY <1>2, <1>6
  <2>2. g[rank[i]] = i
    BY <1>3, <2>1 DEF Injection, IsInjective
  <2> QED
    BY <2>1, <2>2
<1>13. InOrder(g, n, K)
  BY <1>1, <1>7, <1>8, <1>9 DEF InOrder
<1> QED
  BY <1>13

\* The place of a rank.
LEMMA RankInOrder ==
  ASSUME NEW K \in SUBSET Nat, NEW n, NEW g, InOrder(g, n, K)
  PROVE  /\ IsFiniteSet(K) /\ Cardinality(K) = n
         /\ \A k \in 1..n : g[k] \in K /\ Rank(g[k], K) = k
<1>1. /\ n \in Nat /\ g \in [1..n -> K] /\ \A k \in 1..n : g[k] \in Nat
      /\ \A j, k \in 1..n : j < k => g[j] < g[k]
      /\ \A i \in K : \E k \in 1..n : g[k] = i
  BY DEF InOrder
<1>2. ASSUME NEW m \in 0..n, NEW T, T = {i \in K : \E k \in 1..m : g[k] = i}
      PROVE  IsFiniteSet(T) /\ Cardinality(T) = m
  <2> PICK h : h = [k \in 1..m |-> g[k]]
    OBVIOUS
  <2>1. \A k \in 1..m : k \in 1..n /\ h[k] = g[k] /\ h[k] \in T
    BY <1>1, <1>2
  <2>2. h \in [1..m -> T]
    BY <2>1
  <2>3. ASSUME NEW j \in 1..m, NEW k \in 1..m, h[j] = h[k] PROVE j = k
    <3>1. j \in 1..n /\ k \in 1..n /\ g[j] = g[k] /\ g[j] \in Nat
      BY <1>1, <2>1, <2>3
    <3>2. ~(j < k) /\ ~(k < j)
      BY <1>1, <3>1
    <3> QED
      BY <3>2
  <2>4. \A i \in T : \E k \in 1..m : h[k] = i
    BY <1>2, <2>1
  <2>5. h \in Bijection(1..m, T)
    BY <2>2, <2>3, <2>4 DEF Bijection, Injection, IsInjective, Surjection
  <2>6. ExistsBijection(1..m, T)
    BY <2>5 DEF ExistsBijection
  <2>7. IsFiniteSet(1..m) /\ Cardinality(1..m) = m
    BY FS_Interval
  <2> QED
    BY <2>6, <2>7, FS_Bijection
<1>3. IsFiniteSet(K) /\ Cardinality(K) = n
  <2>1. K = {i \in K : \E k \in 1..n : g[k] = i}
    BY <1>1
  <2>2. n \in 0..n
    BY <1>1
  <2> QED
    BY <1>2, <2>1, <2>2
<1>4. ASSUME NEW m \in 1..n PROVE Rank(g[m], K) = m
  <2>1. {j \in K : j <= g[m]} = {i \in K : \E k \in 1..m : g[k] = i}
    <3>1. ASSUME NEW k \in 1..n PROVE g[k] <= g[m] <=> k <= m
      BY <1>1
    <3>2. \A j \in K : j <= g[m] => \E k \in 1..m : g[k] = j
      BY <1>1, <3>1
    <3>3. \A k \in 1..m : g[k] <= g[m]
      BY <1>1, <3>1
    <3> QED
      BY <3>2, <3>3
  <2>2. m \in 0..n
    BY <1>1
  <2>3. K \cap 0..g[m] = {j \in K : j <= g[m]}
    <3>1. g[m] \in Nat /\ \A j \in K : j \in Nat /\ (j \in 0..g[m] <=> j <= g[m])
      BY <1>1
    <3> QED
      BY <3>1
  <2> QED
    BY <1>2, <2>1, <2>2, <2>3 DEF Rank
<1> QED
  BY <1>1, <1>3, <1>4

\* What is taken is the places in order.
LEMMA TakenInOrder ==
  ASSUME NEW s, NEW K \in SUBSET Nat, NEW n, NEW g, InOrder(g, n, K)
  PROVE  Taken(s, K) = [k \in 1..n |-> s[g[k]]]
<1>1. /\ IsFiniteSet(K) /\ Cardinality(K) = n
      /\ \A k \in 1..n : g[k] \in K /\ Rank(g[k], K) = k
  BY RankInOrder
<1>3. \A i \in K : \E k \in 1..n : g[k] = i
  BY DEF InOrder
<1>2. ASSUME NEW k \in 1..n PROVE (CHOOSE i \in K : Rank(i, K) = k) = g[k]
  <2>1. \A i \in K : Rank(i, K) = k => i = g[k]
    BY <1>1, <1>3
  <2> QED
    BY <1>1, <2>1
<1>4. Taken(s, K) = [k \in 1..n |-> s[CHOOSE i \in K : Rank(i, K) = k]]
  BY <1>1 DEF Taken
<1> QED
  BY <1>2, <1>4

(* ---- Images as they are made ------------------------------------------- *)

\* Division with remainder, and the product of naturals that grows with one.
LEMMA Division ==
  ASSUME NEW a \in Int, NEW P \in Int, P > 0
  PROVE  a = P * (a \div P) + (a % P) /\ a \div P \in Int /\ a % P \in 0..(P - 1)
<1>1. a = P * (a \div P) + (a % P)
  OBVIOUS
<1>2. a % P \in 0..(P - 1)
  OBVIOUS
<1>3. a \div P \in Int
  OBVIOUS
<1> QED
  BY <1>1, <1>2, <1>3

LEMMA Remainder ==
  ASSUME NEW q \in Int, NEW P \in Int, P > 0, NEW r \in 0..(P - 1)
  PROVE  (P * q + r) % P = r /\ (P * q + r) \div P = q
<1>1. (P * q + r) % P = r
  OBVIOUS
<1>2. (P * q + r) \div P = q
  OBVIOUS
<1> QED
  BY <1>1, <1>2

LEMMA CellOfEntry ==
  ASSUME NEW i \in Int, NEW k \in Int, NEW P \in Int, P > 0, k - 1 \in 0..(P - 1)
  PROVE  /\ (P * (i - 1) + k - 1) % P = k - 1
         /\ (P * (i - 1) + k - 1) \div P = i - 1
<1>1. i - 1 \in Int /\ k - 1 \in 0..(P - 1)
  OBVIOUS
<1>2. /\ (P * (i - 1) + (k - 1)) % P = k - 1
      /\ (P * (i - 1) + (k - 1)) \div P = i - 1
  BY <1>1, Remainder
<1>3. P * (i - 1) + (k - 1) = P * (i - 1) + k - 1
  <2>1. P * (i - 1) \in Int
    BY <1>1
  <2> QED
    BY <2>1
<1> QED
  BY <1>2, <1>3

\* What comes after a sequence in a concatenation is the other one.
LEMMA Behind ==
  ASSUME NEW g \in Seq(Nat), NEW a \in Seq(Nat)
  PROVE  /\ g \o a \in Seq(Nat) /\ Len(g \o a) = Len(g) + Len(a)
         /\ SubSeq(g \o a, Len(g) + 1, Len(g) + Len(a)) = a
<1>1. g \o a \in Seq(Nat) /\ Len(g \o a) = Len(g) + Len(a) /\ Len(g) \in Nat /\ Len(a) \in Nat
  BY ConcatProperties, LenProperties
<1>2. CASE Len(a) = 0
  <2>1. /\ Len(g) + Len(a) < Len(g) + 1
        /\ Len(g) + Len(a) \in Int /\ Len(g) + 1 \in Int
    BY <1>1, <1>2
  <2>2. a = <<>>
    BY <1>2, EmptySeq, Zenon
  <2>3. SubSeq(g \o a, Len(g) + 1, Len(g) + Len(a)) = <<>>
    BY <2>1, SubSeqEmpty
  <2> QED
    BY <1>1, <2>2, <2>3
<1>3. CASE Len(a) # 0
  <2>1. /\ Len(g) + 1 \in Len(g) + 1..Len(g) + Len(a)
        /\ Len(g) + Len(a) \in Len(g) + 1..Len(g) + Len(a)
        /\ Len(g) + 1 - Len(g) = 1 /\ Len(g) + Len(a) - Len(g) = Len(a)
    BY <1>1, <1>3
  <2>2. SubSeq(g \o a, Len(g) + 1, Len(g) + Len(a)) = SubSeq(a, 1, Len(a))
    BY <2>1, SubSeqOfConcat2
  <2> QED
    BY <1>1, <2>2, SubSeqFull
<1> QED
  BY <1>1, <1>2, <1>3

LEMMA Product ==
  ASSUME NEW a \in Nat, NEW b \in Nat, a <= b, NEW P \in Nat
  PROVE  P * a <= P * b /\ P * a \in Nat
OBVIOUS

\* The cells of an entry begin with its type and its first sector.
LEMMA EntryOfSlot ==
  ASSUME NEW slot \in Nat \X Nat, NEW size \in Nat \ {0, 1}
  PROVE  /\ EntryCells(slot, size) \in Seq(Nat) /\ Len(EntryCells(slot, size)) = size
         /\ EntryCells(slot, size)[1] = slot[1] /\ EntryCells(slot, size)[2] = slot[2]
<1> PICK a \in Nat, b \in Nat : slot = <<a, b>>
  OBVIOUS
<1> DEFINE rest == [i \in 1..(size - 2) |-> 7]
<1>1. <<a, b>> \in Seq(Nat) /\ Len(<<a, b>>) = 2 /\ <<a, b>>[1] = a /\ <<a, b>>[2] = b
  OBVIOUS
<1>2. rest \in Seq(Nat) /\ Len(rest) = size - 2
  OBVIOUS
<1>3. EntryCells(slot, size) = <<a, b>> \o rest
  BY DEF EntryCells
<1> PICK s, t : s = <<a, b>> /\ t = rest
  OBVIOUS
<1> HIDE DEF rest
<1>4. s \in Seq(Nat) /\ t \in Seq(Nat) /\ Len(s) = 2 /\ Len(t) = size - 2 /\ s[1] = a /\ s[2] = b
  BY <1>1, <1>2
<1>5. /\ s \o t \in Seq(Nat) /\ Len(s \o t) = size
      /\ (s \o t)[1] = a /\ (s \o t)[2] = b
  BY <1>4
<1> QED
  BY <1>3, <1>5

\* The entries of an array are those it is made of.
LEMMA ArrayOfSlots ==
  ASSUME NEW slots \in Seq(Nat \X Nat), NEW size \in Nat \ {0, 1}
  PROVE  /\ EntryArray(slots, size) \in Seq(Nat)
         /\ Len(EntryArray(slots, size)) = Len(slots) * size
         /\ \A i \in 1..Len(slots) :
              EntryAt(EntryArray(slots, size), i, size) = EntryCells(slots[i], size)
<1> PICK L, array : L = Len(slots) /\ array = EntryArray(slots, size)
  OBVIOUS
<1>1. L \in Nat /\ L * size \in Nat /\ \A i \in 1..L : slots[i] \in Nat \X Nat
  <2>1. L \in Nat /\ \A i \in 1..L : slots[i] \in Nat \X Nat
    BY LenProperties, ElementOfSeq
  <2> QED
    BY <2>1, Product
<1>2. array = [k \in 1..(L * size) |->
                 EntryCells(slots[((k - 1) \div size) + 1], size)[((k - 1) % size) + 1]]
  BY DEF EntryArray
<1>3. ASSUME NEW k \in 1..(L * size) PROVE array[k] \in Nat
  <2> PICK q, r : q = (k - 1) \div size /\ r = (k - 1) % size
    OBVIOUS
  <2>1. k - 1 \in Int /\ size \in Int /\ size > 0
    BY <1>1
  <2>2. k - 1 = size * q + r /\ q \in Int /\ r \in 0..(size - 1)
    BY <2>1, Division
  <2>3. q >= 0
    <3> SUFFICES ASSUME q < 0 PROVE FALSE
      BY <2>2
    <3>1. size * q <= 0 - size
      BY <2>2
    <3> QED
      BY <1>1, <2>2, <3>1
  <2>4. q < L
    <3> SUFFICES ASSUME L <= q PROVE FALSE
      BY <1>1, <2>2
    <3>0. q \in Nat /\ L <= q /\ size \in Nat
      BY <2>2, <2>3
    <3>1. size * L <= size * q
      BY <1>1, <3>0, Product
    <3>2. L * size = size * L
      BY <1>1
    <3>3. size * L \in Int /\ size * q \in Int
      BY <1>1, <2>2
    <3> QED
      BY <1>1, <2>2, <3>1, <3>2, <3>3
  <2>5. q + 1 \in 1..L
    BY <1>1, <2>2, <2>3, <2>4
  <2> PICK e : e = EntryCells(slots[q + 1], size)
    OBVIOUS
  <2>6. e \in Seq(Nat) /\ Len(e) = size
    BY <1>1, <2>5, EntryOfSlot
  <2>7. r + 1 \in 1..Len(e)
    BY <2>2, <2>6
  <2>8. e[r + 1] \in Nat
    BY <2>6, <2>7, ElementOfSeq
  <2> QED
    BY <1>2, <2>8
<1>4. array \in Seq(Nat) /\ Len(array) = L * size
  <2> PICK N : N = L * size
    OBVIOUS
  <2>1. N \in Nat /\ array \in [1..N -> Nat]
    BY <1>1, <1>2, <1>3
  <2>2. array \in Seq(Nat) /\ Len(array) = N
    BY <2>1
  <2> QED
    BY <2>2
<1>5. ASSUME NEW i \in 1..L PROVE EntryAt(array, i, size) = EntryCells(slots[i], size)
  <2>0. PICK p, e : p = size * (i - 1) /\ e = EntryCells(slots[i], size)
    OBVIOUS
  <2>1. p \in Nat /\ size * i = p + size /\ size * i <= L * size
    <3>1. i - 1 \in Nat /\ size * (i - 1) \in Nat
      BY <1>1, Product
    <3>2. size * i <= size * L
      <4>1. i \in Nat /\ i <= L /\ size \in Nat
        BY <1>1
      <4> QED
        BY <1>1, <4>1, Product
    <3>3. size * L = L * size /\ size * i = size * (i - 1) + size
      BY <1>1
    <3> QED
      BY <2>0, <3>1, <3>2, <3>3
  <2>2. EntryAt(array, i, size) = SubSeq(array, p + 1, p + size)
    BY <2>0, <2>1 DEF EntryAt
  <2>3. EntryAt(array, i, size) = [k \in 1..size |-> array[p + k]]
    BY <1>1, <1>4, <2>1, <2>2
  <2>4. ASSUME NEW k \in 1..size PROVE array[p + k] = e[k]
    <3>1. /\ i \in Int /\ k \in Int /\ size \in Int /\ size > 0 /\ k - 1 \in 0..(size - 1)
          /\ L * size \in Int
      BY <1>1
    <3>2. PICK t : t = p + k
      OBVIOUS
    <3>3. (t - 1) % size = k - 1 /\ (t - 1) \div size = i - 1
      <4>1. /\ (size * (i - 1) + k - 1) % size = k - 1
            /\ (size * (i - 1) + k - 1) \div size = i - 1
        BY <3>1, CellOfEntry
      <4>2. t = size * (i - 1) + k
        BY <2>0, <3>2
      <4> QED
        BY <4>1, <4>2
    <3>4. p + k \in 1..(L * size)
      <4>0. PICK u, N : u = size * i /\ N = L * size
        OBVIOUS
      <4>1. u = p + size /\ u <= N /\ N \in Int
        BY <2>1, <3>1, <4>0
      <4>2. p + k \in 1..N
        BY <2>1, <3>1, <4>1
      <4> QED
        BY <4>0, <4>2
    <3>5. array[t] = EntryCells(slots[((t - 1) \div size) + 1], size)[((t - 1) % size) + 1]
      <4>1. t \in 1..(L * size)
        BY <3>2, <3>4
      <4> QED
        BY <1>2, <4>1
    <3>6. i - 1 + 1 = i /\ k - 1 + 1 = k
      BY <3>1
    <3> QED
      BY <2>0, <3>2, <3>3, <3>5, <3>6
  <2>5. e \in Seq(Nat) /\ Len(e) = size
    BY <1>1, <2>0, EntryOfSlot
  <2>6. e = [k \in 1..size |-> e[k]]
    <3>1. e \in [1..size -> Nat]
      BY <2>5, LenProperties
    <3> QED
      BY <3>1
  <2> QED
    BY <2>0, <2>3, <2>4, <2>6
<1> QED
  BY <1>4, <1>5

\* The header's checksum is none of what it is taken over.
LEMMA CoveredHeader ==
  ASSUME NEW header, NEW c, DOMAIN Place \subseteq DOMAIN header
  PROVE  Covered([header EXCEPT !.crc = c]) = Covered(header)
<1> PICK h : h = [header EXCEPT !.crc = c]
  OBVIOUS
<1>1. \A f \in DOMAIN header : f # "crc" => h[f] = header[f]
  OBVIOUS
<1>2. h.size = header.size
  <2>1. "size" \in DOMAIN header
    BY DEF Place
  <2> QED
    BY <1>1, <2>1
<1>3. CoveredFields(h) = CoveredFields(header)
  BY <1>2 DEF CoveredFields
<1>4. CoveredFields(header) \subseteq DOMAIN header
  BY DEF CoveredFields
<1>5. Covered(h) = Covered(header)
  BY <1>1, <1>3, <1>4 DEF Covered
<1> QED
  BY <1>5

\* The array is found where the header says.
LEMMA ArrayIsFound ==
  ASSUME NEW image, NEW made, ImageAssumption(image), made = Made(image)
  PROVE  /\ Array(made) = EntryArray(image.slots, image.size)
         /\ Len(Array(made)) = ArrayLength(made.header)
         /\ made.header.array_crc = Array(made)
         /\ made.header.crc = Covered(made.header)
         /\ made.header.count = Len(image.slots) /\ made.header.entry_size = image.size
         /\ made.header.entry_lba = image.lba /\ made.header.signature
         /\ made.header.size = image.header_size /\ made.header.length = 8
<1>0. PICK slots, size, lba, array, header, gap :
      /\ slots = image.slots /\ size = image.size /\ lba = image.lba
      /\ array = EntryArray(slots, size)
      /\ header = [length |-> 8, signature |-> TRUE, size |-> image.header_size, crc |-> <<>>,
                   entry_lba |-> lba, count |-> Len(slots), entry_size |-> size,
                   array_crc |-> array, reserved |-> image.reserved]
      /\ gap = [i \in 1..(lba - 2) |-> 9]
  OBVIOUS
<1>1. slots \in Seq(Nat \X Nat) /\ size \in Nat \ {0, 1} /\ lba \in Nat \ {0, 1}
  BY <1>0 DEF ImageAssumption
<1>2. /\ made.header = [header EXCEPT !.crc = Covered(header)]
      /\ made.data = gap \o array
  BY <1>0 DEF Made, Partitioned
<1>3. /\ made.header.array_crc = array /\ made.header.count = Len(slots)
      /\ made.header.entry_size = size /\ made.header.entry_lba = lba /\ made.header.signature
      /\ made.header.crc = Covered(header)
      /\ made.header.size = image.header_size /\ made.header.length = 8
  BY <1>0, <1>2
<1>4. made.header.crc = Covered(made.header)
  <2>1. DOMAIN Place \subseteq DOMAIN header
    <3>1. DOMAIN header = {"length", "signature", "size", "crc", "entry_lba", "count",
                           "entry_size", "array_crc", "reserved"}
      BY <1>0
    <3>2. DOMAIN Place = {"signature", "size", "crc", "entry_lba", "count", "entry_size",
                          "array_crc", "reserved"}
      BY DEF Place
    <3> QED
      BY <3>1, <3>2
  <2>2. PICK c : c = Covered(header)
    OBVIOUS
  <2>3. Covered([header EXCEPT !.crc = c]) = Covered(header)
    BY <2>1, CoveredHeader
  <2>4. made.header = [header EXCEPT !.crc = c] /\ made.header.crc = Covered(header)
    BY <1>2, <1>3, <2>2
  <2>5. Covered(made.header) = Covered(header)
    BY <2>3, <2>4, Zenon
  <2> QED
    BY <2>4, <2>5, Zenon
<1>5. array \in Seq(Nat) /\ Len(array) = Len(slots) * size /\ Len(array) \in Nat
  BY <1>0, <1>1, ArrayOfSlots, LenProperties
<1>6. gap \in Seq(Nat) /\ Len(gap) = lba - 2
  <2>1. gap = [i \in 1..(lba - 2) |-> 9] /\ lba - 2 \in Nat
    BY <1>0, <1>1
  <2> QED
    BY <2>1
<1>8. ArrayLength(made.header) = Len(array)
  BY <1>3, <1>5 DEF ArrayLength
<1>9. Array(made) = array
  <2>a. PICK n, m : n = Len(array) /\ m = lba - 2
    OBVIOUS
  <2>0. n \in Nat /\ m \in Nat /\ lba - 1 = m + 1
    <3>1. n \in Nat
      BY <1>5, <2>a
    <3>2. m \in Nat /\ lba - 1 = m + 1
      BY <1>1, <2>a
    <3> QED
      BY <3>1, <3>2
  <2>1. /\ Len(gap \o array) = m + n
        /\ SubSeq(gap \o array, m + 1, m + n) = array
    <3>1. m = Len(gap) /\ n = Len(array)
      BY <1>6, <2>a
    <3>2. /\ Len(gap \o array) = Len(gap) + Len(array)
          /\ SubSeq(gap \o array, Len(gap) + 1, Len(gap) + Len(array)) = array
      BY <1>5, <1>6, Behind
    <3> QED
      BY <3>1, <3>2
  <2>2. made.header.entry_lba - 1 = m + 1 /\ ArrayLength(made.header) = n
    BY <1>3, <1>8, <2>0, <2>a
  <2>3. made.header.entry_lba - 1 + ArrayLength(made.header) - 1 = m + n /\ m + n <= m + n
    BY <2>0, <2>2
  <2> QED
    BY <1>2, <2>1, <2>2, <2>3 DEF Array
<1> QED
  BY <1>0, <1>3, <1>4, <1>8, <1>9

\* A table that passes the checks is intact: its checksum covers all that is used
\* of the header, the checksum of the array among it.
LEMMA ValidIsIntact ==
  ASSUME NEW image, ImageAssumption(image), GptValid(image)
  PROVE  image.intact /\ Prefix \subseteq CoveredFields(image.header)
<1> PICK h, made, g : h = image.header /\ made = Made(image) /\ g = made.header
  OBVIOUS
<1>1. h.crc = Covered(h) /\ h.array_crc = Array(image) /\ HEADER_PREFIX_LEN <= h.size
  BY DEF GptValid, HeaderValid, HeaderSizeValid
<1>2. g.crc = Covered(g) /\ g.array_crc = Array(made)
  BY ArrayIsFound
<1>3. Prefix \subseteq CoveredFields(h)
  <2>1. h.size \in Nat
    BY DEF ImageAssumption
  <2> QED
    BY <1>1, <2>1 DEF Prefix, CoveredFields, Place, HEADER_PREFIX_LEN
<1>4. {"size", "crc", "array_crc"} \subseteq Prefix
  BY DEF Prefix, Place, HEADER_PREFIX_LEN
<1>5. ASSUME ~image.intact PROVE FALSE
  <2>1. Damaged(image, made)
    BY <1>5 DEF ImageAssumption
  <2>2. Covered(h) = Covered(g)
    BY <1>1, <2>1 DEF Damaged
  <2>3. CoveredFields(h) = CoveredFields(g)
    BY <2>2 DEF Covered
  <2>4. \A f \in CoveredFields(g) : f # "crc" => h[f] = g[f]
    <3> SUFFICES ASSUME NEW f \in CoveredFields(g), f # "crc" PROVE h[f] = g[f]
      OBVIOUS
    <3>1. Covered(h)[f] = h[f] /\ Covered(g)[f] = g[f]
      BY <2>3 DEF Covered
    <3> QED
      BY <2>2, <3>1
  <2>5. \A f \in Prefix \cup CoveredFields(g) : h[f] = g[f]
    BY <1>1, <1>2, <1>3, <2>2, <2>3, <2>4
  <2>6. Array(image) # Array(made)
    BY <2>1, <2>5 DEF Damaged
  <2>7. h.array_crc = g.array_crc
    BY <1>4, <2>5
  <2> QED
    BY <1>1, <1>2, <2>6, <2>7
<1> QED
  BY <1>3, <1>5

\* An intact image's table, as it was made.
LEMMA IntactTable ==
  ASSUME NEW image, ImageAssumption(image), image.intact
  PROVE  /\ Array(image) = EntryArray(image.slots, image.size)
         /\ Len(Array(image)) = ArrayLength(image.header)
         /\ image.header.array_crc = Array(image)
         /\ image.header.crc = Covered(image.header)
         /\ image.header.count = Len(image.slots) /\ image.header.entry_size = image.size
         /\ image.header.entry_lba = image.lba /\ image.header.signature
         /\ image.header.length = 8
<1>1. image = Made(image)
  BY DEF ImageAssumption
<1>2. PICK made : made = Made(image)
  OBVIOUS
<1>3. /\ Array(made) = EntryArray(image.slots, image.size)
      /\ Len(Array(made)) = ArrayLength(made.header)
      /\ made.header.array_crc = Array(made)
      /\ made.header.crc = Covered(made.header)
      /\ made.header.count = Len(image.slots) /\ made.header.entry_size = image.size
      /\ made.header.entry_lba = image.lba /\ made.header.signature
      /\ made.header.length = 8
  BY <1>2, ArrayIsFound
<1>4. made = image
  BY <1>1, <1>2
<1> QED
  BY <1>3, <1>4

\* A table that is well made passes the checks.
LEMMA WellMadeIsValid ==
  ASSUME NEW image, ImageAssumption(image), WellMade(image)
  PROVE  GptValid(image)
<1>0. /\ image.intact /\ ArrayLength(image.header) <= MaxEntryArray
      /\ image.header.size \in HEADER_PREFIX_LEN..image.header.length
  BY DEF WellMade
<1>1. /\ image.slots \in Seq(Nat \X Nat) /\ image.slots # <<>>
      /\ EntrySizeValid(image.size) /\ image.lba # 0
  BY DEF ImageAssumption
<1>2. Len(image.slots) # 0
  BY <1>1
<1>3. ArrayFits(image.header)
  BY <1>0, <1>2, IntactTable DEF ArrayFits
<1>4. HEADER_PREFIX_LEN <= image.header.length /\ HeaderSizeValid(image.header)
  <2>1. image.header.length = 8
    BY <1>0, IntactTable
  <2> QED
    BY <1>0, <2>1 DEF HeaderSizeValid, HEADER_PREFIX_LEN
<1>5. HeaderValid(image.header)
  BY <1>0, <1>1, <1>3, <1>4, IntactTable DEF HeaderValid
<1> QED
  BY <1>0, <1>5, IntactTable DEF GptValid

\* The entries of an intact table are the cells of the partitions in use, and
\* the first that is an EFI system partition's is that of the first slot of one.
LEMMA IntactEntries ==
  ASSUME NEW image, ImageAssumption(image), image.intact
  PROVE  /\ Entries(image) = [i \in 1..Len(Partitions(image)) |->
                                EntryCells(Partitions(image)[i], image.header.entry_size)]
         /\ EspIndex(image) # 0 =>
              \E i \in DOMAIN image.slots :
                 /\ image.slots[i][1] = ESP_GUID
                 /\ \A j \in 1..(i - 1) : image.slots[j][1] # ESP_GUID
                 /\ Entries(image)[EspIndex(image)][2] = image.slots[i][2]
<1>1. PICK slots, size, L, ents, used :
        /\ slots = image.slots /\ size = image.size /\ L = Len(slots)
        /\ ents = [i \in 1..L |-> EntryCells(slots[i], size)]
        /\ used = {i \in 1..L : slots[i][1] # ZERO_GUID}
  OBVIOUS
<1>2. /\ slots \in Seq(Nat \X Nat) /\ size \in Nat \ {0, 1} /\ L \in Nat
      /\ \A i \in 1..L : slots[i] \in Nat \X Nat
  <2>1. slots \in Seq(Nat \X Nat) /\ size \in Nat \ {0, 1}
    BY <1>1 DEF ImageAssumption
  <2>2. L \in Nat
    BY <1>1, <2>1, LenProperties
  <2> QED
    BY <1>1, <2>1, <2>2, ElementOfSeq
<1>3. \A i \in 1..L : /\ EntryCells(slots[i], size) \in Seq(Nat)
                      /\ EntryCells(slots[i], size)[1] = slots[i][1]
                      /\ EntryCells(slots[i], size)[2] = slots[i][2]
  BY <1>2, EntryOfSlot
<1>4. ents \in Seq(Seq(Nat)) /\ Len(ents) = L
  BY <1>1, <1>2, <1>3
<1>5. [i \in 1..image.header.count |->
         EntryAt(Array(image), i, image.header.entry_size)] = ents
  <2>1. \A i \in 1..L : EntryAt(EntryArray(slots, size), i, size) = EntryCells(slots[i], size)
    BY <1>1, <1>2, ArrayOfSlots
  <2>2. /\ image.header.count = L /\ image.header.entry_size = size
        /\ Array(image) = EntryArray(slots, size)
    BY <1>1, IntactTable
  <2>3. [i \in 1..L |-> EntryAt(EntryArray(slots, size), i, size)] = ents
    BY <1>1, <2>1
  <2> QED
    BY <2>2, <2>3
<1>6. PICK n, g : InOrder(g, n, used)
  <2>1. 1..L \subseteq Nat /\ IsFiniteSet(1..L)
    BY <1>2, FS_Interval
  <2>2. used \in SUBSET (1..L)
    BY <1>1
  <2>3. used \in SUBSET Nat /\ IsFiniteSet(used)
    BY <2>1, <2>2, FS_Subset
  <2> QED
    BY <2>3, OrderExists
<1>7. /\ n \in Nat /\ \A k \in 1..n : g[k] \in 1..L /\ g[k] \in used
      /\ \A j, k \in 1..n : j < k => g[j] < g[k]
      /\ \A i \in used : \E k \in 1..n : g[k] = i
  BY <1>1, <1>6 DEF InOrder
<1>8. Partitions(image) = [k \in 1..n |-> slots[g[k]]]
  <2>1. Partitions(image) = Taken(slots, used)
    BY <1>1 DEF Partitions, Chosen, Places
  <2>2. used \in SUBSET Nat /\ InOrder(g, n, used)
    BY <1>1, <1>2, <1>6
  <2> QED
    BY <1>2, <2>1, <2>2, TakenInOrder
<1>9. Entries(image) = [k \in 1..n |-> ents[g[k]]]
  <2>1. Entries(image) = Chosen(ents, LAMBDA e : e[1] # ZERO_GUID)
    BY <1>5 DEF Entries
  <2>2. {i \in 1..Len(ents) : ents[i][1] # ZERO_GUID} = used
    BY <1>1, <1>3, <1>4
  <2>3. Entries(image) = Taken(ents, used)
    BY <2>1, <2>2 DEF Chosen, Places
  <2>4. used \in SUBSET Nat /\ InOrder(g, n, used)
    BY <1>1, <1>2, <1>6
  <2> QED
    BY <1>4, <2>3, <2>4, TakenInOrder
<1>10. \A k \in 1..n : ents[g[k]] = EntryCells(slots[g[k]], size)
  BY <1>1, <1>7
<1>11. Entries(image) = [i \in 1..Len(Partitions(image)) |->
                           EntryCells(Partitions(image)[i], image.header.entry_size)]
  <2>1. PICK p : p = Partitions(image)
    OBVIOUS
  <2>2. Len(p) = n
    BY <1>7, <1>8, <2>1
  <2>3. [k \in 1..n |-> ents[g[k]]] = [k \in 1..n |-> EntryCells(p[k], size)]
    BY <1>8, <1>10, <2>1
  <2>4. image.header.entry_size = size
    BY <1>1, IntactTable
  <2> QED
    BY <1>9, <2>1, <2>2, <2>3, <2>4
<1>12. ASSUME EspIndex(image) # 0
       PROVE  \E i \in DOMAIN image.slots :
                 /\ image.slots[i][1] = ESP_GUID
                 /\ \A j \in 1..(i - 1) : image.slots[j][1] # ESP_GUID
                 /\ Entries(image)[EspIndex(image)][2] = image.slots[i][2]
  <2>1. PICK entries, esps :
          /\ entries = Entries(image)
          /\ esps = {k \in 1..Len(entries) : entries[k][1] = ESP_GUID}
    OBVIOUS
  <2>2. /\ Len(entries) = n
        /\ \A k \in 1..n : /\ entries[k][1] = slots[g[k]][1]
                           /\ entries[k][2] = slots[g[k]][2]
    <3>1. entries = [k \in 1..n |-> ents[g[k]]]
      BY <1>9, <2>1
    <3>2. Len(entries) = n
      BY <1>7, <3>1
    <3>3. \A k \in 1..n : entries[k] = EntryCells(slots[g[k]], size)
      BY <1>10, <3>1
    <3> QED
      BY <1>3, <1>7, <3>2, <3>3
  <2>3. EspIndex(image) = IF esps # {} THEN CHOOSE x \in esps : \A y \in esps : x <= y ELSE 0
    BY <2>1 DEF EspIndex, SelectInSeq, Min
  <2>4. esps # {} /\ esps \in SUBSET Nat
    BY <1>12, <2>1, <2>3
  <2>5. \E x \in esps : \A y \in esps : x <= y
    BY <2>4, LeastMember
  <2>6. PICK m : m = EspIndex(image)
    OBVIOUS
  <2>7. m \in esps /\ \A y \in esps : m <= y
    <3>1. m = CHOOSE x \in esps : \A y \in esps : x <= y
      BY <2>3, <2>4, <2>6
    <3> QED
      BY <2>5, <3>1
  <2>8. m \in 1..n /\ g[m] \in 1..L /\ slots[g[m]][1] = ESP_GUID /\ entries[m][2] = slots[g[m]][2]
    BY <1>7, <2>1, <2>2, <2>7
  <2>9. ASSUME NEW j \in 1..(g[m] - 1) PROVE slots[j][1] # ESP_GUID
    <3>0. SUFFICES ASSUME slots[j][1] = ESP_GUID PROVE FALSE
      OBVIOUS
    <3>1. j \in 1..L /\ j < g[m]
      <4>1. PICK q : q = g[m]
        OBVIOUS
      <4>2. q \in 1..L
        BY <2>8, <4>1
      <4>3. j \in 1..(q - 1)
        BY <4>1
      <4>4. j \in 1..L /\ j < q
        BY <1>2, <4>2, <4>3
      <4> QED
        BY <4>1, <4>4
    <3>2. ESP_GUID # ZERO_GUID
      BY DEF ESP_GUID, ZERO_GUID
    <3>3. j \in used
      BY <1>1, <3>0, <3>1, <3>2
    <3>4. PICK k \in 1..n : g[k] = j
      BY <1>7, <3>3
    <3>5. entries[k][1] = ESP_GUID
      BY <2>2, <3>0, <3>4
    <3>6. m <= k
      BY <2>1, <2>2, <2>7, <3>5
    <3>7. m = k \/ g[m] < g[k]
      BY <1>7, <2>8, <3>6
    <3> QED
      BY <1>2, <2>8, <3>1, <3>4, <3>7
  <2>10. g[m] \in DOMAIN image.slots
    <3>1. DOMAIN slots = 1..L
      BY <1>1, <1>2, LenProperties
    <3> QED
      BY <1>1, <2>8, <3>1
  <2> QED
    BY <1>1, <2>1, <2>6, <2>8, <2>9, <2>10
<1> QED
  BY <1>11, <1>12

(* ---- What has been found out about the image --------------------------- *)

\* The disk is that of the call throughout.
LEMMA InputKept ==
  ASSUME NEW image, RawImage = image, input' = input
  PROVE  RawImage' = image /\ Meant' = Meant
<1>1. Candidates' = Candidates
  BY DEF Candidates
<1>2. Member' = Member
  BY <1>1 DEF Member
<1> QED
  BY <1>1, <1>2 DEF RawImage, Meant

\* The image of a disk in no archive, or of the archive's one raw member, is the
\* only one that can be meant.
LEMMA MeantOfRawDisk ==
  ASSUME IInv, ~input.archive
  PROVE  Meant = {RawImage}
<1>1. DOMAIN input.members = {1} /\ input.members[1].raw
  BY InputsAssumption DEF IInv
<1>2. Candidates = {1}
  BY <1>1 DEF Candidates
<1> QED
  BY <1>2 DEF Meant, RawImage

LEMMA MeantOfMember ==
  ASSUME input.archive, Unambiguous
  PROVE  Meant = {RawImage}
<1>1. PICK i \in Candidates : Candidates = {i}
  BY DEF Unambiguous
<1>2. Member = input.members[i]
  BY <1>1 DEF Member
<1> QED
  BY <1>1, <1>2 DEF Meant, RawImage

\* The images that can be meant are those the caller may name.
LEMMA MeantAreImages ==
  ASSUME IInv
  PROVE  \A image \in Meant : ImageAssumption(image)
BY InputsAssumption DEF IInv, Meant, Candidates

LEMMA InitAnswers == Init => \E image : AnswersOf(image)
<1> SUFFICES ASSUME Init PROVE \E image : AnswersOf(image)
  OBVIOUS
<1>1. PICK image : image = RawImage
  OBVIOUS
<1>2. pc = "open"
  BY DEF Init
<1>3. OneImage(image) /\ TableOf(image) /\ UkiFrom(image)
  BY <1>2 DEF OneImage, TableOf, UkiFrom
<1> QED
  BY <1>1, <1>3 DEF AnswersOf

\* An archive that gives up one image is not refused.
LEMMA RaisedForTheArchive ==
  ASSUME IInv, ChooseMember \/ ArchiveFails \/ CopyChunk, pc' = "raised"
  PROVE  ~GivesOneImage
<1> SUFFICES ASSUME GivesOneImage PROVE FALSE
  OBVIOUS
<1>1. PICK i \in Candidates :
        /\ Candidates = {i}
        /\ input.members[i].file /\ input.members[i].inside
        /\ input.members[i].declared <= MaxExtractBytes
        /\ input.members[i].length <= MaxExtractBytes
  BY DEF GivesOneImage
<1>2. Member = input.members[i]
  BY <1>1 DEF Member
<1>3. CASE ChooseMember
  <2>1. MemberAcceptable
    BY <1>1, <1>2 DEF MemberAcceptable, Unambiguous
  <2> QED
    BY <1>3, <2>1 DEF ChooseMember
<1>4. CASE ArchiveFails
  BY <1>4 DEF ArchiveFails, GivesOneImage
<1>5. CASE CopyChunk
  <2>1. pc = "copy" /\ copied < Member.length /\ copied \in Nat
    BY <1>5 DEF CopyChunk, IInv, TypeOK
  <2>2. Member.length \in Nat
    BY <2>1, MemberHasSize
  <2>3. copied + Chunk <= Member.length /\ Chunk \in Nat
    BY <2>1, <2>2, SizesAssumption DEF Chunk
  <2>4. ~OverLimit(copied + Chunk)
    BY <1>1, <1>2, <2>1, <2>2, <2>3, SizesAssumption DEF OverLimit
  <2> QED
    BY <1>5, <2>1, <2>4 DEF CopyChunk
<1> QED
  BY <1>3, <1>4, <1>5

\* The image is got at: a raw disk's is the only one, an archive's is chosen and
\* copied, and what fails before that leaves nothing that has been found out.
LEMMA ImageStep ==
  ASSUME NEW image, IInv, AnswersOf(image), input' = input,
         UseRawDisk \/ MakeTempDir \/ ChooseMember \/ ArchiveFails \/ CopyChunk \/ EndCopy
  PROVE  AnswersOf(image)'
<1>1. RawImage = image /\ OneImage(image) /\ RawImage' = image /\ Meant' = Meant
  BY InputKept DEF AnswersOf
<1>0. GivesOneImage' = GivesOneImage
  BY DEF GivesOneImage, Candidates
<1>2. CASE pc' = "raised" /\ input.archive /\ ~GivesOneImage
  BY <1>0, <1>1, <1>2 DEF AnswersOf, OneImage, TableOf, UkiFrom
<1>3. CASE pc' \in {"choose", "copy"} /\ input.archive
  BY <1>1, <1>3 DEF AnswersOf, OneImage, TableOf, UkiFrom
<1>4. CASE pc' = "read" /\ Meant = {image}
  BY <1>1, <1>4 DEF AnswersOf, OneImage, TableOf, UkiFrom
<1>5. pc \in {"choose", "copy"} => input.archive
  BY <1>1 DEF OneImage
<1>6. CASE UseRawDisk
  <2>1. pc' = "read" /\ ~input.archive
    BY <1>6 DEF UseRawDisk
  <2> QED
    BY <1>1, <1>4, <2>1, MeantOfRawDisk
<1>7. CASE MakeTempDir
  BY <1>3, <1>7 DEF MakeTempDir
<1>8. CASE ChooseMember \/ ArchiveFails \/ CopyChunk
  <2>1. pc \in {"choose", "copy"} /\ pc' \in {"choose", "copy", "raised"}
    BY <1>8 DEF ChooseMember, ArchiveFails, CopyChunk, RaiseFromResolve
  <2>2. pc' = "raised" => ~GivesOneImage
    BY <1>8, <2>1, RaisedForTheArchive
  <2> QED
    BY <1>2, <1>3, <1>5, <2>1, <2>2
<1>9. CASE EndCopy
  <2>1. pc = "copy" /\ pc' = "read"
    BY <1>9 DEF EndCopy
  <2>2. input.archive /\ Unambiguous
    BY <1>5, <2>1 DEF IInv, CopyOfTheMember
  <2> QED
    BY <1>1, <1>4, <2>1, <2>2, MeantOfMember
<1> QED
  BY <1>6, <1>7, <1>8, <1>9

\* The table is read, or the EFI system partition found in it.
LEMMA ReadTableAnswers ==
  ASSUME NEW image, IInv, AnswersOf(image), input' = input, ReadTable
  PROVE  AnswersOf(image)'
<1>1. RawImage = image /\ RawImage' = image /\ Meant' = Meant
  BY InputKept DEF AnswersOf
<1>2. pc = "read" /\ job' = "gpt" /\ pc' = "cleanup" /\ Meant = {image}
  BY DEF ReadTable, AnswersOf, OneImage
<1>3. result' = IF GptValid(image) THEN EventData(PrefixOf(image.header), Entries(image))
                                   ELSE NoResult
  BY <1>1 DEF ReadTable
<1>4. /\ EventData(PrefixOf(image.header), Entries(image)) # NoResult
      /\ result'.of # "output"
  BY <1>3 DEF EventData, NoResult
<1>5. TableOf(image)'
  BY <1>2, <1>3, <1>4 DEF TableOf
<1> QED
  BY <1>1, <1>2, <1>4, <1>5 DEF AnswersOf, OneImage, UkiFrom

LEMMA FindEspAnswers ==
  ASSUME NEW image, IInv, AnswersOf(image), input' = input, FindEsp
  PROVE  AnswersOf(image)'
<1>1. RawImage = image /\ RawImage' = image /\ Meant' = Meant
  BY InputKept DEF AnswersOf
<1>2. /\ pc = "read" /\ job' = "uki" /\ result' = result /\ Meant = {image}
      /\ \/ pc' = "mcopy" /\ GptValid(image) /\ EspIndex(image) # 0
         \/ pc' = "cleanup"
  BY <1>1 DEF FindEsp, AnswersOf, OneImage
<1>3. result'.of # "output"
  BY <1>2 DEF IInv, ResultsInOrder, NoResult
<1> QED
  BY <1>1, <1>2, <1>3 DEF AnswersOf, OneImage, TableOf, UkiFrom

\* A UKI that has been copied out is the partition's.
LEMMA McopyAnswers ==
  ASSUME NEW image, IInv, AnswersOf(image), input' = input, NEW status \in {0, 1}, Mcopy(status)
  PROVE  AnswersOf(image)'
<1>1. RawImage = image /\ RawImage' = image /\ Meant' = Meant
  BY InputKept DEF AnswersOf
<1>2. /\ pc = "mcopy" /\ job' = "uki" /\ pc' = "cleanup" /\ Meant = {image}
      /\ GptValid(image) /\ EspIndex(image) # 0
  BY DEF Mcopy, AnswersOf, OneImage, UkiFrom, IInv, ResultsInOrder
<1>3. result'.of = "output" => output' = UkiOf(image)
  <2>1. CASE status = 0
    BY <1>1, <2>1 DEF Mcopy, Copied
  <2>2. CASE status # 0
    BY <2>2 DEF Mcopy, Succeeded, NoResult
  <2> QED
    BY <2>1, <2>2
<1> QED
  BY <1>1, <1>2, <1>3 DEF AnswersOf, OneImage, TableOf, UkiFrom

\* What is returned is what was found, and what is raised is that it was not.
LEMMA CleanupAnswers ==
  ASSUME NEW image, IInv, AnswersOf(image), input' = input, Cleanup
  PROVE  AnswersOf(image)'
<1>1. RawImage = image /\ RawImage' = image /\ Meant' = Meant
  BY InputKept DEF AnswersOf
<1>2. /\ pc = "cleanup" /\ UNCHANGED <<job, output, result>> /\ Meant = {image}
  BY DEF Cleanup, AnswersOf, OneImage
<1>3. result.of \in {"nothing", "gpt", "output"} /\ job \in {"gpt", "uki"}
  BY <1>2 DEF IInv, TypeOK
<1>4. \/ result = NoResult /\ pc' = "raised"
      \/ result # NoResult /\ job = "gpt" /\ pc' = "returned"
      \/ result.of = "output" /\ job = "uki" /\ pc' = "digest"
  BY <1>2, <1>3 DEF Cleanup, IInv, ResultsInOrder
<1>5. OneImage(image)'
  BY <1>1, <1>2, <1>4 DEF OneImage
<1>6. TableOf(image)'
  <2>1. GivesOneImage' = GivesOneImage
    BY DEF GivesOneImage, Candidates
  <2> QED
    BY <1>2, <1>4, <2>1 DEF AnswersOf, TableOf
<1>7. UkiFrom(image)'
  BY <1>2, <1>4 DEF AnswersOf, UkiFrom
<1> QED
  BY <1>1, <1>5, <1>6, <1>7 DEF AnswersOf

LEMMA DigestAnswers ==
  ASSUME NEW image, IInv, AnswersOf(image), input' = input, Digest
  PROVE  AnswersOf(image)'
<1>1. RawImage = image /\ RawImage' = image /\ Meant' = Meant
  BY InputKept DEF AnswersOf
<1>2. /\ pc = "digest" /\ pc' = "returned" /\ job' = "uki" /\ result' = output /\ Meant = {image}
      /\ GptValid(image) /\ EspIndex(image) # 0 /\ output = UkiOf(image)
  BY DEF Digest, AnswersOf, OneImage, UkiFrom, IInv, ResultsInOrder
<1> QED
  BY <1>1, <1>2 DEF AnswersOf, OneImage, TableOf, UkiFrom

LEMMA AnswersStep ==
  ASSUME NEW image, IInv, AnswersOf(image), [Next]_vars
  PROVE  AnswersOf(image)'
<1>1. input' = input
  BY DEF Next, vars, UseRawDisk, MakeTempDir, ChooseMember, ArchiveFails, CopyChunk, EndCopy,
         RaiseFromResolve, ReadTable, FindEsp, Mcopy, Cleanup, Digest
<1>2. CASE UNCHANGED vars
  <2>1. UNCHANGED <<input, job, output, result, pc>>
    BY <1>2 DEF vars
  <2>2. RawImage = image /\ RawImage' = image /\ Meant' = Meant
    BY <1>1, InputKept DEF AnswersOf
  <2>3. GivesOneImage' = GivesOneImage
    BY <2>1 DEF GivesOneImage, Candidates
  <2> QED
    BY <2>1, <2>2, <2>3 DEF AnswersOf, OneImage, TableOf, UkiFrom
<1>3. CASE Next
  BY <1>1, <1>3, ImageStep, ReadTableAnswers, FindEspAnswers, McopyAnswers, CleanupAnswers,
     DigestAnswers DEF Next
<1> QED
  BY <1>2, <1>3

\* What is known of the image, throughout a call.
LEMMA Answers == Spec => [](IInv /\ \E image : AnswersOf(image))
<1>1. Init => IInv /\ \E image : AnswersOf(image)
  BY InitInvariant, InitAnswers
<1>2. IInv /\ (\E image : AnswersOf(image)) /\ [Next]_vars => (IInv /\ \E image : AnswersOf(image))'
  <2> SUFFICES ASSUME IInv, [Next]_vars, \E image : AnswersOf(image)
               PROVE  IInv' /\ (\E image : AnswersOf(image))'
    OBVIOUS
  <2>1. PICK image : AnswersOf(image)
    OBVIOUS
  <2> QED
    BY <2>1, StepInvariant, AnswersStep
<1> QED
  BY <1>1, <1>2, PTL DEF Spec

\* Whatever size a header says to have, the table returned is the one that was
\* made, its checksum covers all that is used of it, and it lists the partitions.
THEOREM PartitionsMeasured == Spec => []MeasuresThePartitions
<1>1. IInv /\ (\E image : AnswersOf(image)) => MeasuresThePartitions
  <2> SUFFICES ASSUME IInv, NEW image, AnswersOf(image), pc = "returned", job = "gpt",
                      NEW meant \in Meant
               PROVE  /\ meant.intact
                      /\ Prefix \subseteq CoveredFields(meant.header)
                      /\ result.header = PrefixOf(meant.header)
                      /\ result.entries =
                           [i \in 1..Len(Partitions(meant)) |->
                              EntryCells(Partitions(meant)[i], meant.header.entry_size)]
    BY DEF MeasuresThePartitions
  <2>1. meant = image /\ ImageAssumption(image)
    BY MeantAreImages DEF AnswersOf, OneImage
  <2>2. result # NoResult
    BY DEF IInv, ResultsInOrder, NoResult
  <2>3. GptValid(image) /\ result = EventData(PrefixOf(image.header), Entries(image))
    BY <2>2 DEF AnswersOf, TableOf
  <2>4. image.intact /\ Prefix \subseteq CoveredFields(image.header)
    BY <2>1, <2>3, ValidIsIntact
  <2>5. result.header = PrefixOf(image.header) /\ result.entries = Entries(image)
    BY <2>3 DEF EventData
  <2> QED
    BY <2>1, <2>4, <2>5, IntactEntries
<1> QED
  BY <1>1, Answers, PTL

\* The UKI returned is the one in the first EFI system partition of the disk.
THEOREM UkiIsTheDisks == Spec => []UkiOfTheDisk
<1>1. IInv /\ (\E image : AnswersOf(image)) => UkiOfTheDisk
  <2> SUFFICES ASSUME IInv, NEW image, AnswersOf(image), pc = "returned", job = "uki",
                      NEW meant \in Meant
               PROVE  /\ meant.intact
                      /\ Prefix \subseteq CoveredFields(meant.header)
                      /\ \E i \in DOMAIN meant.slots :
                           /\ meant.slots[i][1] = ESP_GUID
                           /\ \A j \in 1..(i - 1) : meant.slots[j][1] # ESP_GUID
                           /\ result = UkiIn(meant.slots[i][2])
    BY DEF UkiOfTheDisk
  <2>1. meant = image /\ ImageAssumption(image)
    BY MeantAreImages DEF AnswersOf, OneImage
  <2>2. GptValid(image) /\ EspIndex(image) # 0 /\ result = UkiOf(image)
    BY DEF AnswersOf, UkiFrom
  <2>3. image.intact /\ Prefix \subseteq CoveredFields(image.header)
    BY <2>1, <2>2, ValidIsIntact
  <2>4. PICK i \in DOMAIN image.slots :
          /\ image.slots[i][1] = ESP_GUID
          /\ \A j \in 1..(i - 1) : image.slots[j][1] # ESP_GUID
          /\ Entries(image)[EspIndex(image)][2] = image.slots[i][2]
    BY <2>1, <2>2, <2>3, IntactEntries
  <2>5. result = UkiIn(image.slots[i][2])
    BY <2>2, <2>4 DEF UkiOf
  <2> QED
    BY <2>1, <2>3, <2>4, <2>5
<1> QED
  BY <1>1, Answers, PTL

\* The table of a well made image is read, by itself or in an archive that gives
\* up that one image.
THEOREM TableReadWhenUsable == Spec => []TableIsRead
<1>1. IInv /\ (\E image : AnswersOf(image)) => TableIsRead
  <2> SUFFICES ASSUME IInv, NEW image, AnswersOf(image), pc = "raised", job = "gpt", Usable
               PROVE  FALSE
    BY DEF TableIsRead
  <2>1. image \in Meant
    <3>1. image = RawImage
      BY DEF AnswersOf
    <3>2. input.archive => Unambiguous
      BY DEF Usable, GivesOneImage, Unambiguous
    <3> QED
      BY <3>1, <3>2, MeantOfRawDisk, MeantOfMember
  <2>2. ImageAssumption(image) /\ WellMade(image)
    BY <2>1, MeantAreImages DEF Usable
  <2>3. GptValid(image)
    BY <2>2, WellMadeIsValid
  <2>4. ~GptValid(image) \/ (input.archive /\ ~GivesOneImage)
    BY DEF AnswersOf, TableOf
  <2> QED
    BY <2>3, <2>4 DEF Usable
<1> QED
  BY <1>1, Answers, PTL
=============================================================================

----------------------- MODULE TdxReconstructionProofs -----------------------
(***************************************************************************)
(* Theorems about the TDX registers, for every firmware, UKI, disk and     *)
(* layout: type correctness, that what a call has checked still holds of   *)
(* what it computes the registers from, that a refusal has a reason, and   *)
(* that the registers computed are those one machine reports.              *)
(***************************************************************************)
EXTENDS TdxReconstruction, FiniteSetTheorems, FunctionTheorems, SequenceTheorems, TLAPS

OfRtmr(es, rtmr) == Chosen(es, LAMBDA e : e.rtmr = rtmr)
OfGpt(es) == Chosen(es, LAMBDA e : e.label = "GPT_EVENT")
GptEvents == OfGpt(RtmrEvents(1))

\* What the steps behind pc have checked.
Verified ==
  pc \in {"mrtd", "rtmr0", "rtmr1", "rtmr2", "computed"} =>
    FirmwareVerified(baseline, request.firmware) /\ request.rtmr3 # "malformed"
MeasuredFirmware ==
  pc \in {"rtmr0", "rtmr1", "rtmr2", "computed"} =>
    /\ request.firmware \in SoundFirmwares
    /\ registers[1] = <<ComputedDigest("Firmware", request.firmware)>>
ReplayedBaseline ==
  pc \in {"rtmr1", "rtmr2", "computed"} =>
    /\ SupportedEvents(RtmrEvents(0)) /\ AllDecode(Rtmr0Digests(RtmrEvents(0)))
    /\ registers[2] = Rtmr0Digests(RtmrEvents(0))
ReplayedBoot ==
  pc \in {"rtmr2", "computed"} =>
    /\ request.disk # NotThere \/ GptEvents # <<>>
    /\ AllDecode(<<GptDigest(GptEvents)>>)
    /\ request.uki \in UkisWithKernel
    /\ registers[3] = Rtmr1Digests(GptDigest(GptEvents))
MeasuredSectionsOnly ==
  pc = "computed" =>
    /\ request.uki \in PlainUkis
    /\ registers[4] = <<ComputedDigest("Sections", request.uki)>>

\* Every step of a call speaks of the same baseline and of the same request:
\* what was checked first still holds when the last register is computed
\* (tdx/registers.py:143-180).
ChecksHold ==
  /\ Verified /\ MeasuredFirmware /\ ReplayedBaseline /\ ReplayedBoot /\ MeasuredSectionsOnly

IInv == TypeOK /\ (\E S : registers \in Seq(S)) /\ ChecksHold

StepVars == <<machine, log, baseline, edited, request>>

LEMMA InitInvariant == Init => IInv
<1> SUFFICES ASSUME Init PROVE IInv
  OBVIOUS
<1>1. registers \in Seq({}) /\ Len(registers) = 0 /\ pc = "idle"
  BY DEF Init
<1>2. TypeOK
  <2>1. baseline.firmware_sha384 = NotThere /\ baseline.secureboot = "off"
    BY DEF Init, NoBaseline
  <2>2. machine \in Machines /\ edited \in BOOLEAN
    BY DEF Init
  <2> QED
    BY <1>1, <2>1, <2>2 DEF TypeOK
<1>3. ChecksHold
  BY <1>1 DEF ChecksHold, Verified, MeasuredFirmware, ReplayedBaseline, ReplayedBoot,
              MeasuredSectionsOnly
<1> QED
  BY <1>1, <1>2, <1>3 DEF IInv

\* The steps between two calls leave no register to speak of.
LEMMA BetweenCalls ==
  ASSUME registers' = <<>>, pc' \in {"idle", "verify"},
         machine' \in Machines, baseline'.firmware_sha384 \in Firmwares \cup {NotThere},
         baseline'.secureboot \in {"on", "off"}, edited' \in BOOLEAN
  PROVE  IInv'
<1>1. registers' \in Seq({}) /\ Len(registers') = 0
  OBVIOUS
<1>2. TypeOK'
  BY <1>1 DEF TypeOK
<1>3. ChecksHold'
  BY DEF ChecksHold, Verified, MeasuredFirmware, ReplayedBaseline, ReplayedBoot,
         MeasuredSectionsOnly
<1> QED
  BY <1>1, <1>2, <1>3 DEF IInv

LEMMA NoRegistersYet ==
  ASSUME IInv, pc \in {"idle", "verify", "mrtd"}
  PROVE  registers = <<>>
  BY DEF IInv, TypeOK

\* What a step keeps, said of the operators of the state.
LEMMA SameInputs ==
  ASSUME UNCHANGED <<baseline, request>>
  PROVE  /\ RtmrEvents(0)' = RtmrEvents(0) /\ GptEvents' = GptEvents
         /\ Rtmr0Digests(RtmrEvents(0))' = Rtmr0Digests(RtmrEvents(0))
         /\ GptDigest(GptEvents)' = GptDigest(GptEvents)
         /\ Rtmr1Digests(GptDigest(GptEvents))' = Rtmr1Digests(GptDigest(GptEvents))
<1>1. \A rtmr : /\ RtmrEvents(rtmr) = OfRtmr(baseline.events, rtmr)
                /\ RtmrEvents(rtmr)' = OfRtmr(baseline.events, rtmr)'
  BY DEF RtmrEvents, OfRtmr
<1>2. \A rtmr : RtmrEvents(rtmr)' = RtmrEvents(rtmr)
  BY <1>1
<1>3. GptEvents' = GptEvents
  BY <1>2 DEF GptEvents
<1> QED
  BY <1>2, <1>3 DEF Rtmr0Digests, GptDigest, Rtmr1Digests

LEMMA AppendedRegister ==
  ASSUME \E S : registers \in Seq(S), NEW digests
  PROVE  /\ \E S : Append(registers, digests) \in Seq(S)
         /\ Len(Append(registers, digests)) = Len(registers) + 1
         /\ \A i \in 1..Len(registers) : Append(registers, digests)[i] = registers[i]
         /\ Append(registers, digests)[Len(registers) + 1] = digests
<1> PICK S : registers \in Seq(S)
  OBVIOUS
<1>1. registers \in Seq(S \cup {digests}) /\ digests \in S \cup {digests}
  OBVIOUS
<1>2. Append(registers, digests) \in Seq(S \cup {digests})
  BY <1>1
<1> QED
  BY <1>1, <1>2

LEMMA NextInvariant == IInv /\ [Next]_vars => IInv'
<1> SUFFICES ASSUME IInv, [Next]_vars PROVE IInv'
  OBVIOUS
<1> USE DEF FirmwareVerified
<1>1. CASE Capture
  BY <1>1, BetweenCalls, NoRegistersYet DEF Capture, IInv, TypeOK
<1>2. ASSUME NEW hash \in Firmwares \cup {NotThere}, ExtractBaseline(hash) \/ ExtractLegacyBaseline(hash)
      PROVE  IInv'
  <2>1. baseline'.firmware_sha384 = hash /\ baseline'.secureboot \in {"on", "off"}
    BY <1>2 DEF ExtractBaseline, ExtractLegacyBaseline, Extracted, LegacyExtracted, SecureBootOf
  <2> QED
    BY <1>2, <2>1, BetweenCalls, NoRegistersYet
    DEF ExtractBaseline, ExtractLegacyBaseline, IInv, TypeOK
<1>3. CASE ToggleSecureBoot
  <2>1. Flipped(machine.secureboot) \in {"on", "off"} /\ Flipped(baseline.secureboot) \in {"on", "off"}
    BY DEF Flipped
  <2>2. machine' \in Machines
    BY <1>3, <2>1 DEF ToggleSecureBoot, IInv, TypeOK, Machines
  <2> QED
    BY <1>3, <2>1, <2>2, BetweenCalls, NoRegistersYet DEF ToggleSecureBoot, IInv, TypeOK
<1>4. ASSUME NEW events, EditEvents(events)
      PROVE  IInv'
  <2>1. baseline'.firmware_sha384 = baseline.firmware_sha384
        /\ baseline'.secureboot = baseline.secureboot
    BY <1>4 DEF EditEvents
  <2> QED
    BY <1>4, <2>1, BetweenCalls, NoRegistersYet DEF EditEvents, IInv, TypeOK
<1>5. ASSUME NEW i \in DOMAIN baseline.events, DamageDigest(i) \/ SwapNext(i)
      PROVE  IInv'
  BY <1>4, <1>5 DEF DamageDigest, SwapNext
<1>6. ASSUME NEW firmware, NEW uki, NEW disk, NEW rtmr3, Request(firmware, uki, disk, rtmr3)
      PROVE  IInv'
  BY <1>6, BetweenCalls, NoRegistersYet DEF Request, IInv, TypeOK
<1>7. CASE VerifyInputs
  <2>1. registers' = <<>> /\ Len(registers') = 0
    BY <1>7, NoRegistersYet DEF VerifyInputs
  <2>2. TypeOK'
    BY <1>7, <2>1 DEF VerifyInputs, IInv, TypeOK
  <2>3. ChecksHold'
    BY <1>7 DEF VerifyInputs, ChecksHold, Verified, MeasuredFirmware, ReplayedBaseline,
                ReplayedBoot, MeasuredSectionsOnly
  <2> QED
    BY <2>1, <2>2, <2>3 DEF IInv
<1>8. CASE ComputeMrtd \/ ComputeRtmr0 \/ ComputeRtmr1 \/ ComputeRtmr2
  <2>1. UNCHANGED StepVars
    BY <1>8 DEF ComputeMrtd, ComputeRtmr0, ComputeRtmr1, ComputeRtmr2, Outcome, StepVars
  <2>2. CASE pc' = "refused" /\ registers' = registers
    BY <2>1, <2>2 DEF IInv, TypeOK, StepVars, ChecksHold, Verified, MeasuredFirmware,
                      ReplayedBaseline, ReplayedBoot, MeasuredSectionsOnly
  <2>3. CASE pc' # "refused"
    <3>1. \/ /\ pc = "mrtd" /\ pc' = "rtmr0" /\ request.firmware \in SoundFirmwares
             /\ registers' = Append(registers, <<ComputedDigest("Firmware", request.firmware)>>)
          \/ /\ pc = "rtmr0" /\ pc' = "rtmr1"
             /\ SupportedEvents(RtmrEvents(0)) /\ AllDecode(Rtmr0Digests(RtmrEvents(0)))
             /\ registers' = Append(registers, Rtmr0Digests(RtmrEvents(0)))
          \/ /\ pc = "rtmr1" /\ pc' = "rtmr2"
             /\ request.disk # NotThere \/ GptEvents # <<>>
             /\ AllDecode(<<GptDigest(GptEvents)>>)
             /\ request.uki \in UkisWithKernel
             /\ registers' = Append(registers, Rtmr1Digests(GptDigest(GptEvents)))
          \/ /\ pc = "rtmr2" /\ pc' = "computed" /\ request.uki \in PlainUkis
             /\ registers' = Append(registers, <<ComputedDigest("Sections", request.uki)>>)
      BY <1>8, <2>3 DEF ComputeMrtd, ComputeRtmr0, ComputeRtmr1, ComputeRtmr2, Outcome, GptEvents, OfGpt
    <3>2. /\ \E S : registers' \in Seq(S)
          /\ Len(registers') = Len(registers) + 1
          /\ \A i \in 1..Len(registers) : registers'[i] = registers[i]
      <4>1. PICK digests : registers' = Append(registers, digests)
        BY <3>1
      <4>2. \E S : registers \in Seq(S)
        BY DEF IInv
      <4> QED
        BY <4>1, <4>2, AppendedRegister
    <3>3. Len(registers) = (CASE pc = "rtmr0" -> 1 [] pc = "rtmr1" -> 2 [] pc = "rtmr2" -> 3
                              [] OTHER -> 0)
      BY <3>1 DEF IInv, TypeOK
    <3>4. TypeOK'
      BY <2>1, <3>1, <3>2, <3>3 DEF IInv, TypeOK, StepVars
    <3>5. Verified'
      BY <2>1, <3>1 DEF IInv, ChecksHold, Verified, StepVars
    <3>6. MeasuredFirmware'
      BY <2>1, <3>1, <3>2, <3>3, AppendedRegister
      DEF IInv, ChecksHold, MeasuredFirmware, StepVars
    <3>7. ReplayedBaseline'
      BY <2>1, <3>1, <3>2, <3>3, AppendedRegister, SameInputs
      DEF IInv, ChecksHold, ReplayedBaseline, StepVars
    <3>8. ReplayedBoot'
      BY <2>1, <3>1, <3>2, <3>3, AppendedRegister, SameInputs
      DEF IInv, ChecksHold, ReplayedBoot, StepVars
    <3>9. MeasuredSectionsOnly'
      BY <2>1, <3>1, <3>2, <3>3, AppendedRegister
      DEF IInv, ChecksHold, MeasuredSectionsOnly, StepVars
    <3> QED
      BY <3>2, <3>4, <3>5, <3>6, <3>7, <3>8, <3>9 DEF IInv, ChecksHold
  <2> QED
    BY <1>8, <2>2, <2>3 DEF ComputeMrtd, ComputeRtmr0, ComputeRtmr1, ComputeRtmr2, Outcome
<1>9. CASE RunAgain
  BY <1>9, BetweenCalls DEF RunAgain, IInv, TypeOK
<1>10. CASE UNCHANGED vars
  BY <1>10, SameInputs DEF vars, IInv, TypeOK, ChecksHold, Verified, MeasuredFirmware,
                           ReplayedBaseline, ReplayedBoot, MeasuredSectionsOnly
<1> QED
  BY <1>1, <1>2, <1>3, <1>5, <1>6, <1>7, <1>8, <1>9, <1>10 DEF Next

THEOREM Invariance == Spec => []IInv
  BY InitInvariant, NextInvariant, PTL DEF Spec

\* Type correctness: in particular a call has computed as many registers as the
\* steps behind it, and none is left of an earlier call.
THEOREM TypeCorrect == Spec => []TypeOK
<1>1. IInv => TypeOK
  BY DEF IInv
<1> QED
  BY <1>1, Invariance, PTL

\* The registers of a call that succeeds are the digests of this baseline and
\* this request, and every check of the call holds of them
\* (tdx/registers.py:143-180).
THEOREM RegistersOfOneCall == Spec => []ChecksHold
<1>1. IInv => ChecksHold
  BY DEF IInv
<1> QED
  BY <1>1, Invariance, PTL

(* ---- What a selection keeps -------------------------------------------- *)

\* The places of K are g[1], g[2], ..., g[n].
InOrder(g, n, K) ==
  /\ n \in Nat /\ g \in [1..n -> K]
  /\ \A j, k \in 1..n : j < k => g[j] < g[k]
  /\ \A i \in K : \E k \in 1..n : g[k] = i

LEMMA RankOfPlace ==
  ASSUME NEW K \in SUBSET Nat, IsFiniteSet(K)
  PROVE  /\ \A i \in K : Rank(i, K) \in 1..Cardinality(K)
         /\ \A i, j \in K : i < j => Rank(i, K) < Rank(j, K)
<1> DEFINE Upto(i) == {j \in K : j <= i}
<1>1. ASSUME NEW i \in K
      PROVE  /\ IsFiniteSet(Upto(i)) /\ Cardinality(Upto(i)) \in Nat
             /\ Cardinality(Upto(i)) <= Cardinality(K)
             /\ Cardinality(Upto(i)) # 0
  <2>1. Upto(i) \in SUBSET K /\ i \in Upto(i)
    OBVIOUS
  <2> HIDE DEF Upto
  <2>2. IsFiniteSet(Upto(i)) /\ Cardinality(Upto(i)) <= Cardinality(K)
    BY <2>1, FS_Subset
  <2> QED
    BY <2>1, <2>2, FS_CardinalityType, FS_EmptySet
<1>2. ASSUME NEW i \in K, NEW j \in K, i < j
      PROVE  Cardinality(Upto(i)) < Cardinality(Upto(j))
  <2>1. Upto(i) \in SUBSET Upto(j) /\ Upto(i) # Upto(j)
    <3>1. j \in Upto(j) /\ j \notin Upto(i)
      BY <1>2
    <3>2. \A x \in Upto(i) : x \in Upto(j)
      BY <1>2
    <3> QED
      BY <3>1, <3>2
  <2> HIDE DEF Upto
  <2>2. /\ Cardinality(Upto(i)) <= Cardinality(Upto(j))
        /\ Cardinality(Upto(i)) # Cardinality(Upto(j))
    BY <1>1, <2>1, FS_Subset
  <2> QED
    BY <1>1, <2>2
<1>3. ASSUME NEW i \in K PROVE Rank(i, K) = Cardinality(Upto(i))
  <2>1. i \in Nat /\ \A j \in K : j \in Nat /\ (j \in 0..i <=> j <= i)
    OBVIOUS
  <2>2. K \cap 0..i = Upto(i)
    BY <2>1
  <2> QED
    BY <2>2 DEF Rank
<1>4. Cardinality(K) \in Nat
  BY FS_CardinalityType
<1> HIDE DEF Upto
<1> QED
  BY <1>1, <1>2, <1>3, <1>4

\* There is such an order.
LEMMA OrderExists ==
  ASSUME NEW K \in SUBSET Nat, IsFiniteSet(K)
  PROVE  \E n, g : InOrder(g, n, K)
<1>11. PICK n : n = Cardinality(K)
  OBVIOUS
<1>1. n \in Nat /\ IsFiniteSet(1..n) /\ Cardinality(1..n) = n
  BY <1>11, FS_CardinalityType, FS_Interval
<1>12. PICK rank : rank = [i \in K |-> Rank(i, K)]
  OBVIOUS
<1>2. rank \in [K -> 1..n] /\ \A i, j \in K : i < j => rank[i] < rank[j]
  BY <1>11, <1>12, RankOfPlace
<1>3. rank \in Injection(K, 1..n)
  <2>1. ASSUME NEW i \in K, NEW j \in K, rank[i] = rank[j] PROVE i = j
    <3>1. i \in Nat /\ j \in Nat /\ rank[i] \in 1..n /\ rank[j] \in 1..n
      BY <1>2
    <3>2. ~(i < j) /\ ~(j < i)
      BY <1>2, <2>1, <3>1
    <3> QED
      BY <3>1, <3>2
  <2> QED
    BY <1>2, <2>1 DEF Injection, IsInjective
<1>4. rank \in Surjection(K, 1..n)
  BY <1>1, <1>3, <1>11, FS_Injection
<1>5. \A k \in 1..n : \E i \in K : rank[i] = k
  BY <1>4 DEF Surjection
<1>10. PICK g : g = [k \in 1..n |-> CHOOSE i \in K : rank[i] = k]
  OBVIOUS
<1>6. \A k \in 1..n : g[k] \in K /\ rank[g[k]] = k
  BY <1>5, <1>10
<1>7. g \in [1..n -> K]
  BY <1>6, <1>10
<1>8. ASSUME NEW j \in 1..n, NEW k \in 1..n, j < k PROVE g[j] < g[k]
  <2>1. g[j] \in K /\ g[k] \in K /\ rank[g[j]] = j /\ rank[g[k]] = k
    BY <1>6
  <2>2. g[k] < g[j] => k < j
    BY <1>2, <2>1
  <2>3. j \in Nat /\ k \in Nat /\ ~(k < j) /\ j # k
    BY <1>1, <1>8
  <2>4. g[j] \in Nat /\ g[k] \in Nat /\ g[j] # g[k]
    BY <2>1, <2>3
  <2> QED
    BY <2>2, <2>3, <2>4
<1>9. ASSUME NEW i \in K PROVE \E k \in 1..n : g[k] = i
  <2>1. rank[i] \in 1..n /\ rank[g[rank[i]]] = rank[i] /\ g[rank[i]] \in K
    BY <1>2, <1>6
  <2>2. g[rank[i]] = i
    BY <1>3, <2>1 DEF Injection, IsInjective
  <2> QED
    BY <2>1, <2>2
<1>13. InOrder(g, n, K)
  BY <1>1, <1>7, <1>8, <1>9 DEF InOrder
<1> QED
  BY <1>13

\* The place of a rank.
LEMMA RankInOrder ==
  ASSUME NEW K \in SUBSET Nat, NEW n, NEW g, InOrder(g, n, K)
  PROVE  /\ IsFiniteSet(K) /\ Cardinality(K) = n
         /\ \A k \in 1..n : g[k] \in K /\ Rank(g[k], K) = k
<1>1. /\ n \in Nat /\ g \in [1..n -> K] /\ \A k \in 1..n : g[k] \in Nat
      /\ \A j, k \in 1..n : j < k => g[j] < g[k]
      /\ \A i \in K : \E k \in 1..n : g[k] = i
  BY DEF InOrder
<1>2. ASSUME NEW m \in 0..n, NEW T, T = {i \in K : \E k \in 1..m : g[k] = i}
      PROVE  IsFiniteSet(T) /\ Cardinality(T) = m
  <2> PICK h : h = [k \in 1..m |-> g[k]]
    OBVIOUS
  <2>1. \A k \in 1..m : k \in 1..n /\ h[k] = g[k] /\ h[k] \in T
    BY <1>1, <1>2
  <2>2. h \in [1..m -> T]
    BY <2>1
  <2>3. ASSUME NEW j \in 1..m, NEW k \in 1..m, h[j] = h[k] PROVE j = k
    <3>1. j \in 1..n /\ k \in 1..n /\ g[j] = g[k] /\ g[j] \in Nat
      BY <1>1, <2>1, <2>3
    <3>2. ~(j < k) /\ ~(k < j)
      BY <1>1, <3>1
    <3> QED
      BY <3>2
  <2>4. \A i \in T : \E k \in 1..m : h[k] = i
    BY <1>2, <2>1
  <2>5. h \in Bijection(1..m, T)
    BY <2>2, <2>3, <2>4 DEF Bijection, Injection, IsInjective, Surjection
  <2>6. ExistsBijection(1..m, T)
    BY <2>5 DEF ExistsBijection
  <2>7. IsFiniteSet(1..m) /\ Cardinality(1..m) = m
    BY FS_Interval
  <2> QED
    BY <2>6, <2>7, FS_Bijection
<1>3. IsFiniteSet(K) /\ Cardinality(K) = n
  <2>1. K = {i \in K : \E k \in 1..n : g[k] = i}
    BY <1>1
  <2>2. n \in 0..n
    BY <1>1
  <2> QED
    BY <1>2, <2>1, <2>2
<1>4. ASSUME NEW m \in 1..n PROVE Rank(g[m], K) = m
  <2>1. {j \in K : j <= g[m]} = {i \in K : \E k \in 1..m : g[k] = i}
    <3>1. ASSUME NEW k \in 1..n PROVE g[k] <= g[m] <=> k <= m
      BY <1>1
    <3>2. \A j \in K : j <= g[m] => \E k \in 1..m : g[k] = j
      BY <1>1, <3>1
    <3>3. \A k \in 1..m : g[k] <= g[m]
      BY <1>1, <3>1
    <3> QED
      BY <3>2, <3>3
  <2>2. m \in 0..n
    BY <1>1
  <2>3. K \cap 0..g[m] = {j \in K : j <= g[m]}
    <3>1. g[m] \in Nat /\ \A j \in K : j \in Nat /\ (j \in 0..g[m] <=> j <= g[m])
      BY <1>1
    <3> QED
      BY <3>1
  <2> QED
    BY <1>2, <2>1, <2>2, <2>3 DEF Rank
<1> QED
  BY <1>1, <1>3, <1>4

\* What is taken is the places in order.
LEMMA TakenInOrder ==
  ASSUME NEW s, NEW K \in SUBSET Nat, NEW n, NEW g, InOrder(g, n, K)
  PROVE  Taken(s, K) = [k \in 1..n |-> s[g[k]]]
<1>1. /\ IsFiniteSet(K) /\ Cardinality(K) = n
      /\ \A k \in 1..n : g[k] \in K /\ Rank(g[k], K) = k
  BY RankInOrder
<1>3. \A i \in K : \E k \in 1..n : g[k] = i
  BY DEF InOrder
<1>2. ASSUME NEW k \in 1..n PROVE (CHOOSE i \in K : Rank(i, K) = k) = g[k]
  <2>1. \A i \in K : Rank(i, K) = k => i = g[k]
    BY <1>1, <1>3
  <2> QED
    BY <1>1, <2>1
<1>4. Taken(s, K) = [k \in 1..n |-> s[CHOOSE i \in K : Rank(i, K) = k]]
  BY <1>1 DEF Taken
<1> QED
  BY <1>2, <1>4

\* There is but one order.
LEMMA OneOrder ==
  ASSUME NEW K \in SUBSET Nat, NEW n, NEW g, InOrder(g, n, K), NEW m, NEW h, InOrder(h, m, K)
  PROVE  n = m /\ g = h
<1>1. Cardinality(K) = n /\ \A k \in 1..n : g[k] \in K /\ Rank(g[k], K) = k
  BY RankInOrder
<1>2. Cardinality(K) = m /\ \A k \in 1..m : h[k] \in K /\ Rank(h[k], K) = k
  BY RankInOrder
<1>4. g \in [1..n -> K] /\ (\A i \in K : \E k \in 1..n : g[k] = i) /\ h \in [1..m -> K]
  BY DEF InOrder
<1>3. ASSUME NEW k \in 1..n PROVE h[k] = g[k]
  <2>1. PICK j \in 1..n : g[j] = h[k]
    BY <1>1, <1>2, <1>4
  <2> QED
    BY <1>1, <1>2, <2>1
<1>5. n = m
  BY <1>1, <1>2
<1>6. h \in [1..n -> K] /\ g \in [1..n -> K]
  BY <1>4, <1>5
<1>7. h = [k \in 1..n |-> h[k]] /\ g = [k \in 1..n |-> g[k]]
  BY <1>6
<1>8. g = h
  BY <1>3, <1>7
<1> QED
  BY <1>5, <1>8

\* What is kept of what is kept.
LEMMA OrderWithin ==
  ASSUME NEW K \in SUBSET Nat, NEW n, NEW g, InOrder(g, n, K),
         NEW P \in SUBSET (1..n), NEW m, NEW h, InOrder(h, m, P)
  PROVE  InOrder([k \in 1..m |-> g[h[k]]], m, {g[i] : i \in P})
<1>1. /\ n \in Nat /\ g \in [1..n -> K]
      /\ \A j, k \in 1..n : j < k => g[j] < g[k]
  BY DEF InOrder
<1>2. /\ m \in Nat /\ h \in [1..m -> P]
      /\ \A j, k \in 1..m : j < k => h[j] < h[k]
      /\ \A i \in P : \E k \in 1..m : h[k] = i
  BY DEF InOrder
<1> PICK f : f = [k \in 1..m |-> g[h[k]]]
  OBVIOUS
<1>3. \A k \in 1..m : h[k] \in P /\ h[k] \in 1..n /\ f[k] = g[h[k]]
  BY <1>2
<1>4. f \in [1..m -> {g[i] : i \in P}]
  BY <1>3
<1>5. \A j, k \in 1..m : j < k => f[j] < f[k]
  BY <1>1, <1>2, <1>3
<1>6. ASSUME NEW i \in {g[x] : x \in P} PROVE \E k \in 1..m : f[k] = i
  <2>1. PICK x \in P : i = g[x]
    BY <1>6
  <2>2. PICK k \in 1..m : h[k] = x
    BY <1>2
  <2> QED
    BY <1>3, <2>1, <2>2
<1> QED
  BY <1>2, <1>4, <1>5, <1>6 DEF InOrder

LEMMA TakenOrder ==
  ASSUME NEW s, NEW L \in Nat, NEW K \in SUBSET (1..L)
  PROVE  \E n, g : InOrder(g, n, K) /\ Taken(s, K) = [k \in 1..n |-> s[g[k]]]
<1>1. 1..L \subseteq Nat /\ IsFiniteSet(1..L)
  BY FS_Interval
<1>2. K \in SUBSET Nat /\ IsFiniteSet(K)
  BY <1>1, FS_Subset
<1>3. PICK n, g : InOrder(g, n, K)
  BY <1>2, OrderExists
<1>4. Taken(s, K) = [k \in 1..n |-> s[g[k]]]
  BY <1>2, <1>3, TakenInOrder
<1> QED
  BY <1>3, <1>4

LEMMA TakenElements ==
  ASSUME NEW s, NEW L \in Nat, NEW K \in SUBSET (1..L)
  PROVE  \E n, g : /\ InOrder(g, n, K)
                   /\ Len(Taken(s, K)) = n /\ \A k \in 1..n : Taken(s, K)[k] = s[g[k]]
<1>1. PICK n, g : InOrder(g, n, K) /\ Taken(s, K) = [k \in 1..n |-> s[g[k]]]
  BY TakenOrder
<1>2. n \in Nat
  BY <1>1 DEF InOrder
<1>3. PICK t : t = Taken(s, K)
  OBVIOUS
<1>4. Len(t) = n /\ \A k \in 1..n : t[k] = s[g[k]]
  BY <1>1, <1>2, <1>3
<1>5. InOrder(g, n, K)
  BY <1>1
<1> QED
  BY <1>3, <1>4, <1>5

\* All there is.
LEMMA TakenWhole ==
  ASSUME NEW s, NEW L \in Nat
  PROVE  InOrder([k \in 1..L |-> k], L, 1..L) /\ Taken(s, 1..L) = [k \in 1..L |-> s[k]]
<1>1. InOrder([k \in 1..L |-> k], L, 1..L)
  BY DEF InOrder
<1>2. 1..L \in SUBSET Nat
  OBVIOUS
<1>3. Taken(s, 1..L) = [k \in 1..L |-> s[[j \in 1..L |-> j][k]]]
  BY <1>1, <1>2, TakenInOrder
<1> QED
  BY <1>1, <1>3

(* ---- What the log of a machine holds ----------------------------------- *)

WholeLog(m) == EventsOf(0, m) \o EventsOf(1, m) \o EventsOf(2, m)
KeptSlot(s) == s \notin {"Bankless", "CFV", "SecureBoot", "Separator"}

LEMMA SlotsOfRtmr1 ==
  ASSUME NEW m \in Machines
  PROVE  Slots(1, m) \in Seq(Rtmr1Slots)
<1>1. PICK slots, L : slots = m.layout.rtmr1 /\ L = Len(slots)
  OBVIOUS
<1>2. slots \in Seq(Rtmr1Slots)
  BY <1>1, LayoutsAssumption DEF Machines
<1>3. L \in Nat /\ \A i \in 1..L : slots[i] \in Rtmr1Slots
  BY <1>1, <1>2, LenProperties, ElementOfSeq
<1>4. PICK K \in SUBSET (1..L) : Slots(1, m) = Taken(slots, K)
  <2>1. Slots(1, m) = Taken(slots, {i \in 1..L : slots[i] # "Kernel" \/ m.uki \in UkisWithKernel})
    BY <1>1 DEF Slots, Chosen, Places
  <2> QED
    BY <2>1
<1>5. PICK n, g : InOrder(g, n, K) /\ Taken(slots, K) = [k \in 1..n |-> slots[g[k]]]
  BY <1>3, TakenOrder
<1>6. n \in Nat /\ \A k \in 1..n : g[k] \in 1..L
  BY <1>3, <1>5 DEF InOrder
<1> QED
  BY <1>3, <1>4, <1>5, <1>6

LEMMA WholeLogEvents ==
  ASSUME NEW m \in Machines
  PROVE  LET slots == m.layout.rtmr0
             events == WholeLog(m)
         IN  /\ slots \in Seq(Rtmr0Slots) /\ Len(slots) \in Nat
             /\ Len(events) \in Nat /\ Len(slots) <= Len(events)
             /\ \A i \in 1..Len(slots) : slots[i] \in Rtmr0Slots /\ events[i] = EventOf(0, slots[i], m)
             /\ \A i \in 1..Len(events) : i > Len(slots) =>
                  \/ \E s \in Rtmr1Slots : events[i] = EventOf(1, s, m)
                  \/ \E s \in {"Sections", "Profile"} : events[i] = EventOf(2, s, m)
<1>1. PICK slots, L : slots = m.layout.rtmr0 /\ L = Len(slots)
  OBVIOUS
<1>2. slots \in Seq(Rtmr0Slots)
  BY <1>1, LayoutsAssumption DEF Machines
<1>3. L \in Nat /\ \A i \in 1..L : slots[i] \in Rtmr0Slots
  BY <1>1, <1>2, LenProperties, ElementOfSeq
<1>4. EventsOf(0, m) = [i \in 1..L |-> EventOf(0, slots[i], m)]
  BY <1>1 DEF EventsOf, Slots
<1>5. PICK l1 : l1 = Slots(1, m)
  OBVIOUS
<1>6. l1 \in Seq(Rtmr1Slots) /\ Len(l1) \in Nat /\ \A i \in 1..Len(l1) : l1[i] \in Rtmr1Slots
  BY <1>5, SlotsOfRtmr1, LenProperties, ElementOfSeq
<1>7. EventsOf(1, m) = [i \in 1..Len(l1) |-> EventOf(1, l1[i], m)]
  BY <1>5 DEF EventsOf
<1>8. PICK s2 \in {"Sections", "Profile"} : Slots(2, m) = <<s2>>
  BY DEF Slots
<1>9. EventsOf(2, m) = [i \in 1..1 |-> EventOf(2, s2, m)]
  <2>1. Len(<<s2>>) = 1 /\ <<s2>>[1] = s2
    OBVIOUS
  <2>2. EventsOf(2, m) = [i \in 1..1 |-> EventOf(2, <<s2>>[i], m)]
    BY <1>8, <2>1 DEF EventsOf
  <2>3. \A i \in 1..1 : <<s2>>[i] = s2
    OBVIOUS
  <2> QED
    BY <2>2, <2>3
<1>10. PICK E : E = {EventOf(0, s, m) : s \in Rtmr0Slots} \cup {EventOf(1, s, m) : s \in Rtmr1Slots}
                     \cup {EventOf(2, s, m) : s \in {"Sections", "Profile"}}
  OBVIOUS
<1>11. PICK e0, e1, e2 : e0 = EventsOf(0, m) /\ e1 = EventsOf(1, m) /\ e2 = EventsOf(2, m)
  OBVIOUS
<1>12. /\ e0 \in Seq(E) /\ Len(e0) = L /\ \A i \in 1..L : e0[i] = EventOf(0, slots[i], m)
  <2>1. \A i \in 1..L : EventOf(0, slots[i], m) \in E
    BY <1>3, <1>10
  <2> QED
    BY <1>3, <1>4, <1>11, <2>1
<1>13. /\ e1 \in Seq(E) /\ Len(e1) = Len(l1) /\ \A i \in 1..Len(l1) : e1[i] = EventOf(1, l1[i], m)
  <2>1. \A i \in 1..Len(l1) : EventOf(1, l1[i], m) \in E
    BY <1>6, <1>10
  <2> QED
    BY <1>6, <1>7, <1>11, <2>1
<1>14. /\ e2 \in Seq(E) /\ Len(e2) = 1 /\ e2[1] = EventOf(2, s2, m)
  <2>1. EventOf(2, s2, m) \in E
    BY <1>10
  <2>2. PICK e : e = EventOf(2, s2, m)
    OBVIOUS
  <2>3. e2 = [i \in 1..1 |-> e]
    BY <1>9, <1>11, <2>2
  <2>4. e2 = <<e>>
    BY <2>3
  <2> QED
    BY <2>1, <2>2, <2>4
<1>15. /\ e0 \o e1 \in Seq(E) /\ Len(e0 \o e1) = L + Len(l1)
       /\ \A i \in 1..(L + Len(l1)) : (e0 \o e1)[i] = IF i <= L THEN e0[i] ELSE e1[i - L]
  <2>1. /\ e0 \o e1 \in Seq(E) /\ Len(e0 \o e1) = Len(e0) + Len(e1)
        /\ \A i \in 1..(Len(e0) + Len(e1)) :
             (e0 \o e1)[i] = IF i <= Len(e0) THEN e0[i] ELSE e1[i - Len(e0)]
    BY <1>12, <1>13, ConcatProperties
  <2> QED
    BY <1>12, <1>13, <2>1
<1>16. PICK e01 : e01 = e0 \o e1
  OBVIOUS
<1>17. /\ Len(e01 \o e2) = L + Len(l1) + 1
       /\ \A i \in 1..(L + Len(l1) + 1) :
            (e01 \o e2)[i] = IF i <= L + Len(l1) THEN e01[i] ELSE e2[i - (L + Len(l1))]
  <2>1. /\ Len(e01 \o e2) = Len(e01) + Len(e2)
        /\ \A i \in 1..(Len(e01) + Len(e2)) :
             (e01 \o e2)[i] = IF i <= Len(e01) THEN e01[i] ELSE e2[i - Len(e01)]
    <3>1. e01 \in Seq(E) /\ e2 \in Seq(E)
      BY <1>14, <1>15, <1>16
    <3> QED
      BY <3>1, ConcatProperties
  <2> QED
    BY <1>14, <1>15, <1>16, <2>1
<1>18. PICK events : events = WholeLog(m)
  OBVIOUS
<1>19. events = e01 \o e2
  BY <1>11, <1>16, <1>18 DEF WholeLog
<1>20. ASSUME NEW i \in 1..L PROVE events[i] = EventOf(0, slots[i], m)
  <2>1. i \in 1..(L + Len(l1)) /\ i \in 1..(L + Len(l1) + 1) /\ i <= L /\ i <= L + Len(l1)
    BY <1>3, <1>6
  <2> QED
    BY <1>12, <1>15, <1>16, <1>17, <1>19, <2>1
<1>21. ASSUME NEW i \in 1..Len(events), i > L
       PROVE  \/ \E s \in Rtmr1Slots : events[i] = EventOf(1, s, m)
              \/ \E s \in {"Sections", "Profile"} : events[i] = EventOf(2, s, m)
  <2>1. i \in 1..(L + Len(l1) + 1)
    BY <1>17, <1>19, <1>21
  <2>2. CASE i <= L + Len(l1)
    <3>1. i \in 1..(L + Len(l1)) /\ i - L \in 1..Len(l1)
      BY <1>3, <1>6, <1>21, <2>1, <2>2
    <3>2. events[i] = e1[i - L]
      BY <1>3, <1>15, <1>16, <1>17, <1>19, <1>21, <2>1, <2>2, <3>1
    <3> QED
      BY <1>6, <1>13, <3>1, <3>2
  <2>3. CASE ~(i <= L + Len(l1))
    <3>1. i - (L + Len(l1)) = 1
      BY <1>3, <1>6, <2>1, <2>3
    <3>2. events[i] = e2[1]
      BY <1>17, <1>19, <2>1, <2>3, <3>1
    <3> QED
      BY <1>14, <3>2
  <2> QED
    BY <2>2, <2>3
<1>22. Len(events) = L + Len(l1) + 1
  BY <1>17, <1>19
<1>23. Len(events) \in Nat /\ L <= Len(events)
  BY <1>3, <1>6, <1>22
<1> QED
  BY <1>1, <1>2, <1>3, <1>18, <1>20, <1>21, <1>23

\* Which events of RTMR[0] a baseline keeps, and how it labels them.
LEMMA KeptEvents ==
  ASSUME NEW m, NEW s \in Rtmr0Slots
  PROVE  LET e == EventOf(0, s, m)
         IN  /\ e.rtmr = 0 /\ e.digest = Digest(s, m) /\ e.event_type # "GPT_EVENT"
             /\ (e.digest # NoDigest /\ ~IsComputable(e)) <=> KeptSlot(s)
             /\ KeptSlot(s) => LabelOf(e) = SlotLabel(s)
<1>1. PICK e : e = EventOf(0, s, m)
  OBVIOUS
<1>2. /\ e.rtmr = 0 /\ e.digest = Digest(s, m) /\ e.event_type = EventType(s)
      /\ e.name = (IF s \in DriverVariables \cup BootVariables THEN s ELSE "")
  BY <1>1 DEF EventOf
<1>3. e.digest # NoDigest <=> s # "Bankless"
  <2>1. s # "none"
    BY DEF Rtmr0Slots, DriverVariables, BootVariables, AcpiTables
  <2>2. [of |-> s, by |-> DeterminedBy(s, m)].of = s /\ NoDigest.of = "none"
    BY DEF NoDigest, NotThere
  <2>3. [of |-> s, by |-> DeterminedBy(s, m)] # NoDigest
    BY <2>1, <2>2
  <2> QED
    BY <1>2, <2>3 DEF Digest
<1>4. IsComputable(e) <=> \/ e.event_type = "PLATFORM_FIRMWARE_BLOB2"
                          \/ e.event_type = "SEPARATOR"
                          \/ e.event_type = "VARIABLE_DRIVER_CONFIG" /\ e.name = "SecureBoot"
  <2>1. <<e.rtmr, e.event_type>> \in Computable <=>
          e.event_type \in {"PLATFORM_FIRMWARE_BLOB2", "SEPARATOR"}
    <3>1. \A t : <<0, t>> \in Computable <=> t \in {"PLATFORM_FIRMWARE_BLOB2", "SEPARATOR"}
      BY DEF Computable
    <3>2. e.rtmr = 0
      BY <1>2
    <3> QED
      BY <3>1, <3>2
  <2>3. e.rtmr = 0
    BY <1>2
  <2>2. e.rtmr = 0 /\ e.rtmr # 2
    BY <2>3
  <2> QED
    BY <2>1, <2>2 DEF IsComputable, IsSecureBoot
<1>5. CASE s \in DriverVariables
  BY <1>1, <1>2, <1>3, <1>4, <1>5
  DEF DriverVariables, BootVariables, AcpiTables, EventType, KeptSlot, SlotLabel, LabelOf
<1>6. CASE s \in BootVariables
  BY <1>1, <1>2, <1>3, <1>4, <1>6
  DEF DriverVariables, BootVariables, AcpiTables, EventType, KeptSlot, SlotLabel, LabelOf
<1>7. CASE s \in AcpiTables
  BY <1>1, <1>2, <1>3, <1>4, <1>7
  DEF DriverVariables, BootVariables, AcpiTables, EventType, KeptSlot, SlotLabel, LabelOf
<1>8. CASE s \in {"TdxTable", "CFV", "Separator", "Unknown", "Bankless"}
  BY <1>1, <1>2, <1>3, <1>4, <1>8
  DEF DriverVariables, BootVariables, AcpiTables, EventType, KeptSlot, SlotLabel, LabelOf
<1> QED
  BY <1>5, <1>6, <1>7, <1>8 DEF Rtmr0Slots

\* The other events: a partition table's digest is the machine's disk's.
LEMMA OtherEvents ==
  ASSUME NEW m, NEW e, \/ \E s \in Rtmr1Slots : e = EventOf(1, s, m)
                       \/ \E s \in {"Sections", "Profile"} : e = EventOf(2, s, m)
  PROVE  /\ e.rtmr # 0
         /\ e.rtmr = 1 /\ LabelOf(e) = "GPT_EVENT" => e.digest = Digest("GPT", m)
<1>1. CASE \E s \in {"Sections", "Profile"} : e = EventOf(2, s, m)
  <2>1. PICK s \in {"Sections", "Profile"} : e = EventOf(2, s, m)
    BY <1>1
  <2>2. e.rtmr = 2
    BY <2>1 DEF EventOf
  <2> QED
    BY <2>2
<1>2. ASSUME NEW s \in Rtmr1Slots, e = EventOf(1, s, m)
      PROVE  e.rtmr = 1 /\ (LabelOf(e) = "GPT_EVENT" => s = "GPT") /\ e.digest = Digest(s, m)
  <2>1. e.rtmr = 1 /\ e.event_type = EventType(s) /\ e.digest = Digest(s, m) /\ e.name = ""
    BY <1>2 DEF EventOf, Rtmr1Slots, DriverVariables, BootVariables
  <2>2. LabelOf(e) = EventType(s)
    <3>3. e.rtmr = 1 /\ e.name = ""
      BY <2>1
    <3>5. 1 # 0
      OBVIOUS
    <3>2. e.rtmr # 0
      BY <3>3, <3>5, Zenon
    <3>4. ~(e.name # "")
      BY <3>3
    <3>1. LabelOf(e) = e.event_type
      BY <3>2, <3>4 DEF LabelOf
    <3> QED
      BY <2>1, <3>1
  <2>3. EventType(s) = "GPT_EVENT" => s = "GPT"
    BY DEF EventType, Rtmr1Slots, DriverVariables, BootVariables, AcpiTables
  <2> QED
    BY <2>1, <2>2, <2>3
<1> QED
  BY <1>1, <1>2

LEMMA DigestsDecode ==
  ASSUME NEW m, NEW s \in Rtmr0Slots \cup Rtmr1Slots \cup {"Sections", "Profile"}
  PROVE  Digest(s, m) # Malformed
<1>1. s # "malformed"
  BY DEF Rtmr0Slots, Rtmr1Slots, DriverVariables, BootVariables, AcpiTables
<1>2. /\ [of |-> s, by |-> DeterminedBy(s, m)].of = s
      /\ NoDigest.of = "none" /\ Malformed.of = "malformed"
  BY DEF NoDigest, Malformed, NotThere
<1>3. [of |-> s, by |-> DeterminedBy(s, m)] # Malformed /\ NoDigest # Malformed
  BY <1>1, <1>2
<1> QED
  BY <1>3 DEF Digest

(* ---- The baseline of a machine ----------------------------------------- *)

\* Every event kept of RTMR[0] is of a slot of the layout, the one at p; those of
\* the ACPI tables, which have one label, are in the order of the layout.
Recordable(events) ==
  /\ Len(events) \in Nat
  /\ events = [i \in 1..Len(events) |->
                 [rtmr |-> events[i].rtmr, label |-> events[i].label, digest |-> events[i].digest]]
OfSlots(events, m, p) ==
  \A i \in 1..Len(events) :
    /\ events[i].rtmr = 0 =>
         /\ p[i] \in 1..Len(m.layout.rtmr0) /\ KeptSlot(m.layout.rtmr0[p[i]])
         /\ events[i].label = SlotLabel(m.layout.rtmr0[p[i]])
         /\ events[i].digest \in {Digest(m.layout.rtmr0[p[i]], m), Malformed}
    /\ events[i].rtmr = 1 /\ events[i].label = "GPT_EVENT" =>
         events[i].digest \in {Digest("GPT", m), Malformed}
IsTable(e) == e.rtmr = 0 /\ e.label = "ACPI_DATA"
TablesInOrder(events, p) ==
  \A i, j \in 1..Len(events) :
    i < j /\ IsTable(events[i]) /\ IsTable(events[j]) => p[i] < p[j]
Decodable(events) == \A i \in 1..Len(events) : events[i].digest # Malformed
Labelled(events, m) == Labels(OfRtmr(events, 0)) = SlotLabels(KeptSlots(m.layout))

EventsOfMachine(events, m, was_edited) ==
  /\ Recordable(events)
  /\ \E p : OfSlots(events, m, p) /\ TablesInOrder(events, p)
  /\ ~was_edited => Decodable(events)
  /\ ~was_edited \/ m.layout # Standard => Labelled(events, m)
HasSecureBoot(m) == \E i \in 1..Len(m.layout.rtmr0) : m.layout.rtmr0[i] = "SecureBoot"
BaselineOf(b, m, was_edited) ==
  /\ b = [firmware_sha384 |-> b.firmware_sha384, secureboot |-> b.secureboot, events |-> b.events]
  /\ b.firmware_sha384 \in {NotThere, m.firmware}
  /\ HasSecureBoot(m) => b.secureboot = m.secureboot
  /\ EventsOfMachine(b.events, m, was_edited)

LEMMA SlotsOfLayout ==
  ASSUME NEW m \in Machines
  PROVE  LET slots == m.layout.rtmr0
         IN /\ slots \in Seq(Rtmr0Slots) /\ Len(slots) \in Nat
            /\ \A i \in 1..Len(slots) : slots[i] \in Rtmr0Slots
<1>1. m.layout.rtmr0 \in Seq(Rtmr0Slots)
  BY LayoutsAssumption DEF Machines
<1> QED
  BY <1>1, LenProperties, ElementOfSeq

\* The places of the layout that are recorded, and those that are kept.
RecordedPlaces(m) == {i \in 1..Len(m.layout.rtmr0) : m.layout.rtmr0[i] # "Bankless"}
KeptPlaces(m) == {i \in 1..Len(m.layout.rtmr0) : KeptSlot(m.layout.rtmr0[i])}

LEMMA RecordedInOrder ==
  ASSUME NEW m \in Machines
  PROVE  \E n, h : /\ InOrder(h, n, RecordedPlaces(m))
                   /\ RecordedSlots(m.layout) = [k \in 1..n |-> m.layout.rtmr0[h[k]]]
<1>1. PICK slots, L : slots = m.layout.rtmr0 /\ L = Len(slots)
  OBVIOUS
<1>2. L \in Nat
  BY <1>1, SlotsOfLayout
<1>3. PICK K : K = {i \in 1..L : slots[i] # "Bankless"}
  OBVIOUS
<1>4. RecordedSlots(m.layout) = Taken(slots, K)
  BY <1>1, <1>3 DEF RecordedSlots, Chosen, Places
<1>5. K \in SUBSET (1..L)
  BY <1>3
<1>7. K = RecordedPlaces(m)
  BY <1>1, <1>3 DEF RecordedPlaces
<1>6. PICK n, h : InOrder(h, n, K) /\ Taken(slots, K) = [k \in 1..n |-> slots[h[k]]]
  BY <1>2, <1>5, TakenOrder
<1> QED
  BY <1>1, <1>4, <1>6, <1>7

LEMMA KeptInOrder ==
  ASSUME NEW m \in Machines
  PROVE  \E n, f : /\ InOrder(f, n, KeptPlaces(m))
                   /\ SlotLabels(KeptSlots(m.layout)) =
                        [k \in 1..n |-> SlotLabel(m.layout.rtmr0[f[k]])]
<1>1. PICK slots, L : slots = m.layout.rtmr0 /\ L = Len(slots)
  OBVIOUS
<1>2. PICK K : K = {i \in 1..L : slots[i] # "Bankless"}
  OBVIOUS
<1>18. K = RecordedPlaces(m)
  BY <1>1, <1>2 DEF RecordedPlaces
<1>19. PICK n, h : /\ InOrder(h, n, RecordedPlaces(m))
                   /\ RecordedSlots(m.layout) = [k \in 1..n |-> m.layout.rtmr0[h[k]]]
  BY RecordedInOrder
<1>3. InOrder(h, n, K) /\ RecordedSlots(m.layout) = [k \in 1..n |-> slots[h[k]]]
  BY <1>1, <1>18, <1>19
<1>4. /\ L \in Nat /\ n \in Nat /\ \A k \in 1..n : h[k] \in K /\ h[k] \in 1..L
      /\ \A i \in K : \E k \in 1..n : h[k] = i
  <2>1. n \in Nat /\ h \in [1..n -> K] /\ \A i \in K : \E k \in 1..n : h[k] = i
    BY <1>3 DEF InOrder
  <2> QED
    BY <1>1, <1>2, <2>1, SlotsOfLayout
<1>5. PICK recorded : recorded = RecordedSlots(m.layout)
  OBVIOUS
<1>6. Len(recorded) = n /\ \A k \in 1..n : recorded[k] = slots[h[k]]
  BY <1>3, <1>4, <1>5
<1>7. PICK P : P = {k \in 1..n : recorded[k] \notin {"CFV", "SecureBoot", "Separator"}}
  OBVIOUS
<1>8. KeptSlots(m.layout) = Taken(recorded, P)
  BY <1>5, <1>6, <1>7 DEF KeptSlots, Chosen, Places
<1>9. P \in SUBSET (1..n)
  BY <1>7
<1>10. PICK c, g : InOrder(g, c, P) /\ Taken(recorded, P) = [k \in 1..c |-> recorded[g[k]]]
  <2>1. n \in Nat
    BY <1>4
  <2> QED
    BY <1>9, <2>1, TakenOrder
<1>11. PICK f : f = [k \in 1..c |-> h[g[k]]]
  OBVIOUS
<1>12. InOrder(f, c, {h[i] : i \in P})
  <2>1. K \in SUBSET Nat
    BY <1>2, <1>4
  <2>2. InOrder(h, n, K) /\ InOrder(g, c, P)
    BY <1>3, <1>10
  <2>3. InOrder([k \in 1..c |-> h[g[k]]], c, {h[i] : i \in P})
    BY <1>9, <2>1, <2>2, OrderWithin
  <2> QED
    BY <1>11, <2>3
<1>13. {h[i] : i \in P} = KeptPlaces(m)
  <2>1. ASSUME NEW i \in P PROVE h[i] \in 1..L /\ KeptSlot(slots[h[i]])
    <3>1. i \in 1..n /\ slots[h[i]] \notin {"CFV", "SecureBoot", "Separator"}
      BY <1>6, <1>7
    <3>2. slots[h[i]] # "Bankless"
      BY <1>2, <1>4, <3>1
    <3> QED
      BY <1>4, <3>1, <3>2 DEF KeptSlot
  <2>2. ASSUME NEW i \in 1..L, KeptSlot(slots[i]) PROVE \E k \in P : h[k] = i
    <3>1. i \in K
      BY <1>2, <2>2 DEF KeptSlot
    <3>2. PICK k \in 1..n : h[k] = i
      BY <1>4, <3>1
    <3>3. k \in P
      BY <1>6, <1>7, <2>2, <3>2 DEF KeptSlot
    <3> QED
      BY <3>2, <3>3
  <2>3. KeptPlaces(m) = {i \in 1..L : KeptSlot(slots[i])}
    BY <1>1 DEF KeptPlaces
  <2> QED
    BY <2>1, <2>2, <2>3
<1>14. c \in Nat /\ \A k \in 1..c : g[k] \in 1..n /\ f[k] = h[g[k]]
  <2>1. c \in Nat /\ g \in [1..c -> P]
    BY <1>10 DEF InOrder
  <2> QED
    BY <1>9, <1>11, <2>1
<1>15. PICK kept : kept = KeptSlots(m.layout)
  OBVIOUS
<1>16. Len(kept) = c /\ \A k \in 1..c : kept[k] = slots[f[k]]
  BY <1>6, <1>8, <1>10, <1>14, <1>15
<1>17. SlotLabels(kept) = [k \in 1..c |-> SlotLabel(slots[f[k]])]
  BY <1>16 DEF SlotLabels
<1>20. InOrder(f, c, KeptPlaces(m))
  BY <1>12, <1>13
<1>21. SlotLabels(KeptSlots(m.layout)) = [k \in 1..c |-> SlotLabel(m.layout.rtmr0[f[k]])]
  BY <1>1, <1>15, <1>17
<1> QED
  BY <1>20, <1>21

\* The events an extraction keeps, which are those of RTMR[0] that are not
\* computable and perhaps some of another register.
LEMMA KeptEventsOfMachine ==
  ASSUME NEW m \in Machines, NEW K \in SUBSET (1..Len(Recorded(WholeLog(m)))),
         \A k \in 1..Len(Recorded(WholeLog(m))) :
           Recorded(WholeLog(m))[k].rtmr = 0 =>
             (k \in K <=> ~IsComputable(Recorded(WholeLog(m))[k]))
  PROVE  LET events == Kept(Taken(Recorded(WholeLog(m)), K))
         IN  /\ Recordable(events) /\ Decodable(events) /\ Labelled(events, m)
             /\ \E p : OfSlots(events, m, p) /\ TablesInOrder(events, p)
<1>1. PICK whole, N, slots, L, recorded :
        /\ whole = WholeLog(m) /\ N = Len(whole) /\ slots = m.layout.rtmr0 /\ L = Len(slots)
        /\ recorded = Recorded(whole)
  OBVIOUS
<1>2. /\ N \in Nat /\ L \in Nat /\ L <= N
      /\ \A i \in 1..L : slots[i] \in Rtmr0Slots /\ whole[i] = EventOf(0, slots[i], m)
      /\ \A i \in 1..N : i > L =>
           \/ \E s \in Rtmr1Slots : whole[i] = EventOf(1, s, m)
           \/ \E s \in {"Sections", "Profile"} : whole[i] = EventOf(2, s, m)
  BY <1>1, WholeLogEvents
<1>3. PICK K1 : K1 = {i \in 1..N : whole[i].digest # NoDigest}
  OBVIOUS
<1>4. recorded = Taken(whole, K1)
  BY <1>1, <1>3 DEF Recorded, Chosen, Places
<1>5. K1 \in SUBSET (1..N)
  BY <1>3
<1>6. PICK n1, g1 : InOrder(g1, n1, K1) /\ Taken(whole, K1) = [k \in 1..n1 |-> whole[g1[k]]]
  <2>1. N \in Nat
    BY <1>2
  <2> QED
    BY <1>5, <2>1, TakenOrder
<1>7. /\ n1 \in Nat /\ g1 \in [1..n1 -> K1] /\ \A k \in 1..n1 : g1[k] \in 1..N
      /\ \A i \in K1 : \E k \in 1..n1 : g1[k] = i
  <2>1. n1 \in Nat /\ g1 \in [1..n1 -> K1] /\ \A i \in K1 : \E k \in 1..n1 : g1[k] = i
    BY <1>6 DEF InOrder
  <2> QED
    BY <1>5, <2>1
<1>8. Len(recorded) = n1 /\ \A k \in 1..n1 : recorded[k] = whole[g1[k]]
  BY <1>4, <1>6, <1>7
<1>9. /\ K \in SUBSET (1..n1)
      /\ \A k \in 1..n1 : recorded[k].rtmr = 0 => (k \in K <=> ~IsComputable(recorded[k]))
  BY <1>1, <1>8
<1>10. PICK n2, g2 : InOrder(g2, n2, K) /\ Taken(recorded, K) = [k \in 1..n2 |-> recorded[g2[k]]]
  BY <1>7, <1>9, TakenOrder
<1>11. n2 \in Nat /\ g2 \in [1..n2 -> K] /\ \A k \in 1..n2 : g2[k] \in 1..n1 /\ g2[k] \in K
  <2>1. n2 \in Nat /\ g2 \in [1..n2 -> K]
    BY <1>10 DEF InOrder
  <2> QED
    BY <1>9, <2>1
<1>12. PICK f : f = [k \in 1..n2 |-> g1[g2[k]]]
  OBVIOUS
<1>13. K1 \in SUBSET Nat
  BY <1>2, <1>5
<1>14. InOrder(f, n2, {g1[i] : i \in K})
  <2>1. InOrder(g1, n1, K1) /\ InOrder(g2, n2, K)
    BY <1>6, <1>10
  <2>2. InOrder([k \in 1..n2 |-> g1[g2[k]]], n2, {g1[i] : i \in K})
    BY <1>9, <1>13, <2>1, OrderWithin
  <2> QED
    BY <1>12, <2>2
<1>15. PICK b : b = Kept(Taken(recorded, K))
  OBVIOUS
<1>16. \A k \in 1..n2 : f[k] = g1[g2[k]] /\ f[k] \in 1..N /\ recorded[g2[k]] = whole[f[k]]
  BY <1>7, <1>8, <1>11, <1>12
<1>17. b = [k \in 1..n2 |-> BaselineEvent(whole[f[k]])]
  <2>1. PICK taken : taken = Taken(recorded, K)
    OBVIOUS
  <2>2. Len(taken) = n2 /\ \A k \in 1..n2 : taken[k] = whole[f[k]]
    BY <1>10, <1>11, <1>16, <2>1
  <2> QED
    BY <1>15, <2>1, <2>2 DEF Kept
<1>18. Len(b) = n2 /\ \A k \in 1..n2 : b[k] = BaselineEvent(whole[f[k]])
  BY <1>11, <1>17
<1>19. \A k \in 1..n2 : /\ b[k].rtmr = whole[f[k]].rtmr /\ b[k].label = LabelOf(whole[f[k]])
                        /\ b[k].digest = whole[f[k]].digest
                        /\ b[k] = [rtmr |-> b[k].rtmr, label |-> b[k].label, digest |-> b[k].digest]
  BY <1>18 DEF BaselineEvent
<1>20. ASSUME NEW k \in 1..n2, f[k] <= L
       PROVE  /\ f[k] \in 1..L /\ b[k].rtmr = 0 /\ KeptSlot(slots[f[k]])
              /\ b[k].label = SlotLabel(slots[f[k]])
              /\ b[k].digest = Digest(slots[f[k]], m)
  <2>1. f[k] \in 1..L /\ slots[f[k]] \in Rtmr0Slots /\ whole[f[k]] = EventOf(0, slots[f[k]], m)
    BY <1>2, <1>16, <1>20
  <2>2. whole[f[k]].digest # NoDigest
    BY <1>3, <1>7, <1>11, <1>16
  <2>3. whole[f[k]].rtmr = 0 /\ whole[f[k]].digest = Digest(slots[f[k]], m)
    BY <2>1, KeptEvents
  <2>4. ~IsComputable(whole[f[k]])
    BY <1>9, <1>11, <1>16, <2>3
  <2>5. KeptSlot(slots[f[k]]) /\ LabelOf(whole[f[k]]) = SlotLabel(slots[f[k]])
    BY <2>1, <2>2, <2>4, KeptEvents
  <2> QED
    BY <1>19, <2>1, <2>3, <2>5
<1>21. ASSUME NEW k \in 1..n2, ~(f[k] <= L)
       PROVE  /\ b[k].rtmr # 0 /\ b[k].digest # Malformed
              /\ b[k].rtmr = 1 /\ b[k].label = "GPT_EVENT" => b[k].digest = Digest("GPT", m)
  <2>1. PICK e : e = whole[f[k]]
    OBVIOUS
  <2>2. \/ \E s \in Rtmr1Slots : e = EventOf(1, s, m)
        \/ \E s \in {"Sections", "Profile"} : e = EventOf(2, s, m)
    BY <1>2, <1>16, <1>21, <2>1
  <2>3. e.rtmr # 0 /\ (e.rtmr = 1 /\ LabelOf(e) = "GPT_EVENT" => e.digest = Digest("GPT", m))
    BY <2>2, OtherEvents
  <2>4. PICK s \in Rtmr1Slots \cup {"Sections", "Profile"} :
          e = EventOf(1, s, m) \/ e = EventOf(2, s, m)
    BY <2>2, Zenon
  <2>7. EventOf(1, s, m).digest = Digest(s, m) /\ EventOf(2, s, m).digest = Digest(s, m)
    BY DEF EventOf
  <2>5. e.digest = Digest(s, m)
    BY <2>4, <2>7
  <2>6. e.digest # Malformed
    BY <2>5, DigestsDecode
  <2> QED
    BY <1>19, <2>1, <2>3, <2>6
<1>22. Recordable(b)
  <2>1. b = [k \in 1..n2 |-> b[k]]
    BY <1>17
  <2> QED
    BY <1>11, <1>18, <1>19, <2>1 DEF Recordable
<1>23. Decodable(b)
  <2>1. ASSUME NEW k \in 1..n2 PROVE b[k].digest # Malformed
    <3>1. CASE f[k] <= L
      <4>1. slots[f[k]] \in Rtmr0Slots /\ b[k].digest = Digest(slots[f[k]], m)
        BY <1>2, <1>20, <3>1
      <4> QED
        BY <4>1, DigestsDecode
    <3> QED
      BY <1>21, <3>1
  <2> QED
    BY <1>18, <2>1 DEF Decodable
<1>24. OfSlots(b, m, f)
  <2>1. \A k \in 1..n2 : b[k].rtmr = 0 =>
          /\ f[k] \in 1..L /\ KeptSlot(slots[f[k]])
          /\ b[k].label = SlotLabel(slots[f[k]])
          /\ b[k].digest = Digest(slots[f[k]], m)
    BY <1>20, <1>21
  <2>2. \A k \in 1..n2 : b[k].rtmr = 1 /\ b[k].label = "GPT_EVENT" => b[k].digest = Digest("GPT", m)
    <3> SUFFICES ASSUME NEW k \in 1..n2, b[k].rtmr = 1, b[k].label = "GPT_EVENT"
                 PROVE  b[k].digest = Digest("GPT", m)
      OBVIOUS
    <3>1. b[k].rtmr # 0
      <4>1. 1 # 0
        OBVIOUS
      <4> QED
        BY <4>1, Zenon
    <3>2. ~(f[k] <= L)
      BY <1>20, <3>1
    <3> QED
      BY <1>21, <3>2
  <2> QED
    BY <1>1, <1>18, <2>1, <2>2 DEF OfSlots
<1>25. TablesInOrder(b, f)
  BY <1>14, <1>18 DEF TablesInOrder, InOrder
<1>26. Labelled(b, m)
  <2>1. PICK K3 : K3 = {k \in 1..n2 : b[k].rtmr = 0}
    OBVIOUS
  <2>2. OfRtmr(b, 0) = Taken(b, K3) /\ K3 \in SUBSET (1..n2)
    BY <1>18, <2>1 DEF OfRtmr, Chosen, Places
  <2>3. PICK n3, g3 : InOrder(g3, n3, K3) /\ Taken(b, K3) = [j \in 1..n3 |-> b[g3[j]]]
    <3>1. n2 \in Nat
      BY <1>11
    <3>2. K3 \in SUBSET (1..n2)
      BY <2>2
    <3> QED
      BY <3>1, <3>2, TakenOrder
  <2>4. n3 \in Nat /\ \A j \in 1..n3 : g3[j] \in K3
    BY <2>3 DEF InOrder
  <2>5. PICK fz : fz = [j \in 1..n3 |-> f[g3[j]]]
    OBVIOUS
  <2>6. InOrder(fz, n3, {f[k] : k \in K3})
    <3>1. {g1[i] : i \in K} \in SUBSET Nat
      BY <1>2, <1>7, <1>9
    <3>2. InOrder(f, n2, {g1[i] : i \in K}) /\ InOrder(g3, n3, K3)
      BY <1>14, <2>3
    <3>3. InOrder([j \in 1..n3 |-> f[g3[j]]], n3, {f[k] : k \in K3})
      BY <2>2, <3>1, <3>2, OrderWithin
    <3> QED
      BY <2>5, <3>3
  <2>7. {f[k] : k \in K3} = KeptPlaces(m)
    <3>1. KeptPlaces(m) = {i \in 1..L : KeptSlot(slots[i])}
      BY <1>1 DEF KeptPlaces
    <3>2. ASSUME NEW k \in K3 PROVE f[k] \in 1..L /\ KeptSlot(slots[f[k]])
      BY <1>20, <1>21, <2>1
    <3>3. ASSUME NEW i \in 1..L, KeptSlot(slots[i]) PROVE \E k \in K3 : f[k] = i
      <4>1. i \in 1..N /\ slots[i] \in Rtmr0Slots /\ whole[i] = EventOf(0, slots[i], m)
        BY <1>2
      <4>2. whole[i].rtmr = 0 /\ whole[i].digest # NoDigest /\ ~IsComputable(whole[i])
        BY <3>3, <4>1, KeptEvents
      <4>3. i \in K1
        BY <1>3, <4>1, <4>2
      <4>4. PICK j \in 1..n1 : g1[j] = i
        BY <1>7, <4>3
      <4>5. j \in K
        BY <1>8, <1>9, <4>2, <4>4
      <4>6. PICK k \in 1..n2 : g2[k] = j
        BY <1>10, <4>5 DEF InOrder
      <4>7. f[k] = i /\ b[k].rtmr = 0
        BY <1>16, <1>19, <4>2, <4>4, <4>6
      <4> QED
        BY <2>1, <4>7
    <3> QED
      BY <3>1, <3>2, <3>3
  <2>8. PICK n, h : /\ InOrder(h, n, KeptPlaces(m))
                    /\ SlotLabels(KeptSlots(m.layout)) =
                         [k \in 1..n |-> SlotLabel(m.layout.rtmr0[h[k]])]
    BY KeptInOrder
  <2>9. n3 = n /\ fz = h
    <3>1. KeptPlaces(m) \in SUBSET Nat
      BY <1>1, <1>2 DEF KeptPlaces
    <3>2. InOrder(fz, n3, KeptPlaces(m))
      BY <2>6, <2>7
    <3> QED
      BY <2>8, <3>1, <3>2, OneOrder
  <2>10. PICK zero : zero = OfRtmr(b, 0)
    OBVIOUS
  <2>11. Len(zero) = n3 /\ \A j \in 1..n3 : zero[j] = b[g3[j]]
    BY <2>2, <2>3, <2>4, <2>10
  <2>12. Labels(zero) = [j \in 1..n3 |-> b[g3[j]].label]
    BY <2>11 DEF Labels
  <2>13. \A j \in 1..n3 : b[g3[j]].label = SlotLabel(slots[h[j]])
    <3> SUFFICES ASSUME NEW j \in 1..n3 PROVE b[g3[j]].label = SlotLabel(slots[h[j]])
      OBVIOUS
    <3>1. g3[j] \in 1..n2 /\ b[g3[j]].rtmr = 0 /\ h[j] = f[g3[j]]
      BY <2>1, <2>4, <2>5, <2>9
    <3> QED
      BY <1>20, <1>21, <3>1
  <2> QED
    BY <1>1, <2>8, <2>9, <2>10, <2>12, <2>13 DEF Labelled
<1> QED
  BY <1>1, <1>15, <1>22, <1>23, <1>24, <1>25, <1>26

LEMMA RecordedEvents ==
  ASSUME NEW m \in Machines
  PROVE  \A k \in 1..Len(Recorded(WholeLog(m))) :
           Recorded(WholeLog(m))[k].rtmr = 0 => Recorded(WholeLog(m))[k].event_type # "GPT_EVENT"
<1>1. PICK whole, N, slots, L, recorded :
        /\ whole = WholeLog(m) /\ N = Len(whole) /\ slots = m.layout.rtmr0 /\ L = Len(slots)
        /\ recorded = Recorded(whole)
  OBVIOUS
<1>2. /\ N \in Nat /\ L \in Nat
      /\ \A i \in 1..L : slots[i] \in Rtmr0Slots /\ whole[i] = EventOf(0, slots[i], m)
      /\ \A i \in 1..N : i > L =>
           \/ \E s \in Rtmr1Slots : whole[i] = EventOf(1, s, m)
           \/ \E s \in {"Sections", "Profile"} : whole[i] = EventOf(2, s, m)
  BY <1>1, WholeLogEvents
<1>3. PICK K : K = {i \in 1..N : whole[i].digest # NoDigest}
  OBVIOUS
<1>4. recorded = Taken(whole, K) /\ K \in SUBSET (1..N)
  BY <1>1, <1>3 DEF Recorded, Chosen, Places
<1>5. PICK n, g : InOrder(g, n, K) /\ Taken(whole, K) = [j \in 1..n |-> whole[g[j]]]
  <2>1. N \in Nat /\ K \in SUBSET (1..N)
    BY <1>2, <1>4
  <2> QED
    BY <2>1, TakenOrder
<1>6. n \in Nat /\ \A j \in 1..n : g[j] \in 1..N
  BY <1>4, <1>5 DEF InOrder
<1> SUFFICES ASSUME NEW k \in 1..Len(recorded), recorded[k].rtmr = 0
             PROVE  recorded[k].event_type # "GPT_EVENT"
  BY <1>1
<1>7. k \in 1..n /\ recorded[k] = whole[g[k]]
  BY <1>4, <1>5, <1>6
<1>8. whole[g[k]].rtmr = 0
  BY <1>7
<1>9. g[k] <= L
  <2> SUFFICES ASSUME ~(g[k] <= L) PROVE FALSE
    OBVIOUS
  <2>1. PICK e : e = whole[g[k]]
    OBVIOUS
  <2>2. g[k] \in 1..N /\ g[k] > L
    BY <1>2, <1>6, <1>7
  <2>3. \/ \E s \in Rtmr1Slots : e = EventOf(1, s, m)
        \/ \E s \in {"Sections", "Profile"} : e = EventOf(2, s, m)
    BY <1>2, <2>1, <2>2
  <2> QED
    BY <1>8, <2>1, <2>3, OtherEvents
<1>10. g[k] \in 1..L
  BY <1>2, <1>6, <1>7, <1>9
<1>11. whole[g[k]].event_type # "GPT_EVENT"
  BY <1>2, <1>10, KeptEvents
<1> QED
  BY <1>7, <1>11

\* Whether Secure Boot was on is read off the log, if it has the event.
LEMMA SecureBootRead ==
  ASSUME NEW m \in Machines, HasSecureBoot(m)
  PROVE  SecureBootOf(WholeLog(m)) = m.secureboot
<1>1. PICK whole, N, slots, L :
        whole = WholeLog(m) /\ N = Len(whole) /\ slots = m.layout.rtmr0 /\ L = Len(slots)
  OBVIOUS
<1>2. /\ N \in Nat /\ L \in Nat /\ L <= N
      /\ \A i \in 1..L : slots[i] \in Rtmr0Slots /\ whole[i] = EventOf(0, slots[i], m)
      /\ \A i \in 1..N : i > L =>
           \/ \E s \in Rtmr1Slots : whole[i] = EventOf(1, s, m)
           \/ \E s \in {"Sections", "Profile"} : whole[i] = EventOf(2, s, m)
  BY <1>1, WholeLogEvents
<1>3. PICK I : I = {i \in 1..N : IsSecureBoot(whole[i])}
  OBVIOUS
<1>4. PICK i0 \in 1..L : slots[i0] = "SecureBoot"
  BY <1>1 DEF HasSecureBoot
<1>5. i0 \in I
  <2>1. IsSecureBoot(EventOf(0, "SecureBoot", m))
    <3>1. EventType("SecureBoot") = "VARIABLE_DRIVER_CONFIG" /\ "SecureBoot" \in DriverVariables
      BY DEF EventType, DriverVariables, BootVariables, AcpiTables
    <3>2. PICK e : e = EventOf(0, "SecureBoot", m)
      OBVIOUS
    <3>3. e.rtmr = 0 /\ e.event_type = "VARIABLE_DRIVER_CONFIG" /\ e.name = "SecureBoot"
      BY <3>1, <3>2 DEF EventOf
    <3> QED
      BY <3>2, <3>3 DEF IsSecureBoot
  <2> QED
    BY <1>2, <1>3, <1>4, <2>1
<1>6. PICK n, g : InOrder(g, n, I)
  <2>1. I \in SUBSET (1..N) /\ N \in Nat
    BY <1>2, <1>3
  <2> QED
    BY <2>1, TakenOrder
<1>7. /\ n \in Nat /\ g \in [1..n -> I] /\ \A j, k \in 1..n : j < k => g[j] < g[k]
      /\ \A i \in I : \E k \in 1..n : g[k] = i
  BY <1>6 DEF InOrder
<1>8. n \in 1..n
  <2>1. PICK k \in 1..n : g[k] = i0
    BY <1>5, <1>7
  <2> QED
    BY <1>7, <2>1
<1>9. g[n] \in I /\ \A i \in I : g[n] >= i
  <2>1. ASSUME NEW i \in I PROVE g[n] >= i
    <3>1. PICK k \in 1..n : g[k] = i
      BY <1>7
    <3>2. g[n] \in Nat /\ i \in Nat
      BY <1>2, <1>3, <1>7, <1>8
    <3>3. CASE k = n
      BY <3>1, <3>2, <3>3
    <3>4. CASE k # n
      <4>1. k < n
        BY <1>7, <3>4
      <4> QED
        BY <1>7, <1>8, <3>1, <3>2, <4>1
    <3> QED
      BY <3>3, <3>4
  <2> QED
    BY <1>7, <1>8, <2>1
<1>10. PICK last : last = Max(I)
  OBVIOUS
<1>11. last \in I
  BY <1>9, <1>10 DEF Max
<1>12. SelectLastInSeq(whole, IsSecureBoot) = last
  BY <1>1, <1>3, <1>5, <1>10 DEF SelectLastInSeq
<1>13. PICK e : e = whole[last]
  OBVIOUS
<1>14. last \in 1..N /\ IsSecureBoot(e)
  BY <1>3, <1>11, <1>13
<1>15. e.rtmr = 0 /\ e.event_type = "VARIABLE_DRIVER_CONFIG" /\ e.name = "SecureBoot"
  BY <1>14 DEF IsSecureBoot
<1>16. last \in 1..L
  <2> SUFFICES ASSUME ~(last <= L) PROVE FALSE
    BY <1>2, <1>14
  <2>1. last > L
    BY <1>2, <1>14
  <2>2. \/ \E s \in Rtmr1Slots : e = EventOf(1, s, m)
        \/ \E s \in {"Sections", "Profile"} : e = EventOf(2, s, m)
    BY <1>2, <1>13, <1>14, <2>1
  <2> QED
    BY <1>15, <2>2, OtherEvents
<1>17. PICK s : s = slots[last]
  OBVIOUS
<1>18. e = EventOf(0, s, m)
  BY <1>2, <1>13, <1>16, <1>17
<1>19. e.value = DeterminedBy(s, m)
       /\ e.name = (IF s \in DriverVariables \cup BootVariables THEN s ELSE "")
  BY <1>18 DEF EventOf
<1>20. s = "SecureBoot"
  BY <1>15, <1>19
<1>21. e.value = m.secureboot
  BY <1>19, <1>20 DEF DeterminedBy
<1>22. last # 0 /\ m.secureboot \in {"on", "off"}
  BY <1>2, <1>14 DEF Machines
<1> QED
  BY <1>1, <1>12, <1>13, <1>21, <1>22 DEF SecureBootOf

LEMMA ExtractedIsOfMachine ==
  ASSUME NEW m \in Machines, NEW hash \in {NotThere, m.firmware}, NEW was_edited
  PROVE  /\ BaselineOf(Extracted(WholeLog(m), hash), m, was_edited)
         /\ BaselineOf(LegacyExtracted(WholeLog(m), hash), m, was_edited)
<1>1. PICK recorded : recorded = Recorded(WholeLog(m))
  OBVIOUS
<1>2. PICK K : K = {k \in 1..Len(recorded) : ~IsComputable(recorded[k])}
  OBVIOUS
<1>3. PICK J : J = {k \in 1..Len(recorded) :
                      ~IsComputable(recorded[k]) \/ recorded[k].event_type = "GPT_EVENT"}
  OBVIOUS
<1>4. EventsOfMachine(Kept(Taken(recorded, K)), m, was_edited)
  <2>1. K \in SUBSET (1..Len(recorded))
        /\ \A k \in 1..Len(recorded) : k \in K <=> ~IsComputable(recorded[k])
    BY <1>2
  <2> QED
    BY <1>1, <2>1, KeptEventsOfMachine DEF EventsOfMachine
<1>5. EventsOfMachine(Kept(Taken(recorded, J)), m, was_edited)
  <2>1. J \in SUBSET (1..Len(recorded))
        /\ \A k \in 1..Len(recorded) :
             recorded[k].rtmr = 0 => (k \in J <=> ~IsComputable(recorded[k]))
    BY <1>1, <1>3, RecordedEvents
  <2> QED
    BY <1>1, <2>1, KeptEventsOfMachine DEF EventsOfMachine
<1>6. Extracted(WholeLog(m), hash) =
        [firmware_sha384 |-> hash, secureboot |-> SecureBootOf(WholeLog(m)),
         events |-> Kept(Taken(recorded, K))]
  BY <1>1, <1>2 DEF Extracted, Chosen, Places
<1>7. LegacyExtracted(WholeLog(m), hash) =
        [firmware_sha384 |-> hash, secureboot |-> SecureBootOf(WholeLog(m)),
         events |-> Kept(Taken(recorded, J))]
  BY <1>1, <1>3 DEF LegacyExtracted, Chosen, Places
<1>8. ASSUME NEW events, EventsOfMachine(events, m, was_edited), NEW flag,
             HasSecureBoot(m) => flag = m.secureboot
      PROVE  BaselineOf([firmware_sha384 |-> hash, secureboot |-> flag, events |-> events],
                        m, was_edited)
  BY <1>8 DEF BaselineOf
<1> QED
  BY <1>4, <1>5, <1>6, <1>7, <1>8, SecureBootRead

(* ---- What becomes of the baseline -------------------------------------- *)

LEMMA DigestOfSlot ==
  ASSUME NEW m, NEW m2, m2.layout = m.layout, m2.firmware = m.firmware,
         m2.uki = m.uki, m2.disk = m.disk, NEW s, s # "SecureBoot"
  PROVE  Digest(s, m2) = Digest(s, m)
BY DEF Digest, DeterminedBy

LEMMA DamagedEvents ==
  ASSUME NEW m \in Machines, NEW events, NEW was_edited, EventsOfMachine(events, m, was_edited),
         NEW i \in 1..Len(events)
  PROVE  EventsOfMachine([events EXCEPT ![i].digest = Malformed], m, TRUE)
<1>1. PICK n : n = Len(events)
  OBVIOUS
<1>2. /\ n \in Nat /\ DOMAIN events = 1..n
      /\ \A k \in 1..n : events[k] = [rtmr |-> events[k].rtmr, label |-> events[k].label,
                                      digest |-> events[k].digest]
  BY <1>1 DEF EventsOfMachine, Recordable
<1>3. PICK b : b = [events EXCEPT ![i].digest = Malformed]
  OBVIOUS
<1>4. b = [k \in 1..n |-> IF k = i THEN [events[i] EXCEPT !.digest = Malformed] ELSE events[k]]
  BY <1>2, <1>3
<1>5. Len(b) = n
  BY <1>2, <1>4
<1>6. ASSUME NEW k \in 1..n
      PROVE  /\ b[k].rtmr = events[k].rtmr /\ b[k].label = events[k].label
             /\ b[k].digest \in {events[k].digest, Malformed}
             /\ b[k] = [rtmr |-> b[k].rtmr, label |-> b[k].label, digest |-> b[k].digest]
  <2>1. CASE k # i
    BY <1>2, <1>4, <2>1
  <2>2. CASE k = i
    <3>1. PICK e : e = events[i]
      OBVIOUS
    <3>2. e = [rtmr |-> e.rtmr, label |-> e.label, digest |-> e.digest]
      BY <1>2, <2>2, <3>1
    <3>3. b[k] = [e EXCEPT !.digest = Malformed]
      BY <1>4, <2>2, <3>1
    <3>4. b[k] = [rtmr |-> e.rtmr, label |-> e.label, digest |-> Malformed]
      BY <3>2, <3>3
    <3> QED
      BY <2>2, <3>1, <3>4
  <2> QED
    BY <2>1, <2>2
<1>7. Recordable(b)
  <2>1. b = [k \in 1..n |-> b[k]]
    BY <1>4
  <2> QED
    BY <1>2, <1>5, <1>6, <2>1 DEF Recordable
<1>8. PICK p : OfSlots(events, m, p) /\ TablesInOrder(events, p)
  BY DEF EventsOfMachine
<1>9. OfSlots(b, m, p)
  BY <1>1, <1>5, <1>6, <1>8 DEF OfSlots
<1>10. TablesInOrder(b, p)
  BY <1>1, <1>5, <1>6, <1>8 DEF TablesInOrder, IsTable
<1>11. ASSUME m.layout # Standard PROVE Labelled(b, m)
  <2>1. PICK K : K = {k \in 1..n : events[k].rtmr = 0}
    OBVIOUS
  <2>2. K = {k \in 1..n : b[k].rtmr = 0} /\ K \in SUBSET (1..n)
    BY <1>6, <2>1
  <2>3. OfRtmr(events, 0) = Taken(events, K) /\ OfRtmr(b, 0) = Taken(b, K)
    BY <1>1, <1>5, <2>1, <2>2 DEF OfRtmr, Chosen, Places
  <2>4. n \in Nat /\ K \in SUBSET (1..n)
    BY <1>2, <2>2
  <2>5. PICK c, g : InOrder(g, c, K)
    BY <2>4, TakenOrder
  <2>6. K \in SUBSET Nat
    BY <2>4
  <2>7. /\ Taken(events, K) = [k \in 1..c |-> events[g[k]]]
        /\ Taken(b, K) = [k \in 1..c |-> b[g[k]]]
    BY <2>5, <2>6, TakenInOrder
  <2>8. c \in Nat /\ \A k \in 1..c : g[k] \in 1..n
    BY <2>4, <2>5 DEF InOrder
  <2>9. PICK t, u : t = Taken(events, K) /\ u = Taken(b, K)
    OBVIOUS
  <2>10. /\ Len(t) = c /\ Len(u) = c
         /\ \A k \in 1..c : t[k] = events[g[k]] /\ u[k] = b[g[k]]
    BY <2>7, <2>8, <2>9
  <2>11. \A k \in 1..c : u[k].label = t[k].label
    BY <1>6, <2>8, <2>10
  <2>12. Labels(u) = Labels(t)
    BY <2>10, <2>11 DEF Labels
  <2>13. Labels(OfRtmr(events, 0)) = SlotLabels(KeptSlots(m.layout))
    BY <1>11 DEF EventsOfMachine, Labelled
  <2> QED
    BY <2>3, <2>9, <2>12, <2>13 DEF Labelled
<1> QED
  BY <1>3, <1>7, <1>9, <1>10, <1>11 DEF EventsOfMachine

\* Neighbours that change places are not both of ACPI tables.
LEMMA SwappedEvents ==
  ASSUME NEW m \in Machines, m.layout = Standard, NEW events, NEW was_edited,
         EventsOfMachine(events, m, was_edited),
         NEW i \in 1..Len(events), i + 1 \in 1..Len(events),
         events[i].label # events[i + 1].label
  PROVE  EventsOfMachine([events EXCEPT ![i] = events[i + 1], ![i + 1] = events[i]], m, TRUE)
<1>1. PICK n : n = Len(events)
  OBVIOUS
<1>2. /\ n \in Nat /\ DOMAIN events = 1..n
      /\ \A k \in 1..n : events[k] = [rtmr |-> events[k].rtmr, label |-> events[k].label,
                                      digest |-> events[k].digest]
  BY <1>1 DEF EventsOfMachine, Recordable
<1>3. PICK b : b = [events EXCEPT ![i] = events[i + 1], ![i + 1] = events[i]]
  OBVIOUS
<1>4. PICK swap : swap = [k \in 1..n |-> IF k = i THEN i + 1 ELSE IF k = i + 1 THEN i ELSE k]
  OBVIOUS
<1>5. i \in 1..n /\ i + 1 \in 1..n /\ events[i].label # events[i + 1].label
  BY <1>1
<1>6. \A k \in 1..n : /\ swap[k] \in 1..n
                      /\ swap[k] = IF k = i THEN i + 1 ELSE IF k = i + 1 THEN i ELSE k
  BY <1>2, <1>4, <1>5
<1>7. b = [k \in 1..n |-> events[swap[k]]]
  <2>1. b = [k \in 1..n |-> IF k = i + 1 THEN events[i] ELSE IF k = i THEN events[i + 1] ELSE events[k]]
    BY <1>2, <1>3, <1>5
  <2>2. i # i + 1
    BY <1>5
  <2>3. \A k \in 1..n : (IF k = i + 1 THEN events[i] ELSE IF k = i THEN events[i + 1] ELSE events[k])
                          = events[swap[k]]
    BY <1>6, <2>2
  <2> QED
    BY <2>1, <2>3
<1>8. Len(b) = n /\ \A k \in 1..n : b[k] = events[swap[k]]
  BY <1>2, <1>7
<1>9. Recordable(b)
  <2>1. b = [k \in 1..n |-> b[k]]
    BY <1>7
  <2>2. \A k \in 1..n : b[k] = [rtmr |-> b[k].rtmr, label |-> b[k].label, digest |-> b[k].digest]
    BY <1>2, <1>6, <1>8
  <2> QED
    BY <1>2, <1>8, <2>1, <2>2 DEF Recordable
<1>10. PICK p : OfSlots(events, m, p) /\ TablesInOrder(events, p)
  BY DEF EventsOfMachine
<1>11. PICK q : q = [k \in 1..n |-> p[swap[k]]]
  OBVIOUS
<1>12. OfSlots(b, m, q)
  <2>1. \A k \in 1..n : q[k] = p[swap[k]] /\ swap[k] \in 1..n /\ b[k] = events[swap[k]]
    BY <1>6, <1>8, <1>11
  <2>2. ASSUME NEW k \in 1..n
        PROVE  /\ b[k].rtmr = 0 =>
                    /\ q[k] \in 1..Len(m.layout.rtmr0) /\ KeptSlot(m.layout.rtmr0[q[k]])
                    /\ b[k].label = SlotLabel(m.layout.rtmr0[q[k]])
                    /\ b[k].digest \in {Digest(m.layout.rtmr0[q[k]], m), Malformed}
               /\ b[k].rtmr = 1 /\ b[k].label = "GPT_EVENT" =>
                    b[k].digest \in {Digest("GPT", m), Malformed}
    <3>1. PICK j : j = swap[k]
      OBVIOUS
    <3>2. j \in 1..Len(events) /\ b[k] = events[j] /\ q[k] = p[j]
      BY <1>1, <2>1, <3>1
    <3> QED
      BY <1>10, <3>2 DEF OfSlots
  <2> QED
    BY <1>8, <2>2 DEF OfSlots
<1>13. TablesInOrder(b, q)
  <2> SUFFICES ASSUME NEW j \in 1..n, NEW k \in 1..n, j < k, IsTable(b[j]), IsTable(b[k])
               PROVE  q[j] < q[k]
    BY <1>8 DEF TablesInOrder
  <2>1. IsTable(events[swap[j]]) /\ IsTable(events[swap[k]])
    BY <1>8
  <2>2. ~(j = i /\ k = i + 1)
    BY <1>5, <1>6, <2>1 DEF IsTable
  <2>3. swap[j] < swap[k]
    BY <1>2, <1>5, <1>6, <2>2
  <2>4. p[swap[j]] < p[swap[k]]
    BY <1>1, <1>6, <1>10, <2>1, <2>3 DEF TablesInOrder
  <2> QED
    BY <1>11, <2>4
<1> QED
  BY <1>3, <1>9, <1>12, <1>13 DEF EventsOfMachine

LEMMA ToggledBaseline ==
  ASSUME NEW m \in Machines, NEW b, NEW was_edited, BaselineOf(b, m, was_edited),
         b.secureboot \in {"on", "off"}
  PROVE  BaselineOf([b EXCEPT !.secureboot = Flipped(@)], [m EXCEPT !.secureboot = Flipped(@)],
                    was_edited)
<1>1. PICK m2 : m2 = [m EXCEPT !.secureboot = Flipped(@)]
  OBVIOUS
<1>2. /\ m2.layout = m.layout /\ m2.firmware = m.firmware /\ m2.uki = m.uki /\ m2.disk = m.disk
      /\ m2.secureboot = Flipped(m.secureboot)
  BY <1>1 DEF Machines
<1>3. PICK b2 : b2 = [b EXCEPT !.secureboot = Flipped(@)]
  OBVIOUS
<1>4. b = [firmware_sha384 |-> b.firmware_sha384, secureboot |-> b.secureboot, events |-> b.events]
  BY DEF BaselineOf
<1>5. b2 = [firmware_sha384 |-> b.firmware_sha384, secureboot |-> Flipped(b.secureboot),
            events |-> b.events]
  BY <1>3, <1>4
<1>6. PICK events : events = b.events
  OBVIOUS
<1>7. EventsOfMachine(events, m, was_edited)
  BY <1>6 DEF BaselineOf
<1>8. EventsOfMachine(events, m2, was_edited)
  <2>1. PICK p : OfSlots(events, m, p) /\ TablesInOrder(events, p)
    BY <1>7 DEF EventsOfMachine
  <2>2. \A s : s # "SecureBoot" => Digest(s, m2) = Digest(s, m)
    BY <1>2, DigestOfSlot
  <2>3. \A s : KeptSlot(s) => s # "SecureBoot"
    BY DEF KeptSlot
  <2>4. OfSlots(events, m2, p)
    BY <1>2, <2>1, <2>2, <2>3 DEF OfSlots
  <2>5. Labelled(events, m) <=> Labelled(events, m2)
    BY <1>2 DEF Labelled
  <2> QED
    BY <1>2, <1>7, <2>1, <2>4, <2>5 DEF EventsOfMachine
<1>9. HasSecureBoot(m2) => b2.secureboot = m2.secureboot
  <2>1. HasSecureBoot(m2) <=> HasSecureBoot(m)
    BY <1>2 DEF HasSecureBoot
  <2> QED
    BY <1>2, <1>5, <2>1 DEF BaselineOf
<1>10. b2.firmware_sha384 \in {NotThere, m2.firmware}
  BY <1>2, <1>5 DEF BaselineOf
<1>11. b2 = [firmware_sha384 |-> b2.firmware_sha384, secureboot |-> b2.secureboot,
             events |-> b2.events] /\ b2.events = events
  BY <1>5, <1>6
<1> QED
  BY <1>1, <1>3, <1>8, <1>9, <1>10, <1>11 DEF BaselineOf

\* The log is the machine's, and the baseline is of the machine it was taken from.
FromTheMachine ==
  /\ log # <<>> => baseline = NoBaseline /\ log = WholeLog(machine)
  /\ baseline # NoBaseline => BaselineOf(baseline, machine, edited)
  /\ pc # "idle" => baseline # NoBaseline

LEMMA InitFromTheMachine == Init => FromTheMachine
  BY DEF Init, FromTheMachine

LEMMA EditFromTheMachine ==
  ASSUME FromTheMachine, NEW events, EditEvents(events),
         baseline # NoBaseline, EventsOfMachine(events, machine, TRUE)
  PROVE  FromTheMachine'
<1>1. /\ pc = "idle" /\ UNCHANGED <<machine, log, pc>> /\ edited' = TRUE
      /\ baseline' = [baseline EXCEPT !.events = events]
  BY DEF EditEvents
<1>2. BaselineOf(baseline, machine, edited) /\ log = <<>>
  BY DEF FromTheMachine
<1>3. baseline = [firmware_sha384 |-> baseline.firmware_sha384,
                  secureboot |-> baseline.secureboot, events |-> baseline.events]
  BY <1>2 DEF BaselineOf
<1>4. baseline' = [firmware_sha384 |-> baseline.firmware_sha384,
                   secureboot |-> baseline.secureboot, events |-> events]
  BY <1>1, <1>3
<1>5. BaselineOf(baseline', machine, TRUE)
  BY <1>2, <1>4 DEF BaselineOf
<1>6. BaselineOf(baseline', machine', edited') /\ log' = <<>> /\ pc' = "idle"
  BY <1>1, <1>2, <1>5
<1> QED
  BY <1>6 DEF FromTheMachine

LEMMA NextFromTheMachine == IInv /\ FromTheMachine /\ [Next]_vars => FromTheMachine'
<1> SUFFICES ASSUME IInv, FromTheMachine, [Next]_vars PROVE FromTheMachine'
  OBVIOUS
<1>1. machine \in Machines /\ baseline.secureboot \in {"on", "off"}
  BY DEF IInv, TypeOK
<1>2. CASE Capture
  BY <1>2 DEF Capture, FromTheMachine, WholeLog
<1>3. ASSUME NEW hash, ExtractBaseline(hash) \/ ExtractLegacyBaseline(hash)
      PROVE  FromTheMachine'
  <2>1. /\ pc = "idle" /\ log # <<>> /\ hash \in {NotThere, machine.firmware} /\ log' = <<>>
        /\ baseline' = Extracted(log, hash) \/ baseline' = LegacyExtracted(log, hash)
        /\ UNCHANGED <<machine, edited, pc>>
    BY <1>3 DEF ExtractBaseline, ExtractLegacyBaseline
  <2>2. log = WholeLog(machine)
    BY <2>1 DEF FromTheMachine
  <2>3. BaselineOf(baseline', machine, edited)
    BY <1>1, <2>1, <2>2, ExtractedIsOfMachine
  <2>4. /\ log' # <<>> => baseline' = NoBaseline /\ log' = WholeLog(machine')
        /\ pc' # "idle" => baseline' # NoBaseline
        /\ BaselineOf(baseline', machine', edited')
    BY <2>1, <2>3
  <2> QED
    BY <2>4 DEF FromTheMachine
<1>4. CASE ToggleSecureBoot
  <2>1. /\ pc = "idle" /\ baseline # NoBaseline /\ UNCHANGED <<log, edited, pc>>
        /\ machine' = [machine EXCEPT !.secureboot = Flipped(@)]
        /\ baseline' = [baseline EXCEPT !.secureboot = Flipped(@)]
    BY <1>4 DEF ToggleSecureBoot
  <2>2. BaselineOf(baseline, machine, edited) /\ log = <<>>
    BY <2>1 DEF FromTheMachine
  <2>3. BaselineOf(baseline', machine', edited')
    BY <1>1, <2>1, <2>2, ToggledBaseline
  <2>4. log' = <<>> /\ pc' = "idle"
    BY <2>1, <2>2
  <2> QED
    BY <2>3, <2>4 DEF FromTheMachine
<1>5. ASSUME NEW i \in DOMAIN baseline.events, DamageDigest(i) \/ SwapNext(i)
      PROVE  FromTheMachine'
  <2>1. baseline # NoBaseline
    <3> SUFFICES ASSUME baseline = NoBaseline PROVE FALSE
      OBVIOUS
    <3>1. baseline.events = <<>>
      BY DEF NoBaseline
    <3> QED
      BY <1>5, <3>1
  <2>2. PICK events, n : events = baseline.events /\ n = Len(events)
    OBVIOUS
  <2>3. EventsOfMachine(events, machine, edited)
    BY <2>1, <2>2 DEF FromTheMachine, BaselineOf
  <2>4. n \in Nat /\ DOMAIN events = 1..n
    BY <2>2, <2>3 DEF EventsOfMachine, Recordable
  <2>5. i \in 1..n
    BY <1>5, <2>2, <2>4
  <2>6. CASE DamageDigest(i)
    <3>1. EditEvents([events EXCEPT ![i].digest = Malformed])
      BY <2>2, <2>6 DEF DamageDigest
    <3>2. EventsOfMachine([events EXCEPT ![i].digest = Malformed], machine, TRUE)
      BY <1>1, <2>2, <2>3, <2>5, DamagedEvents
    <3> QED
      BY <3>1, <3>2, EditFromTheMachine, <2>1
  <2>7. CASE SwapNext(i)
    <3>1. /\ EditEvents([events EXCEPT ![i] = events[i + 1], ![i + 1] = events[i]])
          /\ machine.layout = Standard /\ i + 1 \in 1..n /\ events[i].label # events[i + 1].label
      BY <2>2, <2>4, <2>7 DEF SwapNext
    <3>2. EventsOfMachine([events EXCEPT ![i] = events[i + 1], ![i + 1] = events[i]], machine, TRUE)
      BY <1>1, <2>2, <2>3, <2>5, <3>1, SwappedEvents
    <3> QED
      BY <3>1, <3>2, EditFromTheMachine, <2>1
  <2> QED
    BY <1>5, <2>6, <2>7
<1>6. ASSUME NEW firmware, NEW uki, NEW disk, NEW rtmr3, Request(firmware, uki, disk, rtmr3)
      PROVE  FromTheMachine'
  BY <1>6 DEF Request, FromTheMachine
<1>7. CASE VerifyInputs
  BY <1>7 DEF VerifyInputs, FromTheMachine
<1>8. CASE ComputeMrtd \/ ComputeRtmr0 \/ ComputeRtmr1 \/ ComputeRtmr2
  <2>1. UNCHANGED <<machine, log, baseline, edited>> /\ pc # "idle"
    BY <1>8 DEF ComputeMrtd, ComputeRtmr0, ComputeRtmr1, ComputeRtmr2, Outcome
  <2> QED
    BY <2>1 DEF FromTheMachine
<1>9. CASE RunAgain
  BY <1>9 DEF RunAgain, FromTheMachine
<1>10. CASE UNCHANGED vars
  BY <1>10 DEF vars, FromTheMachine
<1> QED
  BY <1>2, <1>3, <1>4, <1>5, <1>6, <1>7, <1>8, <1>9, <1>10 DEF Next

(* ---- What is replayed of a baseline ------------------------------------ *)

TrailingPlaces(es) == {i \in 1..Len(es) : es[i].label \notin ToSet(FixedLabels)}
Rtmr0Places(events) == {i \in 1..Len(events) : events[i].rtmr = 0}

LEMMA LabelledDigest ==
  ASSUME NEW es, Len(es) \in Nat, NEW label, \E i \in 1..Len(es) : es[i].label = label
  PROVE  \E i \in 1..Len(es) : es[i].label = label /\ ByLabel(es, label) = es[i].digest
<1>1. PICK I : I = {i \in 1..Len(es) : es[i].label = label}
  OBVIOUS
<1>2. I # {} /\ I \in SUBSET (1..Len(es))
  BY <1>1
<1>3. PICK n, g : InOrder(g, n, I)
  BY <1>2, TakenOrder
<1>4. /\ n \in Nat /\ g \in [1..n -> I] /\ \A j, k \in 1..n : j < k => g[j] < g[k]
      /\ \A i \in I : \E k \in 1..n : g[k] = i
  BY <1>3 DEF InOrder
<1>9. I \in SUBSET Nat
  BY <1>2
<1>5. 1 \in 1..n
  <2>1. PICK i \in I : TRUE
    BY <1>2
  <2>2. PICK k \in 1..n : g[k] = i
    BY <1>4
  <2> QED
    BY <1>4, <2>2
<1>6. g[1] \in I /\ \A i \in I : g[1] <= i
  <2>1. ASSUME NEW i \in I PROVE g[1] <= i
    <3>1. PICK k \in 1..n : g[k] = i
      BY <1>4
    <3>2. g[1] \in Nat /\ i \in Nat
      BY <1>4, <1>5, <1>9
    <3>3. k = 1 \/ 1 < k
      BY <1>4
    <3> QED
      BY <1>4, <1>5, <3>1, <3>2, <3>3
  <2> QED
    BY <1>4, <1>5, <2>1
<1>7. Min(I) \in I
  BY <1>6 DEF Min
<1>8. SelectInSeq(es, LAMBDA e : e.label = label) = Min(I)
  BY <1>1, <1>2 DEF SelectInSeq
<1> QED
  BY <1>1, <1>7, <1>8 DEF ByLabel

LEMMA TrailingInOrder ==
  ASSUME NEW es, Len(es) \in Nat
  PROVE  \E c, q : /\ InOrder(q, c, TrailingPlaces(es))
                   /\ Len(Trailing(es)) = c /\ \A k \in 1..c : Trailing(es)[k] = es[q[k]]
<1>1. TrailingPlaces(es) \in SUBSET (1..Len(es)) /\ Trailing(es) = Taken(es, TrailingPlaces(es))
  BY DEF TrailingPlaces, Trailing, Chosen, Places
<1>2. \E n, g : /\ InOrder(g, n, TrailingPlaces(es))
                /\ Len(Taken(es, TrailingPlaces(es))) = n
                /\ \A k \in 1..n : Taken(es, TrailingPlaces(es))[k] = es[g[k]]
  BY <1>1, TakenElements
<1> QED
  BY <1>1, <1>2

LEMMA EventsOfRtmr0 ==
  ASSUME NEW events, Len(events) \in Nat
  PROVE  \E c, g : /\ InOrder(g, c, Rtmr0Places(events))
                   /\ Len(OfRtmr(events, 0)) = c
                   /\ \A k \in 1..c : OfRtmr(events, 0)[k] = events[g[k]]
<1>1. Rtmr0Places(events) \in SUBSET (1..Len(events))
      /\ OfRtmr(events, 0) = Taken(events, Rtmr0Places(events))
  BY DEF Rtmr0Places, OfRtmr, Chosen, Places
<1>2. \E n, g : /\ InOrder(g, n, Rtmr0Places(events))
                /\ Len(Taken(events, Rtmr0Places(events))) = n
                /\ \A k \in 1..n : Taken(events, Rtmr0Places(events))[k] = events[g[k]]
  BY <1>1, TakenElements
<1> QED
  BY <1>1, <1>2

\* The sixteen digests of RTMR[0], one by one.
LEMMA Rtmr0DigestsAre ==
  ASSUME NEW es, Len(Trailing(es)) \in Nat
  PROVE  LET digests == Rtmr0Digests(es)
             trailing == Trailing(es)
         IN  /\ DOMAIN digests = 1..(8 + Len(trailing)) /\ \E S : digests \in Seq(S)
             /\ digests[1] = ByLabel(es, "TdxTable")
             /\ digests[2] = ComputedDigest("CFV", request.firmware)
             /\ digests[3] = ComputedDigest("SecureBoot", baseline.secureboot)
             /\ digests[4] = ByLabel(es, "PK") /\ digests[5] = ByLabel(es, "KEK")
             /\ digests[6] = ByLabel(es, "db") /\ digests[7] = ByLabel(es, "dbx")
             /\ digests[8] = ComputedDigest("Separator", "platform")
             /\ \A i \in 1..Len(trailing) : digests[8 + i] = trailing[i].digest
<1>1. PICK trailing, n : trailing = Trailing(es) /\ n = Len(trailing)
  OBVIOUS
<1>2. n \in Nat
  BY <1>1
<1>3. PICK d1, d2, d3, d4, d5, d6, d7, d8 :
        /\ d1 = ByLabel(es, "TdxTable") /\ d2 = ComputedDigest("CFV", request.firmware)
        /\ d3 = ComputedDigest("SecureBoot", baseline.secureboot)
        /\ d4 = ByLabel(es, "PK") /\ d5 = ByLabel(es, "KEK")
        /\ d6 = ByLabel(es, "db") /\ d7 = ByLabel(es, "dbx")
        /\ d8 = ComputedDigest("Separator", "platform")
  OBVIOUS
<1>4. PICK first, rest : /\ first = <<d1, d2, d3, d4, d5, d6, d7, d8>>
                         /\ rest = [i \in 1..n |-> trailing[i].digest]
  OBVIOUS
<1>5. Rtmr0Digests(es) = first \o rest
  BY <1>1, <1>3, <1>4 DEF Rtmr0Digests
<1>6. PICK S : S = {d1, d2, d3, d4, d5, d6, d7, d8} \cup {trailing[i].digest : i \in 1..n}
  OBVIOUS
<1>7. /\ first \in Seq(S) /\ Len(first) = 8
      /\ first[1] = d1 /\ first[2] = d2 /\ first[3] = d3 /\ first[4] = d4
      /\ first[5] = d5 /\ first[6] = d6 /\ first[7] = d7 /\ first[8] = d8
  <2>1. d1 \in S /\ d2 \in S /\ d3 \in S /\ d4 \in S /\ d5 \in S /\ d6 \in S /\ d7 \in S /\ d8 \in S
    BY <1>6
  <2> QED
    BY <1>4, <2>1
<1>8. rest \in Seq(S) /\ Len(rest) = n /\ \A i \in 1..n : rest[i] = trailing[i].digest
  <2>1. \A i \in 1..n : trailing[i].digest \in S
    BY <1>6
  <2> QED
    BY <1>2, <1>4, <2>1
<1>9. PICK d : d = first \o rest
  OBVIOUS
<1>10. first \in Seq(S) /\ rest \in Seq(S)
  BY <1>7, <1>8
<1>11. /\ first \o rest \in Seq(S) /\ Len(first \o rest) = Len(first) + Len(rest)
       /\ \A i \in 1..(Len(first) + Len(rest)) :
            (first \o rest)[i] = IF i <= Len(first) THEN first[i] ELSE rest[i - Len(first)]
  BY <1>10, ConcatProperties
<1>12. /\ DOMAIN d = 1..(8 + n)
       /\ \A i \in 1..(8 + n) : d[i] = IF i <= 8 THEN first[i] ELSE rest[i - 8]
  <2>1. DOMAIN d = 1..Len(d)
    BY <1>9, <1>11
  <2> QED
    BY <1>7, <1>8, <1>9, <1>11, <2>1
<1>13. /\ d[1] = d1 /\ d[2] = d2 /\ d[3] = d3 /\ d[4] = d4
       /\ d[5] = d5 /\ d[6] = d6 /\ d[7] = d7 /\ d[8] = d8
  BY <1>2, <1>7, <1>12
<1>14. ASSUME NEW i \in 1..n PROVE d[8 + i] = trailing[i].digest
  <2>1. 8 + i \in 1..(8 + n) /\ ~(8 + i <= 8) /\ (8 + i) - 8 = i
    BY <1>2
  <2> QED
    BY <1>8, <1>12, <2>1
<1>15. d \in Seq(S)
  BY <1>9, <1>11
<1> QED
  BY <1>1, <1>3, <1>5, <1>9, <1>12, <1>13, <1>14, <1>15

(* ---- The standard order ------------------------------------------------ *)

LEMMA StandardSlots ==
  LET s == Standard.rtmr0
  IN  /\ Len(s) = 16
      /\ s[1] = "TdxTable" /\ s[2] = "CFV" /\ s[3] = "SecureBoot" /\ s[4] = "PK"
      /\ s[5] = "KEK" /\ s[6] = "db" /\ s[7] = "dbx" /\ s[8] = "Separator"
      /\ s[9] = "ACPI1" /\ s[10] = "ACPI2" /\ s[11] = "ACPI3" /\ s[12] = "BootOrder"
      /\ s[13] = "Boot0001" /\ s[14] = "Boot0002" /\ s[15] = "Boot0003" /\ s[16] = "Boot0000"
  BY DEF Standard

LEMMA LabelsAreSequences == \E S : FixedLabels \in Seq(S) /\ TrailingLabels \in Seq(S)
<1>1. PICK l1, l2, l3, l4, l5, t1, t2, t3, t4, t5, t6 :
        /\ l1 = "TdxTable" /\ l2 = "PK" /\ l3 = "KEK" /\ l4 = "db" /\ l5 = "dbx"
        /\ t1 = "ACPI_DATA" /\ t2 = "BootOrder" /\ t3 = "Boot0001"
        /\ t4 = "Boot0002" /\ t5 = "Boot0003" /\ t6 = "Boot0000"
  OBVIOUS
<1>2. PICK S : S = {l1, l2, l3, l4, l5, t1, t2, t3, t4, t5, t6}
  OBVIOUS
<1>3. /\ l1 \in S /\ l2 \in S /\ l3 \in S /\ l4 \in S /\ l5 \in S
      /\ t1 \in S /\ t2 \in S /\ t3 \in S /\ t4 \in S /\ t5 \in S /\ t6 \in S
  BY <1>2
<1>4. <<l1, l2, l3, l4, l5>> \in Seq(S) /\ <<t1, t1, t1, t2, t3, t4, t5, t6>> \in Seq(S)
  BY <1>3
<1>5. FixedLabels = <<l1, l2, l3, l4, l5>>
  BY <1>1 DEF FixedLabels
<1>6. TrailingLabels = <<t1, t1, t1, t2, t3, t4, t5, t6>>
  BY <1>1 DEF TrailingLabels
<1> QED
  BY <1>4, <1>5, <1>6

LEMMA Expected ==
  /\ Len(FixedLabels) = 5 /\ Len(TrailingLabels) = 8 /\ Len(ExpectedLabels) = 13
  /\ \A i \in 1..5 : ExpectedLabels[i] = FixedLabels[i]
  /\ \A i \in 1..8 : ExpectedLabels[5 + i] = TrailingLabels[i]
  /\ ToSet(FixedLabels) = {"TdxTable", "PK", "KEK", "db", "dbx"}
  /\ FixedLabels[1] = "TdxTable" /\ FixedLabels[2] = "PK" /\ FixedLabels[3] = "KEK"
  /\ FixedLabels[4] = "db" /\ FixedLabels[5] = "dbx"
  /\ TrailingLabels[1] = "ACPI_DATA" /\ TrailingLabels[2] = "ACPI_DATA"
  /\ TrailingLabels[3] = "ACPI_DATA" /\ TrailingLabels[4] = "BootOrder"
  /\ TrailingLabels[5] = "Boot0001" /\ TrailingLabels[6] = "Boot0002"
  /\ TrailingLabels[7] = "Boot0003" /\ TrailingLabels[8] = "Boot0000"
<1>1. /\ Len(FixedLabels) = 5 /\ FixedLabels[1] = "TdxTable" /\ FixedLabels[2] = "PK"
      /\ FixedLabels[3] = "KEK" /\ FixedLabels[4] = "db" /\ FixedLabels[5] = "dbx"
      /\ DOMAIN FixedLabels = 1..5
  BY DEF FixedLabels
<1>2. /\ Len(TrailingLabels) = 8
      /\ TrailingLabels[1] = "ACPI_DATA" /\ TrailingLabels[2] = "ACPI_DATA"
      /\ TrailingLabels[3] = "ACPI_DATA" /\ TrailingLabels[4] = "BootOrder"
      /\ TrailingLabels[5] = "Boot0001" /\ TrailingLabels[6] = "Boot0002"
      /\ TrailingLabels[7] = "Boot0003" /\ TrailingLabels[8] = "Boot0000"
  BY DEF TrailingLabels
<1>8. PICK S : FixedLabels \in Seq(S) /\ TrailingLabels \in Seq(S)
  BY LabelsAreSequences
<1>3. /\ Len(FixedLabels \o TrailingLabels) = Len(FixedLabels) + Len(TrailingLabels)
      /\ \A i \in 1..(Len(FixedLabels) + Len(TrailingLabels)) :
           (FixedLabels \o TrailingLabels)[i] =
             IF i <= Len(FixedLabels) THEN FixedLabels[i] ELSE TrailingLabels[i - Len(FixedLabels)]
  BY <1>8, ConcatProperties
<1>4. /\ Len(ExpectedLabels) = 13
      /\ \A i \in 1..13 : ExpectedLabels[i] =
           IF i <= 5 THEN FixedLabels[i] ELSE TrailingLabels[i - 5]
  <2>1. Len(FixedLabels) + Len(TrailingLabels) = 13
    BY <1>1, <1>2
  <2> QED
    BY <1>1, <1>3, <2>1 DEF ExpectedLabels
<1>5. ToSet(FixedLabels) = {"TdxTable", "PK", "KEK", "db", "dbx"}
  <2>1. ToSet(FixedLabels) = {FixedLabels[i] : i \in 1..5}
    BY <1>1 DEF ToSet
  <2>2. 1..5 = {1, 2, 3, 4, 5}
    OBVIOUS
  <2> QED
    BY <1>1, <2>1, <2>2
<1>6. \A i \in 1..5 : ExpectedLabels[i] = FixedLabels[i]
  BY <1>4
<1>7. \A i \in 1..8 : ExpectedLabels[5 + i] = TrailingLabels[i]
  BY <1>4
<1> QED
  BY <1>1, <1>2, <1>4, <1>5, <1>6, <1>7

LEMMA StandardLabels ==
  ASSUME NEW m \in Machines, m.layout = Standard
  PROVE  SlotLabels(KeptSlots(m.layout)) = ExpectedLabels
<1>1. PICK s : s = Standard.rtmr0
  OBVIOUS
<1>2. /\ Len(s) = 16
      /\ s[1] = "TdxTable" /\ s[2] = "CFV" /\ s[3] = "SecureBoot" /\ s[4] = "PK"
      /\ s[5] = "KEK" /\ s[6] = "db" /\ s[7] = "dbx" /\ s[8] = "Separator"
      /\ s[9] = "ACPI1" /\ s[10] = "ACPI2" /\ s[11] = "ACPI3" /\ s[12] = "BootOrder"
      /\ s[13] = "Boot0001" /\ s[14] = "Boot0002" /\ s[15] = "Boot0003" /\ s[16] = "Boot0000"
  BY <1>1, StandardSlots
<1>3. PICK P : P = {i \in 1..16 : i \notin {2, 3, 8}}
  OBVIOUS
<1>4. P = KeptPlaces(m)
  <2>1. \A i \in 1..16 : KeptSlot(s[i]) <=> i \notin {2, 3, 8}
    <3> SUFFICES ASSUME NEW i \in 1..16 PROVE KeptSlot(s[i]) <=> i \notin {2, 3, 8}
      OBVIOUS
    <3>1. \/ i = 1 \/ i = 2 \/ i = 3 \/ i = 4 \/ i = 5 \/ i = 6 \/ i = 7 \/ i = 8 \/ i = 9
          \/ i = 10 \/ i = 11 \/ i = 12 \/ i = 13 \/ i = 14 \/ i = 15 \/ i = 16
      OBVIOUS
    <3> QED
      BY <1>2, <3>1 DEF KeptSlot
  <2>2. KeptPlaces(m) = {i \in 1..16 : KeptSlot(s[i])}
    BY <1>1, <1>2 DEF KeptPlaces
  <2> QED
    BY <1>3, <2>1, <2>2
<1>5. PICK f : f = [k \in 1..13 |-> IF k = 1 THEN 1 ELSE IF k <= 5 THEN k + 2 ELSE k + 3]
  OBVIOUS
<1>6. InOrder(f, 13, P)
  <2>1. f \in [1..13 -> P]
    BY <1>3, <1>5
  <2>2. \A j, k \in 1..13 : j < k => f[j] < f[k]
    BY <1>5
  <2>3. ASSUME NEW i \in P PROVE \E k \in 1..13 : f[k] = i
    <3>1. CASE i = 1
      BY <1>5, <3>1
    <3>2. CASE i \in 4..7
      <4>1. i - 2 \in 1..13 /\ f[i - 2] = i
        BY <1>5, <3>2
      <4> QED
        BY <4>1
    <3>3. CASE i \in 9..16
      <4>1. i - 3 \in 1..13 /\ f[i - 3] = i
        BY <1>5, <3>3
      <4> QED
        BY <4>1
    <3>4. i = 1 \/ i \in 4..7 \/ i \in 9..16
      BY <1>3
    <3> QED
      BY <3>1, <3>2, <3>3, <3>4
  <2> QED
    BY <2>1, <2>2, <2>3 DEF InOrder
<1>7. PICK n, h : /\ InOrder(h, n, KeptPlaces(m))
                  /\ SlotLabels(KeptSlots(m.layout)) =
                       [k \in 1..n |-> SlotLabel(m.layout.rtmr0[h[k]])]
  BY KeptInOrder
<1>8. n = 13 /\ h = f
  <2>1. InOrder(h, n, KeptPlaces(m))
    BY <1>7
  <2>2. InOrder(h, n, P)
    BY <1>4, <2>1
  <2>3. P \in SUBSET Nat
    BY <1>3
  <2> QED
    BY <1>6, <2>2, <2>3, OneOrder
<1>9. PICK labels : labels = SlotLabels(KeptSlots(m.layout))
  OBVIOUS
<1>10. labels = [k \in 1..13 |-> SlotLabel(s[f[k]])]
  BY <1>1, <1>7, <1>8, <1>9
<1>11. ASSUME NEW k \in 1..13 PROVE labels[k] = ExpectedLabels[k]
  <2>1. \/ k = 1 \/ k = 2 \/ k = 3 \/ k = 4 \/ k = 5 \/ k = 6 \/ k = 7 \/ k = 8 \/ k = 9
        \/ k = 10 \/ k = 11 \/ k = 12 \/ k = 13
    OBVIOUS
  <2>2. /\ f[1] = 1 /\ f[2] = 4 /\ f[3] = 5 /\ f[4] = 6 /\ f[5] = 7 /\ f[6] = 9 /\ f[7] = 10
        /\ f[8] = 11 /\ f[9] = 12 /\ f[10] = 13 /\ f[11] = 14 /\ f[12] = 15 /\ f[13] = 16
    BY <1>5
  <2>3. labels[k] = SlotLabel(s[f[k]])
    BY <1>10
  <2>4. /\ ExpectedLabels[1] = "TdxTable" /\ ExpectedLabels[2] = "PK" /\ ExpectedLabels[3] = "KEK"
        /\ ExpectedLabels[4] = "db" /\ ExpectedLabels[5] = "dbx"
    BY Expected
  <2>5. /\ ExpectedLabels[5 + 1] = "ACPI_DATA" /\ ExpectedLabels[5 + 2] = "ACPI_DATA"
        /\ ExpectedLabels[5 + 3] = "ACPI_DATA" /\ ExpectedLabels[5 + 4] = "BootOrder"
        /\ ExpectedLabels[5 + 5] = "Boot0001" /\ ExpectedLabels[5 + 6] = "Boot0002"
        /\ ExpectedLabels[5 + 7] = "Boot0003" /\ ExpectedLabels[5 + 8] = "Boot0000"
    BY Expected
  <2>6. CASE k \in {1, 2, 3, 4, 5}
    BY <1>2, <2>2, <2>3, <2>4, <2>6 DEF SlotLabel, AcpiTables
  <2>7. CASE k \in {6, 7, 8}
    BY <1>2, <2>2, <2>3, <2>5, <2>7 DEF SlotLabel, AcpiTables
  <2>8. CASE k \in {9, 10, 11, 12, 13}
    BY <1>2, <2>2, <2>3, <2>5, <2>8 DEF SlotLabel, AcpiTables
  <2> QED
    BY <2>1, <2>6, <2>7, <2>8
<1>14. PICK S : FixedLabels \in Seq(S) /\ TrailingLabels \in Seq(S)
  BY LabelsAreSequences
<1>12. ExpectedLabels \in Seq(S) /\ Len(ExpectedLabels) = 13
  <2>1. FixedLabels \o TrailingLabels \in Seq(S)
    BY <1>14, ConcatProperties
  <2> QED
    BY <2>1, Expected DEF ExpectedLabels
<1>13. ExpectedLabels = [k \in 1..13 |-> ExpectedLabels[k]]
  <2>1. PICK t : t = ExpectedLabels
    OBVIOUS
  <2>2. t \in Seq(S) /\ Len(t) = 13
    BY <1>12, <2>1
  <2>3. t = [k \in 1..13 |-> t[k]]
    BY <2>2
  <2> QED
    BY <2>1, <2>3
<1> QED
  BY <1>9, <1>10, <1>11, <1>13

\* Labelled as they must be, the events replayed positionally are the last eight.
LEMMA StandardTrailing ==
  ASSUME NEW es, Len(es) \in Nat, Labels(es) = ExpectedLabels
  PROVE  /\ Len(es) = 13 /\ \A i \in 1..13 : es[i].label = ExpectedLabels[i]
         /\ Len(Trailing(es)) = 8 /\ \A k \in 1..8 : Trailing(es)[k] = es[k + 5]
         /\ Labels(Trailing(es)) = TrailingLabels
<1>1. PICK n, labels : n = Len(es) /\ labels = ExpectedLabels
  OBVIOUS
<1>2. labels = [i \in 1..n |-> es[i].label] /\ n \in Nat
  BY <1>1 DEF Labels
<1>3. Len(labels) = 13
  BY <1>1, Expected
<1>4. n = 13
  BY <1>2, <1>3
<1>5. \A i \in 1..13 : es[i].label = labels[i]
  BY <1>2, <1>4
<1>6. PICK P : P = TrailingPlaces(es)
  OBVIOUS
<1>7. P = 6..13
  <2>1. P = {i \in 1..13 : labels[i] \notin ToSet(FixedLabels)}
    BY <1>1, <1>4, <1>5, <1>6 DEF TrailingPlaces
  <2>2. ASSUME NEW i \in 1..5 PROVE labels[i] \in ToSet(FixedLabels)
    <3>1. i = 1 \/ i = 2 \/ i = 3 \/ i = 4 \/ i = 5
      OBVIOUS
    <3> QED
      BY <1>1, <3>1, Expected
  <2>3. ASSUME NEW i \in 6..13 PROVE labels[i] \notin ToSet(FixedLabels)
    <3>1. PICK k \in 1..8 : i = 5 + k
      <4>1. i - 5 \in 1..8 /\ i = 5 + (i - 5)
        OBVIOUS
      <4> QED
        BY <4>1
    <3>2. k = 1 \/ k = 2 \/ k = 3 \/ k = 4 \/ k = 5 \/ k = 6 \/ k = 7 \/ k = 8
      OBVIOUS
    <3>3. labels[i] = TrailingLabels[k]
      BY <1>1, <3>1, Expected
    <3>4. TrailingLabels[k] \notin {"TdxTable", "PK", "KEK", "db", "dbx"}
      BY <3>2, Expected
    <3> QED
      BY <3>3, <3>4, Expected
  <2>4. \A i \in 1..13 : i \in 1..5 \/ i \in 6..13
    OBVIOUS
  <2> QED
    BY <2>1, <2>2, <2>3, <2>4
<1>8. PICK c, q : /\ InOrder(q, c, TrailingPlaces(es))
                  /\ Len(Trailing(es)) = c /\ \A k \in 1..c : Trailing(es)[k] = es[q[k]]
  BY TrailingInOrder
<1>9. PICK f : f = [k \in 1..8 |-> k + 5]
  OBVIOUS
<1>10. c = 8 /\ q = f
  <2>1. InOrder(f, 8, P)
    <3>1. f \in [1..8 -> P] /\ \A j, k \in 1..8 : j < k => f[j] < f[k]
      BY <1>7, <1>9
    <3>2. ASSUME NEW i \in P PROVE \E k \in 1..8 : f[k] = i
      <4>1. i - 5 \in 1..8 /\ f[i - 5] = i
        BY <1>7, <1>9
      <4> QED
        BY <4>1
    <3> QED
      BY <3>1, <3>2 DEF InOrder
  <2>2. InOrder(q, c, TrailingPlaces(es))
    BY <1>8
  <2>3. InOrder(q, c, P)
    BY <1>6, <2>2
  <2>4. P \in SUBSET Nat
    BY <1>7
  <2> QED
    BY <2>1, <2>3, <2>4, OneOrder
<1>11. PICK trailing : trailing = Trailing(es)
  OBVIOUS
<1>12. Len(trailing) = 8 /\ \A k \in 1..8 : trailing[k] = es[k + 5]
  BY <1>8, <1>9, <1>10, <1>11
<1>13. Labels(trailing) = TrailingLabels
  <2>1. Labels(trailing) = [k \in 1..8 |-> trailing[k].label]
    BY <1>12 DEF Labels
  <2>2. \A k \in 1..8 : trailing[k].label = labels[5 + k]
    BY <1>5, <1>12
  <2>3. \A k \in 1..8 : trailing[k].label = TrailingLabels[k]
    BY <1>1, <2>2, Expected
  <2>4. TrailingLabels = [k \in 1..8 |-> TrailingLabels[k]]
    <3>1. PICK S : TrailingLabels \in Seq(S)
      BY LabelsAreSequences
    <3>2. PICK t : t = TrailingLabels
      OBVIOUS
    <3>3. t \in Seq(S) /\ Len(t) = 8
      BY <3>1, <3>2, Expected
    <3>4. t = [k \in 1..8 |-> t[k]]
      BY <3>3
    <3> QED
      BY <3>2, <3>4
  <2> QED
    BY <2>1, <2>3, <2>4
<1> QED
  BY <1>1, <1>4, <1>5, <1>11, <1>12, <1>13

LEMMA ComputedDecodes ==
  ASSUME NEW slot, slot # "malformed", NEW by
  PROVE  ComputedDigest(slot, by) # Malformed
<1>1. ComputedDigest(slot, by).of = slot /\ Malformed.of = "malformed"
  BY DEF ComputedDigest, Malformed
<1> QED
  BY <1>1

\* What an unedited baseline of the standard layout has for RTMR[0] is accepted.
LEMMA StandardAccepted ==
  ASSUME NEW m \in Machines, m.layout = Standard, BaselineOf(baseline, m, FALSE)
  PROVE  SupportedEvents(RtmrEvents(0)) /\ AllDecode(Rtmr0Digests(RtmrEvents(0)))
<1>1. PICK events, es : events = baseline.events /\ es = RtmrEvents(0)
  OBVIOUS
<1>2. EventsOfMachine(events, m, FALSE)
  BY <1>1 DEF BaselineOf
<1>3. Len(events) \in Nat /\ Decodable(events) /\ Labelled(events, m)
  BY <1>2 DEF EventsOfMachine, Recordable
<1>4. es = OfRtmr(events, 0)
  BY <1>1 DEF RtmrEvents, OfRtmr
<1>5. PICK c, g : /\ InOrder(g, c, Rtmr0Places(events))
                  /\ Len(OfRtmr(events, 0)) = c
                  /\ \A k \in 1..c : OfRtmr(events, 0)[k] = events[g[k]]
  BY <1>3, EventsOfRtmr0
<1>6. Len(es) = c /\ c \in Nat /\ \A k \in 1..c : es[k] = events[g[k]] /\ g[k] \in 1..Len(events)
  BY <1>4, <1>5 DEF InOrder, Rtmr0Places
<1>7. Labels(es) = ExpectedLabels
  BY <1>3, <1>4, StandardLabels DEF Labelled
<1>8. Len(es) \in Nat
  BY <1>6
<1>9. /\ Len(es) = 13 /\ \A i \in 1..13 : es[i].label = ExpectedLabels[i]
      /\ Len(Trailing(es)) = 8 /\ \A k \in 1..8 : Trailing(es)[k] = es[k + 5]
      /\ Labels(Trailing(es)) = TrailingLabels
  BY <1>7, <1>8, StandardTrailing
<1>10. SupportedEvents(es)
  BY <1>7, <1>9 DEF SupportedEvents
<1>11. ASSUME NEW k \in 1..13 PROVE es[k].digest # Malformed
  <2>1. c = 13
    BY <1>6, <1>9
  <2>2. es[k] = events[g[k]] /\ g[k] \in 1..Len(events)
    BY <1>6, <2>1
  <2>3. \A i \in 1..Len(events) : events[i].digest # Malformed
    BY <1>3 DEF Decodable
  <2> QED
    BY <2>2, <2>3
<1>12. ASSUME NEW label \in ToSet(FixedLabels) PROVE ByLabel(es, label) # Malformed
  <2>1. PICK i \in 1..5 : FixedLabels[i] = label
    <3>1. label \in {"TdxTable", "PK", "KEK", "db", "dbx"}
      BY <1>12, Expected
    <3>2. /\ FixedLabels[1] = "TdxTable" /\ FixedLabels[2] = "PK" /\ FixedLabels[3] = "KEK"
          /\ FixedLabels[4] = "db" /\ FixedLabels[5] = "dbx"
      BY Expected
    <3>3. 1 \in 1..5 /\ 2 \in 1..5 /\ 3 \in 1..5 /\ 4 \in 1..5 /\ 5 \in 1..5
      OBVIOUS
    <3> QED
      BY <3>1, <3>2, <3>3
  <2>2. es[i].label = label /\ i \in 1..Len(es)
    BY <1>9, <2>1, Expected
  <2>3. PICK k \in 1..Len(es) : ByLabel(es, label) = es[k].digest
    BY <1>8, <2>2, LabelledDigest
  <2> QED
    BY <1>9, <1>11, <2>3
<1>13. PICK digests, trailing : digests = Rtmr0Digests(es) /\ trailing = Trailing(es)
  OBVIOUS
<1>14. /\ DOMAIN digests = 1..16
       /\ digests[1] = ByLabel(es, "TdxTable")
       /\ digests[2] = ComputedDigest("CFV", request.firmware)
       /\ digests[3] = ComputedDigest("SecureBoot", baseline.secureboot)
       /\ digests[4] = ByLabel(es, "PK") /\ digests[5] = ByLabel(es, "KEK")
       /\ digests[6] = ByLabel(es, "db") /\ digests[7] = ByLabel(es, "dbx")
       /\ digests[8] = ComputedDigest("Separator", "platform")
       /\ \A i \in 1..8 : digests[8 + i] = trailing[i].digest
  <2>1. Len(Trailing(es)) \in Nat
    BY <1>9
  <2>2. Len(trailing) = 8 /\ 8 + 8 = 16
    BY <1>9, <1>13
  <2>3. /\ DOMAIN digests = 1..(8 + Len(trailing))
        /\ digests[1] = ByLabel(es, "TdxTable")
        /\ digests[2] = ComputedDigest("CFV", request.firmware)
        /\ digests[3] = ComputedDigest("SecureBoot", baseline.secureboot)
        /\ digests[4] = ByLabel(es, "PK") /\ digests[5] = ByLabel(es, "KEK")
        /\ digests[6] = ByLabel(es, "db") /\ digests[7] = ByLabel(es, "dbx")
        /\ digests[8] = ComputedDigest("Separator", "platform")
        /\ \A i \in 1..Len(trailing) : digests[8 + i] = trailing[i].digest
    BY <1>13, <2>1, Rtmr0DigestsAre
  <2> QED
    BY <2>2, <2>3
<1>15. ASSUME NEW k \in 1..8 PROVE digests[k] # Malformed
  <2>1. k = 1 \/ k = 2 \/ k = 3 \/ k = 4 \/ k = 5 \/ k = 6 \/ k = 7 \/ k = 8
    OBVIOUS
  <2>2. /\ "TdxTable" \in ToSet(FixedLabels) /\ "PK" \in ToSet(FixedLabels)
        /\ "KEK" \in ToSet(FixedLabels) /\ "db" \in ToSet(FixedLabels)
        /\ "dbx" \in ToSet(FixedLabels)
    BY Expected
  <2>3. /\ digests[1] # Malformed /\ digests[4] # Malformed /\ digests[5] # Malformed
        /\ digests[6] # Malformed /\ digests[7] # Malformed
    BY <1>12, <1>14, <2>2
  <2>4. digests[2] # Malformed /\ digests[3] # Malformed /\ digests[8] # Malformed
    BY <1>14, ComputedDecodes
  <2> QED
    BY <2>1, <2>3, <2>4
<1>16. ASSUME NEW k \in 9..16 PROVE digests[k] # Malformed
  <2>1. k - 8 \in 1..8 /\ 8 + (k - 8) = k /\ (k - 8) + 5 \in 1..13
    OBVIOUS
  <2>2. digests[k] = trailing[k - 8].digest
    BY <1>14, <2>1
  <2>3. trailing[k - 8] = es[(k - 8) + 5]
    BY <1>9, <1>13, <2>1
  <2> QED
    BY <1>11, <2>1, <2>2, <2>3
<1>17. AllDecode(digests)
  <2>1. \A k \in 1..16 : k \in 1..8 \/ k \in 9..16
    OBVIOUS
  <2>2. ToSet(digests) = {digests[k] : k \in 1..16}
    BY <1>14 DEF ToSet
  <2> QED
    BY <1>15, <1>16, <2>1, <2>2 DEF AllDecode
<1> QED
  BY <1>1, <1>10, <1>13, <1>17

(* ---- A refusal has a reason -------------------------------------------- *)

Reason ==
  \/ machine.layout # Standard
  \/ baseline.firmware_sha384 \notin {NotThere, request.firmware}
  \/ edited
  \/ request.firmware \notin SoundFirmwares
  \/ request.uki \notin UkisWithKernel \cap PlainUkis
  \/ request.disk = NotThere
  \/ request.rtmr3 = "malformed"

\* A step that refuses refuses for something it reads.
LEMMA StepRefuses ==
  ASSUME NEW accepted \in BOOLEAN, NEW digests, NEW next, next # "refused",
         Outcome(accepted, digests, next), ~accepted => Reason
  PROVE  RefusedForAReason'
<1>1. /\ pc' = IF accepted THEN next ELSE "refused"
      /\ UNCHANGED <<machine, log, baseline, edited, request>>
  BY DEF Outcome
<1>2. CASE accepted
  BY <1>1, <1>2 DEF RefusedForAReason
<1>3. CASE ~accepted
  <2>1. Reason'
    BY <1>1, <1>3 DEF Reason
  <2> QED
    BY <2>1 DEF RefusedForAReason, Reason
<1> QED
  BY <1>2, <1>3

LEMMA NextRefuses ==
  IInv /\ FromTheMachine /\ RefusedForAReason /\ [Next]_vars => RefusedForAReason'
<1> SUFFICES ASSUME IInv, FromTheMachine, RefusedForAReason, [Next]_vars
             PROVE  RefusedForAReason'
  OBVIOUS
<1>1. CASE Capture \/ ToggleSecureBoot
        \/ (\E hash \in Firmwares \cup {NotThere} :
              ExtractBaseline(hash) \/ ExtractLegacyBaseline(hash))
        \/ (\E i \in DOMAIN baseline.events : DamageDigest(i) \/ SwapNext(i))
        \/ (\E firmware \in Firmwares, uki \in Ukis, disk \in Disks \cup {NotThere},
               rtmr3 \in {NotThere, "malformed"} : Request(firmware, uki, disk, rtmr3))
        \/ RunAgain
  <2>1. pc' = "idle" \/ pc' = "verify"
    BY <1>1 DEF Capture, ToggleSecureBoot, ExtractBaseline, ExtractLegacyBaseline, DamageDigest,
                SwapNext, EditEvents, Request, RunAgain
  <2> QED
    BY <2>1 DEF RefusedForAReason
<1>2. CASE VerifyInputs
  <2>1. /\ UNCHANGED <<machine, log, baseline, edited, request>>
        /\ pc' = IF FirmwareVerified(baseline, request.firmware) /\ request.rtmr3 # "malformed"
                   THEN "mrtd" ELSE "refused"
    BY <1>2 DEF VerifyInputs
  <2>2. CASE pc' = "mrtd"
    BY <2>2 DEF RefusedForAReason
  <2>3. CASE pc' # "mrtd"
    <3>1. Reason
      BY <2>1, <2>3 DEF Reason, FirmwareVerified
    <3>2. Reason'
      BY <2>1, <3>1 DEF Reason
    <3> QED
      BY <3>2 DEF RefusedForAReason, Reason
  <2> QED
    BY <2>2, <2>3
<1>3. CASE ComputeMrtd
  <2>3. PICK accepted \in BOOLEAN : accepted <=> request.firmware \in SoundFirmwares
    OBVIOUS
  <2>1. Outcome(accepted, <<ComputedDigest("Firmware", request.firmware)>>, "rtmr0")
    BY <1>3, <2>3 DEF ComputeMrtd, Outcome
  <2>2. ~accepted => Reason
    BY <2>3 DEF Reason
  <2> QED
    BY <2>1, <2>2, StepRefuses
<1>4. CASE ComputeRtmr0
  <2>1. PICK accepted \in BOOLEAN :
          accepted <=> SupportedEvents(RtmrEvents(0)) /\ AllDecode(Rtmr0Digests(RtmrEvents(0)))
    OBVIOUS
  <2>2. pc = "rtmr0" /\ Outcome(accepted, Rtmr0Digests(RtmrEvents(0)), "rtmr1")
    BY <1>4, <2>1 DEF ComputeRtmr0, Outcome
  <2>3. ~accepted => Reason
    <3> SUFFICES ASSUME ~Reason PROVE accepted
      OBVIOUS
    <3>1. machine.layout = Standard /\ machine \in Machines /\ edited = FALSE
      BY DEF Reason, IInv, TypeOK
    <3>2. BaselineOf(baseline, machine, edited)
      BY <2>2 DEF FromTheMachine
    <3>3. BaselineOf(baseline, machine, FALSE)
      BY <3>1, <3>2
    <3> QED
      BY <2>1, <3>1, <3>3, StandardAccepted
  <2> QED
    BY <2>2, <2>3, StepRefuses
<1>5. CASE ComputeRtmr1
  <2>1. PICK accepted \in BOOLEAN :
          accepted <=> /\ request.disk # NotThere \/ GptEvents # <<>>
                       /\ AllDecode(<<GptDigest(GptEvents)>>)
                       /\ request.uki \in UkisWithKernel
    OBVIOUS
  <2>2. Outcome(accepted, Rtmr1Digests(GptDigest(GptEvents)), "rtmr2")
    BY <1>5, <2>1 DEF ComputeRtmr1, GptEvents, OfGpt, Outcome
  <2>3. ~accepted => Reason
    <3> SUFFICES ASSUME ~Reason PROVE accepted
      OBVIOUS
    <3>1. request.disk # NotThere /\ request.uki \in UkisWithKernel
      BY DEF Reason
    <3>2. GptDigest(GptEvents) # Malformed
      BY <3>1, ComputedDecodes DEF GptDigest
    <3>3. PICK d : d = GptDigest(GptEvents)
      OBVIOUS
    <3>4. ToSet(<<d>>) = {d}
      BY DEF ToSet
    <3>5. AllDecode(<<d>>)
      BY <3>2, <3>3, <3>4 DEF AllDecode
    <3> QED
      BY <2>1, <3>1, <3>3, <3>5
  <2> QED
    BY <2>2, <2>3, StepRefuses
<1>6. CASE ComputeRtmr2
  <2>3. PICK accepted \in BOOLEAN : accepted <=> request.uki \in PlainUkis
    OBVIOUS
  <2>1. Outcome(accepted, <<ComputedDigest("Sections", request.uki)>>, "computed")
    BY <1>6, <2>3 DEF ComputeRtmr2, Outcome
  <2>2. ~accepted => Reason
    BY <2>3 DEF Reason
  <2> QED
    BY <2>1, <2>2, StepRefuses
<1>7. CASE UNCHANGED vars
  BY <1>7 DEF vars, RefusedForAReason
<1> QED
  BY <1>1, <1>2, <1>3, <1>4, <1>5, <1>6, <1>7 DEF Next

\* What every state satisfies: the checks hold, and the log and the baseline are
\* the machine's.
THEOREM MachineInvariance == Spec => [](IInv /\ FromTheMachine)
<1>1. Init => IInv /\ FromTheMachine
  BY InitInvariant, InitFromTheMachine
<1>2. IInv /\ FromTheMachine /\ [Next]_vars => (IInv /\ FromTheMachine)'
  BY NextInvariant, NextFromTheMachine
<1> QED
  BY <1>1, <1>2, PTL DEF Spec

\* With nothing wrong with the inputs, the registers of a standard machine are
\* computed: an unedited baseline of its log has what RTMR[0] is replayed from
\* (tdx/registers.py:143-180, tdx/registers.py:196-221).
THEOREM RefusedOnlyForAReason == Spec => []RefusedForAReason
<1>1. Init => RefusedForAReason
  BY DEF Init, RefusedForAReason
<1> QED
  BY <1>1, NextRefuses, MachineInvariance, PTL DEF Spec

(* ---- What is computed is what one machine reports ---------------------- *)

LEMMA HasDigest ==
  ASSUME NEW m, NEW s, s # NotThere, s # "Bankless"
  PROVE  /\ Digest(s, m) = [of |-> s, by |-> DeterminedBy(s, m)]
         /\ Digest(s, m) # NoDigest
<1>1. Digest(s, m) = [of |-> s, by |-> DeterminedBy(s, m)]
  BY DEF Digest
<1>2. Digest(s, m).of = s /\ NoDigest.of = NotThere
  BY <1>1 DEF NoDigest
<1> QED
  BY <1>1, <1>2

LEMMA RegisterWhole ==
  ASSUME NEW rtmr, NEW m, NEW n \in Nat, Len(Slots(rtmr, m)) = n,
         \A i \in 1..n : Digest(Slots(rtmr, m)[i], m) # NoDigest
  PROVE  Register(rtmr, m) = [i \in 1..n |-> Digest(Slots(rtmr, m)[i], m)]
<1>9. PICK slots : slots = Slots(rtmr, m)
  OBVIOUS
<1>10. Len(slots) = n /\ \A i \in 1..n : Digest(slots[i], m) # NoDigest
  BY <1>9
<1>1. PICK K : K = {i \in 1..n : Digest(slots[i], m) # NoDigest}
  OBVIOUS
<1>2. K = 1..n
  BY <1>1, <1>10
<1>3. PICK chosen : chosen = Taken(slots, K)
  OBVIOUS
<1>4. chosen = [i \in 1..n |-> slots[i]]
  <2>1. Taken(slots, 1..n) = [i \in 1..n |-> slots[i]]
    BY TakenWhole
  <2> QED
    BY <1>2, <1>3, <2>1
<1>5. Len(chosen) = n
  BY <1>4
<1>6. Register(rtmr, m) = [i \in 1..Len(chosen) |-> Digest(chosen[i], m)]
  BY <1>1, <1>3, <1>9, <1>10 DEF Register, Chosen, Places
<1>7. Register(rtmr, m) = [i \in 1..n |-> Digest(chosen[i], m)]
  BY <1>5, <1>6
<1>8. \A i \in 1..n : Digest(chosen[i], m) = Digest(slots[i], m)
  BY <1>4
<1> QED
  BY <1>7, <1>8, <1>9

LEMMA ReportedRtmr2 ==
  ASSUME NEW m, m.uki \in PlainUkis
  PROVE  Register(2, m) = <<ComputedDigest("Sections", m.uki)>>
<1>1. PICK slots : slots = <<"Sections">>
  OBVIOUS
<1>2. slots = Slots(2, m)
  BY <1>1 DEF Slots
<1>3. Len(slots) = 1 /\ slots[1] = "Sections"
  BY <1>1
<1>4. /\ Digest("Sections", m) = [of |-> "Sections", by |-> m.uki]
      /\ Digest("Sections", m) # NoDigest
  <2>1. DeterminedBy("Sections", m) = m.uki
    BY DEF DeterminedBy
  <2> QED
    BY <2>1, HasDigest DEF NotThere
<1>5. \A i \in 1..1 : Digest(slots[i], m) # NoDigest
  BY <1>3, <1>4
<1>8. Len(Slots(2, m)) = 1 /\ \A i \in 1..1 : Digest(Slots(2, m)[i], m) # NoDigest
  BY <1>2, <1>3, <1>5
<1>9. 1 \in Nat
  OBVIOUS
<1>6. Register(2, m) = [i \in 1..1 |-> Digest(Slots(2, m)[i], m)]
  BY <1>8, <1>9, RegisterWhole
<1>7. Register(2, m) = <<Digest("Sections", m)>>
  <2>1. \A i \in 1..1 : Digest(Slots(2, m)[i], m) = Digest("Sections", m)
    BY <1>2, <1>3
  <2> QED
    BY <1>6, <2>1
<1> QED
  BY <1>4, <1>7 DEF ComputedDigest

LEMMA ReportedRtmr1 ==
  ASSUME NEW m, m.layout.rtmr1 = Standard.rtmr1, m.uki \in UkisWithKernel, m.uki = request.uki
  PROVE  Register(1, m) = Rtmr1Digests(Digest("GPT", m))
<1>1. PICK s : s = Standard.rtmr1
  OBVIOUS
<1>2. /\ Len(s) = 7 /\ s = [i \in 1..7 |-> s[i]]
      /\ s[1] = "Calling" /\ s[2] = "Separator" /\ s[3] = "GPT" /\ s[4] = "UKI"
      /\ s[5] = "Kernel" /\ s[6] = "Exiting" /\ s[7] = "Exited"
  BY <1>1 DEF Standard
<1>3. Slots(1, m) = s
  <2>1. PICK K : K = {i \in 1..7 : s[i] # "Kernel" \/ m.uki \in UkisWithKernel}
    OBVIOUS
  <2>2. K = 1..7
    BY <2>1
  <2>3. Slots(1, m) = Taken(s, K)
    BY <1>1, <1>2, <2>1 DEF Slots, Chosen, Places
  <2>4. Taken(s, 1..7) = [i \in 1..7 |-> s[i]]
    BY TakenWhole
  <2> QED
    BY <1>2, <2>2, <2>3, <2>4
<1>4. /\ Digest("Calling", m) = ComputedDigest("Calling", "platform")
      /\ Digest("Separator", m) = ComputedDigest("Separator", "platform")
      /\ Digest("UKI", m) = ComputedDigest("UKI", request.uki)
      /\ Digest("Kernel", m) = ComputedDigest("Kernel", request.uki)
      /\ Digest("Exiting", m) = ComputedDigest("Exiting", "platform")
      /\ Digest("Exited", m) = ComputedDigest("Exited", "platform")
  BY DEF Digest, ComputedDigest, DeterminedBy
<1>5. \A i \in 1..7 : Digest(s[i], m) # NoDigest
  <2> SUFFICES ASSUME NEW i \in 1..7 PROVE Digest(s[i], m) # NoDigest
    OBVIOUS
  <2>1. i = 1 \/ i = 2 \/ i = 3 \/ i = 4 \/ i = 5 \/ i = 6 \/ i = 7
    OBVIOUS
  <2>2. s[i] # NotThere /\ s[i] # "Bankless"
    BY <1>2, <2>1 DEF NotThere
  <2> QED
    BY <2>2, HasDigest
<1>12. Len(Slots(1, m)) = 7 /\ \A i \in 1..7 : Digest(Slots(1, m)[i], m) # NoDigest
  BY <1>2, <1>3, <1>5
<1>13. 7 \in Nat
  OBVIOUS
<1>14. Register(1, m) = [i \in 1..7 |-> Digest(Slots(1, m)[i], m)]
  BY ONLY <1>12, <1>13, RegisterWhole
<1>6. Register(1, m) = [i \in 1..7 |-> Digest(s[i], m)]
  BY <1>3, <1>14
<1>7. PICK d1, d2, d3, d4, d5, d6, d7 :
        /\ d1 = Digest("Calling", m) /\ d2 = Digest("Separator", m) /\ d3 = Digest("GPT", m)
        /\ d4 = Digest("UKI", m) /\ d5 = Digest("Kernel", m)
        /\ d6 = Digest("Exiting", m) /\ d7 = Digest("Exited", m)
  OBVIOUS
<1>8. PICK f : f = [i \in 1..7 |-> Digest(s[i], m)]
  OBVIOUS
<1>9. /\ f[1] = d1 /\ f[2] = d2 /\ f[3] = d3 /\ f[4] = d4 /\ f[5] = d5 /\ f[6] = d6 /\ f[7] = d7
  BY <1>2, <1>7, <1>8
<1>10. f = [i \in 1..7 |-> f[i]]
  BY <1>8
<1>11. f = <<d1, d2, d3, d4, d5, d6, d7>>
  BY <1>9, <1>10
<1> QED
  BY <1>4, <1>6, <1>7, <1>8, <1>11 DEF Rtmr1Digests

\* The GPT digest taken from a baseline is that of an event it has of RTMR[1].
LEMMA GptEvent ==
  ASSUME NEW events, Len(events) \in Nat, NEW gpt, gpt = OfGpt(OfRtmr(events, 1)), gpt # <<>>
  PROVE  \E i \in 1..Len(events) :
           /\ gpt[1] = events[i] /\ events[i].rtmr = 1 /\ events[i].label = "GPT_EVENT"
<1>1. PICK K : K = {i \in 1..Len(events) : events[i].rtmr = 1}
  OBVIOUS
<1>2. PICK es : es = Taken(events, K)
  OBVIOUS
<1>3. es = OfRtmr(events, 1)
  BY <1>1, <1>2 DEF OfRtmr, Chosen, Places
<1>4. K \in SUBSET (1..Len(events))
  BY <1>1
<1>5. PICK n, g : /\ InOrder(g, n, K)
                  /\ Len(Taken(events, K)) = n /\ \A k \in 1..n : Taken(events, K)[k] = events[g[k]]
  BY <1>4, TakenElements
<1>6. n \in Nat /\ Len(es) = n /\ \A k \in 1..n : es[k] = events[g[k]] /\ g[k] \in K
  BY <1>2, <1>5 DEF InOrder
<1>7. PICK P : P = {k \in 1..Len(es) : es[k].label = "GPT_EVENT"}
  OBVIOUS
<1>8. gpt = Taken(es, P)
  BY <1>3, <1>7 DEF OfGpt, Chosen, Places
<1>9. P \in SUBSET (1..Len(es)) /\ Len(es) \in Nat
  BY <1>6, <1>7
<1>10. PICK c, q : InOrder(q, c, P) /\ Taken(es, P) = [k \in 1..c |-> es[q[k]]]
  BY <1>9, TakenOrder
<1>11. gpt = [k \in 1..c |-> es[q[k]]]
  BY <1>8, <1>10
<1>12. c \in Nat /\ \A k \in 1..c : q[k] \in P
  BY <1>10 DEF InOrder
<1>13. 1 \in 1..c
  <2>1. CASE c = 0
    <3>1. gpt \in Seq({}) /\ Len(gpt) = 0
      BY <1>11, <2>1
    <3>2. gpt = <<>>
      BY <3>1, EmptySeq
    <3> QED
      BY <3>2
  <2> QED
    BY <1>12, <2>1
<1>14. gpt[1] = es[q[1]] /\ q[1] \in P
  BY <1>11, <1>12, <1>13
<1>15. q[1] \in 1..n /\ es[q[1]].label = "GPT_EVENT"
  BY <1>6, <1>7, <1>14
<1>16. es[q[1]] = events[g[q[1]]] /\ g[q[1]] \in K
  BY <1>6, <1>15
<1> QED
  BY <1>1, <1>14, <1>15, <1>16

\* Every label replayed by name is there.
LEMMA LabelThere ==
  ASSUME NEW es, Len(es) \in Nat, SupportedEvents(es), NEW label \in ToSet(FixedLabels)
  PROVE  \E i \in 1..Len(es) : es[i].label = label
<1>1. PICK labels, expected : labels = Labels(es) /\ expected = ExpectedLabels
  OBVIOUS
<1>2. ToBag(labels) = ToBag(expected)
  BY <1>1 DEF SupportedEvents
<1>3. DOMAIN ToBag(labels) = {labels[i] : i \in DOMAIN labels}
  BY DEF ToBag, Range
<1>4. DOMAIN ToBag(expected) = {expected[i] : i \in DOMAIN expected}
  BY DEF ToBag, Range
<1>5. labels = [i \in 1..Len(es) |-> es[i].label]
  BY <1>1 DEF Labels
<1>6. PICK i \in 1..5 : FixedLabels[i] = label
  <2>1. label \in {"TdxTable", "PK", "KEK", "db", "dbx"}
    BY Expected
  <2>2. /\ FixedLabels[1] = "TdxTable" /\ FixedLabels[2] = "PK" /\ FixedLabels[3] = "KEK"
        /\ FixedLabels[4] = "db" /\ FixedLabels[5] = "dbx"
    BY Expected
  <2>3. 1 \in 1..5 /\ 2 \in 1..5 /\ 3 \in 1..5 /\ 4 \in 1..5 /\ 5 \in 1..5
    OBVIOUS
  <2> QED
    BY <2>1, <2>2, <2>3
<1>7. expected[i] = label
  BY <1>1, <1>6, Expected
<1>8. i \in DOMAIN expected
  <2>1. PICK S : FixedLabels \in Seq(S) /\ TrailingLabels \in Seq(S)
    BY LabelsAreSequences
  <2>2. FixedLabels \o TrailingLabels \in Seq(S)
    BY <2>1, ConcatProperties
  <2>3. expected \in Seq(S) /\ Len(expected) = 13
    BY <1>1, <2>2, Expected DEF ExpectedLabels
  <2>4. DOMAIN expected = 1..13
    BY <2>3
  <2> QED
    BY <2>4
<1>9. PICK j \in DOMAIN labels : labels[j] = label
  BY <1>2, <1>3, <1>4, <1>7, <1>8
<1> QED
  BY <1>5, <1>9

\* The events kept of RTMR[0], one by one: what slot each is of.
Rtmr0Of(es, m, x) ==
  /\ Len(es) \in Nat
  /\ \A k \in 1..Len(es) :
       /\ x[k] \in KeptPlaces(m)
       /\ es[k].label = SlotLabel(m.layout.rtmr0[x[k]])
       /\ es[k].digest \in {Digest(m.layout.rtmr0[x[k]], m), Malformed}
  /\ \A j, k \in 1..Len(es) :
       j < k /\ es[j].label = "ACPI_DATA" /\ es[k].label = "ACPI_DATA" => x[j] < x[k]

LEMMA Rtmr0OfMachine ==
  ASSUME NEW m \in Machines, NEW events, NEW was_edited, EventsOfMachine(events, m, was_edited)
  PROVE  \E x : Rtmr0Of(OfRtmr(events, 0), m, x)
<1>1. PICK N, es : N = Len(events) /\ es = OfRtmr(events, 0)
  OBVIOUS
<1>2. N \in Nat
  BY <1>1 DEF EventsOfMachine, Recordable
<1>3. PICK p : OfSlots(events, m, p) /\ TablesInOrder(events, p)
  BY DEF EventsOfMachine
<1>4. PICK c, g : /\ InOrder(g, c, Rtmr0Places(events))
                  /\ Len(OfRtmr(events, 0)) = c
                  /\ \A k \in 1..c : OfRtmr(events, 0)[k] = events[g[k]]
  BY <1>1, <1>2, EventsOfRtmr0
<1>5. /\ c \in Nat /\ Len(es) = c
      /\ \A k \in 1..c : g[k] \in Rtmr0Places(events)
      /\ \A j, k \in 1..c : j < k => g[j] < g[k]
  BY <1>1, <1>4 DEF InOrder
<1>6. \A k \in 1..c : g[k] \in 1..N /\ events[g[k]].rtmr = 0
  BY <1>1, <1>5 DEF Rtmr0Places
<1>7. \A k \in 1..c : es[k] = events[g[k]]
  BY <1>1, <1>4
<1>8. PICK x : x = [k \in 1..c |-> p[g[k]]]
  OBVIOUS
<1>9. ASSUME NEW k \in 1..c
      PROVE  /\ x[k] \in KeptPlaces(m)
             /\ es[k].label = SlotLabel(m.layout.rtmr0[x[k]])
             /\ es[k].digest \in {Digest(m.layout.rtmr0[x[k]], m), Malformed}
  <2>1. g[k] \in 1..Len(events) /\ events[g[k]].rtmr = 0 /\ x[k] = p[g[k]] /\ es[k] = events[g[k]]
    BY <1>1, <1>6, <1>7, <1>8
  <2>2. PICK i : i = g[k]
    OBVIOUS
  <2>3. /\ p[i] \in 1..Len(m.layout.rtmr0) /\ KeptSlot(m.layout.rtmr0[p[i]])
        /\ events[i].label = SlotLabel(m.layout.rtmr0[p[i]])
        /\ events[i].digest \in {Digest(m.layout.rtmr0[p[i]], m), Malformed}
    BY <1>3, <2>1, <2>2 DEF OfSlots
  <2> QED
    BY <2>1, <2>2, <2>3 DEF KeptPlaces
<1>10. ASSUME NEW j \in 1..c, NEW k \in 1..c, j < k,
              es[j].label = "ACPI_DATA", es[k].label = "ACPI_DATA"
       PROVE  x[j] < x[k]
  <2>1. g[j] < g[k] /\ g[j] \in 1..Len(events) /\ g[k] \in 1..Len(events)
    BY <1>1, <1>5, <1>6, <1>10
  <2>2. IsTable(events[g[j]]) /\ IsTable(events[g[k]])
    BY <1>6, <1>7, <1>10 DEF IsTable
  <2>3. p[g[j]] < p[g[k]]
    BY <1>3, <2>1, <2>2 DEF TablesInOrder
  <2> QED
    BY <1>8, <2>3
<1>11. Rtmr0Of(es, m, x)
  BY <1>5, <1>9, <1>10 DEF Rtmr0Of
<1> QED
  BY <1>1, <1>11

\* What an event of a label not of an ACPI table says.
LEMMA OfLabel ==
  ASSUME NEW m \in Machines, NEW es, NEW x, Rtmr0Of(es, m, x), NEW k \in 1..Len(es),
         es[k].label # "ACPI_DATA", es[k].digest # Malformed
  PROVE  es[k].digest = Digest(es[k].label, m)
<1>1. /\ x[k] \in KeptPlaces(m)
      /\ es[k].label = SlotLabel(m.layout.rtmr0[x[k]])
      /\ es[k].digest \in {Digest(m.layout.rtmr0[x[k]], m), Malformed}
  BY DEF Rtmr0Of
<1>2. SlotLabel(m.layout.rtmr0[x[k]]) = m.layout.rtmr0[x[k]]
  BY <1>1 DEF SlotLabel
<1> QED
  BY <1>1, <1>2

LEMMA SupportedTrailing ==
  ASSUME NEW es, Len(es) \in Nat, SupportedEvents(es)
  PROVE  /\ Len(Trailing(es)) = 8
         /\ \E q : /\ q \in [1..8 -> 1..Len(es)] /\ \A j, k \in 1..8 : j < k => q[j] < q[k]
                   /\ \A k \in 1..8 : /\ Trailing(es)[k] = es[q[k]]
                                      /\ es[q[k]].label = TrailingLabels[k]
<1>1. PICK c, q : /\ InOrder(q, c, TrailingPlaces(es))
                  /\ Len(Trailing(es)) = c /\ \A k \in 1..c : Trailing(es)[k] = es[q[k]]
  BY TrailingInOrder
<1>2. PICK trailing : trailing = Trailing(es)
  OBVIOUS
<1>3. Labels(trailing) = TrailingLabels
  BY <1>2 DEF SupportedEvents
<1>4. c \in Nat /\ Len(trailing) = c
  BY <1>1, <1>2 DEF InOrder
<1>5. Labels(trailing) = [k \in 1..c |-> trailing[k].label]
  BY <1>4 DEF Labels
<1>6. c = 8
  <2>1. Len(TrailingLabels) = 8
    BY Expected
  <2> QED
    BY <1>3, <1>4, <1>5, <2>1
<1>7. q \in [1..8 -> 1..Len(es)] /\ \A j, k \in 1..8 : j < k => q[j] < q[k]
  BY <1>1, <1>6 DEF InOrder, TrailingPlaces
<1>8. \A k \in 1..8 : trailing[k].label = TrailingLabels[k]
  BY <1>3, <1>5, <1>6
<1>9. \A k \in 1..8 : Trailing(es)[k] = es[q[k]] /\ es[q[k]].label = TrailingLabels[k]
  BY <1>1, <1>2, <1>6, <1>8
<1> QED
  BY <1>1, <1>6, <1>7, <1>9

\* A layout whose events are accepted is recorded as the standard one is.
LEMMA RecordedAsStandard ==
  ASSUME ToldApart(Layouts), NEW m \in Machines, NEW events, NEW was_edited,
         EventsOfMachine(events, m, was_edited), SupportedEvents(OfRtmr(events, 0))
  PROVE  /\ m.layout.rtmr1 = Standard.rtmr1
         /\ SlotLabels(RecordedSlots(m.layout)) = SlotLabels(Standard.rtmr0)
<1>1. m.layout \in Layouts
  BY DEF Machines
<1>2. /\ m.layout.rtmr1 = Standard.rtmr1
      /\ SupportedLabels(SlotLabels(KeptSlots(m.layout))) =>
           SlotLabels(RecordedSlots(m.layout)) = SlotLabels(Standard.rtmr0)
  BY <1>1 DEF ToldApart
<1>3. CASE m.layout = Standard
  <2>1. PICK s : s = Standard.rtmr0
    OBVIOUS
  <2>2. /\ Len(s) = 16
        /\ s[1] = "TdxTable" /\ s[2] = "CFV" /\ s[3] = "SecureBoot" /\ s[4] = "PK"
        /\ s[5] = "KEK" /\ s[6] = "db" /\ s[7] = "dbx" /\ s[8] = "Separator"
        /\ s[9] = "ACPI1" /\ s[10] = "ACPI2" /\ s[11] = "ACPI3" /\ s[12] = "BootOrder"
        /\ s[13] = "Boot0001" /\ s[14] = "Boot0002" /\ s[15] = "Boot0003" /\ s[16] = "Boot0000"
    BY <2>1, StandardSlots
  <2>3. PICK K : K = {i \in 1..16 : s[i] # "Bankless"}
    OBVIOUS
  <2>4. K = 1..16
    <3>1. ASSUME NEW i \in 1..16 PROVE s[i] # "Bankless"
      <4>1. \/ i = 1 \/ i = 2 \/ i = 3 \/ i = 4 \/ i = 5 \/ i = 6 \/ i = 7 \/ i = 8 \/ i = 9
            \/ i = 10 \/ i = 11 \/ i = 12 \/ i = 13 \/ i = 14 \/ i = 15 \/ i = 16
        OBVIOUS
      <4> QED
        BY <2>2, <4>1
    <3> QED
      BY <2>3, <3>1
  <2>5. RecordedSlots(m.layout) = Taken(s, K)
    BY <1>3, <2>1, <2>2, <2>3 DEF RecordedSlots, Chosen, Places
  <2>6. Taken(s, 1..16) = [k \in 1..16 |-> s[k]]
    BY TakenWhole
  <2>7. PICK rec : rec = RecordedSlots(m.layout)
    OBVIOUS
  <2>8. rec = [k \in 1..16 |-> s[k]]
    BY <2>4, <2>5, <2>6, <2>7
  <2>9. Len(rec) = 16 /\ \A k \in 1..16 : rec[k] = s[k]
    BY <2>8
  <2>10. SlotLabels(rec) = [k \in 1..16 |-> SlotLabel(rec[k])]
    BY <2>9 DEF SlotLabels
  <2>11. SlotLabels(s) = [k \in 1..16 |-> SlotLabel(s[k])]
    BY <2>2 DEF SlotLabels
  <2>12. \A k \in 1..16 : SlotLabel(rec[k]) = SlotLabel(s[k])
    BY <2>9
  <2> QED
    BY <1>2, <2>1, <2>7, <2>10, <2>11, <2>12
<1>4. CASE m.layout # Standard
  <2>1. PICK es, labels : es = OfRtmr(events, 0) /\ labels = SlotLabels(KeptSlots(m.layout))
    OBVIOUS
  <2>2. Labels(es) = labels
    BY <1>4, <2>1 DEF EventsOfMachine, Labelled
  <2>3. ToBag(labels) = ToBag(ExpectedLabels) /\ Labels(Trailing(es)) = TrailingLabels
    BY <2>1, <2>2 DEF SupportedEvents
  <2>4. PICK P : P = {i \in 1..Len(labels) : labels[i] \notin ToSet(FixedLabels)}
    OBVIOUS
  <2>5. Len(events) \in Nat
    BY DEF EventsOfMachine, Recordable
  <2>6. Len(es) \in Nat
    BY <2>1, <2>5, EventsOfRtmr0 DEF InOrder
  <2>7. Len(labels) = Len(es) /\ \A i \in 1..Len(es) : labels[i] = es[i].label
    BY <2>2, <2>6 DEF Labels
  <2>8. P = TrailingPlaces(es) /\ P \in SUBSET (1..Len(es))
    BY <2>4, <2>7 DEF TrailingPlaces
  <2>9. Chosen(labels, LAMBDA l : l \notin ToSet(FixedLabels)) = Taken(labels, P)
    BY <2>4 DEF Chosen, Places
  <2>10. PICK c, q : /\ InOrder(q, c, TrailingPlaces(es))
                     /\ Len(Trailing(es)) = c /\ \A k \in 1..c : Trailing(es)[k] = es[q[k]]
    BY <2>6, TrailingInOrder
  <2>11. InOrder(q, c, P)
    <3>1. InOrder(q, c, TrailingPlaces(es))
      BY <2>10
    <3> QED
      BY <2>8, <3>1
  <2>12. P \in SUBSET Nat
    BY <2>8
  <2>13. Taken(labels, P) = [k \in 1..c |-> labels[q[k]]]
    BY <2>11, <2>12, TakenInOrder
  <2>14. \A k \in 1..c : q[k] \in 1..Len(es)
    BY <2>8, <2>11 DEF InOrder
  <2>15. PICK trailing : trailing = Trailing(es)
    OBVIOUS
  <2>16. Len(trailing) = c /\ \A k \in 1..c : trailing[k] = es[q[k]]
    BY <2>10, <2>15
  <2>17. Labels(trailing) = [k \in 1..c |-> trailing[k].label]
    BY <2>16 DEF Labels
  <2>18. \A k \in 1..c : trailing[k].label = labels[q[k]]
    BY <2>7, <2>14, <2>16
  <2>19. Taken(labels, P) = TrailingLabels
    BY <2>3, <2>13, <2>15, <2>17, <2>18
  <2>20. SupportedLabels(labels)
    BY <2>3, <2>9, <2>19 DEF SupportedLabels
  <2> QED
    BY <1>2, <2>1, <2>20
<1> QED
  BY <1>3, <1>4

LEMMA RecordedOneByOne ==
  ASSUME NEW m \in Machines, SlotLabels(RecordedSlots(m.layout)) = SlotLabels(Standard.rtmr0)
  PROVE  \E h : /\ InOrder(h, 16, RecordedPlaces(m))
                /\ \A k \in 1..16 :
                     SlotLabel(m.layout.rtmr0[h[k]]) = SlotLabel(Standard.rtmr0[k])
<1>1. PICK n, h : /\ InOrder(h, n, RecordedPlaces(m))
                  /\ RecordedSlots(m.layout) = [k \in 1..n |-> m.layout.rtmr0[h[k]]]
  BY RecordedInOrder
<1>2. PICK rec, s : rec = RecordedSlots(m.layout) /\ s = Standard.rtmr0
  OBVIOUS
<1>3. n \in Nat
  BY <1>1 DEF InOrder
<1>4. Len(rec) = n /\ \A k \in 1..n : rec[k] = m.layout.rtmr0[h[k]]
  BY <1>1, <1>2, <1>3
<1>5. Len(s) = 16
  BY <1>2, StandardSlots
<1>6. SlotLabels(rec) = [k \in 1..n |-> SlotLabel(rec[k])]
  BY <1>4 DEF SlotLabels
<1>7. SlotLabels(s) = [k \in 1..16 |-> SlotLabel(s[k])]
  BY <1>5 DEF SlotLabels
<1>8. SlotLabels(rec) = SlotLabels(s)
  BY <1>2
<1>9. n = 16
  <2>1. Len(SlotLabels(rec)) = n
    BY <1>3, <1>6
  <2>2. Len(SlotLabels(s)) = 16
    BY <1>7
  <2> QED
    BY <1>8, <2>1, <2>2
<1>10. \A k \in 1..16 : SlotLabel(rec[k]) = SlotLabel(s[k])
  BY <1>6, <1>7, <1>8, <1>9
<1>11. InOrder(h, 16, RecordedPlaces(m))
  BY <1>1, <1>9
<1>12. \A k \in 1..16 : SlotLabel(m.layout.rtmr0[h[k]]) = SlotLabel(Standard.rtmr0[k])
  BY <1>2, <1>4, <1>9, <1>10
<1> QED
  BY <1>11, <1>12

\* The digests of the slots that are recorded, in order.
RecordedDigests(m, d, n, h) == [k \in 1..n |-> Digest(m.layout.rtmr0[h[k]], d)]

LEMMA ReportedRecorded ==
  ASSUME NEW m \in Machines, NEW d, d.layout = m.layout,
         NEW n, NEW h, InOrder(h, n, RecordedPlaces(m))
  PROVE  Register(0, d) = RecordedDigests(m, d, n, h)
<1>1. PICK slots, L : slots = m.layout.rtmr0 /\ L = Len(slots)
  OBVIOUS
<1>2. L \in Nat /\ \A i \in 1..L : slots[i] \in Rtmr0Slots
  BY <1>1, SlotsOfLayout
<1>3. PICK K : K = {i \in 1..L : Digest(slots[i], d) # NoDigest}
  OBVIOUS
<1>4. K = RecordedPlaces(m)
  <2>1. ASSUME NEW i \in 1..L PROVE Digest(slots[i], d) # NoDigest <=> slots[i] # "Bankless"
    <3>1. slots[i] # NotThere
      <4>1. slots[i] \in Rtmr0Slots
        BY <1>2
      <4> QED
        BY <4>1 DEF Rtmr0Slots, DriverVariables, BootVariables, AcpiTables, NotThere
    <3>2. CASE slots[i] = "Bankless"
      BY <3>2 DEF Digest
    <3>3. CASE slots[i] # "Bankless"
      BY <3>1, <3>3, HasDigest
    <3> QED
      BY <3>2, <3>3
  <2> QED
    BY <1>1, <1>3, <2>1 DEF RecordedPlaces
<1>5. PICK chosen : chosen = Taken(slots, K)
  OBVIOUS
<1>6. K \in SUBSET Nat /\ InOrder(h, n, K)
  <2>1. K \in SUBSET Nat
    BY <1>3
  <2> QED
    BY <1>4, <2>1
<1>7. chosen = [k \in 1..n |-> slots[h[k]]]
  <2>1. Taken(slots, K) = [k \in 1..n |-> slots[h[k]]]
    BY <1>6, TakenInOrder
  <2> QED
    BY <1>5, <2>1
<1>8. n \in Nat
  BY DEF InOrder
<1>9. Len(chosen) = n /\ \A k \in 1..n : chosen[k] = slots[h[k]]
  BY <1>7, <1>8
<1>10. Slots(0, d) = slots
  BY <1>1 DEF Slots
<1>11. Register(0, d) = [i \in 1..Len(chosen) |-> Digest(chosen[i], d)]
  BY <1>1, <1>3, <1>5, <1>10 DEF Register, Chosen, Places
<1>12. \A k \in 1..n : Digest(chosen[k], d) = Digest(m.layout.rtmr0[h[k]], d)
  BY <1>1, <1>9
<1> QED
  BY <1>9, <1>11, <1>12 DEF RecordedDigests

\* The digests of RTMR[0] in the order of the register: those replayed by name,
\* those computed, and those replayed positionally are each where the machine
\* measures them.
LEMMA ReportedRtmr0 ==
  ASSUME ToldApart(Layouts), NEW m \in Machines, NEW was_edited,
         BaselineOf(baseline, m, was_edited),
         NEW d, d.layout = m.layout, d.firmware = m.firmware, d.secureboot = m.secureboot,
         request.firmware = m.firmware,
         SupportedEvents(RtmrEvents(0)), AllDecode(Rtmr0Digests(RtmrEvents(0)))
  PROVE  Rtmr0Digests(RtmrEvents(0)) = Register(0, d)
<1>1. PICK events, es, digests :
        events = baseline.events /\ es = RtmrEvents(0) /\ digests = Rtmr0Digests(es)
  OBVIOUS
<1>2. EventsOfMachine(events, m, was_edited) /\ (HasSecureBoot(m) => baseline.secureboot = m.secureboot)
  BY <1>1 DEF BaselineOf
<1>3. es = OfRtmr(events, 0)
  BY <1>1 DEF RtmrEvents, OfRtmr
<1>4. SupportedEvents(es) /\ AllDecode(digests)
  BY <1>1
<1>5. PICK x : Rtmr0Of(es, m, x)
  BY <1>2, <1>3, Rtmr0OfMachine
<1>6. Len(es) \in Nat
  BY <1>5 DEF Rtmr0Of
<1>7. PICK slots, s : slots = m.layout.rtmr0 /\ s = Standard.rtmr0
  OBVIOUS
<1>8. SlotLabels(RecordedSlots(m.layout)) = SlotLabels(Standard.rtmr0)
  BY <1>2, <1>3, <1>4, RecordedAsStandard
<1>9. PICK h : /\ InOrder(h, 16, RecordedPlaces(m))
               /\ \A k \in 1..16 :
                    SlotLabel(m.layout.rtmr0[h[k]]) = SlotLabel(Standard.rtmr0[k])
  BY <1>8, RecordedOneByOne
<1>10. /\ \A k \in 1..16 : h[k] \in 1..Len(slots) /\ slots[h[k]] \in Rtmr0Slots
                           /\ SlotLabel(slots[h[k]]) = SlotLabel(s[k])
       /\ \A j, k \in 1..16 : j < k => h[j] < h[k]
       /\ \A i \in RecordedPlaces(m) : \E k \in 1..16 : h[k] = i
  <2>1. /\ \A k \in 1..16 : h[k] \in RecordedPlaces(m)
        /\ \A j, k \in 1..16 : j < k => h[j] < h[k]
        /\ \A i \in RecordedPlaces(m) : \E k \in 1..16 : h[k] = i
    BY <1>9 DEF InOrder
  <2>2. \A i \in RecordedPlaces(m) : i \in 1..Len(slots)
    BY <1>7 DEF RecordedPlaces
  <2>3. \A i \in 1..Len(slots) : slots[i] \in Rtmr0Slots
    BY <1>7, SlotsOfLayout
  <2>4. \A k \in 1..16 : SlotLabel(slots[h[k]]) = SlotLabel(s[k])
    BY <1>7, <1>9
  <2> QED
    BY <2>1, <2>2, <2>3, <2>4
<1>11. /\ s[1] = "TdxTable" /\ s[2] = "CFV" /\ s[3] = "SecureBoot" /\ s[4] = "PK"
       /\ s[5] = "KEK" /\ s[6] = "db" /\ s[7] = "dbx" /\ s[8] = "Separator"
       /\ s[9] = "ACPI1" /\ s[10] = "ACPI2" /\ s[11] = "ACPI3" /\ s[12] = "BootOrder"
       /\ s[13] = "Boot0001" /\ s[14] = "Boot0002" /\ s[15] = "Boot0003" /\ s[16] = "Boot0000"
  BY <1>7, StandardSlots
\* The slot recorded at k is the standard one, or an ACPI table.
<1>12. ASSUME NEW k \in 1..16, k \notin 9..11
       PROVE  slots[h[k]] = s[k] /\ SlotLabel(s[k]) # "ACPI_DATA"
  <2>1. s[k] \notin AcpiTables /\ s[k] # "ACPI_DATA"
    <3>1. \/ k = 1 \/ k = 2 \/ k = 3 \/ k = 4 \/ k = 5 \/ k = 6 \/ k = 7 \/ k = 8
          \/ k = 12 \/ k = 13 \/ k = 14 \/ k = 15 \/ k = 16
      BY <1>12
    <3> QED
      BY <1>11, <3>1 DEF AcpiTables
  <2>2. SlotLabel(s[k]) = s[k]
    BY <2>1 DEF SlotLabel
  <2>3. SlotLabel(slots[h[k]]) = s[k]
    BY <1>10, <2>2
  <2> QED
    BY <2>1, <2>2, <2>3 DEF SlotLabel
<1>13. ASSUME NEW s1 \in Rtmr0Slots PROVE Digest(s1, d) = Digest(s1, m)
  <2>1. s1 \notin {"GPT", "UKI", "Kernel", "Sections", "Profile"}
    BY DEF Rtmr0Slots, DriverVariables, BootVariables, AcpiTables
  <2>2. DeterminedBy(s1, d) = DeterminedBy(s1, m)
    BY <2>1 DEF DeterminedBy
  <2> QED
    BY <2>2 DEF Digest
<1>14. /\ Len(Trailing(es)) = 8
       /\ \E q : /\ q \in [1..8 -> 1..Len(es)] /\ \A j, k \in 1..8 : j < k => q[j] < q[k]
                 /\ \A k \in 1..8 : /\ Trailing(es)[k] = es[q[k]]
                                    /\ es[q[k]].label = TrailingLabels[k]
  BY <1>4, <1>6, SupportedTrailing
<1>15. PICK q : /\ q \in [1..8 -> 1..Len(es)] /\ \A j, k \in 1..8 : j < k => q[j] < q[k]
                /\ \A k \in 1..8 : /\ Trailing(es)[k] = es[q[k]]
                                   /\ es[q[k]].label = TrailingLabels[k]
  BY <1>14
<1>16. /\ DOMAIN digests = 1..16 /\ \E S : digests \in Seq(S)
       /\ digests[1] = ByLabel(es, "TdxTable")
       /\ digests[2] = ComputedDigest("CFV", request.firmware)
       /\ digests[3] = ComputedDigest("SecureBoot", baseline.secureboot)
       /\ digests[4] = ByLabel(es, "PK") /\ digests[5] = ByLabel(es, "KEK")
       /\ digests[6] = ByLabel(es, "db") /\ digests[7] = ByLabel(es, "dbx")
       /\ digests[8] = ComputedDigest("Separator", "platform")
       /\ \A i \in 1..8 : digests[8 + i] = Trailing(es)[i].digest
  <2>1. PICK trailing : trailing = Trailing(es)
    OBVIOUS
  <2>2. Len(Trailing(es)) \in Nat
    BY <1>14
  <2>3. /\ DOMAIN digests = 1..(8 + Len(trailing)) /\ \E S : digests \in Seq(S)
        /\ digests[1] = ByLabel(es, "TdxTable")
        /\ digests[2] = ComputedDigest("CFV", request.firmware)
        /\ digests[3] = ComputedDigest("SecureBoot", baseline.secureboot)
        /\ digests[4] = ByLabel(es, "PK") /\ digests[5] = ByLabel(es, "KEK")
        /\ digests[6] = ByLabel(es, "db") /\ digests[7] = ByLabel(es, "dbx")
        /\ digests[8] = ComputedDigest("Separator", "platform")
        /\ \A i \in 1..Len(trailing) : digests[8 + i] = trailing[i].digest
    BY <1>1, <2>1, <2>2, Rtmr0DigestsAre
  <2>4. Len(trailing) = 8 /\ 8 + 8 = 16
    BY <1>14, <2>1
  <2> QED
    BY <2>1, <2>3, <2>4
<1>17. \A k \in 1..16 : digests[k] # Malformed
  <2>1. ToSet(digests) = {digests[k] : k \in 1..16}
    BY <1>16 DEF ToSet
  <2> QED
    BY <1>4, <2>1 DEF AllDecode
\* Replayed by name.
<1>18. ASSUME NEW label \in {"TdxTable", "PK", "KEK", "db", "dbx"},
              ByLabel(es, label) # Malformed
       PROVE  ByLabel(es, label) = Digest(label, d)
  <2>1. label \in ToSet(FixedLabels) /\ label # "ACPI_DATA" /\ label \in Rtmr0Slots
    BY Expected DEF Rtmr0Slots, DriverVariables
  <2>2. PICK i \in 1..Len(es) : es[i].label = label
    BY <1>4, <1>6, <2>1, LabelThere
  <2>3. PICK k \in 1..Len(es) : es[k].label = label /\ ByLabel(es, label) = es[k].digest
    BY <1>6, <2>2, LabelledDigest
  <2>4. es[k].digest = Digest(es[k].label, m)
    BY <1>5, <1>18, <2>1, <2>3, OfLabel
  <2> QED
    BY <1>13, <2>1, <2>3, <2>4
\* Computed.
<1>19. /\ ComputedDigest("CFV", request.firmware) = Digest("CFV", d)
       /\ ComputedDigest("Separator", "platform") = Digest("Separator", d)
       /\ ComputedDigest("SecureBoot", baseline.secureboot) = Digest("SecureBoot", d)
  <2>1. HasSecureBoot(m)
    <3>1. slots[h[3]] = "SecureBoot"
      BY <1>11, <1>12
    <3>2. h[3] \in 1..Len(slots)
      BY <1>10
    <3> QED
      BY <1>7, <3>1, <3>2 DEF HasSecureBoot
  <2>2. baseline.secureboot = d.secureboot
    BY <1>2, <2>1
  <2> QED
    BY <2>2 DEF ComputedDigest, Digest, DeterminedBy
\* Replayed positionally, and not of an ACPI table.
<1>20. ASSUME NEW k \in 4..8 PROVE digests[8 + k] = Digest(TrailingLabels[k], d)
  <2>1. k \in 1..8 /\ 8 + k \in 1..16
    OBVIOUS
  <2>2. digests[8 + k] = es[q[k]].digest /\ es[q[k]].label = TrailingLabels[k] /\ q[k] \in 1..Len(es)
    BY <1>15, <1>16, <2>1
  <2>3. TrailingLabels[k] # "ACPI_DATA" /\ TrailingLabels[k] \in Rtmr0Slots
    <3>1. k = 4 \/ k = 5 \/ k = 6 \/ k = 7 \/ k = 8
      OBVIOUS
    <3>2. TrailingLabels[k] \in BootVariables
      BY <3>1, Expected DEF BootVariables
    <3> QED
      BY <3>2 DEF Rtmr0Slots, BootVariables
  <2>4. es[q[k]].digest # Malformed
    BY <1>17, <2>1, <2>2
  <2>5. es[q[k]].digest = Digest(es[q[k]].label, m)
    BY <1>5, <2>2, <2>3, <2>4, OfLabel
  <2> QED
    BY <1>13, <2>2, <2>3, <2>5
\* Replayed positionally, and of an ACPI table: there are three, in one order.
<1>21. ASSUME NEW k \in 1..3
       PROVE  \E j \in 9..11 : x[q[k]] = h[j] /\ digests[8 + k] = Digest(slots[h[j]], d)
  <2>1. k \in 1..8 /\ 8 + k \in 1..16
    OBVIOUS
  <2>2. digests[8 + k] = es[q[k]].digest /\ es[q[k]].label = TrailingLabels[k] /\ q[k] \in 1..Len(es)
    BY <1>15, <1>16, <2>1
  <2>3. TrailingLabels[k] = "ACPI_DATA"
    <3>1. k = 1 \/ k = 2 \/ k = 3
      OBVIOUS
    <3> QED
      BY <3>1, Expected
  <2>4. PICK i : i = x[q[k]]
    OBVIOUS
  <2>5. /\ i \in KeptPlaces(m) /\ SlotLabel(slots[i]) = "ACPI_DATA"
        /\ digests[8 + k] \in {Digest(slots[i], m), Malformed}
    BY <1>5, <1>7, <2>2, <2>3, <2>4 DEF Rtmr0Of
  <2>6. i \in RecordedPlaces(m)
    BY <2>5 DEF KeptPlaces, RecordedPlaces, KeptSlot
  <2>7. PICK j \in 1..16 : h[j] = i
    BY <1>10, <2>6
  <2>8. j \in 9..11
    <3>1. SlotLabel(s[j]) = "ACPI_DATA"
      BY <1>10, <2>5, <2>7
    <3> QED
      BY <1>12, <3>1
  <2>9. digests[8 + k] = Digest(slots[i], m) /\ slots[i] \in Rtmr0Slots
    BY <1>10, <1>17, <2>1, <2>5, <2>7
  <2>10. digests[8 + k] = Digest(slots[i], d)
    BY <1>13, <2>9
  <2> QED
    BY <2>4, <2>7, <2>8, <2>10
<1>22. \A k \in 1..3 : digests[8 + k] = Digest(slots[h[8 + k]], d)
  <2>1. PICK j1 \in 9..11 : x[q[1]] = h[j1] /\ digests[8 + 1] = Digest(slots[h[j1]], d)
    BY <1>21
  <2>2. PICK j2 \in 9..11 : x[q[2]] = h[j2] /\ digests[8 + 2] = Digest(slots[h[j2]], d)
    BY <1>21
  <2>3. PICK j3 \in 9..11 : x[q[3]] = h[j3] /\ digests[8 + 3] = Digest(slots[h[j3]], d)
    BY <1>21
  <2>4. x[q[1]] < x[q[2]] /\ x[q[2]] < x[q[3]]
    <3>1. /\ q[1] \in 1..Len(es) /\ q[2] \in 1..Len(es) /\ q[3] \in 1..Len(es)
          /\ q[1] < q[2] /\ q[2] < q[3]
      BY <1>15
    <3>2. es[q[1]].label = "ACPI_DATA" /\ es[q[2]].label = "ACPI_DATA" /\ es[q[3]].label = "ACPI_DATA"
      BY <1>15, Expected
    <3> QED
      BY <1>5, <3>1, <3>2 DEF Rtmr0Of
  <2>5. h[9] \in Nat /\ h[10] \in Nat /\ h[11] \in Nat /\ h[9] < h[10] /\ h[10] < h[11]
    <3>1. 9 \in 1..16 /\ 10 \in 1..16 /\ 11 \in 1..16 /\ 9 < 10 /\ 10 < 11
      OBVIOUS
    <3>2. h[9] < h[10] /\ h[10] < h[11]
      BY <1>10, <3>1
    <3>3. h[9] \in 1..Len(slots) /\ h[10] \in 1..Len(slots) /\ h[11] \in 1..Len(slots)
      BY <1>10, <3>1
    <3> QED
      BY <3>2, <3>3
  <2>6. /\ j1 = 9 \/ j1 = 10 \/ j1 = 11
        /\ j2 = 9 \/ j2 = 10 \/ j2 = 11
        /\ j3 = 9 \/ j3 = 10 \/ j3 = 11
    OBVIOUS
  <2>7. j1 = 9 /\ j2 = 10 /\ j3 = 11
    BY <2>1, <2>2, <2>3, <2>4, <2>5, <2>6
  <2>8. \A k \in 1..3 : k = 1 \/ k = 2 \/ k = 3
    OBVIOUS
  <2> QED
    BY <2>1, <2>2, <2>3, <2>7, <2>8
<1>23. ASSUME NEW k \in 1..16 PROVE digests[k] = Digest(slots[h[k]], d)
  <2>1. CASE k \in 9..11
    <3>1. k - 8 \in 1..3 /\ 8 + (k - 8) = k
      BY <2>1
    <3> QED
      BY <1>22, <3>1
  <2>2. CASE k \in 12..16
    <3>1. k - 8 \in 4..8 /\ 8 + (k - 8) = k /\ k \notin 9..11
      BY <2>2
    <3>2. digests[k] = Digest(TrailingLabels[k - 8], d)
      BY <1>20, <3>1
    <3>3. slots[h[k]] = s[k]
      BY <1>12, <3>1
    <3>4. TrailingLabels[k - 8] = s[k]
      <4>1. k = 12 \/ k = 13 \/ k = 14 \/ k = 15 \/ k = 16
        BY <2>2
      <4>2. 12 - 8 = 4 /\ 13 - 8 = 5 /\ 14 - 8 = 6 /\ 15 - 8 = 7 /\ 16 - 8 = 8
        OBVIOUS
      <4> QED
        BY <1>11, <4>1, <4>2, Expected
    <3> QED
      BY <3>2, <3>3, <3>4
  <2>3. CASE k \in 1..8
    <3>1. slots[h[k]] = s[k]
      BY <1>12, <2>3
    <3>2. k = 1 \/ k = 2 \/ k = 3 \/ k = 4 \/ k = 5 \/ k = 6 \/ k = 7 \/ k = 8
      BY <2>3
    <3>3. /\ digests[1] # Malformed /\ digests[4] # Malformed /\ digests[5] # Malformed
          /\ digests[6] # Malformed /\ digests[7] # Malformed
      BY <1>17
    <3>4. /\ digests[1] = Digest("TdxTable", d) /\ digests[4] = Digest("PK", d)
          /\ digests[5] = Digest("KEK", d) /\ digests[6] = Digest("db", d)
          /\ digests[7] = Digest("dbx", d)
      BY <1>16, <1>18, <3>3
    <3>5. /\ digests[2] = Digest("CFV", d) /\ digests[3] = Digest("SecureBoot", d)
          /\ digests[8] = Digest("Separator", d)
      BY <1>16, <1>19
    <3> QED
      BY <1>11, <3>1, <3>2, <3>4, <3>5
  <2>4. k \in 9..11 \/ k \in 12..16 \/ k \in 1..8
    OBVIOUS
  <2> QED
    BY <2>1, <2>2, <2>3, <2>4
<1>24. digests = [k \in 1..16 |-> digests[k]]
  <2>1. PICK S : digests \in Seq(S)
    BY <1>16
  <2> QED
    BY <1>16, <2>1
<1>25. Register(0, d) = RecordedDigests(m, d, 16, h)
  <2>1. InOrder(h, 16, RecordedPlaces(m))
    BY <1>9
  <2>2. d.layout = m.layout /\ m \in Machines
    OBVIOUS
  <2> QED
    BY <2>1, <2>2, ReportedRecorded
<1>26. \A k \in 1..16 : digests[k] = Digest(m.layout.rtmr0[h[k]], d)
  BY <1>7, <1>23
<1>27. digests = Register(0, d)
  BY <1>24, <1>25, <1>26 DEF RecordedDigests
<1> QED
  BY <1>1, <1>27

LEMMA DescribedFields ==
  ASSUME machine \in Machines
  PROVE  /\ Described.layout = machine.layout /\ Described.secureboot = machine.secureboot
         /\ Described.firmware = request.firmware /\ Described.uki = request.uki
         /\ Described.disk = IF request.disk # NotThere THEN request.disk ELSE machine.disk
  BY DEF Described, Machines

LEMMA ComputedIsReported ==
  ASSUME ToldApart(Layouts), IInv, FromTheMachine
  PROVE  Reconstructs
<1> SUFFICES ASSUME pc = "computed", baseline.firmware_sha384 # NotThere
             PROVE  \A rtmr \in 0..2 : registers[rtmr + 2] = Register(rtmr, Described)
  BY DEF Reconstructs
<1>1. machine \in Machines /\ BaselineOf(baseline, machine, edited)
  BY DEF IInv, TypeOK, FromTheMachine
<1>2. /\ FirmwareVerified(baseline, request.firmware)
      /\ SupportedEvents(RtmrEvents(0)) /\ AllDecode(Rtmr0Digests(RtmrEvents(0)))
      /\ registers[2] = Rtmr0Digests(RtmrEvents(0))
      /\ request.disk # NotThere \/ GptEvents # <<>>
      /\ AllDecode(<<GptDigest(GptEvents)>>)
      /\ request.uki \in UkisWithKernel
      /\ registers[3] = Rtmr1Digests(GptDigest(GptEvents))
      /\ request.uki \in PlainUkis
      /\ registers[4] = <<ComputedDigest("Sections", request.uki)>>
  BY DEF IInv, ChecksHold, Verified, ReplayedBaseline, ReplayedBoot, MeasuredSectionsOnly
<1>3. request.firmware = machine.firmware
  BY <1>1, <1>2 DEF FirmwareVerified, BaselineOf
<1>4. PICK d : d = Described
  OBVIOUS
<1>5. /\ d.layout = machine.layout /\ d.secureboot = machine.secureboot
      /\ d.firmware = machine.firmware /\ d.uki = request.uki
      /\ d.disk = IF request.disk # NotThere THEN request.disk ELSE machine.disk
  BY <1>1, <1>3, <1>4, DescribedFields
<1>6. PICK events, gpt : events = baseline.events /\ gpt = GptEvents
  OBVIOUS
<1>7. EventsOfMachine(events, machine, edited)
  BY <1>1, <1>6 DEF BaselineOf
<1>8. registers[2] = Register(0, d)
  <2>1. Rtmr0Digests(RtmrEvents(0)) = Register(0, d)
    BY <1>1, <1>2, <1>3, <1>5, ReportedRtmr0
  <2> QED
    BY <1>2, <2>1
<1>9. GptDigest(gpt) = Digest("GPT", d)
  <2>1. Digest("GPT", d) = [of |-> "GPT", by |-> d.disk]
    BY DEF Digest, DeterminedBy
  <2>2. CASE request.disk # NotThere
    BY <1>5, <2>1, <2>2 DEF GptDigest, ComputedDigest
  <2>3. CASE request.disk = NotThere
    <3>1. gpt # <<>> /\ GptDigest(gpt) = gpt[1].digest /\ d.disk = machine.disk
      BY <1>2, <1>5, <1>6, <2>3 DEF GptDigest
    <3>2. gpt[1].digest # Malformed
      <4>1. PICK g : g = gpt[1].digest
        OBVIOUS
      <4>2. AllDecode(<<g>>)
        BY <1>2, <1>6, <3>1, <4>1
      <4>3. ToSet(<<g>>) = {g}
        BY DEF ToSet
      <4> QED
        BY <4>1, <4>2, <4>3 DEF AllDecode
    <3>3. Len(events) \in Nat
      BY <1>7 DEF EventsOfMachine, Recordable
    <3>4. gpt = OfGpt(OfRtmr(events, 1))
      BY <1>6 DEF GptEvents, RtmrEvents, OfRtmr
    <3>5. PICK i \in 1..Len(events) :
            /\ gpt[1] = events[i] /\ events[i].rtmr = 1 /\ events[i].label = "GPT_EVENT"
      BY <3>1, <3>3, <3>4, GptEvent
    <3>6. PICK p : OfSlots(events, machine, p)
      BY <1>7 DEF EventsOfMachine
    <3>7. events[i].digest \in {Digest("GPT", machine), Malformed}
      BY <3>5, <3>6 DEF OfSlots
    <3>8. Digest("GPT", machine) = [of |-> "GPT", by |-> machine.disk]
      BY DEF Digest, DeterminedBy
    <3> QED
      BY <2>1, <3>1, <3>2, <3>5, <3>7, <3>8
  <2> QED
    BY <2>2, <2>3
<1>10. registers[3] = Register(1, d)
  <2>1. events = baseline.events /\ SupportedEvents(OfRtmr(events, 0))
    BY <1>2, <1>6 DEF RtmrEvents, OfRtmr
  <2>2. machine.layout.rtmr1 = Standard.rtmr1
    BY <1>1, <1>7, <2>1, RecordedAsStandard
  <2>3. d.layout.rtmr1 = Standard.rtmr1 /\ d.uki \in UkisWithKernel /\ d.uki = request.uki
    BY <1>2, <1>5, <2>2
  <2>4. Register(1, d) = Rtmr1Digests(Digest("GPT", d))
    BY <2>3, ReportedRtmr1
  <2> QED
    BY <1>2, <1>6, <1>9, <2>4
<1>11. registers[4] = Register(2, d)
  <2>1. d.uki \in PlainUkis
    BY <1>2, <1>5
  <2>2. Register(2, d) = <<ComputedDigest("Sections", d.uki)>>
    BY <2>1, ReportedRtmr2
  <2> QED
    BY <1>2, <1>5, <2>2
<1>12. \A rtmr \in 0..2 : registers[rtmr + 2] = Register(rtmr, d)
  <2>1. \A rtmr \in 0..2 : rtmr = 0 \/ rtmr = 1 \/ rtmr = 2
    OBVIOUS
  <2>2. 0 + 2 = 2 /\ 1 + 2 = 3 /\ 2 + 2 = 4
    OBVIOUS
  <2> QED
    BY <1>8, <1>10, <1>11, <2>1, <2>2
<1> QED
  BY <1>4, <1>12

\* When a baseline that records a hash is accepted, the registers computed are
\* those one machine reports: the reference machine with the firmware and the
\* image that were given (tdx/registers.py:196-290).  It is so of every set of
\* layouts that the labels of a baseline tell from the standard one; a layout that
\* differs only in what is not kept, the place of a computed event, could not be
\* refused by any check of the labels.
THEOREM RegistersReconstructed ==
  ASSUME ToldApart(Layouts)
  PROVE  Spec => []Reconstructs
<1>1. IInv /\ FromTheMachine => Reconstructs
  BY ComputedIsReported
<1> QED
  BY <1>1, MachineInvariance, PTL
=============================================================================

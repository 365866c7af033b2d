--------------------------- MODULE EventLogProofs ---------------------------
(* Theorems about EventLog, for every set of logs and every constant, and   *)
(* about MeasuredBoot, for every firmware that writes what it assumes.      *)
EXTENDS MeasuredBoot, SequenceTheorems, WellFoundedInduction, TLAPS

USE DEF U16, U32, EVENT2_HEADER_SIZE, SPEC_ID_HEADER_SIZE

(* ---- Lemmas about the encoding and the cursor ------------------------- *)

\* A u32 read inside a log is a natural number.
LEMMA U32AtNat ==
  ASSUME NEW s \in Seq(Cells), NEW o \in Nat, o + 2 <= Len(s)
  PROVE  U32At(s, o) \in Nat
<1>1. s[o + 1] \in Cells /\ s[o + 2] \in Cells
  <2> o + 1 \in 1..Len(s) /\ o + 2 \in 1..Len(s)
    OBVIOUS
  <2> QED
    BY ElementOfSeq
<1>2. s[o + 1] \in Nat /\ s[o + 2] \in Nat
  BY <1>1, ScaleAssumption DEF Cells
<1>3. s[o + 2] * (MaxByte + 1) \in Nat
  BY <1>2, ScaleAssumption
<1> QED
  BY <1>2, <1>3 DEF U32At

\* A read the cursor allows ends inside the buffer.
LEMMA RequireInBuffer ==
  ASSUME TypeOK, NEW o \in Nat, NEW size \in Nat, o <= Len(data), Require(o, size)
  PROVE  o + size <= Len(data)
BY DEF TypeOK, Require, RequireStrict

\* The digest sizes of a valid SpecIdEvent: within the maximum, and those of
\* known algorithms their known lengths.
LEMMA ValidSpecIdSizes ==
  ASSUME NEW p \in Seq(Cells), ValidSpecId(p)
  PROVE  /\ DigestSizes(p) \in [Cells -> 0..MAX_DIGEST_SIZE]
         /\ \A a \in Cells : DigestSizes(p)[a] # 0 /\ ALGO_DIGEST_SIZES[a] # 0
                               => DigestSizes(p)[a] = ALGO_DIGEST_SIZES[a]
<1> DEFINE n == NumAlgos(p)
           Chosen(a) == CHOOSE i \in 1..n : AlgoId(p, i) = a
<1>1. ASSUME NEW a \in Cells, \E i \in 1..n : AlgoId(p, i) = a
      PROVE  /\ Chosen(a) \in 1..n
             /\ AlgoId(p, Chosen(a)) = a
  BY <1>1
<1>2. ASSUME NEW i \in 1..n
      PROVE  UsableDigestSize(AlgoId(p, i), DigestSize(p, i))
  BY DEF ValidSpecId
<1>3. ASSUME NEW a \in Cells, \E i \in 1..n : AlgoId(p, i) = a
      PROVE  /\ DigestSizes(p)[a] \in 1..MAX_DIGEST_SIZE
             /\ ALGO_DIGEST_SIZES[a] # 0 => DigestSizes(p)[a] = ALGO_DIGEST_SIZES[a]
  BY <1>1, <1>2, <1>3 DEF DigestSizes, UsableDigestSize
<1>4. ASSUME NEW a \in Cells, ~\E i \in 1..n : AlgoId(p, i) = a
      PROVE  DigestSizes(p)[a] = 0
  BY <1>4 DEF DigestSizes
<1>5. DigestSizes(p) = [a \in Cells |-> DigestSizes(p)[a]]
  BY DEF DigestSizes
<1> HIDE DEF n
<1>6. ASSUME NEW a \in Cells PROVE DigestSizes(p)[a] \in 0..MAX_DIGEST_SIZE
  BY <1>3, <1>4, DigestSizesAssumption
<1> QED
  BY <1>3, <1>4, <1>5, <1>6

(* ---- The inductive invariant ------------------------------------------ *)

\* The invariant holds before the parser starts.
LEMMA InitInvariant == Init => IInv
BY LogsAssumption, ScaleAssumption, DigestSizesAssumption
   DEF Init, IInv, TypeOK, DigestsBeforeFill, InBody, DigestsAreWhole, Later,
       OnlyLastEventReachesFill, EventsTileLog, NothingUnparsed, MeasuredEventsHaveRegister,
       SizesAgree, BeforeEvents, HeaderRead, BetweenEvents, EntryInProgress,
       NoEntry, NoDigests, Carries, Entries, Digests, Running, Verdicts, Cells,
       PaddingBytes

\* Giving up changes nothing but the verdict.
LEMMA RefuseInvariant ==
  ASSUME IInv, Refuse
  PROVE  IInv'
BY DEF Refuse, IInv, TypeOK, DigestsBeforeFill, InBody, DigestsAreWhole, Whole, Later,
       OnlyLastEventReachesFill, EventsTileLog, Within, Follows, NothingUnparsed,
       MeasuredEventsHaveRegister, SizesAgree, BeforeEvents, HeaderRead,
       BetweenEvents, EntryInProgress, Verdicts, Terminated

\* The body ends within the buffer.
LEMMA FindBodyInvariant ==
  ASSUME IInv, FindBody
  PROVE  IInv'
<1>1. CASE Refuse
  BY <1>1, RefuseInvariant
<1>2. CASE ~Refuse
  <2>1. PICK n \in 0..Len(data), pad \in PaddingBytes \cup {NoFill} :
          /\ limit' = n
          /\ fill' = pad
          /\ pc' = "spec_id"
          /\ UNCHANGED <<data, offset, algo_sizes, entry, events>>
    BY <1>2 DEF FindBody
  <2>2. pc = "start" /\ SPEC_ID_HEADER_SIZE <= Len(data)
    BY <1>2, ScaleAssumption DEF FindBody, IInv, TypeOK
  <2>3. events = <<>> /\ entry = NoEntry /\ offset = 0
    BY <2>2 DEF IInv, BeforeEvents
  <2> QED
    BY <2>1, <2>2, <2>3
    DEF IInv, TypeOK, DigestsBeforeFill, InBody, DigestsAreWhole, Later,
        OnlyLastEventReachesFill, EventsTileLog, NothingUnparsed, MeasuredEventsHaveRegister,
        SizesAgree, BeforeEvents, HeaderRead, BetweenEvents, EntryInProgress,
        NoEntry, NoDigests, Carries, Running
<1> QED
  BY <1>1, <1>2

\* The first event fits the log, and its digest sizes are usable ones.
LEMMA ParseSpecIdEventInvariant ==
  ASSUME IInv, ParseSpecIdEvent
  PROVE  IInv'
<1>1. CASE Refuse
  BY <1>1, RefuseInvariant
<1>2. CASE ~Refuse
  <2>1. /\ RequireStrict(2 * U32, LegacySize)
        /\ Require(SpecIdSizeOffset, U32)
        /\ Require(SPEC_ID_HEADER_SIZE, SpecIdEnd - SPEC_ID_HEADER_SIZE)
        /\ RegisterExists(U32At(data, 0))
        /\ ValidSpecId(SpecIdPayload)
        /\ algo_sizes' = DigestSizes(SpecIdPayload)
        /\ events' = <<Event(SpecIdEntry, SpecIdEnd)>>
        /\ offset' = SpecIdEnd
        /\ pc' = "events"
        /\ UNCHANGED <<data, limit, fill, entry>>
    BY <1>2 DEF ParseSpecIdEvent
  <2>2. offset = 0 /\ events = <<>> /\ entry = NoEntry /\ SPEC_ID_HEADER_SIZE <= Len(data)
    BY DEF IInv, BeforeEvents, HeaderRead, ParseSpecIdEvent
  <2>3. /\ U32At(data, 0) \in Nat /\ U32At(data, U32) \in Nat
        /\ U32At(data, SpecIdSizeOffset) \in Nat
    BY <2>2, U32AtNat, ScaleAssumption DEF IInv, TypeOK, SpecIdSizeOffset
  <2>4. SpecIdEnd \in SPEC_ID_HEADER_SIZE..Len(data)
    BY <2>1, <2>2, <2>3, RequireInBuffer, ScaleAssumption DEF SpecIdEnd, IInv
  <2>5. SpecIdPayload \in Seq(Cells)
    BY <2>4, ScaleAssumption DEF IInv, TypeOK, SpecIdPayload
  <2>6. /\ algo_sizes' \in [Cells -> 0..MAX_DIGEST_SIZE]
        /\ SizesAgree'
    BY <2>1, <2>5, ValidSpecIdSizes DEF SizesAgree
  <2> DEFINE first == Event(SpecIdEntry, SpecIdEnd)
  <2>7. /\ first \in Events
        /\ first.start = 0 /\ first.end = SpecIdEnd
        /\ \A a \in Cells : Carries(first.digests, a) =>
             first.digests[a] = [at |-> 2 * U32, size |-> LegacySize]
    <3>1. [NoDigests EXCEPT ![0] = [at |-> 2 * U32, size |-> LegacySize]] \in Digests
      BY ScaleAssumption DEF NoDigests, Digests, Cells
    <3> QED
      BY <2>3, <2>4, <3>1, ScaleAssumption, RegistersAssumption
      DEF Event, SpecIdEntry, Events, Carries, NoDigests, Cells
  <2>8. events' \in Seq(Events) /\ Len(events') = 1 /\ events'[1] = first
    BY <2>1, <2>7
  <2>9. TypeOK'
    BY <2>1, <2>4, <2>6, <2>8, ScaleAssumption DEF TypeOK, IInv, Running
  <2>10. DigestsBeforeFill' /\ DigestsAreWhole'
    BY <2>1, <2>2, <2>7, <2>8
    DEF DigestsBeforeFill, InBody, DigestsAreWhole, Later, RequireStrict, NoEntry, NoDigests, Carries
  <2>11. OnlyLastEventReachesFill' /\ MeasuredEventsHaveRegister'
    BY <2>8 DEF OnlyLastEventReachesFill, MeasuredEventsHaveRegister, Later
  <2>12. EventsTileLog'
    BY <2>1, <2>4, <2>7, <2>8, ScaleAssumption DEF EventsTileLog, Follows, Within, Carries
  <2> QED
    BY <2>1, <2>2, <2>6, <2>8, <2>9, <2>10, <2>11, <2>12
    DEF IInv, NothingUnparsed, BeforeEvents, HeaderRead, BetweenEvents, EntryInProgress
<1> QED
  BY <1>1, <1>2

\* A header read lies in the body, where the last event ended.
LEMMA ParseEventHeaderInvariant ==
  ASSUME IInv, ParseEventHeader
  PROVE  IInv'
<1>1. CASE Refuse
  BY <1>1, RefuseInvariant
<1>2. CASE ~Refuse
  <2> DEFINE count == U32At(data, offset + 2 * U32)
  <2>1. /\ entry' = [start |-> offset,
                     raw |-> U32At(data, offset),
                     type |-> U32At(data, offset + U32),
                     left |-> count,
                     digests |-> NoDigests]
        /\ offset' = offset + EVENT2_HEADER_SIZE
        /\ pc' = "digests"
        /\ UNCHANGED <<data, limit, fill, algo_sizes, events>>
    BY <1>2 DEF ParseEventHeader
  <2>2. offset \in Nat /\ limit \in 0..Len(data) /\ offset + EVENT2_HEADER_SIZE <= limit
    BY DEF ParseEventHeader, MoreEvents, Remaining, IInv, TypeOK
  <2>3. /\ U32At(data, offset) \in Nat
        /\ U32At(data, offset + U32) \in Nat
        /\ count \in Nat
    BY <2>2, U32AtNat DEF IInv, TypeOK
  <2>4. NoDigests \in Digests /\ \A a \in Cells : ~Carries(NoDigests, a)
    BY DEF NoDigests, Digests, Carries
  <2>5. TypeOK'
    BY <2>1, <2>2, <2>3, <2>4 DEF IInv, TypeOK, Entries, Running
  <2>6. DigestsBeforeFill'
    BY <2>1, <2>4 DEF IInv, DigestsBeforeFill, InBody
  <2>7. EventsTileLog'
    BY <2>1 DEF IInv, EventsTileLog, Follows, Within, ParseEventHeader, TypeOK
  <2>8. EntryInProgress'
    BY <2>1, <2>2, <2>4 DEF IInv, EntryInProgress, BetweenEvents, ParseEventHeader, Within, Whole
  <2> QED
    BY <2>1, <2>5, <2>6, <2>7, <2>8
    DEF IInv, DigestsAreWhole, Whole, Later, OnlyLastEventReachesFill, NothingUnparsed,
        MeasuredEventsHaveRegister, SizesAgree, BeforeEvents, HeaderRead, BetweenEvents
<1> QED
  BY <1>1, <1>2

\* A digest accepted is whole and lies in the body.
LEMMA ParseDigestInvariant ==
  ASSUME IInv, ParseDigest
  PROVE  IInv'
<1>1. CASE Refuse
  BY <1>1, RefuseInvariant
<1>2. CASE ~Refuse
  <2> DEFINE algo == data[offset + 1]
             digest == [at |-> offset + U16, size |-> SizeOf(algo)]
  <2>1. /\ entry.left > 0
        /\ Require(offset, U16)
        /\ SizeOf(algo) # 0
        /\ RequireStrict(offset + U16, SizeOf(algo))
        /\ entry' = [entry EXCEPT !.left = @ - 1, !.digests[algo] = digest]
        /\ offset' = offset + U16 + SizeOf(algo)
        /\ UNCHANGED <<data, limit, fill, pc, algo_sizes, events>>
    BY <1>2 DEF ParseDigest
  <2>2. pc = "digests" /\ entry \in Entries /\ offset \in Nat /\ offset + U16 <= Len(data)
    BY <2>1, RequireInBuffer DEF ParseDigest, IInv, TypeOK
  <2>3. algo \in Cells
    <3> offset + 1 \in 1..Len(data)
      BY <2>2
    <3> QED
      BY ElementOfSeq DEF IInv, TypeOK
  <2>4. SizeOf(algo) \in 1..MAX_DIGEST_SIZE
    BY <2>1, <2>3, DigestSizesAssumption DEF SizeOf, IInv, TypeOK
  <2>5. ALGO_DIGEST_SIZES[algo] # 0 => SizeOf(algo) = ALGO_DIGEST_SIZES[algo]
    BY <2>3 DEF SizeOf, IInv, SizesAgree
  <2>6. digest \in [at : Nat, size : Nat] /\ digest.at + digest.size = offset'
    BY <2>1, <2>2, <2>4, DigestSizesAssumption
  <2>7. /\ entry' \in Entries
        /\ entry'.start = entry.start
        /\ \A a \in Cells : entry'.digests[a] = IF a = algo THEN digest ELSE entry.digests[a]
    <3> HIDE DEF algo, digest
    <3>1. entry.left - 1 \in Nat
      BY <2>1, <2>2 DEF Entries
    <3> QED
      BY <2>1, <2>2, <2>3, <2>6, <3>1 DEF Entries, Digests
  <2>8. offset' <= limit /\ offset' \in Nat /\ offset' > offset
    BY <2>1, <2>2, <2>4, DigestSizesAssumption DEF RequireStrict
  <2>9. TypeOK'
    BY <2>1, <2>7, <2>8 DEF IInv, TypeOK
  <2>10. DigestsBeforeFill'
    BY <2>1, <2>6, <2>7, <2>8 DEF IInv, DigestsBeforeFill, InBody, Carries
  <2>11. EntryInProgress'
    <3>1. Within(entry'.digests, entry'.start, offset')
      <4> SUFFICES ASSUME NEW a \in Cells, Carries(entry'.digests, a)
                   PROVE  /\ entry'.digests[a].at > entry'.start
                          /\ entry'.digests[a].at + entry'.digests[a].size <= offset'
        BY DEF Within
      <4>1. entry.start \in Nat /\ entry.start + EVENT2_HEADER_SIZE <= offset
        BY <2>2 DEF IInv, EntryInProgress, Entries
      <4>2. CASE a = algo
        BY <2>2, <2>6, <2>7, <4>1, <4>2
      <4>3. CASE a # algo
        <5>1. entry'.digests[a] = entry.digests[a] /\ Carries(entry.digests, a)
          BY <2>7, <4>3 DEF Carries
        <5>2. entry.digests[a].at \in Nat /\ entry.digests[a].size \in Nat
          BY <2>2 DEF Entries, Digests
        <5>3. Within(entry.digests, entry.start, offset)
          BY <2>2 DEF IInv, EntryInProgress
        <5>4. /\ entry.digests[a].at > entry.start
              /\ entry.digests[a].at + entry.digests[a].size <= offset
          BY <5>1, <5>3 DEF Within
        <5>5. offset \in Nat /\ offset' \in Nat /\ offset <= offset' /\ entry'.start = entry.start
          BY <2>2, <2>7, <2>8 DEF IInv, TypeOK
        <5> HIDE DEF algo, digest
        <5> QED
          BY <5>1, <5>2, <5>4, <5>5
      <4> QED
        BY <4>2, <4>3
    <3>2. Whole(entry'.digests)
      BY <2>2, <2>5, <2>7 DEF IInv, EntryInProgress, Whole, Carries
    <3> QED
      BY <2>1, <2>2, <2>7, <2>8, <3>1, <3>2 DEF IInv, EntryInProgress, Entries
  <2>12. EventsTileLog'
    BY <2>1, <2>2, <2>7 DEF IInv, EventsTileLog, Follows, Within
  <2> QED
    BY <2>1, <2>2, <2>9, <2>10, <2>11, <2>12
    DEF IInv, DigestsAreWhole, Whole, Later, OnlyLastEventReachesFill, NothingUnparsed,
        MeasuredEventsHaveRegister, SizesAgree, BeforeEvents, HeaderRead, BetweenEvents
<1> QED
  BY <1>1, <1>2

\* An event is appended with all of its record.
LEMMA ParseEventDataInvariant ==
  ASSUME IInv, ParseEventData
  PROVE  IInv'
<1>1. CASE Refuse
  BY <1>1, RefuseInvariant
<1>2. CASE ~Refuse
  <2> DEFINE end == offset + U32 + U32At(data, offset)
             new == Event(entry, end)
             n == Len(events)
  <2>1. /\ Require(offset, U32)
        /\ Require(offset + U32, U32At(data, offset))
        /\ Measured(entry) => entry.raw >= RegisterBase
        /\ RegisterExists(entry.raw)
        /\ events' = Append(events, new)
        /\ offset' = end
        /\ entry' = NoEntry
        /\ pc' = "events"
        /\ UNCHANGED <<data, limit, fill, algo_sizes>>
    BY <1>2 DEF ParseEventData
  <2>2. /\ pc = "digests" /\ entry \in Entries /\ events \in Seq(Events)
        /\ offset \in Nat /\ offset + U32 <= Len(data)
    BY <2>1, RequireInBuffer DEF ParseEventData, IInv, TypeOK
  <2>3. U32At(data, offset) \in Nat
    BY <2>2, U32AtNat DEF IInv, TypeOK
  <2>4. end \in 0..Len(data) /\ end > offset
    BY <2>1, <2>2, <2>3, RequireInBuffer DEF IInv
  <2>5. /\ new \in Events
        /\ new.start = entry.start /\ new.end = end /\ new.type = entry.type
        /\ new.register = entry.raw - RegisterBase /\ new.digests = entry.digests
    BY <2>2, <2>4, RegistersAssumption DEF Event, Events, Entries
  <2> HIDE DEF new, end
  <2>6. /\ events' \in Seq(Events) /\ Len(events') = n + 1 /\ events'[n + 1] = new
        /\ \A i \in 1..n : events'[i] = events[i]
        /\ n \in Nat
    BY <2>1, <2>2, <2>5
  <2>7. NoEntry \in Entries /\ \A a \in Cells : ~Carries(NoEntry.digests, a)
    BY DEF NoEntry, NoDigests, Entries, Digests, Carries
  <2>8. TypeOK'
    BY <2>1, <2>4, <2>6, <2>7 DEF IInv, TypeOK, Running
  <2>9. DigestsBeforeFill'
    BY <2>1, <2>5, <2>6, <2>7 DEF IInv, DigestsBeforeFill, InBody
  <2>10. DigestsAreWhole'
    BY <2>1, <2>2, <2>5, <2>6 DEF IInv, DigestsAreWhole, Whole, Later, EntryInProgress
  <2>11. OnlyLastEventReachesFill'
    <3>1. ASSUME NEW i \in 1..n
          PROVE  events[i].end + EVENT2_HEADER_SIZE <= limit
      <4>1. CASE i = n
        BY <2>2, <2>6, <4>1 DEF IInv, EventsTileLog, Follows, EntryInProgress
      <4>2. CASE i # n
        BY <2>6, <4>2 DEF IInv, OnlyLastEventReachesFill
      <4> QED
        BY <4>1, <4>2
    <3> QED
      BY <2>1, <2>6, <3>1 DEF OnlyLastEventReachesFill
  <2>12. EventsTileLog'
    <3>1. Follows(n + 1, entry.start)
      BY <2>2 DEF IInv, EventsTileLog
    <3>2. Within(new.digests, new.start, new.end)
      <4> SUFFICES ASSUME NEW a \in Cells, Carries(entry.digests, a)
                   PROVE  /\ entry.digests[a].at > entry.start
                          /\ entry.digests[a].at + entry.digests[a].size <= end
        BY <2>5 DEF Within
      <4>1. entry.digests[a].at \in Nat /\ entry.digests[a].size \in Nat
        BY <2>2 DEF Entries, Digests
      <4> QED
        BY <2>2, <2>4, <4>1 DEF IInv, EntryInProgress, Within
    <3>3. \A i \in 1..n : /\ Follows(i, events[i].start)
                          /\ Within(events[i].digests, events[i].start, events[i].end)
      BY DEF IInv, EventsTileLog
    <3>4. ASSUME NEW i \in 1..(n + 1)
          PROVE  /\ events'[i].start = IF i = 1 THEN 0 ELSE events'[i - 1].end
                 /\ Within(events'[i].digests, events'[i].start, events'[i].end)
      <4>1. CASE i = n + 1
        <5>1. events'[i] = new /\ (i # 1 => events'[i - 1] = events[i - 1])
          BY <2>6, <4>1
        <5> QED
          BY <2>5, <3>1, <3>2, <4>1, <5>1 DEF Follows
      <4>2. CASE i # n + 1
        <5>1. i \in 1..n /\ events'[i] = events[i] /\ (i # 1 => events'[i - 1] = events[i - 1])
          BY <2>6, <4>2
        <5> QED
          BY <3>3, <5>1 DEF Follows
      <4> QED
        BY <4>1, <4>2
    <3>5. n + 2 # 1 /\ events'[n + 1].end = end
      BY <2>5, <2>6
    <3>6. Len(events') + 1 = n + 2 /\ (n + 2) - 1 = n + 1
      BY <2>6
    <3> QED
      BY <2>1, <2>6, <3>4, <3>5, <3>6 DEF EventsTileLog, Within, Follows
  <2>13. MeasuredEventsHaveRegister'
    <3>1. Measured(new) => new.register \in 0..(NumRegisters - 1)
      BY <2>1, <2>2, <2>5, RegistersAssumption DEF Measured, RegisterExists, Entries
    <3> QED
      BY <2>6, <3>1 DEF IInv, MeasuredEventsHaveRegister, Later
  <2> QED
    BY <2>1, <2>2, <2>6, <2>8, <2>9, <2>10, <2>11, <2>12, <2>13
    DEF IInv, NothingUnparsed, SizesAgree, BeforeEvents, HeaderRead, BetweenEvents,
        EntryInProgress
<1> QED
  BY <1>1, <1>2

\* The log is accepted with nothing after its events but fill.
LEMMA CheckTailInvariant ==
  ASSUME IInv, CheckTail
  PROVE  IInv'
<1>1. CASE Refuse
  BY <1>1, RefuseInvariant
<1>2. CASE ~Refuse
  <2>1. /\ OnlyPadding(IF Terminated(offset) THEN offset + U32 ELSE offset)
        /\ pc = "events" /\ pc' = "accepted"
        /\ UNCHANGED <<data, limit, fill, offset, algo_sizes, entry, events>>
    BY <1>2 DEF CheckTail
  <2>2. events # <<>> /\ events \in Seq(Events) /\ offset = events[Len(events)].end
    BY <2>1 DEF IInv, BetweenEvents, EventsTileLog, Follows, TypeOK
  <2>3. NothingUnparsed'
    BY <2>1, <2>2 DEF NothingUnparsed, OnlyPadding, Terminated
  <2> QED
    BY <2>1, <2>2, <2>3
    DEF IInv, TypeOK, Verdicts, DigestsBeforeFill, InBody, DigestsAreWhole, Whole, Later,
        OnlyLastEventReachesFill, EventsTileLog, Within, Follows, MeasuredEventsHaveRegister,
        SizesAgree, BeforeEvents, HeaderRead, BetweenEvents, EntryInProgress
<1> QED
  BY <1>1, <1>2

\* Every step of the parser, and none, keeps the invariant.
LEMMA StepInvariant == IInv /\ [Next]_vars => IInv'
<1> SUFFICES ASSUME IInv, [Next]_vars PROVE IInv'
  OBVIOUS
<1>1. CASE FindBody
  BY <1>1, FindBodyInvariant
<1>2. CASE ParseSpecIdEvent
  BY <1>2, ParseSpecIdEventInvariant
<1>3. CASE ParseEventHeader
  BY <1>3, ParseEventHeaderInvariant
<1>4. CASE ParseDigest
  BY <1>4, ParseDigestInvariant
<1>5. CASE ParseEventData
  BY <1>5, ParseEventDataInvariant
<1>6. CASE CheckTail
  BY <1>6, CheckTailInvariant
<1>7. CASE UNCHANGED vars
  BY <1>7 DEF vars, IInv, TypeOK, DigestsBeforeFill, InBody, DigestsAreWhole, Whole, Later,
       OnlyLastEventReachesFill, EventsTileLog, Within, Follows, NothingUnparsed, Terminated,
       MeasuredEventsHaveRegister, SizesAgree, BeforeEvents, HeaderRead, BetweenEvents,
       EntryInProgress
<1> QED
  BY <1>1, <1>2, <1>3, <1>4, <1>5, <1>6, <1>7 DEF Next

(* ---- Theorems --------------------------------------------------------- *)

\* The strengthened invariant holds of every state of the parser, whatever
\* log it is given.
THEOREM InductiveInvariant == Spec => []IInv
BY InitInvariant, StepInvariant, PTL DEF Spec

\* The parser's variables keep their types; in particular the cursor never
\* passes the end of the buffer (Cursor._require).
THEOREM TypeCorrect == Spec => []TypeOK
<1>1. IInv => TypeOK
  BY DEF IInv
<1> QED
  BY <1>1, InductiveInvariant, PTL

\* No digest is completed out of the fill.
THEOREM NoDigestFromFill == Spec => []DigestsBeforeFill
<1>1. IInv => DigestsBeforeFill
  BY DEF IInv
<1> QED
  BY <1>1, InductiveInvariant, PTL

\* Every digest of a known algorithm has that algorithm's length.
THEOREM NoShortDigest == Spec => []DigestsAreWhole
<1>1. IInv => DigestsAreWhole
  BY DEF IInv
<1> QED
  BY <1>1, InductiveInvariant, PTL

\* All events but the last end at least a header short of the fill.
THEOREM FillReachedOnce == Spec => []OnlyLastEventReachesFill
<1>1. IInv => OnlyLastEventReachesFill
  BY DEF IInv
<1> QED
  BY <1>1, InductiveInvariant, PTL

\* The records read partition the log up to the cursor.
THEOREM RecordsPartitionLog == Spec => []EventsTileLog
<1>1. IInv => EventsTileLog
  BY DEF IInv
<1> QED
  BY <1>1, InductiveInvariant, PTL

\* What an accepted log holds after its last event is a terminator and padding.
THEOREM AcceptedLogIsParsed == Spec => []NothingUnparsed
<1>1. IInv => NothingUnparsed
  BY DEF IInv
<1> QED
  BY <1>1, InductiveInvariant, PTL

\* Every measured event after the first extends a register of the platform.
THEOREM RegistersExist == Spec => []MeasuredEventsHaveRegister
<1>1. IInv => MeasuredEventsHaveRegister
  BY DEF IInv
<1> QED
  BY <1>1, InductiveInvariant, PTL

(* The measured boot.                                                        *)


(* ---- The layout of a record ------------------------------------------- *)

\* Every set of naturals that is not empty has a least member.
LEMMA LeastMember ==
  ASSUME NEW T \in SUBSET Nat, T # {}
  PROVE  \E n \in T : \A m \in T : n <= m
<1> DEFINE R == OpToRel(<, Nat)
<1>1. IsWellFoundedOn(R, Nat)
  BY NatLessThanWellFounded
<1>2. PICK n \in T : \A m \in T : <<m, n>> \notin R
  BY <1>1, WFMin
<1>3. \A m \in T : ~(m < n)
  BY <1>2 DEF OpToRel
<1> QED
  BY <1>3

\* A word has two cells, from which its number is read back.
LEMMA WordFacts ==
  ASSUME NEW n \in Words
  PROVE  /\ Word(n) \in Seq(Cells) /\ Len(Word(n)) = 2
         /\ Word(n)[1] + Word(n)[2] * (MaxByte + 1) = n
<1> DEFINE B == MaxByte + 1
           q == n \div B
           m == n % B
<1>1. MaxByte \in Int /\ B \in Int /\ B > 0 /\ n \in Int /\ 0 <= n /\ n <= MaxByte * B + MaxByte
  BY ScaleAssumption DEF Words, LOG_TERMINATOR
<1>2. n = B * q + m /\ q \in Int /\ m \in Int /\ 0 <= m /\ m < B
  <2> DEFINE b == B
  <2>1. b \in Int /\ b > 0
    BY <1>1
  <2> HIDE DEF b
  <2>2. n = b * (n \div b) + (n % b) /\ n \div b \in Int /\ n % b \in 0..(b - 1)
    BY <1>1, <2>1
  <2> QED
    BY <2>1, <2>2 DEF b
<1>3. Word(n) = <<m, q>>
  BY DEF Word
<1> HIDE DEF q, m
<1>4. q <= MaxByte
  <2> SUFFICES ASSUME q >= MaxByte + 1 PROVE FALSE
    BY <1>1, <1>2
  <2>1. B * q >= B * B
    <3>1. B * (q - B) >= 0
      BY <1>1, <1>2
    <3>2. B * (q - B) = B * q - B * B
      BY <1>1, <1>2
    <3> QED
      BY <1>1, <1>2, <3>1, <3>2
  <2>2. B * B = MaxByte * B + B
    BY <1>1
  <2> QED
    BY <1>1, <1>2, <2>1, <2>2
<1>5. q >= 0
  <2> SUFFICES ASSUME q <= 0 - 1 PROVE FALSE
    BY <1>2
  <2>1. B * q <= 0 - B
    <3>1. B * (0 - 1 - q) >= 0
      BY <1>1, <1>2
    <3>2. B * (0 - 1 - q) = (0 - B) - B * q
      BY <1>1, <1>2
    <3> QED
      BY <1>1, <1>2, <3>1, <3>2
  <2> QED
    BY <1>1, <1>2, <2>1
<1>6. m \in Cells /\ q \in Cells
  BY <1>1, <1>2, <1>4, <1>5 DEF Cells
<1>7. m + q * B = n
  BY <1>1, <1>2
<1> QED
  BY <1>3, <1>6, <1>7

\* What a sequence of cells followed by another is made of.
LEMMA JoinFacts ==
  ASSUME NEW s \in Seq(Cells), NEW t \in Seq(Cells)
  PROVE  /\ s \o t \in Seq(Cells) /\ Len(s \o t) = Len(s) + Len(t)
         /\ Len(s) \in Nat /\ Len(t) \in Nat
         /\ \A k \in 1..Len(s) : (s \o t)[k] = s[k]
         /\ \A k \in 1..Len(t) : (s \o t)[Len(s) + k] = t[k]
  OBVIOUS

\* The pieces of a concatenation follow each other.
LEMMA ConcatFacts ==
  ASSUME NEW ss \in Seq(Seq(Cells))
  PROVE  /\ Concat(ss) \in Seq(Cells)
         /\ \E p \in [0..Len(ss) -> Nat] :
              /\ p[0] = 0 /\ p[Len(ss)] = Len(Concat(ss))
              /\ \A i \in 0..Len(ss) : p[i] <= p[Len(ss)]
              /\ \A i \in 1..Len(ss) :
                   /\ p[i] = p[i - 1] + Len(ss[i])
                   /\ \A k \in 1..Len(ss[i]) : Concat(ss)[p[i - 1] + k] = ss[i][k]
<1> DEFINE N == Len(ss)
           P(f) == f = [i \in 0..N |-> IF i = 0 THEN <<>> ELSE f[i - 1] \o ss[i]]
           cat == CHOOSE f : P(f)
           Upto(f, n) == /\ f \in [0..n -> Seq(Cells)] /\ f[0] = <<>>
                         /\ \A i \in 1..n : f[i] = f[i - 1] \o ss[i]
           T == {n \in 0..N : ~\E f : Upto(f, n)}
<1>1. N \in Nat /\ \A i \in 1..N : ss[i] \in Seq(Cells)
  BY LenProperties, ElementOfSeq
<1>2. Concat(ss) = cat[N]
  BY Zenon DEF Concat
<1> HIDE DEF N
<1>3. \E f : Upto(f, N)
  <2> HIDE DEF Upto
  <2> SUFFICES ASSUME T # {} PROVE FALSE
    <3>1. N \in 0..N
      BY <1>1
    <3> QED
      BY <3>1
  <2>1. PICK n \in T : \A m \in T : n <= m
    <3>1. T \in SUBSET Nat
      <4>1. 0..N \subseteq Nat
        BY <1>1
      <4> QED
        BY <4>1
    <3> HIDE DEF T
    <3> QED
      BY <3>1, LeastMember
  <2>2. n \in 0..N /\ ~\E f : Upto(f, n)
    OBVIOUS
  <2>3. n # 0
    <3>1. Upto([i \in 0..0 |-> <<>>], 0)
      BY DEF Upto
    <3> QED
      BY <2>2, <3>1
  <2>4. n - 1 \in 0..N /\ n - 1 \notin T
    <3>1. n - 1 \in 0..N /\ ~(n <= n - 1)
      BY <1>1, <2>2, <2>3
    <3> HIDE DEF T
    <3> QED
      BY <2>1, <3>1
  <2>5. PICK f : Upto(f, n - 1)
    BY <2>4
  <2> DEFINE g == [i \in 0..n |-> IF i = n THEN f[n - 1] \o ss[n] ELSE f[i]]
  <2>6. f[n - 1] \in Seq(Cells) /\ ss[n] \in Seq(Cells)
    BY <1>1, <2>2, <2>3, <2>5 DEF Upto
  <2>7. g \in [0..n -> Seq(Cells)] /\ g[0] = <<>>
    <3>1. f[n - 1] \o ss[n] \in Seq(Cells)
      BY <2>6
    <3>2. \A i \in 0..n : i # n => f[i] \in Seq(Cells)
      BY <1>1, <2>2, <2>5 DEF Upto
    <3>3. f[0] = <<>>
      BY <2>5 DEF Upto
    <3> QED
      BY <1>1, <2>2, <2>3, <3>1, <3>2, <3>3
  <2>8. ASSUME NEW i \in 1..n PROVE g[i] = g[i - 1] \o ss[i]
    <3>1. i \in 0..n /\ i - 1 \in 0..n /\ i - 1 # n
      BY <1>1, <2>2
    <3>2. i # n => i \in 1..(n - 1)
      BY <1>1, <2>2
    <3> QED
      BY <2>5, <3>1, <3>2 DEF Upto
  <2> HIDE DEF g
  <2>9. Upto(g, n)
    BY <2>7, <2>8 DEF Upto
  <2> QED
    BY <2>2, <2>9
<1>4. PICK f : Upto(f, N)
  BY <1>3
<1>5. P(f)
  <2>1. f = [i \in 0..N |-> f[i]]
    BY <1>4
  <2>2. \A i \in 0..N : f[i] = IF i = 0 THEN <<>> ELSE f[i - 1] \o ss[i]
    <3>1. \A i \in 0..N : i # 0 => i \in 1..N
      BY <1>1
    <3> QED
      BY <1>4, <3>1
  <2> QED
    BY <2>1, <2>2
<1>6. P(cat)
  BY <1>5, Zenon
<1> HIDE DEF cat, Upto, T
<1>7. cat[0] = <<>> /\ \A i \in 1..N : cat[i] = cat[i - 1] \o ss[i]
  <2>1. \A i \in 0..N : cat[i] = IF i = 0 THEN <<>> ELSE cat[i - 1] \o ss[i]
    BY <1>6, Zenon
  <2>2. 0 \in 0..N /\ \A i \in 1..N : i \in 0..N /\ i # 0
    BY <1>1
  <2> QED
    BY <2>1, <2>2
<1> HIDE DEF P
<1> DEFINE Good(j) == /\ cat[j] \in Seq(Cells)
                      /\ \A i \in 0..j : /\ Len(cat[i]) <= Len(cat[j])
                                         /\ \A k \in 1..Len(cat[i]) : cat[j][k] = cat[i][k]
           U == {j \in 0..N : ~Good(j)}
<1>8. \A j \in 0..N : Good(j)
  <2> SUFFICES ASSUME U # {} PROVE FALSE
    OBVIOUS
  <2>1. PICK n \in U : \A m \in U : n <= m
    <3>1. U \in SUBSET Nat
      BY <1>1
    <3> HIDE DEF U
    <3> QED
      BY <3>1, LeastMember
  <2>2. n \in 0..N /\ ~Good(n)
    OBVIOUS
  <2>3. n # 0
    <3>1. Good(0)
      <4>1. cat[0] \in Seq(Cells) /\ \A i \in 0..0 : i = 0
        BY <1>7
      <4>2. Len(cat[0]) <= Len(cat[0])
        BY <4>1
      <4> QED
        BY <4>1, <4>2
    <3> HIDE DEF Good
    <3> QED
      BY <2>2, <3>1
  <2>4. n - 1 \in 0..N /\ n \in 1..N /\ Good(n - 1)
    <3>1. n - 1 \in 0..N /\ n \in 1..N
      BY <1>1, <2>2, <2>3
    <3>2. n - 1 \notin U
      BY <2>1, <2>2, <3>1
    <3> HIDE DEF Good
    <3> QED
      BY <3>1, <3>2
  <2> DEFINE a == cat[n - 1]
             b == ss[n]
             c == cat[n]
  <2>5. a \in Seq(Cells) /\ b \in Seq(Cells) /\ c = a \o b
    BY <1>1, <1>7, <2>4
  <2>6. c \in Seq(Cells) /\ Len(a) <= Len(c) /\ \A k \in 1..Len(a) : c[k] = a[k]
    <3> HIDE DEF a, b, c
    <3> QED
      BY <2>5
  <2>7. ASSUME NEW i \in 0..n
        PROVE  Len(cat[i]) <= Len(c) /\ \A k \in 1..Len(cat[i]) : c[k] = cat[i][k]
    <3>1. CASE i = n
      BY <2>6, <3>1
    <3>2. CASE i # n
      <4>1. i \in 0..(n - 1)
        BY <1>1, <2>2, <3>2
      <4>2. Len(cat[i]) <= Len(a) /\ \A k \in 1..Len(cat[i]) : a[k] = cat[i][k]
        BY <2>4, <4>1
      <4>3. cat[i] \in Seq(Cells)
        <5>1. i \in 0..N /\ ~(n <= i)
          BY <1>1, <2>2, <4>1
        <5>2. i \notin U
          BY <2>1, <5>1
        <5> QED
          BY <5>1, <5>2
      <4> HIDE DEF a, c
      <4>4. Len(cat[i]) \in Nat /\ Len(a) \in Nat /\ Len(c) \in Nat
        BY <2>5, <2>6, <4>3
      <4> QED
        BY <2>6, <4>2, <4>4
    <3> QED
      BY <3>1, <3>2
  <2>8. Good(n)
    BY <2>6, <2>7
  <2> QED
    BY <2>2, <2>8
<1> DEFINE p == [i \in 0..N |-> Len(cat[i])]
<1>9. Concat(ss) \in Seq(Cells)
  BY <1>1, <1>2, <1>8
<1>10. p \in [0..N -> Nat] /\ p[0] = 0 /\ p[N] = Len(Concat(ss)) /\ \A i \in 0..N : p[i] <= p[N]
  <2>1. \A i \in 0..N : Len(cat[i]) \in Nat /\ Len(cat[i]) <= Len(cat[N])
    <3>1. N \in 0..N
      BY <1>1
    <3>2. \A i \in 0..N : cat[i] \in Seq(Cells) /\ Len(cat[i]) <= Len(cat[N])
      BY <1>8, <3>1
    <3> QED
      BY <3>2
  <2>2. Len(cat[0]) = 0 /\ 0 \in 0..N /\ N \in 0..N
    BY <1>1, <1>7
  <2> QED
    BY <1>2, <2>1, <2>2
<1>11. ASSUME NEW i \in 1..N
       PROVE  /\ p[i] = p[i - 1] + Len(ss[i])
              /\ \A k \in 1..Len(ss[i]) : Concat(ss)[p[i - 1] + k] = ss[i][k]
  <2>1. i \in 0..N /\ i - 1 \in 0..N /\ i \in 0..N /\ N \in 0..N
    BY <1>1
  <2> DEFINE a == cat[i - 1]
             b == ss[i]
             c == cat[i]
  <2>2. a \in Seq(Cells) /\ b \in Seq(Cells) /\ c = a \o b
    BY <1>1, <1>7, <1>8, <2>1
  <2>3. p[i] = Len(c) /\ p[i - 1] = Len(a)
    BY <2>1
  <2>4. \A k \in 1..Len(c) : Concat(ss)[k] = c[k]
    BY <1>2, <1>8, <2>1
  <2> HIDE DEF a, b, c
  <2>5. Len(c) = Len(a) + Len(b) /\ \A k \in 1..Len(b) : c[Len(a) + k] = b[k]
    BY <2>2
  <2>6. \A k \in 1..Len(b) : Len(a) + k \in 1..Len(c)
    BY <2>2, <2>5
  <2>7. p[i] = p[i - 1] + Len(b)
    BY <2>3, <2>5
  <2>8. \A k \in 1..Len(b) : Concat(ss)[p[i - 1] + k] = b[k]
    BY <2>3, <2>4, <2>5, <2>6
  <2> QED
    BY <2>7, <2>8 DEF b
<1> HIDE DEF p
<1> QED
  BY <1>9, <1>10, <1>11 DEF N

\* p[i] is where, in the record of e, digest i + 1 begins, or the event data.
Laid(e, p) ==
  LET rec == Record(e)
      count == Len(e.digests)
  IN  /\ p \in [0..count -> Nat] /\ p[0] = EVENT2_HEADER_SIZE
      /\ \A i \in 0..count : p[i] <= p[count]
      /\ rec \in Seq(Cells) /\ Len(rec) = p[count] + U32 + Len(e.data)
      /\ U32At(rec, 0) = e.register + RegisterBase
      /\ U32At(rec, U32) = e.type /\ U32At(rec, 2 * U32) = count
      /\ U32At(rec, p[count]) = Len(e.data)
      /\ \A i \in 1..count :
           /\ p[i] = p[i - 1] + U16 + Len(e.digests[i].cells)
           /\ rec[p[i - 1] + 1] = e.digests[i].algo
           /\ \A k \in 1..Len(e.digests[i].cells) :
                rec[p[i - 1] + U16 + k] = e.digests[i].cells[k]
DigestAt(e) == CHOOSE p \in [0..Len(e.digests) -> Nat] : Laid(e, p)

\* The record of every firmware event is laid out so.
LEMMA RecordFacts ==
  ASSUME NEW e \in FirmwareEvents
  PROVE  Laid(e, DigestAt(e))
<1> DEFINE count == Len(e.digests)
           ss == [i \in 1..count |-> <<e.digests[i].algo>> \o e.digests[i].cells]
           w1 == Word(e.register + RegisterBase)
           w2 == Word(e.type)
           w3 == Word(count)
           w4 == Word(Len(e.data))
           rec == Record(e)
<1>1. /\ count \in Nat /\ e.data \in Seq(Cells) /\ Len(e.data) \in Nat
      /\ \A i \in 1..count : e.digests[i] \in [algo : Cells, cells : Seq(Cells)]
      /\ e.register + RegisterBase \in Words /\ e.type \in Words /\ count \in Words
      /\ Len(e.data) \in Words
  <2>1. /\ e.digests \in Seq([algo : Cells, cells : Seq(Cells)]) /\ e.data \in Seq(Cells)
        /\ {e.register + RegisterBase, e.type, Len(e.digests), Len(e.data)} \subseteq Words
    BY FirmwareAssumption
  <2>2. count \in Nat /\ Len(e.data) \in Nat
    BY <2>1, LenProperties
  <2>3. \A i \in 1..count : e.digests[i] \in [algo : Cells, cells : Seq(Cells)]
    BY <2>1, ElementOfSeq
  <2>4. e.register + RegisterBase \in Words /\ e.type \in Words /\ count \in Words
        /\ Len(e.data) \in Words
    BY <2>1
  <2> QED
    BY <2>1, <2>2, <2>3, <2>4
<1>2. \A i \in 1..count : /\ e.digests[i].algo \in Cells /\ e.digests[i].cells \in Seq(Cells)
  BY <1>1
<1>3. \A i \in 1..count : /\ ss[i] \in Seq(Cells)
                          /\ Len(ss[i]) = 1 + Len(e.digests[i].cells)
                          /\ ss[i][1] = e.digests[i].algo
                          /\ \A k \in 1..Len(e.digests[i].cells) :
                               ss[i][1 + k] = e.digests[i].cells[k]
  <2> SUFFICES ASSUME NEW i \in 1..count
               PROVE  /\ ss[i] \in Seq(Cells)
                      /\ Len(ss[i]) = 1 + Len(e.digests[i].cells)
                      /\ ss[i][1] = e.digests[i].algo
                      /\ \A k \in 1..Len(e.digests[i].cells) :
                           ss[i][1 + k] = e.digests[i].cells[k]
    OBVIOUS
  <2> DEFINE x == e.digests[i].algo
             y == e.digests[i].cells
             z == <<x>> \o y
  <2>1. x \in Cells /\ y \in Seq(Cells) /\ ss[i] = z
    BY <1>2
  <2> HIDE DEF x, y
  <2>2. /\ z \in Seq(Cells) /\ Len(z) = 1 + Len(y) /\ z[1] = x
        /\ \A k \in 1..Len(y) : z[1 + k] = y[k]
    BY <2>1
  <2> QED
    BY <2>1, <2>2 DEF x, y
<1>4. ss \in Seq(Seq(Cells)) /\ Len(ss) = count
  <2>1. ss \in [1..count -> Seq(Cells)]
    BY <1>3
  <2> QED
    BY <1>1, <2>1
<1>5. rec = w1 \o w2 \o w3 \o Concat(ss) \o w4 \o e.data
  BY DEF Record
<1>6. /\ w1 \in Seq(Cells) /\ Len(w1) = 2 /\ w1[1] + w1[2] * (MaxByte + 1) = e.register + RegisterBase
      /\ w2 \in Seq(Cells) /\ Len(w2) = 2 /\ w2[1] + w2[2] * (MaxByte + 1) = e.type
      /\ w3 \in Seq(Cells) /\ Len(w3) = 2 /\ w3[1] + w3[2] * (MaxByte + 1) = count
      /\ w4 \in Seq(Cells) /\ Len(w4) = 2 /\ w4[1] + w4[2] * (MaxByte + 1) = Len(e.data)
  <2> DEFINE c == count
             d == Len(e.data)
             g == e.register + RegisterBase
             y == e.type
  <2>1. c \in Words /\ d \in Words /\ g \in Words /\ y \in Words
    BY <1>1
  <2> HIDE DEF c, d, g, y
  <2>2. /\ Word(g) \in Seq(Cells) /\ Len(Word(g)) = 2
        /\ Word(g)[1] + Word(g)[2] * (MaxByte + 1) = g
    BY <2>1, WordFacts
  <2>3. /\ Word(y) \in Seq(Cells) /\ Len(Word(y)) = 2
        /\ Word(y)[1] + Word(y)[2] * (MaxByte + 1) = y
    BY <2>1, WordFacts
  <2>4. /\ Word(c) \in Seq(Cells) /\ Len(Word(c)) = 2
        /\ Word(c)[1] + Word(c)[2] * (MaxByte + 1) = c
    BY <2>1, WordFacts
  <2>5. /\ Word(d) \in Seq(Cells) /\ Len(Word(d)) = 2
        /\ Word(d)[1] + Word(d)[2] * (MaxByte + 1) = d
    BY <2>1, WordFacts
  <2> QED
    BY <2>2, <2>3, <2>4, <2>5 DEF c, d, g, y
<1>7. PICK q \in [0..count -> Nat] :
        /\ q[0] = 0 /\ q[count] = Len(Concat(ss))
        /\ \A i \in 0..count : q[i] <= q[count]
        /\ \A i \in 1..count :
             /\ q[i] = q[i - 1] + Len(ss[i])
             /\ \A k \in 1..Len(ss[i]) : Concat(ss)[q[i - 1] + k] = ss[i][k]
  <2> HIDE DEF ss, count
  <2>1. PICK q \in [0..Len(ss) -> Nat] :
          /\ q[0] = 0 /\ q[Len(ss)] = Len(Concat(ss))
          /\ \A i \in 0..Len(ss) : q[i] <= q[Len(ss)]
          /\ \A i \in 1..Len(ss) :
               /\ q[i] = q[i - 1] + Len(ss[i])
               /\ \A k \in 1..Len(ss[i]) : Concat(ss)[q[i - 1] + k] = ss[i][k]
    BY <1>4, ConcatFacts
  <2> QED
    BY <1>4, <2>1
<1>8. Concat(ss) \in Seq(Cells)
  BY <1>4, ConcatFacts
<1> DEFINE p == [i \in 0..count |-> 6 + q[i]]
           body == Concat(ss)
           d == e.data
<1> HIDE DEF w1, w2, w3, w4, body, d, rec
<1>9. /\ rec \in Seq(Cells) /\ Len(rec) = 8 + Len(body) + Len(d)
      /\ Len(body) \in Nat /\ Len(d) \in Nat
      /\ rec[1] = w1[1] /\ rec[2] = w1[2] /\ rec[3] = w2[1] /\ rec[4] = w2[2]
      /\ rec[5] = w3[1] /\ rec[6] = w3[2]
      /\ \A k \in 1..Len(body) : rec[6 + k] = body[k]
      /\ rec[6 + Len(body) + 1] = w4[1] /\ rec[6 + Len(body) + 2] = w4[2]
      /\ \A k \in 1..Len(d) : rec[8 + Len(body) + k] = d[k]
  <2> DEFINE g == w1 \o w2
             h == g \o w3
             hb == h \o body
             hbw == hb \o w4
  <2>1. g \in Seq(Cells) /\ Len(g) = 4
        /\ g[1] = w1[1] /\ g[2] = w1[2] /\ g[3] = w2[1] /\ g[4] = w2[2]
    <3>1. /\ g \in Seq(Cells) /\ Len(g) = Len(w1) + Len(w2)
          /\ \A k \in 1..Len(w1) : g[k] = w1[k]
          /\ \A k \in 1..Len(w2) : g[Len(w1) + k] = w2[k]
      BY <1>6, JoinFacts
    <3> HIDE DEF g
    <3> QED
      BY <1>6, <3>1
  <2> HIDE DEF g
  <2>2. /\ h \in Seq(Cells) /\ Len(h) = 6
        /\ h[1] = w1[1] /\ h[2] = w1[2] /\ h[3] = w2[1] /\ h[4] = w2[2]
        /\ h[5] = w3[1] /\ h[6] = w3[2]
    <3>1. /\ h \in Seq(Cells) /\ Len(h) = Len(g) + Len(w3)
          /\ \A k \in 1..Len(g) : h[k] = g[k]
          /\ \A k \in 1..Len(w3) : h[Len(g) + k] = w3[k]
      BY <1>6, <2>1, JoinFacts
    <3> HIDE DEF h
    <3> QED
      BY <1>6, <2>1, <3>1
  <2>3. body \in Seq(Cells) /\ d \in Seq(Cells) /\ rec = hbw \o d
    <3>1. body \in Seq(Cells) /\ d \in Seq(Cells)
      BY <1>1, <1>8 DEF body, d
    <3>2. rec = w1 \o w2 \o w3 \o body \o w4 \o d
      BY <1>5 DEF body, d
    <3> QED
      BY <3>1, <3>2 DEF g
  <2> HIDE DEF h
  <2>4. /\ hb \in Seq(Cells) /\ Len(hb) = 6 + Len(body) /\ Len(body) \in Nat
        /\ \A k \in 1..6 : hb[k] = h[k]
        /\ \A k \in 1..Len(body) : hb[6 + k] = body[k]
    <3>1. /\ hb \in Seq(Cells) /\ Len(hb) = Len(h) + Len(body) /\ Len(body) \in Nat
          /\ \A k \in 1..Len(h) : hb[k] = h[k]
          /\ \A k \in 1..Len(body) : hb[Len(h) + k] = body[k]
      BY <2>2, <2>3, JoinFacts
    <3> HIDE DEF hb
    <3> QED
      BY <2>2, <3>1
  <2> HIDE DEF hb
  <2>5. /\ hbw \in Seq(Cells) /\ Len(hbw) = 8 + Len(body)
        /\ \A k \in 1..(6 + Len(body)) : hbw[k] = hb[k]
        /\ hbw[6 + Len(body) + 1] = w4[1] /\ hbw[6 + Len(body) + 2] = w4[2]
    <3>1. /\ hbw \in Seq(Cells) /\ Len(hbw) = Len(hb) + Len(w4)
          /\ \A k \in 1..Len(hb) : hbw[k] = hb[k]
          /\ \A k \in 1..Len(w4) : hbw[Len(hb) + k] = w4[k]
      BY <1>6, <2>4, JoinFacts
    <3> HIDE DEF hbw
    <3> QED
      BY <1>6, <2>4, <3>1
  <2> HIDE DEF hbw
  <2>6. /\ rec \in Seq(Cells) /\ Len(rec) = 8 + Len(body) + Len(d) /\ Len(d) \in Nat
        /\ \A k \in 1..(8 + Len(body)) : rec[k] = hbw[k]
        /\ \A k \in 1..Len(d) : rec[8 + Len(body) + k] = d[k]
    <3> DEFINE r == hbw \o d
    <3>1. /\ r \in Seq(Cells) /\ Len(r) = Len(hbw) + Len(d) /\ Len(d) \in Nat
          /\ \A k \in 1..Len(hbw) : r[k] = hbw[k]
          /\ \A k \in 1..Len(d) : r[Len(hbw) + k] = d[k]
      BY <2>3, <2>5, JoinFacts
    <3>2. rec = r
      BY <2>3
    <3> HIDE DEF r
    <3> QED
      BY <2>5, <3>1, <3>2
  <2>7. \A k \in 1..6 : rec[k] = h[k]
    BY <2>4, <2>5, <2>6
  <2>8. ASSUME NEW k \in 1..Len(body) PROVE rec[6 + k] = body[k]
    <3>1. 6 + k \in 1..(6 + Len(body)) /\ 6 + k \in 1..(8 + Len(body))
      BY <2>4
    <3> QED
      BY <2>4, <2>5, <2>6, <3>1
  <2>9. rec[6 + Len(body) + 1] = w4[1] /\ rec[6 + Len(body) + 2] = w4[2]
    BY <2>4, <2>5, <2>6
  <2> QED
    BY <2>2, <2>4, <2>6, <2>7, <2>8, <2>9
<1>10. p \in [0..count -> Nat] /\ p[0] = 6 /\ p[count] = 6 + Len(body)
       /\ \A i \in 0..count : p[i] <= p[count]
  <2>1. 0 \in 0..count /\ count \in 0..count
    BY <1>1
  <2>2. \A i \in 0..count : q[i] \in Nat /\ q[i] <= q[count]
    BY <1>7
  <2>3. q[0] = 0 /\ q[count] = Len(body)
    BY <1>7 DEF body
  <2> HIDE DEF count
  <2>4. \A i \in 0..count : p[i] = 6 + q[i]
    OBVIOUS
  <2>5. p \in [0..count -> Nat]
    BY <2>2
  <2> HIDE DEF p
  <2> QED
    BY <2>1, <2>2, <2>3, <2>4, <2>5
<1>11. ASSUME NEW i \in 1..count
       PROVE  /\ p[i] = p[i - 1] + 1 + Len(e.digests[i].cells)
              /\ rec[p[i - 1] + 1] = e.digests[i].algo
              /\ \A k \in 1..Len(e.digests[i].cells) :
                   rec[p[i - 1] + 1 + k] = e.digests[i].cells[k]
  <2> DEFINE y == e.digests[i].cells
  <2>1. /\ i \in 0..count /\ i - 1 \in 0..count /\ count \in 0..count
        /\ y \in Seq(Cells) /\ Len(y) \in Nat
    BY <1>1, <1>2
  <2>2. /\ q[i] = q[i - 1] + 1 + Len(y) /\ q[i] <= Len(body)
        /\ q[i] \in Nat /\ q[i - 1] \in Nat
        /\ \A k \in 1..(1 + Len(y)) : body[q[i - 1] + k] = ss[i][k]
    <3>1. q[i] \in Nat /\ q[i - 1] \in Nat
      BY <1>7, <2>1
    <3>2. Len(ss[i]) = 1 + Len(y)
      BY <1>3
    <3>3. q[i] = q[i - 1] + Len(ss[i]) /\ q[i] <= q[count]
      BY <1>7, <2>1
    <3>4. \A k \in 1..Len(ss[i]) : body[q[i - 1] + k] = ss[i][k]
      BY <1>7 DEF body
    <3>5. q[count] = Len(body)
      BY <1>7 DEF body
    <3> HIDE DEF ss, y, count
    <3> QED
      BY <2>1, <3>1, <3>2, <3>3, <3>4, <3>5
  <2>3. ss[i][1] = e.digests[i].algo /\ \A k \in 1..Len(y) : ss[i][1 + k] = y[k]
    BY <1>3
  <2>4. p[i] = 6 + q[i] /\ p[i - 1] = 6 + q[i - 1]
    BY <2>1
  <2> HIDE DEF p, y, ss, count
  <2>5. \A k \in 1..(1 + Len(y)) : rec[p[i - 1] + k] = ss[i][k]
    <3> SUFFICES ASSUME NEW k \in 1..(1 + Len(y)) PROVE rec[p[i - 1] + k] = ss[i][k]
      OBVIOUS
    <3>1. q[i - 1] + k \in 1..Len(body)
      <4>1. Len(body) \in Nat
        BY <1>8 DEF body
      <4> QED
        BY <2>1, <2>2, <4>1
    <3>2. rec[6 + (q[i - 1] + k)] = body[q[i - 1] + k]
      BY <1>9, <3>1
    <3>3. 6 + (q[i - 1] + k) = p[i - 1] + k
      BY <2>2, <2>4
    <3> QED
      BY <2>2, <3>2, <3>3
  <2>6. p[i] = p[i - 1] + 1 + Len(y)
    BY <2>1, <2>2, <2>4
  <2>7. rec[p[i - 1] + 1] = e.digests[i].algo
    <3>1. 1 \in 1..(1 + Len(y))
      BY <2>1
    <3> QED
      BY <2>3, <2>5, <3>1
  <2>8. \A k \in 1..Len(y) : rec[p[i - 1] + 1 + k] = y[k]
    <3> SUFFICES ASSUME NEW k \in 1..Len(y) PROVE rec[p[i - 1] + 1 + k] = y[k]
      OBVIOUS
    <3>1. 1 + k \in 1..(1 + Len(y)) /\ p[i - 1] + (1 + k) = p[i - 1] + 1 + k
      BY <2>1, <2>2, <2>4
    <3> QED
      BY <2>3, <2>5, <3>1
  <2> QED
    BY <2>6, <2>7, <2>8 DEF y
<1> HIDE DEF p
<1>12. Laid(e, p)
  <2>1. /\ U32At(rec, 0) = e.register + RegisterBase
        /\ U32At(rec, U32) = e.type /\ U32At(rec, 2 * U32) = count
    BY <1>6, <1>9 DEF U32At
  <2>2. U32At(rec, p[count]) = Len(e.data)
    BY <1>6, <1>9, <1>10 DEF U32At
  <2>3. Len(rec) = p[count] + U32 + Len(e.data)
    <3>1. Len(d) = Len(e.data)
      BY DEF d
    <3>2. p[count] = 6 + Len(body)
      BY <1>10
    <3>3. Len(rec) = 8 + Len(body) + Len(d) /\ Len(body) \in Nat /\ Len(d) \in Nat
      BY <1>9
    <3> DEFINE n == Len(body)
               m == Len(d)
               l == Len(rec)
    <3> HIDE DEF n, m, l
    <3>4. l = 8 + n + m /\ n \in Nat /\ m \in Nat /\ p[count] = 6 + n
      BY <3>2, <3>3 DEF n, m, l
    <3>5. l = (6 + n) + U32 + m
      BY <3>4 DEF U32
    <3> QED
      BY <3>1, <3>4, <3>5 DEF l, m
  <2>5. /\ rec \in Seq(Cells) /\ p \in [0..count -> Nat] /\ p[0] = EVENT2_HEADER_SIZE
        /\ \A i \in 0..count : p[i] <= p[count]
    BY <1>9, <1>10 DEF EVENT2_HEADER_SIZE, U32
  <2>6. \A i \in 1..count :
           /\ p[i] = p[i - 1] + U16 + Len(e.digests[i].cells)
           /\ rec[p[i - 1] + 1] = e.digests[i].algo
           /\ \A k \in 1..Len(e.digests[i].cells) :
                rec[p[i - 1] + U16 + k] = e.digests[i].cells[k]
    BY <1>11 DEF U16
  <2> QED
    BY Zenon, <2>1, <2>2, <2>3, <2>5, <2>6 DEF Laid, rec
<1> QED
  BY <1>10, <1>12 DEF DigestAt

(* ---- The inductive invariant of the boot ------------------------------ *)

RegisterFiles == [Registers -> Seq(Seq(Cells))]

\* The register file that firmware leaves after an event.
After(file, e) ==
  IF e.type = EV_NO_ACTION \/ BankDigests(e) = {} THEN file
  ELSE Extended(file, e.register, e.digests[CHOOSE i \in BankDigests(e) : TRUE].cells)

\* The log is the first record and the records of es: that of es[i] begins at
\* starts[i].
RecordAt(e, start) == \A k \in 1..Len(Record(e)) : written[start + k] = Record(e)[k]
Chronicle(es, starts) ==
  /\ es \in Seq(FirmwareEvents) /\ starts \in [1..(Len(es) + 1) -> Nat]
  /\ written \in Seq(Cells)
  /\ Len(SpecIdRecord) <= Len(written)
  /\ \A k \in 1..Len(SpecIdRecord) : written[k] = SpecIdRecord[k]
  /\ starts[1] = Len(SpecIdRecord) /\ starts[Len(es) + 1] = Len(written)
  /\ \A i \in 1..Len(es) :
       /\ starts[i + 1] = starts[i] + Len(Record(es[i]))
       /\ starts[i + 1] <= Len(written)
       /\ RecordAt(es[i], starts[i])

\* files[i] is the register file after es[1] to es[i], a moment of the boot.
Moments(es, files) ==
  /\ history \in Seq(RegisterFiles) /\ history # <<>>
  /\ files \in [0..Len(es) -> RegisterFiles]
  /\ files[0] = Zeros
  /\ \A i \in 1..Len(es) : files[i] = After(files[i - 1], es[i])
  /\ \A i \in 0..Len(es) : \E k \in 1..Len(history) : history[k] = files[i]
  /\ IF phase = "booting" THEN Current = files[Len(es)] ELSE booted = files[Len(es)]
  /\ booted \in RegisterFiles

\* What the tool may be doing in each phase.
Phases ==
  /\ phase \in {"booting", "booted", "parsing", "replaying", "reported"}
  /\ phase \in {"booting", "booted"} => pc = "start" /\ capture = NotCaptured
  /\ phase \in {"booting", "booted", "parsing"} => replayed = 0
  /\ pc = "start" => limit = 0
  /\ phase \in {"replaying", "reported"} => pc = "accepted"
  /\ replayed \in 0..Len(events)
  /\ phase = "reported" => replayed = Len(events)

\* The copy: written cells, perhaps a terminator, and then fill; the body found
\* in it has none of the fill.
Copied ==
  phase = "parsing" /\ pc = "start" =>
    \E m \in 0..Len(data) :
      /\ m <= Len(written) + U32
      /\ \A k \in 1..m : k <= Len(written) => data[k] = written[k]
      /\ IF ToleratePadding
           THEN \E pad \in PaddingBytes : \A k \in (m + 1)..Len(data) : data[k] = pad
           ELSE m = Len(data)
Genuine ==
  /\ pc # "start" => /\ limit <= Len(written) + U32
                     /\ \A k \in 1..limit : k <= Len(written) => data[k] = written[k]
  /\ capture.whole => /\ Len(written) <= Len(data)
                      /\ \A k \in 1..Len(written) : data[k] = written[k]

\* The first j digests of e have been read, and nothing else.
DigestsRead(digests, e, j) ==
  \A a \in Cells :
    /\ Carries(digests, a) <=> \E k \in 1..j : e.digests[k].algo = a
    /\ \A k \in 1..j : e.digests[k].algo = a => BankDigest(digests[a]) = e.digests[k].cells
ReadOf(event, e) ==
  /\ event.register = e.register /\ event.type = e.type
  /\ DigestsRead(event.digests, e, Len(e.digests))

\* The events read are those firmware wrote, in order, and the cursor is where
\* the next one begins, unless it has been taken past the body.
EventsRead(es) ==
  /\ Len(events) <= Len(es) + 1
  /\ \A i \in 1..(Len(events) - 1) : ReadOf(events[i + 1], es[i])
  /\ events # <<>> => ~Carries(events[1].digests, BankAlgorithm)
CursorInStep(starts) ==
  pc = "events" =>
    /\ offset = starts[Len(events)] \/ (offset >= limit /\ ~capture.whole)
    /\ offset < limit => algo_sizes = ListedSizes
EntryRead(es, starts) ==
  pc = "digests" =>
    LET m == Len(events)
        e == es[m]
        j == Len(e.digests) - entry.left
    IN  /\ m <= Len(es)
        /\ entry.start = starts[m] /\ entry.left <= Len(e.digests)
        /\ entry.raw = e.register + RegisterBase /\ entry.type = e.type
        /\ offset = starts[m] + DigestAt(e)[j]
        /\ DigestsRead(entry.digests, e, j)
        /\ algo_sizes = ListedSizes

\* The report is of the register file after the events replayed.
Matches(file) ==
  /\ DOMAIN report \subseteq Registers
  /\ report = [r \in DOMAIN report |-> file[r]]
  /\ \A r \in Registers : r \notin DOMAIN report => file[r] = <<>>
Replayed(files) == Matches(files[IF replayed = 0 THEN 0 ELSE replayed - 1])

\* Nothing that was measured is beyond the last event of a log copied whole.
Exhausted(es, files) ==
  pc = "accepted" /\ capture.whole => files[Len(events) - 1] = files[Len(es)]

Boot(es, starts, files) ==
  /\ IInv /\ Phases /\ Chronicle(es, starts) /\ Moments(es, files)
  /\ Copied /\ Genuine
  /\ EventsRead(es) /\ CursorInStep(starts) /\ EntryRead(es, starts)
  /\ Replayed(files) /\ Exhausted(es, files)

BootIInv == \E es, starts, files : Boot(es, starts, files)

(* ---- The boot, until the log is copied -------------------------------- *)

\* Firmware leaves a register file, whatever it measures.
LEMMA AfterType ==
  ASSUME NEW file \in RegisterFiles, NEW e \in FirmwareEvents
  PROVE  /\ After(file, e) \in RegisterFiles
         /\ \A i \in BankDigests(e) : e.digests[i].cells \in Seq(Cells)
<1> DEFINE c == e.digests[CHOOSE i \in BankDigests(e) : TRUE].cells
<1>1. \A i \in BankDigests(e) : e.digests[i].cells \in Seq(Cells)
  <2>1. e.digests \in Seq([algo : Cells, cells : Seq(Cells)])
    BY FirmwareAssumption
  <2>2. \A i \in 1..Len(e.digests) : e.digests[i] \in [algo : Cells, cells : Seq(Cells)]
    BY <2>1, ElementOfSeq
  <2> QED
    BY <2>2 DEF BankDigests
<1>2. CASE e.type = EV_NO_ACTION \/ BankDigests(e) = {}
  BY <1>1, <1>2 DEF After
<1>3. CASE ~(e.type = EV_NO_ACTION \/ BankDigests(e) = {})
  <2>1. e.register \in Registers
    BY <1>3, FirmwareAssumption
  <2>2. c \in Seq(Cells)
    BY <1>1, <1>3
  <2>3. After(file, e) = Extended(file, e.register, c)
    BY <1>3 DEF After
  <2> HIDE DEF c
  <2>4. Append(file[e.register], c) \in Seq(Seq(Cells))
    BY <2>1, <2>2 DEF RegisterFiles
  <2> QED
    BY <1>1, <2>1, <2>3, <2>4 DEF Extended, RegisterFiles
<1> QED
  BY <1>2, <1>3

\* While the parser has not begun, nothing is claimed of it.
LEMMA NothingReadYet ==
  ASSUME NEW es \in Seq(FirmwareEvents), NEW starts, NEW files, pc' = "start", events' = <<>>
  PROVE  EventsRead(es)' /\ CursorInStep(starts)' /\ EntryRead(es, starts)' /\ Exhausted(es, files)'
BY DEF EventsRead, CursorInStep, EntryRead, Exhausted

\* The invariant holds before firmware measures anything: no event is in the log.
LEMMA BootStart == BootInit => BootIInv
<1> SUFFICES ASSUME BootInit PROVE BootIInv
  OBVIOUS
<1> DEFINE es == <<>>
           starts == [i \in 1..1 |-> Len(SpecIdRecord)]
           files == [i \in 0..0 |-> Zeros]
<1> USE DEF BootInit
<1>1. IInv
  BY ScaleAssumption, DigestSizesAssumption
     DEF IInv, TypeOK, DigestsBeforeFill, InBody, DigestsAreWhole, Later,
         OnlyLastEventReachesFill, EventsTileLog, NothingUnparsed, MeasuredEventsHaveRegister,
         SizesAgree, BeforeEvents, HeaderRead, BetweenEvents, EntryInProgress,
         NoEntry, NoDigests, Carries, Entries, Digests, Running, Verdicts, Cells,
         PaddingBytes
<1>2. Phases
  BY DEF Phases
<1>3. Chronicle(es, starts)
  <2>1. SpecIdRecord \in Seq(Cells) /\ Len(SpecIdRecord) \in Nat
    BY SpecIdAssumption
  <2>2. Len(es) = 0 /\ es \in Seq(FirmwareEvents) /\ starts[1] = Len(SpecIdRecord)
    OBVIOUS
  <2>3. starts \in [1..1 -> Nat]
    BY <2>1
  <2> HIDE DEF es, starts
  <2> QED
    BY <2>1, <2>2, <2>3 DEF Chronicle
<1>4. Zeros \in RegisterFiles
  BY DEF Zeros, RegisterFiles
<1>5. Moments(es, files)
  <2>1. history = <<Zeros>> /\ history \in Seq(RegisterFiles) /\ history # <<>>
        /\ Len(history) = 1 /\ history[1] = Zeros
    BY <1>4
  <2>2. Len(es) = 0 /\ files[0] = Zeros /\ files \in [0..0 -> RegisterFiles]
    BY <1>4
  <2> HIDE DEF es, files
  <2> QED
    BY <1>4, <2>1, <2>2 DEF Moments, Current
<1>6. Copied /\ Genuine
  BY DEF Copied, Genuine, NotCaptured
<1>7. EventsRead(es) /\ CursorInStep(starts) /\ EntryRead(es, starts) /\ Exhausted(es, files)
  BY DEF EventsRead, CursorInStep, EntryRead, Exhausted
<1>8. Replayed(files)
  <2>1. files[IF replayed = 0 THEN 0 ELSE replayed - 1] = Zeros
    OBVIOUS
  <2> HIDE DEF files
  <2>2. CASE ReportsAll
    <3>1. report = Zeros /\ DOMAIN Zeros = Registers
      BY <2>2 DEF Zeros
    <3> QED
      BY <2>1, <3>1 DEF Replayed, Matches, Zeros
  <2>3. CASE ~ReportsAll
    <3>1. report = [r \in {} |-> <<>>] /\ DOMAIN report = {}
      BY <2>3
    <3>2. report = [r \in DOMAIN report |-> Zeros[r]]
      BY <3>1
    <3> QED
      BY <2>1, <3>1, <3>2 DEF Replayed, Matches, Zeros
  <2> QED
    BY <2>2, <2>3
<1> HIDE DEF es, starts, files
<1> QED
  BY <1>1, <1>2, <1>3, <1>5, <1>6, <1>7, <1>8 DEF Boot, BootIInv

\* Once the log is closed, what firmware left stays.
LEMMA BootKept ==
  ASSUME NEW es, NEW starts, NEW files, Chronicle(es, starts), Moments(es, files),
         UNCHANGED <<written, history, booted>>, phase # "booting", phase' # "booting"
  PROVE  Chronicle(es, starts)' /\ Moments(es, files)'
BY DEF Chronicle, Moments, RecordAt

\* Firmware appends a record to the log and goes on to the next register file.
LEMMA FirmwareEventKeepsBoot ==
  ASSUME BootIInv, NEW e \in FirmwareEvents, FirmwareEvent(e)
  PROVE  BootIInv'
<1>1. PICK es, starts, files : Boot(es, starts, files)
  BY DEF BootIInv
<1> USE DEF FirmwareEvent
<1> DEFINE n == Len(es)
           rec == Record(e)
<1>a. PICK es2 : es2 = Append(es, e)
  OBVIOUS
<1>b. PICK starts2 :
        starts2 = [i \in 1..(n + 2) |-> IF i = n + 2 THEN Len(written) + Len(rec) ELSE starts[i]]
  OBVIOUS
<1>c. PICK files2 :
        files2 = [i \in 0..(n + 1) |-> IF i = n + 1 THEN After(files[n], e) ELSE files[i]]
  OBVIOUS
<1>2. /\ IInv /\ Phases /\ Chronicle(es, starts) /\ Moments(es, files)
      /\ Replayed(files) /\ Genuine
  BY <1>1 DEF Boot
<1>3. /\ n \in Nat /\ es2 \in Seq(FirmwareEvents) /\ Len(es2) = n + 1
      /\ es2[n + 1] = e /\ \A i \in 1..n : es2[i] = es[i]
  <2>1. es \in Seq(FirmwareEvents)
    BY <1>2 DEF Chronicle
  <2> QED
    BY <1>a, <2>1
<1>4. pc = "start" /\ pc' = "start" /\ events = <<>> /\ events' = <<>> /\ replayed = 0
  BY <1>2 DEF Phases, IInv, BeforeEvents, vars
<1>5. rec \in Seq(Cells) /\ Len(rec) \in Nat /\ written \in Seq(Cells) /\ Len(written) \in Nat
  <2>1. rec \in Seq(Cells)
    BY RecordFacts DEF Laid
  <2>2. written \in Seq(Cells)
    BY <1>2 DEF Chronicle
  <2> HIDE DEF rec
  <2> QED
    BY <2>1, <2>2
<1>6. /\ written' \in Seq(Cells) /\ Len(written') = Len(written) + Len(rec)
      /\ \A k \in 1..Len(written) : written'[k] = written[k]
      /\ \A k \in 1..Len(rec) : written'[Len(written) + k] = rec[k]
  BY <1>5, JoinFacts
<1> HIDE DEF rec, n
<1>7. Chronicle(es2, starts2)'
  <2>1. starts2 \in [1..(n + 2) -> Nat]
    <3>1. \A i \in 1..(n + 1) : starts[i] \in Nat
      BY <1>2 DEF Chronicle, n
    <3>2. Len(written) + Len(rec) \in Nat
      BY <1>5
    <3>3. \A i \in 1..(n + 2) : i # n + 2 => i \in 1..(n + 1)
      BY <1>3
    <3> QED
      BY <1>b, <3>1, <3>2, <3>3
  <2>2. /\ \A i \in 1..(n + 1) : starts2[i] = starts[i]
        /\ starts2[n + 2] = Len(written) + Len(rec)
    BY <1>b, <1>3
  <2>3. /\ Len(SpecIdRecord) <= Len(written) /\ Len(SpecIdRecord) \in Nat
        /\ \A k \in 1..Len(SpecIdRecord) : written[k] = SpecIdRecord[k]
        /\ starts[1] = Len(SpecIdRecord) /\ starts[n + 1] = Len(written)
    BY <1>2, SpecIdAssumption DEF Chronicle, n
  <2>4. \A i \in 1..n : /\ starts[i + 1] = starts[i] + Len(Record(es[i]))
                        /\ starts[i + 1] <= Len(written)
                        /\ RecordAt(es[i], starts[i])
    BY <1>2 DEF Chronicle, n
  <2>5. /\ Len(SpecIdRecord) <= Len(written')
        /\ \A k \in 1..Len(SpecIdRecord) : written'[k] = SpecIdRecord[k]
    BY <1>5, <1>6, <2>3
  <2>6. starts2[1] = Len(SpecIdRecord) /\ starts2[n + 2] = Len(written')
    BY <1>3, <1>6, <2>2, <2>3
  <2>7. ASSUME NEW i \in 1..(n + 1)
        PROVE  /\ starts2[i + 1] = starts2[i] + Len(Record(es2[i]))
               /\ starts2[i + 1] <= Len(written')
               /\ RecordAt(es2[i], starts2[i])'
    <3>1. CASE i = n + 1
      <4>1. es2[i] = e /\ starts2[i] = Len(written) /\ starts2[i + 1] = Len(written) + Len(rec)
        <5>1. i + 1 = n + 2 /\ i \in 1..(n + 1)
          BY <1>3, <3>1
        <5> QED
          BY <1>3, <2>2, <2>3, <3>1, <5>1
      <4>2. RecordAt(es2[i], starts2[i])'
        BY <1>6, <4>1 DEF RecordAt, rec
      <4> QED
        BY <1>5, <1>6, <4>1, <4>2 DEF rec
    <3>2. CASE i # n + 1
      <4>1. i \in 1..n /\ i \in 1..(n + 1) /\ i + 1 \in 1..(n + 1)
        BY <1>3, <3>2
      <4>2. es2[i] = es[i] /\ starts2[i] = starts[i] /\ starts2[i + 1] = starts[i + 1]
        BY <1>3, <2>2, <4>1
      <4> DEFINE r == Record(es[i])
      <4>3. r \in Seq(Cells) /\ Len(r) \in Nat
        <5>1. es[i] \in FirmwareEvents
          BY <1>2, <4>1, ElementOfSeq DEF Chronicle, n
        <5>2. r \in Seq(Cells)
          BY <5>1, RecordFacts DEF Laid
        <5> HIDE DEF r
        <5> QED
          BY <5>2
      <4>4. starts[i + 1] = starts[i] + Len(r) /\ starts[i + 1] <= Len(written) /\ starts[i] \in Nat
        <5>1. starts[i] \in Nat
          BY <1>2, <4>1 DEF Chronicle, n
        <5> QED
          BY <2>4, <4>1, <5>1
      <4>5. \A k \in 1..Len(r) : written[starts[i] + k] = r[k]
        BY <2>4, <4>1 DEF RecordAt
      <4>6. \A k \in 1..Len(r) : written'[starts[i] + k] = r[k]
        <5> HIDE DEF r
        <5>1. \A k \in 1..Len(r) : starts[i] + k \in 1..Len(written)
          BY <1>5, <4>3, <4>4
        <5> QED
          BY <1>6, <4>5, <5>1
      <4>7. starts2[i + 1] <= Len(written')
        BY <1>5, <1>6, <4>2, <4>3, <4>4
      <4> QED
        BY <4>2, <4>4, <4>6, <4>7 DEF RecordAt
    <3> QED
      BY <3>1, <3>2
  <2>8. Len(es2) + 1 = n + 2
    BY <1>3
  <2> QED
    BY <1>3, <1>6, <2>1, <2>5, <2>6, <2>7, <2>8 DEF Chronicle
<1>8. Moments(es2, files2)'
  <2>1. /\ history \in Seq(RegisterFiles) /\ history # <<>> /\ Len(history) \in Nat
        /\ files \in [0..n -> RegisterFiles] /\ files[0] = Zeros
        /\ Current = files[n] /\ booted \in RegisterFiles
        /\ \A i \in 1..n : files[i] = After(files[i - 1], es[i])
        /\ \A i \in 0..n : \E k \in 1..Len(history) : history[k] = files[i]
    BY <1>2 DEF Moments, n
  <2>2. files[n] \in RegisterFiles /\ After(files[n], e) \in RegisterFiles
    <3>1. files[n] \in RegisterFiles
      BY <1>3, <2>1
    <3> QED
      BY <3>1, AfterType
  <2>3. files2 \in [0..(n + 1) -> RegisterFiles]
    <3>1. \A i \in 0..(n + 1) : i # n + 1 => i \in 0..n
      BY <1>3
    <3> QED
      BY <1>c, <2>1, <2>2, <3>1
  <2>4. files2[n + 1] = After(files[n], e) /\ \A i \in 0..n : files2[i] = files[i]
    BY <1>c, <1>3
  <2>5. \A i \in 1..(n + 1) : files2[i] = After(files2[i - 1], es2[i])
    <3> SUFFICES ASSUME NEW i \in 1..(n + 1) PROVE files2[i] = After(files2[i - 1], es2[i])
      OBVIOUS
    <3>1. i - 1 \in 0..n /\ (i = n + 1 => i - 1 = n) /\ (i # n + 1 => i \in 1..n /\ i \in 0..n)
      BY <1>3
    <3> QED
      BY <1>3, <2>1, <2>4, <3>1
  <2>6. /\ history' \in Seq(RegisterFiles) /\ history' # <<>>
        /\ \A k \in 1..Len(history) : k \in 1..Len(history') /\ history'[k] = history[k]
        /\ Len(history') \in 1..Len(history')
        /\ history'[Len(history')] = files2[n + 1]
    <3>1. CASE e.type = EV_NO_ACTION \/ BankDigests(e) = {}
      BY <2>1, <2>4, <3>1 DEF Current, After
    <3>2. CASE ~(e.type = EV_NO_ACTION \/ BankDigests(e) = {})
      <4>1. history' = Append(history, files2[n + 1])
        BY <2>1, <2>4, <3>2 DEF After
      <4>2. files2[n + 1] \in RegisterFiles
        BY <2>2, <2>4
      <4> QED
        BY <2>1, <4>1, <4>2
    <3> QED
      BY <3>1, <3>2
  <2>7. \A i \in 0..(n + 1) : \E k \in 1..Len(history') : history'[k] = files2[i]
    <3> SUFFICES ASSUME NEW i \in 0..(n + 1)
                 PROVE  \E k \in 1..Len(history') : history'[k] = files2[i]
      OBVIOUS
    <3>1. CASE i = n + 1
      BY <2>6, <3>1
    <3>2. CASE i # n + 1
      <4>1. i \in 0..n
        BY <1>3, <3>2
      <4>2. PICK k \in 1..Len(history) : history[k] = files[i]
        BY <2>1, <4>1
      <4> QED
        BY <2>4, <2>6, <4>1, <4>2
    <3> QED
      BY <3>1, <3>2
  <2>8. files2[0] = Zeros
    BY <1>3, <2>1, <2>4
  <2> QED
    BY <1>3, <2>1, <2>3, <2>5, <2>6, <2>7, <2>8 DEF Moments, Current
<1>9. IInv'
  BY <1>2, StepInvariant
<1>10. Phases'
  BY <1>2 DEF Phases, vars
<1>11. Copied' /\ Genuine'
  <2>1. capture = NotCaptured /\ ~capture.whole
    BY <1>2 DEF Phases, NotCaptured
  <2> QED
    BY <1>4, <2>1 DEF Copied, Genuine
<1>12. EventsRead(es2)' /\ CursorInStep(starts2)' /\ EntryRead(es2, starts2)'
       /\ Exhausted(es2, files2)'
  BY <1>3, <1>4, NothingReadYet
<1>13. Replayed(files2)'
  <2>1. files2[0] = files[0]
    BY <1>c, <1>3
  <2> QED
    BY <1>2, <1>4, <2>1 DEF Replayed, Matches
<1>14. Boot(es2, starts2, files2)'
  BY <1>7, <1>8, <1>9, <1>10, <1>11, <1>12, <1>13 DEF Boot
<1> QED
  BY <1>14 DEF BootIInv

\* Closing the log keeps the last register file as the one booted with.
LEMMA CloseLogKeepsBoot ==
  ASSUME BootIInv, CloseLog
  PROVE  BootIInv'
<1>1. PICK es, starts, files : Boot(es, starts, files)
  BY DEF BootIInv
<1> USE DEF CloseLog
<1>2. /\ IInv /\ Phases /\ Chronicle(es, starts) /\ Moments(es, files)
      /\ Copied /\ Genuine /\ Replayed(files)
  BY <1>1 DEF Boot
<1>3. /\ pc = "start" /\ pc' = "start" /\ events' = <<>> /\ es \in Seq(FirmwareEvents)
      /\ ~capture.whole
  BY <1>2 DEF Phases, IInv, BeforeEvents, vars, Chronicle, NotCaptured
<1>4. IInv'
  BY <1>2, StepInvariant
<1>5. Phases' /\ Copied' /\ Genuine'
  BY <1>2, <1>3 DEF Phases, vars, Copied, Genuine
<1>6. Chronicle(es, starts)'
  BY <1>2 DEF Chronicle, RecordAt
<1>7. Moments(es, files)'
  <2>1. /\ history \in Seq(RegisterFiles) /\ history # <<>>
        /\ files \in [0..Len(es) -> RegisterFiles] /\ Current = files[Len(es)]
    BY <1>2 DEF Moments
  <2>2. Current \in RegisterFiles
    BY <2>1 DEF Current
  <2> QED
    BY <1>2, <2>1, <2>2 DEF Moments
<1>8. EventsRead(es)' /\ CursorInStep(starts)' /\ EntryRead(es, starts)' /\ Exhausted(es, files)'
  BY <1>3, NothingReadYet
<1>9. Replayed(files)'
  BY <1>2 DEF Replayed, Matches
<1>10. Boot(es, starts, files)'
  BY <1>4, <1>5, <1>6, <1>7, <1>8, <1>9 DEF Boot
<1> QED
  BY <1>10 DEF BootIInv

\* What user space extends is a later moment of the boot, which no log records.
LEMMA UserExtendKeepsBoot ==
  ASSUME BootIInv, NEW r \in UserRegisters, NEW e \in FirmwareEvents, NEW i \in BankDigests(e),
         UserExtend(r, e.digests[i].cells)
  PROVE  BootIInv'
<1>1. PICK es, starts, files : Boot(es, starts, files)
  BY DEF BootIInv
<1> DEFINE c == e.digests[i].cells
<1>2. /\ IInv /\ Phases /\ Chronicle(es, starts) /\ Moments(es, files)
      /\ Copied /\ Genuine /\ Replayed(files)
  BY <1>1 DEF Boot
<1>3. /\ phase = "booted" /\ history' = Append(history, Extended(Current, r, c))
      /\ UNCHANGED <<vars, phase, written, booted, capture, replayed, report>>
  BY DEF UserExtend
<1>4. /\ pc = "start" /\ pc' = "start" /\ events' = <<>> /\ es \in Seq(FirmwareEvents)
      /\ ~capture.whole
  BY <1>2, <1>3 DEF Phases, IInv, BeforeEvents, vars, Chronicle, NotCaptured
<1>5. IInv'
  BY <1>2, <1>3, StepInvariant
<1>6. Phases' /\ Copied' /\ Genuine'
  BY <1>2, <1>3, <1>4 DEF Phases, vars, Copied, Genuine
<1>7. Chronicle(es, starts)'
  BY <1>2, <1>3 DEF Chronicle, RecordAt
<1>8. Moments(es, files)'
  <2>1. /\ history \in Seq(RegisterFiles) /\ history # <<>>
        /\ files \in [0..Len(es) -> RegisterFiles] /\ booted = files[Len(es)]
    BY <1>2, <1>3 DEF Moments
  <2>2. Zeros \in RegisterFiles
    BY DEF Zeros, RegisterFiles
  <2>3. r \in Registers
    BY BootAssumption DEF Registers
  <2>4. c \in Seq(Cells)
    BY <2>2, AfterType
  <2> HIDE DEF c
  <2>5. Extended(Current, r, c) \in RegisterFiles
    <3>1. Current \in RegisterFiles
      BY <2>1 DEF Current
    <3>2. Append(Current[r], c) \in Seq(Seq(Cells))
      BY <2>3, <2>4, <3>1 DEF RegisterFiles
    <3> QED
      BY <3>1, <3>2 DEF Extended, RegisterFiles
  <2>6. /\ history' \in Seq(RegisterFiles) /\ history' # <<>>
        /\ \A k \in 1..Len(history) : k \in 1..Len(history') /\ history'[k] = history[k]
    BY <1>3, <2>1, <2>5
  <2>7. \A j \in 0..Len(es) : \E k \in 1..Len(history') : history'[k] = files[j]
    <3> SUFFICES ASSUME NEW j \in 0..Len(es)
                 PROVE  \E k \in 1..Len(history') : history'[k] = files[j]
      OBVIOUS
    <3>1. PICK k \in 1..Len(history) : history[k] = files[j]
      BY <1>2 DEF Moments
    <3> QED
      BY <2>6, <3>1
  <2> QED
    BY <1>2, <1>3, <2>1, <2>6, <2>7 DEF Moments
<1>9. EventsRead(es)' /\ CursorInStep(starts)' /\ EntryRead(es, starts)' /\ Exhausted(es, files)'
  BY <1>4, NothingReadYet
<1>10. Replayed(files)'
  BY <1>2, <1>3 DEF Replayed, Matches
<1>11. Boot(es, starts, files)'
  BY <1>5, <1>6, <1>7, <1>8, <1>9, <1>10 DEF Boot
<1> QED
  BY <1>11 DEF BootIInv

\* The copy holds cells of the log, perhaps a terminator, and then fill.
LEMMA CopyLogKeepsBoot ==
  ASSUME BootIInv, NEW n \in 0..Len(written), NEW terminated \in BOOLEAN, NEW filler \in Fills,
         CopyLog(n, terminated, filler)
  PROVE  BootIInv'
<1>1. PICK es, starts, files : Boot(es, starts, files)
  BY DEF BootIInv
<1>2. /\ IInv /\ Phases /\ Chronicle(es, starts) /\ Moments(es, files)
      /\ Copied /\ Genuine /\ Replayed(files)
  BY <1>1 DEF Boot
<1> DEFINE body == SubSeq(written, 1, n)
           mark == IF terminated THEN Word(LOG_TERMINATOR) ELSE <<>>
           copy == body \o mark
<1>3. /\ phase = "booted" /\ phase' = "parsing" /\ (terminated => n = Len(written))
      /\ data' = copy \o filler
      /\ capture' = [whole |-> n = Len(written), terminated |-> terminated]
      /\ UNCHANGED <<limit, fill, pc, offset, algo_sizes, entry, events>>
      /\ UNCHANGED <<written, history, booted, replayed, report>>
  BY DEF CopyLog
<1>4. /\ pc = "start" /\ pc' = "start" /\ events' = <<>> /\ limit' = 0
      /\ es \in Seq(FirmwareEvents) /\ written \in Seq(Cells)
  BY <1>2, <1>3 DEF Phases, IInv, BeforeEvents, Chronicle
<1>5. body \in Seq(Cells) /\ Len(body) = n /\ \A k \in 1..n : body[k] = written[k]
  BY <1>4
<1>6. mark \in Seq(Cells) /\ (terminated => Len(mark) = 2) /\ (~terminated => Len(mark) = 0)
  <2>1. LOG_TERMINATOR \in Words
    BY ScaleAssumption DEF Words, LOG_TERMINATOR
  <2>2. Word(LOG_TERMINATOR) \in Seq(Cells) /\ Len(Word(LOG_TERMINATOR)) = 2
    BY <2>1, WordFacts
  <2> QED
    BY <2>2
<1>7. filler \in Seq(Cells)
  BY FillsAssumption
<1> HIDE DEF body, mark
<1>8. /\ copy \in Seq(Cells) /\ Len(copy) = n + Len(mark) /\ Len(mark) \in 0..2
      /\ \A k \in 1..n : copy[k] = written[k]
  <2>1. /\ copy \in Seq(Cells) /\ Len(copy) = Len(body) + Len(mark)
        /\ \A k \in 1..Len(body) : copy[k] = body[k]
    BY <1>5, <1>6, JoinFacts
  <2> HIDE DEF copy
  <2> QED
    BY <1>5, <1>6, <2>1
<1> DEFINE m == Len(copy)
<1>9. /\ data' \in Seq(Cells) /\ Len(data') = m + Len(filler) /\ Len(filler) \in Nat /\ m \in Nat
      /\ \A k \in 1..m : data'[k] = copy[k]
      /\ \A k \in 1..Len(filler) : data'[m + k] = filler[k]
  <2> HIDE DEF copy
  <2> QED
    BY <1>3, <1>7, <1>8, JoinFacts
<1> HIDE DEF copy
<1>10. /\ n <= m /\ m <= Len(written) + 2 /\ m \in 0..Len(data')
       /\ \A k \in 1..m : k <= Len(written) => data'[k] = written[k]
       /\ (n = Len(written) => /\ Len(written) <= Len(data')
                               /\ \A k \in 1..Len(written) : data'[k] = written[k])
  <2>1. Len(written) \in Nat /\ n \in Nat /\ n <= Len(written)
    BY <1>4
  <2>2. n <= m /\ m <= Len(written) + 2 /\ m \in 0..Len(data')
    <3>1. m = n + Len(mark) /\ Len(mark) \in 0..2 /\ m \in Nat /\ Len(filler) \in Nat
          /\ Len(data') = m + Len(filler)
      BY <1>8, <1>9
    <3> HIDE DEF m
    <3>2. n <= m /\ m \in 0..Len(data')
      BY <2>1, <3>1
    <3> DEFINE w == Len(written)
               q == Len(mark)
    <3>3. q \in 0..2
      BY <3>1
    <3>4. m = n + q
      BY <3>1
    <3>5. w \in Nat /\ n \in Nat /\ n <= w
      BY <2>1
    <3> HIDE DEF w, q
    <3>6. q \in Nat /\ q <= 2
      BY <3>3
    <3>7. m <= w + 2
      BY <3>4, <3>5, <3>6
    <3> QED
      BY <3>2, <3>7 DEF w
  <2>3. ASSUME NEW k \in 1..m, k <= Len(written) PROVE data'[k] = written[k]
    <3>1. k \in 1..n
      BY <1>3, <1>6, <1>8, <2>1, <2>3
    <3> QED
      BY <1>8, <1>9, <3>1
  <2>4. ASSUME n = Len(written), NEW k \in 1..Len(written) PROVE data'[k] = written[k]
    <3>1. k \in 1..m /\ k \in 1..n
      BY <2>1, <2>2, <2>4
    <3> QED
      BY <1>8, <1>9, <3>1
  <2>5. n = Len(written) => Len(written) <= Len(data')
    <3>1. Len(data') \in Nat /\ m \in 0..Len(data') /\ n <= m
      BY <1>9, <2>2
    <3> HIDE DEF m
    <3> QED
      BY <2>1, <3>1
  <2> QED
    BY <2>2, <2>3, <2>4, <2>5
<1>11. Copied'
  <2>1. IF ToleratePadding
          THEN \E pad \in PaddingBytes : \A k \in (m + 1)..Len(data') : data'[k] = pad
          ELSE m = Len(data')
    <3>1. CASE ToleratePadding
      <4>1. PICK pad \in PaddingBytes : \A k \in 1..Len(filler) : filler[k] = pad
        BY <3>1, FillsAssumption
      <4>2. ASSUME NEW k \in (m + 1)..Len(data') PROVE data'[k] = pad
        <5>1. k - m \in 1..Len(filler) /\ m + (k - m) = k
          BY <1>9
        <5>2. data'[m + (k - m)] = filler[k - m]
          BY <1>9, <5>1
        <5> QED
          BY <4>1, <5>1, <5>2
      <4> QED
        BY <3>1, <4>2
    <3>2. CASE ~ToleratePadding
      <4>1. filler = <<>>
        BY <3>2, FillsAssumption
      <4> QED
        BY <1>9, <3>2, <4>1
    <3> QED
      BY <3>1, <3>2
  <2> HIDE DEF m
  <2> QED
    BY <1>3, <1>10, <2>1 DEF Copied
<1>12. Genuine'
  BY <1>3, <1>4, <1>10 DEF Genuine
<1>13. Phases'
  BY <1>2, <1>3, <1>4 DEF Phases
<1>14. Chronicle(es, starts)' /\ Moments(es, files)'
  BY <1>2, <1>3, BootKept
<1>15. IInv'
  <2>1. IInv /\ limit' = 0
    BY <1>2, <1>4
  <2>2. TypeOK'
    <3>1. TypeOK /\ offset' = 0 /\ limit' = 0 /\ Len(data') \in Nat
      BY <1>2, <1>3, <1>4, <1>9 DEF IInv, BeforeEvents
    <3> QED
      BY <1>3, <1>9, <3>1 DEF TypeOK
  <2>3. SizesAgree'
    BY <1>3, <2>1 DEF IInv, SizesAgree
  <2>4. offset = 0 /\ entry = NoEntry /\ events = <<>>
    BY <1>2, <1>4 DEF IInv, BeforeEvents
  <2> QED
    BY <1>3, <1>4, <2>2, <2>3, <2>4
       DEF IInv, DigestsBeforeFill, InBody, DigestsAreWhole, Later,
           OnlyLastEventReachesFill, EventsTileLog, Within, Follows, NothingUnparsed,
           MeasuredEventsHaveRegister, BeforeEvents, HeaderRead, BetweenEvents,
           EntryInProgress, NoEntry, NoDigests, Carries
<1>16. EventsRead(es)' /\ CursorInStep(starts)' /\ EntryRead(es, starts)' /\ Exhausted(es, files)'
  BY <1>4, NothingReadYet
<1>17. Replayed(files)'
  BY <1>2, <1>3 DEF Replayed, Matches
<1>18. Boot(es, starts, files)'
  BY <1>11, <1>12, <1>13, <1>14, <1>15, <1>16, <1>17 DEF Boot
<1> QED
  BY <1>18 DEF BootIInv

(* ---- The boot, while the copy is parsed ------------------------------- *)

\* The facts every step of the parser starts from.
LEMMA ReadingFacts ==
  ASSUME NEW es, NEW starts, NEW files, Boot(es, starts, files), Parse
  PROVE  /\ IInv /\ Phases /\ Chronicle(es, starts) /\ Moments(es, files) /\ Copied /\ Genuine
         /\ EventsRead(es) /\ CursorInStep(starts) /\ EntryRead(es, starts)
         /\ phase = "parsing" /\ es \in Seq(FirmwareEvents) /\ Len(es) \in Nat
         /\ data \in Seq(Cells) /\ Len(data) \in Nat /\ limit \in 0..Len(data) /\ offset \in Nat
         /\ written \in Seq(Cells) /\ Len(written) \in Nat
         /\ events \in Seq(Events) /\ Len(events) \in Nat
<1>1. /\ IInv /\ Phases /\ Chronicle(es, starts) /\ Moments(es, files) /\ Copied /\ Genuine
      /\ EventsRead(es) /\ CursorInStep(starts) /\ EntryRead(es, starts)
      /\ phase = "parsing"
  BY DEF Boot, Parse
<1>2. es \in Seq(FirmwareEvents) /\ written \in Seq(Cells)
  BY <1>1 DEF Chronicle
<1>3. data \in Seq(Cells) /\ limit \in 0..Len(data) /\ offset \in 0..Len(data)
      /\ events \in Seq(Events)
  BY <1>1 DEF IInv, TypeOK
<1> QED
  BY <1>1, <1>2, <1>3

\* The cells of a record that the tool may take for the log are the record's.
LEMMA RecordCells ==
  ASSUME NEW es, NEW starts, Chronicle(es, starts), Genuine, pc # "start",
         NEW i \in 1..Len(es), NEW k \in 1..Len(Record(es[i])), limit \in Nat,
         starts[i] + k <= limit \/ capture.whole
  PROVE  data[starts[i] + k] = Record(es[i])[k]
<1> DEFINE rec == Record(es[i])
<1>1. es[i] \in FirmwareEvents
  BY ElementOfSeq DEF Chronicle
<1>2. rec \in Seq(Cells)
  BY <1>1, RecordFacts DEF Laid
<1>3. /\ starts[i + 1] = starts[i] + Len(rec) /\ starts[i + 1] <= Len(written)
      /\ written[starts[i] + k] = rec[k]
  BY DEF Chronicle, RecordAt
<1>4. starts[i] \in Nat /\ Len(written) \in Nat
  BY DEF Chronicle
<1> HIDE DEF rec
<1>5. starts[i] + k \in 1..Len(written)
  <2>1. k \in 1..Len(rec) /\ Len(rec) \in Nat
    BY <1>2 DEF rec
  <2> QED
    BY <1>3, <1>4, <2>1
<1>6. data[starts[i] + k] = written[starts[i] + k]
  <2>1. CASE starts[i] + k <= limit
    BY <1>5, <2>1 DEF Genuine
  <2>2. CASE capture.whole
    BY <1>5, <2>2 DEF Genuine
  <2> QED
    BY <2>1, <2>2
<1> QED
  BY <1>3, <1>6 DEF rec

\* So are the words of a record.
LEMMA RecordWord ==
  ASSUME NEW es, NEW starts, Chronicle(es, starts), Genuine, pc # "start",
         NEW i \in 1..Len(es), NEW o \in Nat, o + 2 <= Len(Record(es[i])), limit \in Nat,
         starts[i] + o + 2 <= limit \/ capture.whole
  PROVE  U32At(data, starts[i] + o) = U32At(Record(es[i]), o)
<1>1. starts[i] \in Nat
  BY DEF Chronicle
<1>2. Len(Record(es[i])) \in Nat
  <2>1. es[i] \in FirmwareEvents
    BY ElementOfSeq DEF Chronicle
  <2>2. Record(es[i]) \in Seq(Cells)
    BY <2>1, RecordFacts DEF Laid
  <2> QED
    BY <2>2
<1>3. o + 1 \in 1..Len(Record(es[i])) /\ o + 2 \in 1..Len(Record(es[i]))
  BY <1>2
<1>4. \/ starts[i] + (o + 1) <= limit /\ starts[i] + (o + 2) <= limit
      \/ capture.whole
  BY <1>1
<1>5. data[starts[i] + (o + 1)] = Record(es[i])[o + 1]
  BY <1>3, <1>4, RecordCells
<1>6. data[starts[i] + (o + 2)] = Record(es[i])[o + 2]
  BY <1>3, <1>4, RecordCells
<1>7. starts[i] + (o + 1) = starts[i] + o + 1 /\ starts[i] + (o + 2) = starts[i] + o + 2
  <2> DEFINE s == starts[i]
  <2>1. s \in Nat
    BY <1>1
  <2> HIDE DEF s
  <2>2. s + (o + 1) = s + o + 1 /\ s + (o + 2) = s + o + 2
    BY <2>1
  <2> QED
    BY <2>2 DEF s
<1> QED
  BY <1>5, <1>6, <1>7 DEF U32At

\* A part of a sequence of cells is known by its cells.
LEMMA PartOf ==
  ASSUME NEW s \in Seq(Cells), NEW c \in Seq(Cells), NEW a \in Nat, a + Len(c) <= Len(s),
         \A k \in 1..Len(c) : s[a + k] = c[k]
  PROVE  SubSeq(s, a + 1, a + Len(c)) = c
<1> DEFINE t == SubSeq(s, a + 1, a + Len(c))
<1>1. Len(c) \in Nat /\ Len(s) \in Nat
  OBVIOUS
<1>2. t \in Seq(Cells) /\ Len(t) = Len(c) /\ \A k \in 1..Len(c) : t[k] = s[a + k]
  BY <1>1
<1> HIDE DEF t
<1>3. Len(t) = Len(c) /\ \A k \in 1..Len(t) : t[k] = c[k]
  BY <1>2
<1>4. t = c
  BY <1>2, <1>3, SeqEqual
<1> QED
  BY <1>4 DEF t

\* Sequences that agree on their first cells agree on a part of them.
LEMMA SameParts ==
  ASSUME NEW s \in Seq(Cells), NEW t \in Seq(Cells), NEW a \in Nat, NEW b \in Nat,
         a <= b, b <= Len(s), b <= Len(t), \A k \in 1..b : s[k] = t[k]
  PROVE  SubSeq(s, a + 1, b) = SubSeq(t, a + 1, b)
<1> DEFINE c == SubSeq(t, a + 1, b)
<1>1. c \in Seq(Cells) /\ Len(c) = b - a /\ \A k \in 1..(b - a) : c[k] = t[a + k]
  OBVIOUS
<1> HIDE DEF c
<1>2. a + Len(c) <= Len(s) /\ a + Len(c) = b
  BY <1>1
<1>3. ASSUME NEW k \in 1..Len(c) PROVE s[a + k] = c[k]
  <2>1. a + k \in 1..b /\ k \in 1..(b - a)
    BY <1>1
  <2> QED
    BY <1>1, <2>1
<1>4. SubSeq(s, a + 1, a + Len(c)) = c
  BY <1>1, <1>2, <1>3, PartOf
<1> QED
  BY <1>2, <1>4 DEF c

\* What no step of the parser changes.
LEMMA ParseKeeps ==
  ASSUME NEW es, NEW starts, NEW files, Boot(es, starts, files), Parse
  PROVE  /\ IInv' /\ Phases' /\ Chronicle(es, starts)' /\ Moments(es, files)' /\ Copied'
         /\ Replayed(files)' /\ data' = data /\ pc' # "start"
<1>1. /\ IInv /\ Phases /\ Chronicle(es, starts) /\ Moments(es, files)
      /\ Replayed(files) /\ phase = "parsing"
  BY DEF Boot, Parse
<1>2. /\ Next /\ phase' = (IF pc' = "accepted" THEN "replaying" ELSE phase)
      /\ UNCHANGED <<written, history, booted, capture, replayed, report>>
  BY DEF Parse
<1>3. IInv'
  BY <1>1, <1>2, StepInvariant
<1>4. pc' # "start" /\ data' = data
  BY <1>2 DEF Next, FindBody, ParseSpecIdEvent, ParseEventHeader, ParseDigest, ParseEventData,
              CheckTail, Refuse
<1>5. events' \in Seq(Events)
  BY <1>3 DEF IInv, TypeOK
<1>6. Phases'
  BY <1>1, <1>2, <1>4, <1>5 DEF Phases
<1>7. Chronicle(es, starts)' /\ Moments(es, files)'
  BY <1>1, <1>2, BootKept
<1>8. Copied' /\ Replayed(files)'
  BY <1>1, <1>2, <1>4 DEF Copied, Replayed, Matches
<1> QED
  BY <1>3, <1>4, <1>6, <1>7, <1>8

\* What is left to show of each step of the parser.
Progress(es, starts, files) ==
  /\ Genuine /\ EventsRead(es) /\ CursorInStep(starts) /\ EntryRead(es, starts)
  /\ Exhausted(es, files)

\* A refusal leaves nothing to show.
LEMMA RefuseProgress ==
  ASSUME NEW es, NEW starts, NEW files, Boot(es, starts, files), Parse, Refuse
  PROVE  Progress(es, starts, files)'
<1>1. /\ Phases /\ Genuine /\ EventsRead(es) /\ limit \in Nat /\ Len(written) \in Nat
      /\ UNCHANGED <<written, capture>>
  BY ReadingFacts DEF Parse
<1>2. pc' = "refused" /\ UNCHANGED <<data, limit, fill, offset, algo_sizes, entry, events>>
  BY DEF Refuse
<1>3. Genuine'
  <2>1. limit <= Len(written) + U32 /\ \A k \in 1..limit : k <= Len(written) => data[k] = written[k]
    <3>1. CASE pc = "start"
      BY <1>1, <3>1 DEF Phases
    <3>2. CASE pc # "start"
      BY <1>1, <3>2 DEF Genuine
    <3> QED
      BY <3>1, <3>2
  <2> QED
    BY <1>1, <1>2, <2>1 DEF Genuine
<1> QED
  BY <1>1, <1>2, <1>3 DEF Progress, EventsRead, ReadOf, DigestsRead, BankDigest, CursorInStep,
                          EntryRead, Exhausted

\* What has been read stays read.
LEMMA EventsStay ==
  ASSUME NEW es, EventsRead(es), UNCHANGED <<data, events>>
  PROVE  EventsRead(es)'
BY DEF EventsRead, ReadOf, DigestsRead, BankDigest

\* The body ends before the fill begins.
LEMMA FindBodyProgress ==
  ASSUME NEW es, NEW starts, NEW files, Boot(es, starts, files), Parse, FindBody
  PROVE  Progress(es, starts, files)'
<1>1. CASE Refuse
  BY <1>1, RefuseProgress
<1>2. CASE ~Refuse
  <2>1. /\ Phases /\ Copied /\ Genuine /\ EventsRead(es) /\ phase = "parsing" /\ pc = "start"
        /\ Len(data) \in Nat /\ Len(written) \in Nat
        /\ UNCHANGED <<written, capture>> /\ Len(data) >= SPEC_ID_HEADER_SIZE
    BY <1>2, ReadingFacts, ScaleAssumption DEF Parse, FindBody
  <2>2. PICK n \in 0..Len(data), pad \in PaddingBytes \cup {NoFill} :
          /\ PaddingStart(n, pad) /\ limit' = n /\ pc' = "spec_id"
          /\ UNCHANGED <<data, offset, algo_sizes, entry, events>>
    BY <1>2, <2>1, ScaleAssumption DEF FindBody
  <2>3. PICK m \in 0..Len(data) :
          /\ m <= Len(written) + U32
          /\ \A k \in 1..m : k <= Len(written) => data[k] = written[k]
          /\ IF ToleratePadding
               THEN \E p \in PaddingBytes : \A k \in (m + 1)..Len(data) : data[k] = p
               ELSE m = Len(data)
    BY <2>1 DEF Copied
  <2>4. n <= m
    <3> SUFFICES ASSUME n > m PROVE FALSE
      BY <2>1
    <3>1. m < Len(data) /\ Len(data) \in (m + 1)..Len(data) /\ n \in (m + 1)..Len(data) /\ n > 0
      BY <2>1
    <3>2. ToleratePadding
      BY <2>3, <3>1
    <3>3. PICK p \in PaddingBytes : \A k \in (m + 1)..Len(data) : data[k] = p
      BY <2>3, <3>2
    <3>4. data[Len(data)] = p /\ data[n] = p
      BY <3>1, <3>3
    <3>5. pad = p /\ StrippedEnd(n, pad)
      BY <2>2, <3>2, <3>4 DEF PaddingStart
    <3> QED
      BY <3>1, <3>4, <3>5 DEF StrippedEnd
  <2>5. Genuine'
    <3>1. limit' <= Len(written) + U32
      BY <2>1, <2>2, <2>3, <2>4
    <3>2. \A k \in 1..limit' : k <= Len(written) => data[k] = written[k]
      BY <2>1, <2>2, <2>3, <2>4
    <3> QED
      BY <2>1, <2>2, <3>1, <3>2 DEF Genuine
  <2> QED
    BY <2>1, <2>2, <2>5 DEF Progress, EventsRead, ReadOf, DigestsRead, BankDigest, CursorInStep,
                            EntryRead, Exhausted
<1> QED
  BY <1>1, <1>2

\* The first record read is the one firmware wrote, unless the cursor is taken
\* past the body; the digest sizes are those it lists.
LEMMA SpecIdProgress ==
  ASSUME NEW es, NEW starts, NEW files, Boot(es, starts, files), Parse, ParseSpecIdEvent
  PROVE  Progress(es, starts, files)'
<1>1. CASE Refuse
  BY <1>1, RefuseProgress
<1>2. CASE ~Refuse
  <2> DEFINE H == SPEC_ID_HEADER_SIZE
             N == Len(SpecIdRecord)
             size == U32At(data, SpecIdSizeOffset)
  <2>1. /\ IInv /\ Chronicle(es, starts) /\ Genuine /\ pc = "spec_id"
        /\ data \in Seq(Cells) /\ Len(data) \in Nat /\ limit \in 0..Len(data)
        /\ Len(written) \in Nat /\ Len(es) \in Nat
    BY ReadingFacts DEF ParseSpecIdEvent
  <2>2. /\ events' = <<Event(SpecIdEntry, SpecIdEnd)>> /\ offset' = SpecIdEnd
        /\ algo_sizes' = DigestSizes(SpecIdPayload) /\ pc' = "events"
        /\ UNCHANGED <<data, limit, fill, entry>> /\ UNCHANGED <<written, capture>>
    BY <1>2 DEF ParseSpecIdEvent, Parse
  <2>3. /\ H \in Nat /\ H >= 7 /\ SpecIdSizeOffset = H - 2
    BY ScaleAssumption DEF SpecIdSizeOffset
  <2>4. H <= Len(data) /\ N \in Nat /\ H <= N /\ N = H + U32At(SpecIdRecord, SpecIdSizeOffset)
        /\ N <= Len(written) /\ SpecIdRecord \in Seq(Cells)
        /\ \A k \in 1..N : written[k] = SpecIdRecord[k]
    BY <2>1, SpecIdAssumption DEF IInv, HeaderRead, Chronicle
  <2>5. SpecIdEnd = H + size
    BY DEF SpecIdEnd
  <2>6. size \in Nat
    BY <2>1, <2>3, <2>4, U32AtNat
  <2> HIDE DEF size, H
  <2>7. ASSUME H <= limit \/ capture.whole PROVE SpecIdEnd = N
    <3>1. H - 1 \in 1..Len(written) /\ H \in 1..Len(written)
      BY <2>1, <2>3, <2>4
    <3>2. data[H - 1] = written[H - 1] /\ data[H] = written[H]
      BY <2>1, <2>3, <2>7, <3>1 DEF Genuine
    <3>3. written[H - 1] = SpecIdRecord[H - 1] /\ written[H] = SpecIdRecord[H]
      BY <2>3, <2>4
    <3>4. (H - 2) + 1 = H - 1 /\ (H - 2) + 2 = H
      BY <2>3
    <3>5. U32At(data, H - 2) = U32At(SpecIdRecord, H - 2)
      BY <3>2, <3>3, <3>4 DEF U32At
    <3> QED
      BY <2>3, <2>4, <2>5, <3>5 DEF size
  <2>8. offset' = starts[1] \/ (offset' >= limit' /\ ~capture'.whole)
    <3>1. starts[1] = N
      BY <2>1 DEF Chronicle
    <3>2. CASE H <= limit \/ capture.whole
      BY <2>2, <2>7, <3>1, <3>2
    <3>3. CASE ~(H <= limit \/ capture.whole)
      BY <2>1, <2>2, <2>3, <2>5, <2>6, <3>3
    <3> QED
      BY <3>2, <3>3
  <2>9. ASSUME offset' < limit' PROVE algo_sizes' = ListedSizes
    <3>1. SpecIdEnd = N /\ N < limit
      BY <2>1, <2>2, <2>3, <2>5, <2>6, <2>7, <2>9
    <3>2. \A k \in 1..N : data[k] = SpecIdRecord[k]
      BY <2>1, <2>4, <3>1 DEF Genuine
    <3>3. H <= N /\ N <= Len(data)
      BY <2>1, <2>3, <2>4, <3>1
    <3>4. SubSeq(data, H + 1, N) = SubSeq(SpecIdRecord, H + 1, N)
      BY <2>1, <2>3, <2>4, <3>2, <3>3, SameParts
    <3> QED
      BY <2>2, <3>1, <3>4 DEF SpecIdPayload, ListedSizes, H
  <2>10. Len(events') = 1 /\ ~Carries(events'[1].digests, BankAlgorithm)
    <3>1. events'[1].digests = [NoDigests EXCEPT ![0] = [at |-> 2 * U32, size |-> LegacySize]]
      BY <2>2 DEF Event, SpecIdEntry
    <3>2. events'[1].digests[BankAlgorithm] = [at |-> 0, size |-> 0]
      BY <3>1, BankAssumption DEF NoDigests
    <3> QED
      BY <2>2, <3>2 DEF Carries
  <2>11. Genuine'
    BY <2>1, <2>2 DEF Genuine
  <2>12. EventsRead(es)'
    BY <2>1, <2>10 DEF EventsRead
  <2>13. CursorInStep(starts)'
    BY <2>8, <2>9, <2>10 DEF CursorInStep
  <2> QED
    BY <2>2, <2>11, <2>12, <2>13 DEF Progress, EntryRead, Exhausted
<1> QED
  BY <1>1, <1>2

\* The record the cursor is at has its header in the body.
LEMMA HeaderProgress ==
  ASSUME NEW es, NEW starts, NEW files, Boot(es, starts, files), Parse, ParseEventHeader
  PROVE  Progress(es, starts, files)'
<1>1. CASE Refuse
  BY <1>1, RefuseProgress
<1>2. CASE ~Refuse
  <2>a. PICK m : m = Len(events)
    OBVIOUS
  <2>b. PICK e : e = es[m]
    OBVIOUS
  <2> DEFINE rec == Record(e)
             D == DigestAt(e)
             count == U32At(data, offset + 2 * U32)
  <2>1. /\ IInv /\ Chronicle(es, starts) /\ Genuine /\ EventsRead(es) /\ CursorInStep(starts)
        /\ pc = "events" /\ MoreEvents
        /\ data \in Seq(Cells) /\ Len(data) \in Nat /\ limit \in 0..Len(data) /\ offset \in Nat
        /\ Len(written) \in Nat /\ Len(es) \in Nat /\ es \in Seq(FirmwareEvents)
        /\ events \in Seq(Events) /\ m \in Nat
    BY <2>a, ReadingFacts DEF ParseEventHeader
  <2>2. /\ entry' = [start |-> offset, raw |-> U32At(data, offset),
                     type |-> U32At(data, offset + U32), left |-> count, digests |-> NoDigests]
        /\ offset' = offset + EVENT2_HEADER_SIZE /\ pc' = "digests"
        /\ UNCHANGED <<data, limit, fill, algo_sizes, events>> /\ UNCHANGED <<written, capture>>
    BY <1>2, Zenon DEF ParseEventHeader, Parse
  <2>3. offset < limit /\ offset + 6 <= limit /\ limit <= Len(written) + 2
    BY <2>1 DEF MoreEvents, Remaining, Genuine
  <2>4. offset = starts[m] /\ algo_sizes = ListedSizes
    BY <2>a, <2>1, <2>3 DEF CursorInStep
  <2>5. m >= 1
    BY <2>a, <2>1 DEF IInv, BetweenEvents
  <2>6. m <= Len(es)
    <3>1. m <= Len(es) + 1
      BY <2>a, <2>1 DEF EventsRead
    <3>2. m # Len(es) + 1
      BY <2>1, <2>3, <2>4 DEF Chronicle
    <3> QED
      BY <2>1, <3>1, <3>2
  <2>7. m \in 1..Len(es) /\ e \in FirmwareEvents
    <3>1. m \in 1..Len(es)
      BY <2>1, <2>5, <2>6
    <3> QED
      BY <2>b, <2>1, <3>1, ElementOfSeq
  <2>8. Laid(e, D)
    BY <2>7, RecordFacts
  <2>9. /\ D[0] = 6 /\ rec \in Seq(Cells) /\ 8 <= Len(rec)
        /\ U32At(rec, 0) = e.register + RegisterBase
        /\ U32At(rec, 2) = e.type /\ U32At(rec, 4) = Len(e.digests)
        /\ Len(e.digests) \in Nat
    <3>1. e.digests \in Seq([algo : Cells, cells : Seq(Cells)]) /\ e.data \in Seq(Cells)
      BY <2>7, FirmwareAssumption
    <3>2. Len(e.digests) \in Nat /\ Len(e.data) \in Nat
      BY <3>1
    <3>3. /\ D \in [0..Len(e.digests) -> Nat] /\ D[0] = 6 /\ D[0] <= D[Len(e.digests)]
          /\ rec \in Seq(Cells) /\ Len(rec) = D[Len(e.digests)] + 2 + Len(e.data)
          /\ U32At(rec, 0) = e.register + RegisterBase
          /\ U32At(rec, 2) = e.type /\ U32At(rec, 4) = Len(e.digests)
      BY <2>8, <3>2 DEF Laid
    <3>4. D[Len(e.digests)] \in Nat
      BY <3>2, <3>3
    <3> HIDE DEF D, rec
    <3> QED
      BY <3>2, <3>3, <3>4
  <2>10. /\ U32At(data, offset) = e.register + RegisterBase
         /\ U32At(data, offset + 2) = e.type /\ count = Len(e.digests)
    <3>1. \A o \in {0, 2, 4} : U32At(data, starts[m] + o) = U32At(rec, o)
      <4> SUFFICES ASSUME NEW o \in {0, 2, 4} PROVE U32At(data, starts[m] + o) = U32At(rec, o)
        OBVIOUS
      <4>1. o \in Nat /\ o + 2 <= 6
        OBVIOUS
      <4>2. limit \in Nat /\ pc # "start" /\ o + 2 <= Len(Record(es[m]))
        BY <2>b, <2>1, <2>9, <4>1
      <4>3. starts[m] + o + 2 <= limit
        <5>1. offset + o + 2 <= limit
          BY <2>1, <2>3, <4>1
        <5> QED
          BY <2>4, <5>1
      <4> QED
        BY <2>b, <2>1, <2>7, <4>1, <4>2, <4>3, RecordWord
    <3>2. starts[m] + 0 = offset /\ starts[m] + 2 = offset + 2 /\ starts[m] + 4 = offset + 2 * U32
      BY <2>1, <2>4
    <3> HIDE DEF rec
    <3> QED
      BY <2>9, <3>1, <3>2
  <2>11. EntryRead(es, starts)'
    <3>1. /\ entry'.start = starts[m] /\ entry'.left = Len(e.digests)
          /\ entry'.raw = e.register + RegisterBase /\ entry'.type = e.type
          /\ entry'.digests = NoDigests
      BY <2>2, <2>4, <2>10
    <3>2. offset' = starts[m] + D[0]
      BY <2>2, <2>4, <2>9
    <3>3. Len(e.digests) - entry'.left = 0
      BY <2>9, <3>1
    <3>4. algo_sizes' = ListedSizes /\ Len(events') = m
      BY <2>a, <2>2, <2>4
    <3>5. DigestsRead(entry.digests, e, 0)'
      BY <3>1 DEF DigestsRead, NoDigests, Carries
    <3> QED
      BY <2>b, <2>6, <2>9, <3>1, <3>2, <3>3, <3>4, <3>5 DEF EntryRead
  <2>12. EventsRead(es)'
    BY <2>1, <2>2, EventsStay
  <2>13. Genuine'
    BY <2>1, <2>2 DEF Genuine
  <2> QED
    BY <2>2, <2>11, <2>12, <2>13 DEF Progress, CursorInStep, Exhausted
<1> QED
  BY <1>1, <1>2

\* Where the record in progress is read, and how far.
LEMMA EntryFacts ==
  ASSUME NEW es, NEW starts, NEW files, Boot(es, starts, files), Parse, pc = "digests",
         NEW m, m = Len(events), NEW e, e = es[m]
  PROVE  /\ m \in 1..Len(es) /\ e \in FirmwareEvents /\ Laid(e, DigestAt(e))
         /\ Len(e.digests) \in Nat /\ entry.left \in 0..Len(e.digests)
         /\ entry.start = starts[m] /\ starts[m] \in Nat
         /\ entry.raw = e.register + RegisterBase /\ entry.type = e.type
         /\ offset = starts[m] + DigestAt(e)[Len(e.digests) - entry.left]
         /\ DigestsRead(entry.digests, e, Len(e.digests) - entry.left)
         /\ algo_sizes = ListedSizes
<1>1. /\ IInv /\ Chronicle(es, starts) /\ EntryRead(es, starts) /\ m \in Nat /\ Len(es) \in Nat
      /\ es \in Seq(FirmwareEvents)
  BY ReadingFacts
<1>2. /\ m <= Len(es) /\ entry.start = starts[m] /\ entry.left <= Len(e.digests)
      /\ entry.raw = e.register + RegisterBase /\ entry.type = e.type
      /\ offset = starts[m] + DigestAt(e)[Len(e.digests) - entry.left]
      /\ DigestsRead(entry.digests, e, Len(e.digests) - entry.left)
      /\ algo_sizes = ListedSizes
  BY <1>1, Zenon DEF EntryRead
<1>3. m >= 1
  <2>1. events # <<>> /\ events \in Seq(Events)
    BY <1>1 DEF IInv, EntryInProgress, TypeOK
  <2> QED
    BY <2>1
<1>4. m \in 1..Len(es)
  BY <1>1, <1>2, <1>3
<1>5. e \in FirmwareEvents
  BY <1>1, <1>4, ElementOfSeq
<1>6. Laid(e, DigestAt(e))
  BY <1>5, RecordFacts
<1>7. Len(e.digests) \in Nat
  <2>1. e.digests \in Seq([algo : Cells, cells : Seq(Cells)])
    BY <1>5, FirmwareAssumption
  <2> QED
    BY <2>1
<1>8. entry.left \in Nat
  BY <1>1 DEF IInv, TypeOK, Entries
<1>9. starts[m] \in Nat
  BY <1>1, <1>4 DEF Chronicle
<1>10. entry.left \in 0..Len(e.digests)
  BY <1>2, <1>7, <1>8
<1> QED
  BY <1>2, <1>4, <1>5, <1>6, <1>7, <1>9, <1>10

\* A digest accepted is the next one of the record.
LEMMA DigestProgress ==
  ASSUME NEW es, NEW starts, NEW files, Boot(es, starts, files), Parse, ParseDigest
  PROVE  Progress(es, starts, files)'
<1>1. CASE Refuse
  BY <1>1, RefuseProgress
<1>2. CASE ~Refuse
  <2>1. PICK m : m = Len(events)
    OBVIOUS
  <2>2. PICK e : e = es[m]
    OBVIOUS
  <2> DEFINE rec == Record(e)
             D == DigestAt(e)
             c == Len(e.digests)
             algo == data[offset + 1]
             size == SizeOf(algo)
  <2>3. PICK j : j = c - entry.left
    OBVIOUS
  <2>4. PICK i : i = j + 1
    OBVIOUS
  <2>5. /\ IInv /\ Chronicle(es, starts) /\ Genuine /\ EventsRead(es)
        /\ pc = "digests" /\ entry.left > 0
        /\ data \in Seq(Cells) /\ Len(data) \in Nat /\ limit \in 0..Len(data) /\ offset \in Nat
        /\ Len(es) \in Nat
    BY ReadingFacts DEF ParseDigest
  <2>6. /\ m \in 1..Len(es) /\ e \in FirmwareEvents /\ Laid(e, D)
        /\ c \in Nat /\ entry.left \in 0..c
        /\ entry.start = starts[m] /\ starts[m] \in Nat
        /\ entry.raw = e.register + RegisterBase /\ entry.type = e.type
        /\ offset = starts[m] + D[j]
        /\ DigestsRead(entry.digests, e, j)
        /\ algo_sizes = ListedSizes
    <3> HIDE DEF D
    <3>1. pc = "digests"
      BY <2>5
    <3> QED
      BY <2>1, <2>2, <2>3, <3>1, EntryFacts DEF D
  <2>7. /\ Require(offset, U16) /\ size # 0
        /\ ~Carries(entry.digests, algo) /\ RequireStrict(offset + U16, size)
        /\ entry' = [entry EXCEPT !.left = @ - 1,
                                  !.digests[algo] = [at |-> offset + U16, size |-> size]]
        /\ offset' = offset + U16 + size
        /\ UNCHANGED <<data, limit, fill, pc, algo_sizes, events>> /\ UNCHANGED <<written, capture>>
    BY <1>2, Zenon DEF ParseDigest, Parse
  <2>8. algo \in Cells /\ size \in Nat \ {0}
    <3>1. offset + 1 <= Len(data)
      BY <2>5, <2>7 DEF Require, RequireStrict
    <3>2. algo \in Cells
      <4>1. offset + 1 \in 1..Len(data)
        BY <2>5, <3>1
      <4> QED
        BY <2>5, <4>1, ElementOfSeq
    <3>3. size \in Nat
      BY <2>5, <3>2, DigestSizesAssumption DEF IInv, TypeOK, SizeOf
    <3> QED
      BY <2>7, <3>2, <3>3
  <2>9. offset + 1 + size <= limit
    BY <2>7 DEF RequireStrict
  <2>10. j \in Nat /\ i \in 1..c /\ j \in 0..c /\ i \in 0..c /\ i - 1 = j
    <3> HIDE DEF c
    <3> QED
      BY <2>3, <2>4, <2>5, <2>6
  <2> DEFINE cells == e.digests[i].cells
  <2>11. /\ D \in [0..c -> Nat] /\ \A k \in 0..c : D[k] <= D[c]
         /\ rec \in Seq(Cells) /\ Len(rec) = D[c] + 2 + Len(e.data)
         /\ D[i] = D[j] + 1 + Len(cells)
         /\ rec[D[j] + 1] = e.digests[i].algo
         /\ \A k \in 1..Len(cells) : rec[D[j] + 1 + k] = cells[k]
    BY <2>6, <2>10 DEF Laid
  <2>12. /\ e.data \in Seq(Cells) /\ Len(e.data) \in Nat
         /\ e.digests[i].algo \in Cells /\ cells \in Seq(Cells) /\ Len(cells) \in Nat
         /\ Len(cells) = ListedSize(e.digests[i].algo)
    <3>1. e.digests \in Seq([algo : Cells, cells : Seq(Cells)]) /\ e.data \in Seq(Cells)
      BY <2>6, FirmwareAssumption
    <3>2. e.digests[i] \in [algo : Cells, cells : Seq(Cells)]
      BY <2>10, <3>1, ElementOfSeq
    <3>3. Len(cells) = ListedSize(e.digests[i].algo)
      BY <2>6, <2>10, FirmwareAssumption
    <3> QED
      BY <3>1, <3>2, <3>3
  <2> HIDE DEF rec, D, c, algo, size, cells
  <2>13. PICK p, l, b : p = D[j] /\ l = Len(cells) /\ b = starts[m]
    OBVIOUS
  <2>14. /\ p \in Nat /\ l \in Nat /\ b \in Nat /\ offset = b + p /\ D[i] = p + 1 + l
         /\ Len(rec) \in Nat /\ p + 1 + l <= Len(rec)
    <3>1. PICK q, z, n : q = D[c] /\ z = Len(e.data) /\ n = Len(rec)
      OBVIOUS
    <3>2. p \in Nat /\ q \in Nat /\ l \in Nat /\ z \in Nat /\ D[i] = p + 1 + l /\ D[i] <= q
          /\ n = q + 2 + z
      BY <2>6, <2>10, <2>11, <2>12, <2>13, <3>1
    <3>3. p + 1 + l <= q
      BY <3>2
    <3>4. n \in Nat /\ p + 1 + l <= n
      BY <3>2, <3>3
    <3> QED
      BY <2>6, <2>13, <3>1, <3>2, <3>4
  <2>15. algo = e.digests[i].algo
    <3>1. p + 1 \in 1..Len(rec) /\ b + (p + 1) <= limit /\ limit \in Nat /\ b + (p + 1) = offset + 1
      BY <2>5, <2>8, <2>9, <2>14
    <3>2. data[b + (p + 1)] = rec[p + 1]
      BY <2>2, <2>5, <2>6, <2>13, <3>1, RecordCells DEF rec
    <3> QED
      BY <2>11, <2>13, <3>1, <3>2 DEF algo
  <2>16. size = l
    BY <2>6, <2>12, <2>13, <2>15 DEF size, SizeOf, ListedSize
  <2>17. SubSeq(data, offset + 1 + 1, offset + 1 + size) = cells
    <3>1. ASSUME NEW k \in 1..l PROVE data[offset + 1 + k] = cells[k]
      <4>1. PICK t : t = p + 1 + k
        OBVIOUS
      <4>2. t \in 1..Len(rec) /\ b + t <= limit /\ limit \in Nat /\ b + t = offset + 1 + k
        BY <2>5, <2>9, <2>14, <2>16, <4>1
      <4>3. data[b + t] = rec[t]
        BY <2>2, <2>5, <2>6, <2>13, <4>2, RecordCells DEF rec
      <4>4. rec[t] = cells[k]
        BY <2>11, <2>13, <4>1
      <4> QED
        BY <4>2, <4>3, <4>4
    <3>2. PICK a : a = offset + 1
      OBVIOUS
    <3>3. a \in Nat /\ a + Len(cells) <= Len(data)
      BY <2>5, <2>9, <2>13, <2>16, <3>2
    <3>4. \A k \in 1..Len(cells) : data[a + k] = cells[k]
      BY <2>13, <3>1, <3>2
    <3>5. SubSeq(data, a + 1, a + Len(cells)) = cells
      BY <2>5, <2>12, <3>3, <3>4, PartOf
    <3> QED
      BY <2>13, <2>16, <3>2, <3>5
  <2> DEFINE old == entry.digests
             new == [old EXCEPT ![algo] = [at |-> offset + U16, size |-> size]]
  <2>18. /\ entry'.digests = new /\ entry'.left = entry.left - 1
         /\ entry'.start = entry.start /\ entry'.raw = entry.raw /\ entry'.type = entry.type
         /\ old \in Digests
    <3>1. entry \in Entries
      BY <2>5 DEF IInv, TypeOK
    <3> QED
      BY <2>7, <3>1 DEF Entries
  <2> HIDE DEF old
  <2>19. /\ new[algo] = [at |-> offset + 1, size |-> size]
         /\ \A a \in Cells : a # algo => new[a] = old[a]
    BY <2>8, <2>18 DEF Digests
  <2> HIDE DEF new
  <2>20. ASSUME NEW a \in Cells
         PROVE  /\ Carries(new, a) <=> \E k \in 1..i : e.digests[k].algo = a
                /\ \A k \in 1..i : e.digests[k].algo = a => BankDigest(new[a]) = e.digests[k].cells
    <3>1. \A k \in 1..i : k = i \/ k \in 1..j
      BY <2>4, <2>10
    <3>2. \A k \in 1..j : k \in 1..i
      BY <2>4, <2>10
    <3>3. i \in 1..i
      BY <2>4, <2>10
    <3>4. /\ Carries(old, a) <=> \E k \in 1..j : e.digests[k].algo = a
          /\ \A k \in 1..j : e.digests[k].algo = a => BankDigest(old[a]) = e.digests[k].cells
      BY <2>6 DEF DigestsRead, old
    <3>5. CASE a = algo
      <4>1. Carries(new, a)
        BY <2>8, <2>19, <3>5 DEF Carries
      <4>2. ~Carries(old, a)
        BY <2>7, <3>5 DEF old
      <4>3. BankDigest(new[a]) = cells
        BY <2>17, <2>19, <3>5 DEF BankDigest
      <4>4. \A k \in 1..i : e.digests[k].algo = a => k = i
        BY <3>1, <3>4, <4>2
      <4> QED
        BY <2>15, <3>3, <3>5, <4>1, <4>3, <4>4 DEF cells
    <3>6. CASE a # algo
      <4>1. new[a] = old[a] /\ (Carries(new, a) <=> Carries(old, a))
        BY <2>19, <3>6 DEF Carries
      <4>2. \A k \in 1..i : e.digests[k].algo = a => k \in 1..j
        BY <2>15, <3>1, <3>6
      <4> QED
        BY <3>2, <3>4, <4>1, <4>2
    <3> QED
      BY <3>5, <3>6
  <2>21. EntryRead(es, starts)'
    <3>1. DigestsRead(entry.digests, e, i)'
      <4>1. entry'.digests = new /\ data' = data
        BY <2>7, <2>18
      <4> HIDE DEF new
      <4> SUFFICES ASSUME NEW a \in Cells
                   PROVE  /\ Carries(new, a) <=> \E k \in 1..i : e.digests[k].algo = a
                          /\ \A k \in 1..i : e.digests[k].algo = a =>
                               SubSeq(data, new[a].at + 1, new[a].at + new[a].size)
                                 = e.digests[k].cells
        BY <4>1 DEF DigestsRead, BankDigest, Carries
      <4> QED
        BY <2>20 DEF BankDigest
    <3>2. c - entry'.left = i /\ entry'.left <= c
      BY <2>3, <2>4, <2>5, <2>6, <2>18
    <3>3. offset' = starts[m] + D[i]
      BY <2>6, <2>7, <2>13, <2>14, <2>16
    <3>4. Len(events') = m /\ m <= Len(es) /\ algo_sizes' = ListedSizes
      BY <2>1, <2>5, <2>6, <2>7
    <3> QED
      BY <2>2, <2>6, <2>18, <3>1, <3>2, <3>3, <3>4 DEF EntryRead, c, D
  <2>22. EventsRead(es)'
    BY <2>5, <2>7, EventsStay
  <2>23. Genuine'
    BY <2>5, <2>7 DEF Genuine
  <2> QED
    BY <2>5, <2>7, <2>21, <2>22, <2>23 DEF Progress, CursorInStep, Exhausted
<1> QED
  BY <1>1, <1>2

\* Every record has a header and the size of its data.
LEMMA RecordShape ==
  ASSUME NEW e \in FirmwareEvents
  PROVE  /\ Record(e) \in Seq(Cells) /\ Len(Record(e)) \in Nat
         /\ Len(e.digests) \in Nat /\ Len(e.data) \in Nat
         /\ DigestAt(e)[Len(e.digests)] \in Nat /\ 6 <= DigestAt(e)[Len(e.digests)]
         /\ Len(Record(e)) = DigestAt(e)[Len(e.digests)] + 2 + Len(e.data)
         /\ U32At(Record(e), 0) = e.register + RegisterBase
         /\ U32At(Record(e), 4) = Len(e.digests)
         /\ U32At(Record(e), DigestAt(e)[Len(e.digests)]) = Len(e.data)
<1> DEFINE D == DigestAt(e)
           rec == Record(e)
<1>1. e.digests \in Seq([algo : Cells, cells : Seq(Cells)]) /\ e.data \in Seq(Cells)
  BY FirmwareAssumption
<1>2. Len(e.digests) \in Nat /\ Len(e.data) \in Nat
  BY <1>1
<1>3. /\ D \in [0..Len(e.digests) -> Nat] /\ D[0] = 6 /\ D[0] <= D[Len(e.digests)]
      /\ rec \in Seq(Cells) /\ Len(rec) = D[Len(e.digests)] + 2 + Len(e.data)
      /\ U32At(rec, 0) = e.register + RegisterBase /\ U32At(rec, 4) = Len(e.digests)
      /\ U32At(rec, D[Len(e.digests)]) = Len(e.data)
  BY <1>2, RecordFacts DEF Laid
<1>4. D[Len(e.digests)] \in Nat
  BY <1>2, <1>3
<1> HIDE DEF D, rec
<1>5. Len(rec) \in Nat
  BY <1>3
<1> QED
  BY <1>2, <1>3, <1>4, <1>5 DEF D, rec

\* The event whose digests have all been read is the one firmware wrote, and its
\* data ends where the next record begins, unless it ends past the body.
LEMMA DataProgress ==
  ASSUME NEW es, NEW starts, NEW files, Boot(es, starts, files), Parse, ParseEventData
  PROVE  Progress(es, starts, files)'
<1>1. CASE Refuse
  BY <1>1, RefuseProgress
<1>2. CASE ~Refuse
  <2>1. PICK m : m = Len(events)
    OBVIOUS
  <2>2. PICK e : e = es[m]
    OBVIOUS
  <2> DEFINE rec == Record(e)
             c == Len(e.digests)
             size == U32At(data, offset)
             end == offset + U32 + size
  <2>3. /\ IInv /\ Chronicle(es, starts) /\ Genuine /\ EventsRead(es)
        /\ pc = "digests" /\ entry.left = 0
        /\ data \in Seq(Cells) /\ Len(data) \in Nat /\ limit \in 0..Len(data) /\ offset \in Nat
        /\ Len(es) \in Nat /\ events \in Seq(Events)
    BY ReadingFacts DEF ParseEventData
  <2>4. /\ m \in 1..Len(es) /\ e \in FirmwareEvents
        /\ c \in Nat
        /\ entry.start = starts[m] /\ starts[m] \in Nat
        /\ entry.raw = e.register + RegisterBase /\ entry.type = e.type
        /\ offset = starts[m] + DigestAt(e)[c]
        /\ DigestsRead(entry.digests, e, c)
        /\ algo_sizes = ListedSizes
    <3>1. c - entry.left = c
      <4>1. c \in Nat
        BY <2>1, <2>2, <2>3, EntryFacts
      <4> QED
        BY <2>3, <4>1
    <3> QED
      BY <2>1, <2>2, <2>3, <3>1, EntryFacts
  <2>5. /\ Require(offset, U32) /\ Require(offset + U32, size)
        /\ events' = Append(events, Event(entry, end)) /\ offset' = end /\ pc' = "events"
        /\ UNCHANGED <<data, limit, fill, algo_sizes>> /\ UNCHANGED <<written, capture>>
    BY <1>2, Zenon DEF ParseEventData, Parse
  <2>6. PICK p, l, b, r : p = DigestAt(e)[c] /\ l = Len(e.data) /\ b = starts[m] /\ r = Len(rec)
    OBVIOUS
  <2>7. /\ p \in Nat /\ l \in Nat /\ b \in Nat /\ r = p + 2 + l /\ U32At(rec, p) = l
        /\ offset = b + p
    BY <2>4, <2>6, RecordShape
  <2>8. starts[m + 1] = b + r
    BY <2>2, <2>3, <2>4, <2>6 DEF Chronicle
  <2>9. offset' = starts[m + 1] \/ (offset' >= limit' /\ ~capture'.whole)
    <3>1. CASE offset + 2 <= limit \/ capture.whole
      <4>1. p + 2 <= Len(rec) /\ (b + p + 2 <= limit \/ capture.whole) /\ limit \in Nat
        <5>1. p + 2 <= r
          BY <2>7
        <5>2. b + p + 2 = offset + 2
          BY <2>7
        <5> QED
          BY <2>3, <2>6, <3>1, <5>1, <5>2
      <4>2. U32At(data, b + p) = U32At(rec, p)
        <5>1. /\ p + 2 <= Len(Record(es[m])) /\ (starts[m] + p + 2 <= limit \/ capture.whole)
              /\ pc # "start" /\ p \in Nat /\ limit \in Nat
          BY <2>2, <2>3, <2>6, <2>7, <4>1
        <5>2. U32At(data, starts[m] + p) = U32At(Record(es[m]), p)
          BY <2>3, <2>4, <5>1, RecordWord
        <5> QED
          BY <2>2, <2>6, <5>2
      <4>3. size = l
        BY <2>7, <4>2
      <4> HIDE DEF size
      <4>4. end = b + r
        BY <2>7, <4>3
      <4> QED
        BY <2>5, <2>8, <4>4
    <3>2. CASE ~(offset + 2 <= limit \/ capture.whole)
      <4>1. offset <= Len(data)
        BY <2>3 DEF IInv, TypeOK
      <4>2. offset + 2 <= Len(data)
        BY <2>3, <2>5, <4>1, RequireInBuffer DEF IInv
      <4>3. size \in Nat
        BY <2>3, <4>2, U32AtNat
      <4> HIDE DEF size
      <4>4. end >= limit
        BY <2>3, <3>2, <4>3
      <4> QED
        BY <2>5, <3>2, <4>4
    <3> QED
      BY <3>1, <3>2
  <2> DEFINE event == Event(entry, end)
  <2>10. /\ event.register = e.register /\ event.type = e.type /\ event.digests = entry.digests
    <3>1. event.register = entry.raw - RegisterBase /\ event.type = entry.type
          /\ event.digests = entry.digests
      BY DEF Event
    <3>2. e.register \in Int /\ RegisterBase \in Int
      BY <2>4, FirmwareAssumption, RegistersAssumption
    <3> HIDE DEF event
    <3>3. (e.register + RegisterBase) - RegisterBase = e.register
      BY <3>2
    <3> QED
      BY <2>4, <3>1, <3>3
  <2> HIDE DEF event, end
  <2>11. events' = Append(events, event)
    BY <2>5 DEF event
  <2>12. /\ Len(events') = m + 1 /\ events'[m + 1] = event
         /\ \A i \in 1..m : events'[i] = events[i]
    <3>1. event \in Events
      <4>1. events' \in Seq(Events) /\ Len(events) + 1 \in 1..Len(events')
            /\ events'[Len(events) + 1] = event
        <5>1. IInv'
          BY ParseKeeps
        <5> QED
          BY <2>3, <2>11, <5>1 DEF IInv, TypeOK
      <4> QED
        BY <4>1, ElementOfSeq
    <3> QED
      BY <2>1, <2>3, <2>11, <3>1
  <2>13. EventsRead(es)'
    <3>1. ASSUME NEW i \in 1..m PROVE ReadOf(events[i + 1], es[i])'
      <4>1. CASE i = m
        <5>1. (events[i + 1])' = event
          BY <2>12, <4>1
        <5>2. DigestsRead(events[i + 1].digests, e, c)'
          BY <2>4, <2>5, <2>10, <5>1 DEF DigestsRead, BankDigest
        <5> QED
          BY <2>2, <2>10, <4>1, <5>1, <5>2 DEF ReadOf
      <4>2. CASE i # m
        <5>1. i \in 1..(m - 1) /\ i + 1 \in 1..m
          BY <2>4, <4>2
        <5>2. (events[i + 1])' = events[i + 1]
          BY <2>12, <5>1
        <5>3. ReadOf(events[i + 1], es[i])
          BY <2>1, <2>3, <5>1 DEF EventsRead
        <5>4. data' = data
          BY <2>5
        <5> PICK v, w : v = events[i + 1] /\ w = es[i]
          OBVIOUS
        <5>5. ReadOf(v, w)'
          BY <5>3, <5>4 DEF ReadOf, DigestsRead, BankDigest
        <5> QED
          BY <5>2, <5>5
      <4> QED
        BY <4>1, <4>2
    <3>2. Len(events') <= Len(es) + 1 /\ Len(events') - 1 = m
      BY <2>3, <2>4, <2>12
    <3>3. ~Carries(events'[1].digests, BankAlgorithm)
      <4>1. events'[1] = events[1] /\ events # <<>>
        BY <2>1, <2>3, <2>4, <2>12
      <4> QED
        BY <2>3, <4>1 DEF EventsRead
    <3> QED
      BY <3>1, <3>2, <3>3 DEF EventsRead, Carries
  <2>14. CursorInStep(starts)'
    BY <2>4, <2>5, <2>9, <2>12 DEF CursorInStep
  <2>15. Genuine'
    BY <2>3, <2>5 DEF Genuine
  <2> QED
    BY <2>5, <2>13, <2>14, <2>15 DEF Progress, EntryRead, Exhausted
<1> QED
  BY <1>1, <1>2

\* A log that was copied whole is accepted only if no record that measured
\* anything is left: the rest is all of one cell, and that cell is zero.
LEMMA TailProgress ==
  ASSUME NEW es, NEW starts, NEW files, Boot(es, starts, files), Parse, CheckTail
  PROVE  Progress(es, starts, files)'
<1>1. CASE Refuse
  BY <1>1, RefuseProgress
<1>2. CASE ~Refuse
  <2>1. PICK m, n : m = Len(events) /\ n = Len(es)
    OBVIOUS
  <2>2. /\ IInv /\ Chronicle(es, starts) /\ Moments(es, files) /\ Genuine /\ EventsRead(es)
        /\ CursorInStep(starts) /\ pc = "events"
        /\ data \in Seq(Cells) /\ Len(data) \in Nat /\ limit \in Nat /\ offset \in Nat
        /\ n \in Nat /\ m \in Nat /\ es \in Seq(FirmwareEvents) /\ Len(written) \in Nat
    BY <2>1, ReadingFacts DEF CheckTail
  <2>3. /\ OnlyPadding(IF Terminated(offset) THEN offset + U32 ELSE offset) /\ pc' = "accepted"
        /\ UNCHANGED <<data, limit, fill, offset, algo_sizes, entry, events>>
        /\ UNCHANGED <<written, capture>>
    BY <1>2, Zenon DEF CheckTail, Parse
  <2>4. m >= 1 /\ m <= n + 1
    BY <2>1, <2>2 DEF IInv, BetweenEvents, EventsRead
  <2>5. ASSUME capture.whole PROVE files[m - 1] = files[n]
    <3>1. /\ offset = starts[m] /\ Len(written) <= Len(data)
      BY <2>1, <2>2, <2>5 DEF CursorInStep, Genuine
    <3>2. CASE m = n + 1
      BY <2>2, <3>2
    <3>3. CASE m <= n
      <4>1. ASSUME NEW i \in m..n
            PROVE  /\ i \in 1..n /\ es[i] \in FirmwareEvents /\ starts[i] \in Nat
                   /\ starts[i + 1] = starts[i] + Len(Record(es[i]))
                   /\ starts[i + 1] <= Len(written)
                   /\ U32At(data, starts[i]) = es[i].register + RegisterBase
                   /\ U32At(data, starts[i] + 4) = Len(es[i].digests)
                   /\ 8 <= Len(Record(es[i])) /\ Len(Record(es[i])) \in Nat
        <5>1. i \in 1..n /\ i \in 1..Len(es)
          BY <2>1, <2>2, <2>4
        <5>2. es[i] \in FirmwareEvents
          BY <2>1, <2>2, <5>1, ElementOfSeq
        <5>3. /\ starts[i] \in Nat /\ starts[i + 1] = starts[i] + Len(Record(es[i]))
              /\ starts[i + 1] <= Len(written)
          <6>1. i \in 1..(Len(es) + 1)
            BY <2>1, <2>2, <5>1
          <6> QED
            BY <2>2, <5>1, <6>1 DEF Chronicle
        <5>4. PICK e, r, b : e = es[i] /\ r = Len(Record(e)) /\ b = starts[i]
          OBVIOUS
        <5>5. r \in Nat /\ 8 <= r /\ U32At(Record(e), 0) = e.register + RegisterBase
              /\ U32At(Record(e), 4) = Len(e.digests)
          <6>1. PICK p, l : p = DigestAt(e)[Len(e.digests)] /\ l = Len(e.data)
            OBVIOUS
          <6>2. p \in Nat /\ l \in Nat /\ 6 <= p /\ r = p + 2 + l
                /\ U32At(Record(e), 0) = e.register + RegisterBase
                /\ U32At(Record(e), 4) = Len(e.digests)
            BY <5>2, <5>4, <6>1, RecordShape
          <6> QED
            BY <6>2
        <5>6. pc # "start" /\ b + 0 = b
          BY <2>2, <5>3, <5>4
        <5>7. U32At(data, b + 0) = U32At(Record(e), 0)
          BY <2>2, <2>5, <5>1, <5>4, <5>5, <5>6, RecordWord
        <5>8. U32At(data, b + 4) = U32At(Record(e), 4)
          BY <2>2, <2>5, <5>1, <5>4, <5>5, <5>6, RecordWord
        <5> QED
          BY <5>1, <5>2, <5>3, <5>4, <5>5, <5>6, <5>7, <5>8
      <4>2. m \in m..n
        BY <2>2, <3>3
      <4>3. offset + 8 <= Len(data)
        <5>1. PICK b, r : b = starts[m] /\ r = Len(Record(es[m]))
          OBVIOUS
        <5>2. b \in Nat /\ r \in Nat /\ 8 <= r /\ b + r <= Len(written)
          BY <4>1, <4>2, <5>1
        <5> QED
          BY <2>2, <3>1, <5>1, <5>2
      <4>4. U32At(data, offset) # LOG_TERMINATOR
        <5>1. es[m].register + RegisterBase # LOG_TERMINATOR
          BY <4>1, <4>2, FirmwareAssumption
        <5> QED
          BY <3>1, <4>1, <4>2, <5>1
      <4>5. PICK pad \in PaddingBytes : \A k \in (offset + 1)..Len(data) : data[k] = pad
        BY <2>3, <4>4 DEF Terminated, OnlyPadding
      <4>6. pad = 0
        <5>1. data[offset + 1] = pad /\ data[offset + 2] = pad
          BY <2>2, <4>3, <4>5
        <5>2. pad # MaxByte
          <6> SUFFICES ASSUME pad = MaxByte PROVE FALSE
            OBVIOUS
          <6>1. U32At(data, offset) = MaxByte + MaxByte * (MaxByte + 1)
            BY <5>1 DEF U32At
          <6>2. MaxByte * (MaxByte + 1) \in Int /\ MaxByte \in Int
            BY ScaleAssumption
          <6>3. U32At(data, offset) = LOG_TERMINATOR
            BY <6>1, <6>2 DEF LOG_TERMINATOR
          <6> QED
            BY <4>4, <6>3
        <5> QED
          BY <5>2 DEF PaddingBytes
      <4> DEFINE Good(i) == files[i - 1] = files[m - 1] /\ starts[i] >= offset
                 T == {i \in m..(n + 1) : ~Good(i)}
      <4>7. \A i \in m..(n + 1) : Good(i)
        <5> SUFFICES ASSUME T # {} PROVE FALSE
          OBVIOUS
        <5>1. PICK t \in T : \A u \in T : t <= u
          <6>1. T \in SUBSET Nat
            BY <2>2
          <6> HIDE DEF T
          <6> QED
            BY <6>1, LeastMember
        <5>2. t \in m..(n + 1) /\ ~Good(t)
          OBVIOUS
        <5>3. t # m
          <6>1. Good(m)
            BY <2>2, <3>1
          <6> HIDE DEF Good
          <6> QED
            BY <5>2, <6>1
        <5>4. PICK i : i = t - 1
          OBVIOUS
        <5>5. i \in m..n /\ i + 1 = t /\ Good(i)
          <6>1. i \in m..n /\ i \in m..(n + 1) /\ i + 1 = t /\ ~(t <= i)
            BY <2>2, <5>2, <5>3, <5>4
          <6>2. i \notin T
            BY <5>1, <6>1
          <6> HIDE DEF Good
          <6> QED
            BY <6>1, <6>2
        <5>6. PICK b, r : b = starts[i] /\ r = Len(Record(es[i]))
          OBVIOUS
        <5>7. b \in Nat /\ r \in Nat /\ 8 <= r /\ starts[t] = b + r /\ b + r <= Len(written)
              /\ b >= offset /\ U32At(data, b + 4) = Len(es[i].digests)
          BY <4>1, <5>5, <5>6
        <5>8. Len(es[i].digests) = 0
          <6>1. b + 4 + 1 \in (offset + 1)..Len(data) /\ b + 4 + 2 \in (offset + 1)..Len(data)
            <7>1. PICK w, d, o : w = Len(written) /\ d = Len(data) /\ o = offset
              OBVIOUS
            <7>2. /\ w \in Nat /\ d \in Nat /\ o \in Nat /\ b \in Nat /\ r \in Nat
                  /\ 8 <= r /\ b + r <= w /\ w <= d /\ o <= b
              BY <2>2, <3>1, <5>7, <7>1
            <7>3. b + 4 + 1 \in (o + 1)..d /\ b + 4 + 2 \in (o + 1)..d
              BY <7>2
            <7> QED
              BY <7>1, <7>3
          <6>2. data[b + 4 + 1] = 0 /\ data[b + 4 + 2] = 0
            BY <4>5, <4>6, <6>1
          <6>3. U32At(data, b + 4) = 0 + 0 * (MaxByte + 1)
            BY <6>2 DEF U32At
          <6> QED
            BY <5>7, <6>3, ScaleAssumption
        <5>9. files[t - 1] = files[m - 1]
          <6>1. BankDigests(es[i]) = {}
            BY <5>8 DEF BankDigests
          <6>2. i \in 1..n
            BY <4>1, <5>5
          <6>3. files[i] = After(files[i - 1], es[i])
            BY <2>1, <2>2, <6>2 DEF Moments
          <6>4. files[i] = files[i - 1]
            BY <6>1, <6>3 DEF After
          <6> QED
            BY <5>4, <5>5, <6>4
        <5>10. starts[t] >= offset
          BY <2>2, <5>7
        <5> QED
          BY <5>2, <5>9, <5>10
      <4>8. n + 1 \in m..(n + 1) /\ (n + 1) - 1 = n
        BY <2>2, <2>4
      <4> QED
        BY <4>7, <4>8
    <3> QED
      BY <2>2, <2>4, <3>2, <3>3
  <2>6. Exhausted(es, files)'
    BY <2>1, <2>3, <2>5 DEF Exhausted
  <2>7. EventsRead(es)'
    BY <2>2, <2>3, EventsStay
  <2>8. Genuine'
    BY <2>2, <2>3 DEF Genuine
  <2> QED
    BY <2>3, <2>6, <2>7, <2>8 DEF Progress, CursorInStep, EntryRead
<1> QED
  BY <1>1, <1>2

\* Every step of the parser keeps the invariant.
LEMMA ParseKeepsBoot ==
  ASSUME BootIInv, Parse
  PROVE  BootIInv'
<1>1. PICK es, starts, files : Boot(es, starts, files)
  BY DEF BootIInv
<1>2. Progress(es, starts, files)'
  <2>1. CASE FindBody
    BY <1>1, <2>1, FindBodyProgress
  <2>2. CASE ParseSpecIdEvent
    BY <1>1, <2>2, SpecIdProgress
  <2>3. CASE ParseEventHeader
    BY <1>1, <2>3, HeaderProgress
  <2>4. CASE ParseDigest
    BY <1>1, <2>4, DigestProgress
  <2>5. CASE ParseEventData
    BY <1>1, <2>5, DataProgress
  <2>6. CASE CheckTail
    BY <1>1, <2>6, TailProgress
  <2> QED
    BY <2>1, <2>2, <2>3, <2>4, <2>5, <2>6 DEF Parse, Next
<1>3. /\ IInv' /\ Phases' /\ Chronicle(es, starts)' /\ Moments(es, files)' /\ Copied'
      /\ Replayed(files)'
  BY <1>1, ParseKeeps
<1>4. Boot(es, starts, files)'
  BY <1>2, <1>3 DEF Boot, Progress
<1> QED
  BY <1>4 DEF BootIInv

(* ---- The boot, once the log is accepted ------------------------------- *)

\* A turn of the replay leaves the report of the next register file.
LEMMA ReplayKeepsReport ==
  ASSUME NEW es, NEW starts, NEW files, Boot(es, starts, files), ReplayEvent
  PROVE  Replayed(files)'
<1>1. /\ IInv /\ Phases /\ Chronicle(es, starts) /\ Moments(es, files)
      /\ EventsRead(es) /\ Replayed(files) /\ phase = "replaying"
      /\ es \in Seq(FirmwareEvents) /\ Len(es) \in Nat /\ events \in Seq(Events)
      /\ Len(events) \in Nat /\ replayed \in Nat
  <2>1. /\ IInv /\ Phases /\ Chronicle(es, starts) /\ Moments(es, files)
        /\ EventsRead(es) /\ Replayed(files) /\ phase = "replaying"
    BY DEF Boot, ReplayEvent
  <2> QED
    BY <2>1 DEF Chronicle, IInv, TypeOK, Phases
<1> DEFINE ev == events[replayed + 1]
           old == IF ev.register \in DOMAIN report THEN report[ev.register] ELSE <<>>
<1>2. /\ replayed < Len(events) /\ replayed' = replayed + 1 /\ UNCHANGED data
      /\ report' = IF Replayable(ev)
                     THEN [r \in DOMAIN report \cup {ev.register} |->
                             IF r = ev.register
                               THEN Append(old, BankDigest(ev.digests[BankAlgorithm]))
                               ELSE report[r]]
                     ELSE report
  BY Zenon DEF ReplayEvent, vars
<1>3. CASE replayed = 0
  <2>1. events # <<>> /\ ev = events[1]
    BY <1>1, <1>2, <1>3
  <2>2. ~Carries(ev.digests, BankAlgorithm)
    BY <1>1, <2>1 DEF EventsRead
  <2>3. report' = report
    BY <1>2, <2>2 DEF Replayable
  <2>4. replayed' # 0 /\ replayed' - 1 = 0
    BY <1>2, <1>3
  <2>5. Matches(files[0])
    BY <1>1, <1>3 DEF Replayed
  <2> QED
    BY <2>3, <2>4, <2>5 DEF Replayed, Matches
<1>4. CASE replayed # 0
  <2>1. PICK k : k = replayed
    OBVIOUS
  <2>2. PICK e, file, new : e = es[k] /\ file = files[k - 1] /\ new = files[k]
    OBVIOUS
  <2>3. /\ k \in 1..Len(es) /\ k \in 1..(Len(events) - 1) /\ k \in 0..Len(es)
        /\ k - 1 \in 0..Len(es) /\ k \in Nat
    BY <1>1, <1>2, <1>4, <2>1 DEF EventsRead
  <2>4. ReadOf(ev, e)
    BY <1>1, <2>1, <2>2, <2>3 DEF EventsRead
  <2>5. e \in FirmwareEvents
    BY <1>1, <2>2, <2>3, ElementOfSeq
  <2>6. new = After(file, e) /\ file \in RegisterFiles /\ new \in RegisterFiles
    BY <1>1, <2>2, <2>3 DEF Moments
  <2>7. Matches(file)
    BY <1>1, <1>4, <2>1, <2>2 DEF Replayed
  <2>8. replayed' # 0 /\ replayed' - 1 = k
    BY <1>1, <1>2, <2>1
  <2>9. Carries(ev.digests, BankAlgorithm) <=> BankDigests(e) # {}
    BY <2>4, BankAssumption DEF ReadOf, DigestsRead, BankDigests
  <2> HIDE DEF ev
  <2>10. CASE Replayable(ev)
    <3>1. e.type # EV_NO_ACTION /\ BankDigests(e) # {} /\ ev.register = e.register
      BY <2>4, <2>9, <2>10 DEF Replayable, Measured, ReadOf
    <3>2. PICK i : i = CHOOSE d \in BankDigests(e) : TRUE
      OBVIOUS
    <3>3. i \in BankDigests(e)
      BY <3>1, <3>2
    <3>4. BankDigest(ev.digests[BankAlgorithm]) = e.digests[i].cells
      BY <2>4, <3>3, BankAssumption DEF ReadOf, DigestsRead, BankDigests
    <3>5. PICK g, cells : g = e.register /\ cells = e.digests[i].cells
      OBVIOUS
    <3>6. g \in Registers
      BY <2>5, <3>1, <3>5, FirmwareAssumption
    <3>7. new = [file EXCEPT ![g] = Append(@, cells)]
      BY <2>6, <3>1, <3>2, <3>5 DEF After, Extended
    <3>8. report' = [r \in DOMAIN report \cup {g} |->
                       IF r = g THEN Append(old, cells) ELSE report[r]]
      BY <1>2, <2>10, <3>1, <3>4, <3>5
    <3>9. old = file[g]
      BY <2>7, <3>1, <3>5, <3>6 DEF Matches
    <3> HIDE DEF old
    <3>10. new[g] = Append(file[g], cells) /\ \A r \in Registers : r # g => new[r] = file[r]
      BY <2>6, <3>6, <3>7 DEF RegisterFiles
    <3>11. DOMAIN report' = DOMAIN report \cup {g} /\ DOMAIN report' \subseteq Registers
      BY <2>7, <3>6, <3>8 DEF Matches
    <3>12. \A r \in DOMAIN report' : report'[r] = new[r]
      <4> SUFFICES ASSUME NEW r \in DOMAIN report' PROVE report'[r] = new[r]
        OBVIOUS
      <4>1. CASE r = g
        BY <3>8, <3>9, <3>10, <4>1
      <4>2. CASE r # g
        <5>1. r \in DOMAIN report /\ r \in Registers
          BY <2>7, <3>11, <4>2 DEF Matches
        <5>2. report[r] = file[r]
          BY <2>7, <5>1 DEF Matches
        <5> QED
          BY <3>8, <3>10, <4>2, <5>1, <5>2
      <4> QED
        BY <4>1, <4>2
    <3>13. report' = [r \in DOMAIN report' |-> new[r]]
      BY <3>8, <3>12
    <3>14. \A r \in Registers : r \notin DOMAIN report' => new[r] = <<>>
      BY <2>7, <3>10, <3>11 DEF Matches
    <3>15. Matches(new)'
      BY <3>11, <3>13, <3>14 DEF Matches
    <3> QED
      BY <2>2, <2>8, <3>15 DEF Replayed
  <2>11. CASE ~Replayable(ev)
    <3>1. e.type = EV_NO_ACTION \/ BankDigests(e) = {}
      <4> SUFFICES ASSUME e.type # EV_NO_ACTION, BankDigests(e) # {} PROVE FALSE
        OBVIOUS
      <4>1. ev.register \in Registers /\ ev.type # EV_NO_ACTION
        BY <2>4, <2>5, FirmwareAssumption DEF ReadOf
      <4> QED
        BY <2>9, <2>11, <4>1 DEF Replayable, Measured
    <3>2. new = file
      BY <2>6, <3>1 DEF After
    <3>3. report' = report
      BY <1>2, <2>11
    <3>4. Matches(new)'
      BY <2>7, <3>2, <3>3 DEF Matches
    <3> QED
      BY <2>2, <2>8, <3>4 DEF Replayed
  <2> QED
    BY <2>10, <2>11
<1> QED
  BY <1>3, <1>4

\* The replay keeps the invariant.
LEMMA AnswerKeepsBoot ==
  ASSUME BootIInv, ReplayEvent \/ Report
  PROVE  BootIInv'
<1>1. PICK es, starts, files : Boot(es, starts, files)
  BY DEF BootIInv
<1>2. /\ IInv /\ Phases /\ Chronicle(es, starts) /\ Moments(es, files) /\ Copied /\ Genuine
      /\ EventsRead(es) /\ CursorInStep(starts) /\ EntryRead(es, starts)
      /\ Replayed(files) /\ Exhausted(es, files)
  BY <1>1 DEF Boot
<1>3. /\ UNCHANGED <<data, limit, fill, pc, offset, algo_sizes, entry, events>> /\ UNCHANGED vars
      /\ UNCHANGED <<written, history, booted, capture>>
      /\ phase = "replaying" /\ phase' \in {"replaying", "reported"}
  BY DEF ReplayEvent, Report, vars
<1>4. IInv'
  BY <1>2, <1>3, StepInvariant
<1>5. Phases'
  <2>1. events \in Seq(Events) /\ replayed \in Nat
    BY <1>2 DEF IInv, TypeOK, Phases
  <2> QED
    BY <1>2, <1>3, <2>1 DEF Phases, ReplayEvent, Report
<1>6. Chronicle(es, starts)' /\ Moments(es, files)'
  BY <1>2, <1>3, BootKept
<1>7. Copied' /\ Genuine'
  BY <1>2, <1>3 DEF Copied, Genuine
<1>8. EventsRead(es)'
  BY <1>2, <1>3, EventsStay
<1>9. CursorInStep(starts)' /\ EntryRead(es, starts)' /\ Exhausted(es, files)'
  BY <1>2, <1>3 DEF Phases, CursorInStep, EntryRead, Exhausted
<1>10. Replayed(files)'
  <2>1. CASE ReplayEvent
    BY <1>1, <2>1, ReplayKeepsReport
  <2>2. CASE Report
    BY <1>2, <2>2 DEF Replayed, Matches, Report
  <2> QED
    BY <2>1, <2>2
<1>11. Boot(es, starts, files)'
  BY <1>4, <1>5, <1>6, <1>7, <1>8, <1>9, <1>10 DEF Boot
<1> QED
  BY <1>11 DEF BootIInv

\* The inductive invariant of the boot holds whatever firmware measures, however
\* the log is cut and filled, and wherever the parser is.
LEMMA BootStep == BootIInv /\ [BootNext]_allVars => BootIInv'
<1> SUFFICES ASSUME BootIInv, [BootNext]_allVars PROVE BootIInv'
  OBVIOUS
<1>1. CASE Firmware
  <2>1. CASE \E e \in FirmwareEvents : FirmwareEvent(e)
    BY <2>1, FirmwareEventKeepsBoot
  <2>2. CASE CloseLog
    BY <2>2, CloseLogKeepsBoot
  <2>3. CASE \E r \in UserRegisters, e \in FirmwareEvents : \E i \in BankDigests(e) :
               UserExtend(r, e.digests[i].cells)
    BY <2>3, UserExtendKeepsBoot
  <2>4. CASE \E n \in 0..Len(written), terminated \in BOOLEAN, filler \in Fills :
               CopyLog(n, terminated, filler)
    BY <2>4, CopyLogKeepsBoot
  <2> QED
    BY <1>1, <2>1, <2>2, <2>3, <2>4 DEF Firmware
<1>2. CASE Tool
  BY <1>2, ParseKeepsBoot, AnswerKeepsBoot DEF Tool
<1>3. CASE UNCHANGED allVars
  <2>1. PICK es, starts, files : Boot(es, starts, files)
    BY DEF BootIInv
  <2>2. /\ UNCHANGED <<data, limit, fill, pc, offset, algo_sizes, entry, events>>
        /\ UNCHANGED vars
        /\ UNCHANGED <<phase, written, history, booted, capture, replayed, report>>
    BY <1>3 DEF allVars, vars, bootVars
  <2>3. /\ IInv /\ Phases /\ Chronicle(es, starts) /\ Moments(es, files) /\ Copied /\ Genuine
        /\ EventsRead(es) /\ CursorInStep(starts) /\ EntryRead(es, starts)
        /\ Replayed(files) /\ Exhausted(es, files)
    BY <2>1 DEF Boot
  <2>4. IInv'
    BY <2>2, <2>3, StepInvariant
  <2>5. Phases' /\ Copied' /\ Genuine'
    BY <2>2, <2>3 DEF Phases, Copied, Genuine
  <2>6. Chronicle(es, starts)' /\ Moments(es, files)'
    BY <2>2, <2>3 DEF Chronicle, RecordAt, Moments, Current
  <2>7. EventsRead(es)'
    BY <2>2, <2>3, EventsStay
  <2>8. CursorInStep(starts)' /\ EntryRead(es, starts)' /\ Exhausted(es, files)'
    BY <2>2, <2>3 DEF CursorInStep, EntryRead, Exhausted, DigestsRead, BankDigest
  <2>9. Replayed(files)'
    BY <2>2, <2>3 DEF Replayed, Matches
  <2>10. Boot(es, starts, files)'
    BY <2>4, <2>5, <2>6, <2>7, <2>8, <2>9 DEF Boot
  <2> QED
    BY <2>10 DEF BootIInv
<1> QED
  BY <1>1, <1>2, <1>3 DEF BootNext

\* At every moment there are events, and the places of their records, of which the
\* log, the registers and the parser are what BootIInv says.
THEOREM BootInductiveInvariant == BootSpec => []BootIInv
BY BootStart, BootStep, PTL DEF BootSpec

\* The variables of the boot and of the tool keep their types (BootTypeOK).
THEOREM BootTypeCorrect == BootSpec => []BootTypeOK
<1>1. BootIInv => BootTypeOK
  <2> SUFFICES ASSUME BootIInv PROVE BootTypeOK
    OBVIOUS
  <2>1. PICK es, starts, files : Boot(es, starts, files)
    BY DEF BootIInv
  <2>2. /\ IInv /\ Phases /\ Chronicle(es, starts) /\ Moments(es, files) /\ Replayed(files)
    BY <2>1 DEF Boot
  <2>3. \A i \in 1..Len(history) : history[i] \in RegisterFiles
    BY <2>2, ElementOfSeq DEF Moments
  <2> QED
    BY <2>2, <2>3 DEF BootTypeOK, IInv, Phases, Chronicle, Moments, Replayed, Matches, RegisterFiles
<1> QED
  BY <1>1, BootInductiveInvariant, PTL

\* The register file that is reported is one that firmware left.
LEMMA ReportedMoment ==
  ASSUME NEW es, NEW starts, NEW files, Boot(es, starts, files), phase \in {"replaying", "reported"},
         replayed = Len(events)
  PROVE  /\ Len(events) - 1 \in 0..Len(es) /\ Matches(files[Len(events) - 1])
<1>1. /\ IInv /\ Phases /\ EventsRead(es) /\ Replayed(files) /\ es \in Seq(FirmwareEvents)
  BY DEF Boot, Chronicle
<1>2. events # <<>> /\ events \in Seq(Events) /\ Len(es) \in Nat
  BY <1>1 DEF Phases, IInv, BetweenEvents, TypeOK
<1>3. Len(events) \in Nat /\ Len(events) # 0 /\ Len(events) <= Len(es) + 1
  BY <1>1, <1>2 DEF EventsRead
<1> QED
  BY <1>1, <1>2, <1>3 DEF Replayed

\* A log copied whole is replayed to its end: the report is of the registers as
\* firmware left them, wherever the fill was thought to begin
\* (WholeLogReplayedWhole).
THEOREM WholeBootReplayed == BootSpec => []WholeLogReplayedWhole
<1>1. BootIInv => WholeLogReplayedWhole
  <2> SUFFICES ASSUME BootIInv, phase = "reported", capture.whole PROVE ReproducesBoot
    BY DEF WholeLogReplayedWhole
  <2>1. PICK es, starts, files : Boot(es, starts, files)
    BY DEF BootIInv
  <2>2. /\ Phases /\ Moments(es, files) /\ Exhausted(es, files)
    BY <2>1 DEF Boot
  <2>3. Matches(files[Len(events) - 1])
    BY <2>1, <2>2, ReportedMoment DEF Phases
  <2>4. files[Len(events) - 1] = booted
    BY <2>2 DEF Phases, Exhausted, Moments
  <2>5. Matches(booted)
    BY <2>3, <2>4
  <2> QED
    BY <2>5 DEF Matches, ReproducesBoot
<1> QED
  BY <1>1, BootInductiveInvariant, PTL

(* ---- The promise ------------------------------------------------------- *)

\* What the tool has answered, as MeasurementReport has it.
LEMMA OutcomeIs ==
  /\ phase = "reported" /\ pc # "refused" => Outcome = Promise!Reported(report)
  /\ phase # "reported" /\ pc = "refused" => Outcome = Promise!Refused
  /\ phase # "reported" /\ pc # "refused" => Outcome = Promise!Pending
<1>1. ASSUME phase = "reported", pc # "refused" PROVE Outcome = Promise!Reported(report)
  BY <1>1 DEF Outcome, Promise!Reported
<1>2. ASSUME phase # "reported", pc = "refused" PROVE Outcome = Promise!Refused
  BY <1>2 DEF Outcome, Promise!Refused
<1>3. ASSUME phase # "reported", pc # "refused" PROVE Outcome = Promise!Pending
  BY <1>3 DEF Outcome, Promise!Pending
<1> QED
  BY <1>1, <1>2, <1>3

\* An event, or user space, extends one register with a digest that is some
\* event's.
LEMMA ExtendIsPromised ==
  ASSUME NEW r \in Registers, NEW e \in FirmwareEvents, NEW i \in BankDigests(e),
         history' = Append(history, Extended(Current, r, e.digests[i].cells)),
         Outcome' = Outcome
  PROVE  Promise!Extend
<1>1. e.digests[i].cells \in Extensions
  BY DEF Extensions, BankDigests
<1> QED
  BY <1>1 DEF Promise!Extend, Extended, Current

\* The tool refuses, or reports the registers as they all were at one moment of
\* the boot, whatever was lost of the log on its way and whatever the fill holds
\* (ReportsAMoment): the boot implements MeasurementReport.
THEOREM ReportsOneMoment == BootSpec => ReportsAMoment
<1>1. BootInit => Promise!Init
  BY OutcomeIs DEF BootInit, Promise!Init, Zeros, Promise!Zero
<1>2. BootIInv /\ BootIInv' /\ [BootNext]_allVars => [Promise!Next]_(Promise!vars)
  <2> SUFFICES ASSUME BootIInv, BootIInv', [BootNext]_allVars
               PROVE  Promise!Next \/ UNCHANGED <<history, Outcome>>
    BY DEF Promise!vars
  <2>1. CASE \E e \in FirmwareEvents : FirmwareEvent(e)
    <3>1. PICK e \in FirmwareEvents : FirmwareEvent(e)
      BY <2>1
    <3>2. Outcome' = Outcome
      BY <3>1 DEF FirmwareEvent, Outcome, vars
    <3>3. CASE e.type = EV_NO_ACTION \/ BankDigests(e) = {}
      BY <3>1, <3>2, <3>3 DEF FirmwareEvent
    <3>4. CASE ~(e.type = EV_NO_ACTION \/ BankDigests(e) = {})
      <4>1. PICK i : i = CHOOSE d \in BankDigests(e) : TRUE
        OBVIOUS
      <4>2. i \in BankDigests(e) /\ e.register \in Registers
        BY <3>4, <4>1, FirmwareAssumption
      <4>3. history' = Append(history, Extended(Current, e.register, e.digests[i].cells))
        BY <3>1, <3>4, <4>1 DEF FirmwareEvent
      <4> QED
        BY <3>2, <4>2, <4>3, ExtendIsPromised DEF Promise!Next
    <3> QED
      BY <3>3, <3>4
  <2>2. CASE CloseLog
    BY <2>2 DEF CloseLog, Outcome, vars
  <2>3. CASE \E r \in UserRegisters, e \in FirmwareEvents : \E i \in BankDigests(e) :
               UserExtend(r, e.digests[i].cells)
    <3>1. PICK r \in UserRegisters, e \in FirmwareEvents :
            \E i \in BankDigests(e) : UserExtend(r, e.digests[i].cells)
      BY <2>3
    <3>2. PICK i \in BankDigests(e) : UserExtend(r, e.digests[i].cells)
      BY <3>1
    <3>3. r \in Registers
      BY BootAssumption DEF Registers
    <3>4. Outcome' = Outcome
      BY <3>2 DEF UserExtend, Outcome, vars
    <3> QED
      BY <3>2, <3>3, <3>4, ExtendIsPromised DEF UserExtend, Promise!Next
  <2>4. CASE \E n \in 0..Len(written), terminated \in BOOLEAN, filler \in Fills :
               CopyLog(n, terminated, filler)
    <3>1. UNCHANGED <<history, pc>> /\ phase = "booted" /\ phase' = "parsing"
      BY <2>4 DEF CopyLog
    <3>2. Outcome' = Outcome
      BY <3>1 DEF Outcome
    <3> QED
      BY <3>1, <3>2
  <2>5. CASE Parse
    <3>1. /\ history' = history /\ phase = "parsing" /\ phase' # "reported" /\ pc # "refused"
      BY <2>5 DEF Parse, Next, FindBody, ParseSpecIdEvent, ParseEventHeader, ParseDigest,
                  ParseEventData, CheckTail
    <3>2. Outcome = Promise!Pending
      BY <3>1, OutcomeIs
    <3>3. CASE pc' = "refused"
      <4>1. Outcome' = Promise!Refused
        BY <3>1, <3>3 DEF Outcome, Promise!Refused
      <4> QED
        BY <3>1, <3>2, <4>1 DEF Promise!Next, Promise!Refuse
    <3>4. CASE pc' # "refused"
      <4>1. Outcome' = Promise!Pending
        BY <3>1, <3>4 DEF Outcome, Promise!Pending
      <4> QED
        BY <3>1, <3>2, <4>1
    <3> QED
      BY <3>3, <3>4
  <2>6. CASE ReplayEvent
    <3>1. UNCHANGED <<history, pc, phase>> /\ phase = "replaying"
      BY <2>6 DEF ReplayEvent, vars
    <3>2. Outcome' = Outcome
      BY <3>1 DEF Outcome
    <3> QED
      BY <3>1, <3>2
  <2>7. CASE Report
    <3>1. PICK es, starts, files : Boot(es, starts, files)
      BY DEF BootIInv
    <3>2. /\ phase = "replaying" /\ replayed = Len(events) /\ phase' = "reported"
          /\ UNCHANGED <<history, report, pc>>
      BY <2>7 DEF Report, vars
    <3>3. pc = "accepted" /\ Moments(es, files)
      BY <3>1, <3>2 DEF Boot, Phases
    <3>4. PICK file : file = files[Len(events) - 1]
      OBVIOUS
    <3>5. Matches(file) /\ \E k \in 1..Len(history) : history[k] = file
      BY <3>1, <3>2, <3>3, <3>4, ReportedMoment DEF Moments
    <3>6. PICK k \in 1..Len(history) : history[k] = file
      BY <3>5
    <3>7. Outcome = Promise!Pending
      BY <3>2, <3>3, OutcomeIs
    <3>8. Outcome' = Promise!Reported(report)
      BY <3>2, <3>3 DEF Outcome, Promise!Reported
    <3>9. DOMAIN report \in SUBSET Registers /\ report = [r \in DOMAIN report |-> history[k][r]]
      BY <3>5, <3>6 DEF Matches
    <3>10. Promise!Snapshot(report, k)
      BY <3>5, <3>6 DEF Matches, Promise!Snapshot, Promise!Zero
    <3> DEFINE ext == DOMAIN report
               values == [r \in ext |-> history[k][r]]
    <3>11. ext \in SUBSET Registers /\ values = report
      BY <3>9
    <3>12. Promise!Snapshot(values, k) /\ Outcome' = Promise!Reported(values)
      BY <3>8, <3>10, <3>11
    <3>13. Promise!Report
      BY <3>2, <3>6, <3>7, <3>11, <3>12 DEF Promise!Report
    <3> QED
      BY <3>13 DEF Promise!Next
  <2>8. CASE UNCHANGED allVars
    BY <2>8 DEF allVars, bootVars, vars, Outcome
  <2> QED
    BY <2>1, <2>2, <2>3, <2>4, <2>5, <2>6, <2>7, <2>8 DEF BootNext, Firmware, Tool
<1> QED
  BY <1>1, <1>2, BootInductiveInvariant, PTL DEF BootSpec, ReportsAMoment, Promise!Spec

=============================================================================

------------------------------ MODULE EventLog ------------------------------
(***************************************************************************)
(* The TCG event log parser of src/cvm_measure/tcg.py, shared by the CCEL  *)
(* (tdx/ccel.py) and the vTPM log (azure_snp/eventlog.py).                 *)
(*                                                                         *)
(* A log is a sequence of cells.  Cells stand for bytes on a reduced       *)
(* scale: a cell holds 0..MaxByte, where MaxByte plays 0xFF; a u8 and a    *)
(* u16 take one cell, and a u32 takes two, least significant first, so     *)
(* that the end of the real bytes can still fall inside a u32.  Offsets    *)
(* are the code's, counted from 0: the cell at offset o is data[o + 1].    *)
(*                                                                         *)
(* Digests and event data are kept as the spans of the log they were read  *)
(* from, so that properties can ask which bytes a result was built from.   *)
(*                                                                         *)
(* A definition named Wrong... is a deliberate error in the definition that*)
(* follows it; no specification uses it.  It is there to be put in that    *)
(* definition's place, to see a property fail.                             *)
(***************************************************************************)
EXTENDS Integers, Sequences

CONSTANTS
  Logs,            \* the logs the parser may be given
  MaxByte,         \* the largest cell: the flash erase value 0xFF
  LegacySize,      \* cells of the legacy digest of the first event
  Signature,       \* the cell that stands for SPEC_ID_SIGNATURE
  ALGO_DIGEST_SIZES, \* digest size of each algorithm id, 0 where it has none
  MAX_DIGEST_SIZE,
  EV_NO_ACTION,
  RegisterBase,    \* what a log adds to a register: 1 in a CCEL, 0 in a vTPM log
  NumRegisters,
  ToleratePadding  \* whether trailing fill is looked for (CCEL only)

Cells == 0..MaxByte

ASSUME LogsAssumption == Logs \subseteq Seq(Cells)
ASSUME ScaleAssumption ==
  /\ MaxByte \in Nat \ {0}
  /\ LegacySize \in Nat \ {0}
  /\ Signature \in Cells
  /\ EV_NO_ACTION \in Nat
  /\ ToleratePadding \in BOOLEAN
ASSUME DigestSizesAssumption ==
  /\ MAX_DIGEST_SIZE \in Nat
  /\ ALGO_DIGEST_SIZES \in [Cells -> 0..MAX_DIGEST_SIZE]
ASSUME RegistersAssumption ==
  /\ RegisterBase \in {0, 1}
  /\ NumRegisters \in Nat \ {0}

-----------------------------------------------------------------------------
(* Encoding.                                                               *)

U16 == 1
U32 == 2
LOG_TERMINATOR == MaxByte * (MaxByte + 1) + MaxByte
EVENT2_HEADER_SIZE == 3 * U32
SPEC_ID_HEADER_SIZE == 3 * U32 + LegacySize
SpecIdAlgoCountOffset == 2
PaddingBytes == {MaxByte, 0}
NoFill == -1

\* The u32 at offset o of the cell sequence s.
U32At(s, o) == s[o + 1] + s[o + 2] * (MaxByte + 1)

-----------------------------------------------------------------------------
VARIABLES
  data,        \* the buffer
  limit,       \* body_end: where the trailing fill begins
  fill,        \* the cell the fill repeats, or NoFill
  pc,          \* what the parser does next, or its verdict
  offset,      \* the cursor
  algo_sizes,  \* digest size the SpecIdEvent lists for an algorithm, or 0
  entry,       \* the event being read
  events       \* the events read so far

vars == <<data, limit, fill, pc, offset, algo_sizes, entry, events>>

Running == {"start", "spec_id", "events", "digests"}
Verdicts == {"accepted", "refused"}

\* The digests of an event: an algorithm it has no digest of has size 0.
Digests == [Cells -> [at : Nat, size : Nat]]
NoDigests == [a \in Cells |-> [at |-> 0, size |-> 0]]
Carries(digests, algo) == digests[algo].size > 0

Entries == [start : Nat, raw : Nat, type : Nat, left : Nat, digests : Digests]
NoEntry == [start |-> 0, raw |-> 0, type |-> 0, left |-> 0, digests |-> NoDigests]
Events == [start : Nat, end : Nat, type : Nat, register : Int, digests : Digests]

\* A CCEL's numbering of registers, whatever the log.
WrongEvent(e, end) == [start |-> e.start, end |-> end, type |-> e.type,
                       register |-> e.raw - 1, digests |-> e.digests]

\* An event as EventLogEntry keeps it, and the span of the log it was read from.
Event(e, end) == [start |-> e.start, end |-> end, type |-> e.type,
                  register |-> e.raw - RegisterBase, digests |-> e.digests]

Init ==
  /\ data \in Logs
  /\ limit = 0
  /\ fill = NoFill
  /\ pc = "start"
  /\ offset = 0
  /\ algo_sizes = [a \in Cells |-> 0]
  /\ entry = NoEntry
  /\ events = <<>>

Refuse ==
  /\ pc' = "refused"
  /\ UNCHANGED <<data, limit, fill, offset, algo_sizes, entry, events>>

-----------------------------------------------------------------------------
(* The cursor.                                                             *)

Remaining == IF limit > offset THEN limit - offset ELSE 0

\* The whole buffer is the bound, fill included.
WrongRequireStrict(o, size) == o + size <= Len(data)

\* A read of size cells at offset o that may not reach the fill.
RequireStrict(o, size) == o + size <= limit

\* No read may reach the fill.
WrongRequire(o, size) == size = 0 \/ RequireStrict(o, size)

\* A read that may also run into cells that are all fill.  Reads that follow
\* each other are allowed exactly when one read of all their cells is.
Require(o, size) ==
  \/ size = 0
  \/ RequireStrict(o, size)
  \/ /\ fill # NoFill
     /\ o + size <= Len(data)
     /\ \A i \in o..(o + size - 1) : i >= limit => data[i + 1] = fill

\* Every item is taken to be of the largest digest.
WrongBoundedCount(count, item_size, o) == count * (item_size + 3) <= Len(data) - o

\* bounded_count: the fill counts as room.
BoundedCount(count, item_size, o) == count * item_size <= Len(data) - o

-----------------------------------------------------------------------------
(* Where the fill begins.                                                  *)

\* n is where data stripped of its trailing pad cells ends.
StrippedEnd(n, pad) ==
  /\ \A i \in (n + 1)..Len(data) : data[i] = pad
  /\ n > 0 => data[n] # pad

PaddingStart(n, pad) ==
  IF ToleratePadding /\ data[Len(data)] \in PaddingBytes
    THEN pad = data[Len(data)] /\ StrippedEnd(n, pad)
    ELSE pad = NoFill /\ n = Len(data)

FindBody ==
  /\ pc = "start"
  /\ IF Len(data) < SPEC_ID_HEADER_SIZE
       THEN Refuse
       ELSE \E n \in 0..Len(data), pad \in PaddingBytes \cup {NoFill} :
              /\ PaddingStart(n, pad)
              /\ limit' = n
              /\ fill' = pad
              /\ pc' = "spec_id"
              /\ UNCHANGED <<data, offset, algo_sizes, entry, events>>

-----------------------------------------------------------------------------
(* The first event.                                                        *)

RegisterExists(raw) == raw < NumRegisters + RegisterBase

NumAlgos(p) == U32At(p, SpecIdAlgoCountOffset)
AlgoOffset(i) == SpecIdAlgoCountOffset + U32 + 2 * U16 * (i - 1)
AlgoId(p, i) == p[AlgoOffset(i) + 1]
DigestSize(p, i) == p[AlgoOffset(i) + 1 + U16]

\* The size listed for a known algorithm is taken as it is.
WrongUsableDigestSize(algo, size) == size \in 1..MAX_DIGEST_SIZE

UsableDigestSize(algo, size) ==
  /\ ALGO_DIGEST_SIZES[algo] # 0 => size = ALGO_DIGEST_SIZES[algo]
  /\ size \in 1..MAX_DIGEST_SIZE

\* The payloads parse_digest_sizes accepts.
ValidSpecId(p) ==
  /\ p # <<>> /\ p[1] = Signature
  /\ Len(p) >= AlgoOffset(1)
  /\ NumAlgos(p) # 0
  /\ AlgoOffset(NumAlgos(p) + 1) < Len(p)
  /\ \A i \in 1..NumAlgos(p) :
       /\ \A j \in 1..(i - 1) : AlgoId(p, j) # AlgoId(p, i)
       /\ UsableDigestSize(AlgoId(p, i), DigestSize(p, i))
  /\ AlgoOffset(NumAlgos(p) + 1) + 1 + p[AlgoOffset(NumAlgos(p) + 1) + 1] = Len(p)

DigestSizes(p) ==
  [a \in Cells |->
     IF \E i \in 1..NumAlgos(p) : AlgoId(p, i) = a
       THEN DigestSize(p, CHOOSE i \in 1..NumAlgos(p) : AlgoId(p, i) = a)
       ELSE 0]

SpecIdSizeOffset == 2 * U32 + LegacySize
SpecIdEnd == SPEC_ID_HEADER_SIZE + U32At(data, SpecIdSizeOffset)
SpecIdPayload == SubSeq(data, SPEC_ID_HEADER_SIZE + 1, SpecIdEnd)

SpecIdEntry ==
  [start |-> 0, raw |-> U32At(data, 0), type |-> U32At(data, U32), left |-> 0,
   digests |-> [NoDigests EXCEPT ![0] = [at |-> 2 * U32, size |-> LegacySize]]]

ParseSpecIdEvent ==
  /\ pc = "spec_id"
  /\ IF /\ Require(0, 2 * U32)
        /\ RequireStrict(2 * U32, LegacySize)
        /\ Require(SpecIdSizeOffset, U32)
        /\ Require(SPEC_ID_HEADER_SIZE, SpecIdEnd - SPEC_ID_HEADER_SIZE)
        /\ RegisterExists(U32At(data, 0))
        /\ ValidSpecId(SpecIdPayload)
       THEN /\ algo_sizes' = DigestSizes(SpecIdPayload)
            /\ events' = <<Event(SpecIdEntry, SpecIdEnd)>>
            /\ offset' = SpecIdEnd
            /\ pc' = "events"
            /\ UNCHANGED <<data, limit, fill, entry>>
       ELSE Refuse

-----------------------------------------------------------------------------
(* The later events.                                                       *)

\* The header only has to be in the buffer.
WrongMoreEvents ==
  /\ offset < limit
  /\ offset + EVENT2_HEADER_SIZE <= Len(data)
  /\ U32At(data, offset) # LOG_TERMINATOR

\* The loop's guard, which leaves the whole of a header before the fill.
MoreEvents ==
  /\ offset < limit
  /\ Remaining >= EVENT2_HEADER_SIZE
  /\ U32At(data, offset) # LOG_TERMINATOR

ParseEventHeader ==
  /\ pc = "events"
  /\ MoreEvents
  /\ LET count == U32At(data, offset + 2 * U32) IN
       IF BoundedCount(count, U16 + 1, offset + EVENT2_HEADER_SIZE)
         THEN /\ entry' = [start |-> offset,
                           raw |-> U32At(data, offset),
                           type |-> U32At(data, offset + U32),
                           left |-> count,
                           digests |-> NoDigests]
              /\ offset' = offset + EVENT2_HEADER_SIZE
              /\ pc' = "digests"
              /\ UNCHANGED <<data, limit, fill, algo_sizes, events>>
         ELSE Refuse

\* The size the log's events use for an algorithm, 0 for an unknown one.
SizeOf(algo) == IF algo_sizes[algo] # 0 THEN algo_sizes[algo] ELSE ALGO_DIGEST_SIZES[algo]

ParseDigest ==
  /\ pc = "digests"
  /\ entry.left > 0
  /\ LET algo == data[offset + 1] IN
       IF /\ Require(offset, U16)
          /\ SizeOf(algo) # 0
          /\ ~Carries(entry.digests, algo)
          /\ RequireStrict(offset + U16, SizeOf(algo))
         THEN /\ entry' = [entry EXCEPT
                   !.left = @ - 1,
                   !.digests[algo] = [at |-> offset + U16, size |-> SizeOf(algo)]]
              /\ offset' = offset + U16 + SizeOf(algo)
              /\ UNCHANGED <<data, limit, fill, pc, algo_sizes, events>>
         ELSE Refuse

Measured(e) == e.type # EV_NO_ACTION

ParseEventData ==
  /\ pc = "digests"
  /\ entry.left = 0
  /\ IF /\ Require(offset, U32)
        /\ Require(offset + U32, U32At(data, offset))
        /\ RegisterExists(entry.raw)
        /\ Measured(entry) => entry.raw >= RegisterBase
       THEN LET end == offset + U32 + U32At(data, offset) IN
            /\ events' = Append(events, Event(entry, end))
            /\ offset' = end
            /\ entry' = NoEntry
            /\ pc' = "events"
            /\ UNCHANGED <<data, limit, fill, algo_sizes>>
       ELSE Refuse

-----------------------------------------------------------------------------
(* What may follow the events.                                             *)

Terminated(o) == o + U32 <= Len(data) /\ U32At(data, o) = LOG_TERMINATOR

\* Only the first cell is looked at.
WrongOnlyPadding(o) == o = Len(data) \/ data[o + 1] \in PaddingBytes

OnlyPadding(o) ==
  \E pad \in PaddingBytes : \A i \in (o + 1)..Len(data) : data[i] = pad

CheckTail ==
  /\ pc = "events"
  /\ ~MoreEvents
  /\ IF OnlyPadding(IF Terminated(offset) THEN offset + U32 ELSE offset)
       THEN pc' = "accepted" /\ UNCHANGED <<data, limit, fill, offset,
                                            algo_sizes, entry, events>>
       ELSE Refuse

Next ==
  \/ FindBody
  \/ ParseSpecIdEvent
  \/ ParseEventHeader
  \/ ParseDigest
  \/ ParseEventData
  \/ CheckTail

\* The parser is one thread that runs until it returns or raises.
Spec == Init /\ [][Next]_vars /\ WF_vars(Next)

-----------------------------------------------------------------------------
(* Properties.                                                             *)

\* The type invariant: what the parser's variables range over.
TypeOK ==
  /\ data \in Seq(Cells)
  /\ limit \in 0..Len(data)
  /\ fill \in PaddingBytes \cup {NoFill}
  /\ pc \in Running \cup Verdicts
  /\ offset \in 0..Len(data)
  /\ algo_sizes \in [Cells -> 0..MAX_DIGEST_SIZE]
  /\ entry \in Entries
  /\ events \in Seq(Events)

Later == 2..Len(events)

\* A digest handed on to replay or to a baseline was carried by the log: no
\* cell of it lies in the fill, however the boundary was found and whatever
\* sizes the log declares (the strict reads of _require).
InBody(digests) ==
  \A a \in Cells : Carries(digests, a) => digests[a].at + digests[a].size <= limit
DigestsBeforeFill ==
  /\ InBody(entry.digests)
  /\ \A i \in 1..Len(events) : InBody(events[i].digests)

\* A digest is whole: one of an algorithm with a known digest length has that
\* length in every event, even where the SpecIdEvent lists the algorithm with
\* a size of its own (parse_digest_sizes and the lookup of _parse_event2).
Whole(digests) ==
  \A a \in Cells : Carries(digests, a) /\ ALGO_DIGEST_SIZES[a] # 0
                      => digests[a].size = ALGO_DIGEST_SIZES[a]
DigestsAreWhole == \A i \in Later : Whole(events[i].digests)

\* Only the last event may borrow cells from the fill: the loop of
\* parse_events starts an event only when its whole header lies before it.
OnlyLastEventReachesFill ==
  \A i \in 1..(Len(events) - 1) : events[i].end + EVENT2_HEADER_SIZE <= limit

\* No event record overlaps another or leaves a gap, so none is skipped and
\* none is read twice; the digests of an event lie inside its own record.
Within(digests, first, end) ==
  \A a \in Cells : Carries(digests, a)
    => digests[a].at > first /\ digests[a].at + digests[a].size <= end
Follows(i, start) == start = IF i = 1 THEN 0 ELSE events[i - 1].end
EventsTileLog ==
  /\ \A i \in 1..Len(events) :
       /\ Follows(i, events[i].start)
       /\ Within(events[i].digests, events[i].start, events[i].end)
  /\ pc = "digests" => Follows(Len(events) + 1, entry.start)
  /\ pc \in {"events", "accepted"} => Follows(Len(events) + 1, offset)

\* An accepted log holds nothing beyond its events but a terminator and cells
\* of one padding value: no record the loop stopped at is dropped silently,
\* unless all of its cells are alike (_require_only_padding).
NothingUnparsed ==
  pc = "accepted" =>
    LET end == events[Len(events)].end
        Constant(o) == \E pad \in PaddingBytes : \A i \in (o + 1)..Len(data) : data[i] = pad
    IN Constant(end) \/ (Terminated(end) /\ Constant(end + U32))

\* An event that extends a register names a register the platform has, in the
\* platform's own numbering; the first event, which replay never uses, is not
\* held to it (_validated_imr_index, _validated_pcr_index, _parse_event2).
MeasuredEventsHaveRegister ==
  \A i \in Later : Measured(events[i]) => events[i].register \in 0..(NumRegisters - 1)

(* The inductive invariant: the properties, and what they rest on about the *)
(* event in progress and the sizes later events are read with.              *)
SizesAgree ==
  \A a \in Cells : algo_sizes[a] # 0 /\ ALGO_DIGEST_SIZES[a] # 0
                      => algo_sizes[a] = ALGO_DIGEST_SIZES[a]
BeforeEvents ==
  pc \in {"start", "spec_id"} => offset = 0 /\ events = <<>> /\ entry = NoEntry
HeaderRead == pc = "spec_id" => SPEC_ID_HEADER_SIZE <= Len(data)
BetweenEvents == pc \in {"events", "accepted"} => events # <<>> /\ entry = NoEntry
EntryInProgress ==
  pc = "digests" =>
    /\ events # <<>>
    /\ entry.start + EVENT2_HEADER_SIZE <= limit
    /\ entry.start + EVENT2_HEADER_SIZE <= offset
    /\ Within(entry.digests, entry.start, offset)
    /\ Whole(entry.digests)

IInv ==
  /\ TypeOK
  /\ DigestsBeforeFill
  /\ DigestsAreWhole
  /\ OnlyLastEventReachesFill
  /\ EventsTileLog
  /\ NothingUnparsed
  /\ MeasuredEventsHaveRegister
  /\ SizesAgree
  /\ BeforeEvents
  /\ HeaderRead
  /\ BetweenEvents
  /\ EntryInProgress

=============================================================================

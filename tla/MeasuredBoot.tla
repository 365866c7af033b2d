---------------------------- MODULE MeasuredBoot ----------------------------
(***************************************************************************)
(* A measured boot and the tool that replays its log: firmware extends     *)
(* registers and appends records to the log, the log is copied out, perhaps*)
(* cut short and followed by fill, and the tool parses it (EventLog) and   *)
(* replays it (replay_events of tdx/rtmr.py, replay_event_log of           *)
(* azure_snp/eventlog.py).                                                 *)
(*                                                                         *)
(* The firmware and the copy are outside the repository and are modelled   *)
(* from what its code and docs say of them.  A register's value is the     *)
(* sequence of digests it was extended with, as in MeasurementReport.      *)
(***************************************************************************)
EXTENDS EventLog

CONSTANTS
  SpecIdRecord,   \* the first record firmware writes
  FirmwareEvents, \* the events firmware may measure or note
  MaxLogSize,     \* bound: the cells firmware has for the log
  BankAlgorithm,  \* the digest algorithm of the registers replayed
  UserRegisters,  \* registers user space extends once the log is closed
  ReportsAll,     \* TDX reports every register, Azure those the log touched
  Fills           \* what may follow the log in the copy

ASSUME BankAssumption == BankAlgorithm \in Cells \ {0}
ASSUME BootAssumption ==
  /\ UserRegisters \subseteq 0..(NumRegisters - 1)
  /\ ReportsAll \in BOOLEAN
  /\ MaxLogSize \in Nat

VARIABLES
  phase,      \* booting, booted, parsing, replaying or reported
  written,    \* the log as firmware has written it
  history,    \* the register file after each extend
  booted,     \* the register file when the log was closed
  capture,    \* how the log was copied out
  replayed,   \* events replayed so far
  report      \* the registers replayed: a function on those reported

bootVars == <<phase, written, history, booted, capture, replayed, report>>
allVars == <<vars, bootVars>>

Registers == 0..(NumRegisters - 1)
Zeros == [r \in Registers |-> <<>>]
Current == history[Len(history)]

NotCaptured == [whole |-> FALSE, terminated |-> FALSE]

BootInit ==
  /\ data = <<>> /\ limit = 0 /\ fill = NoFill /\ pc = "start" /\ offset = 0
  /\ algo_sizes = [a \in Cells |-> 0] /\ entry = NoEntry /\ events = <<>>
  /\ phase = "booting"
  /\ written = SpecIdRecord
  /\ history = <<Zeros>>
  /\ booted = Zeros
  /\ capture = NotCaptured
  /\ replayed = 0
  /\ report = IF ReportsAll THEN Zeros ELSE [r \in {} |-> <<>>]

-----------------------------------------------------------------------------
(* The boot.                                                               *)

Word(n) == <<n % (MaxByte + 1), n \div (MaxByte + 1)>>
Concat(ss) == LET cat[i \in 0..Len(ss)] == IF i = 0 THEN <<>> ELSE cat[i - 1] \o ss[i]
              IN cat[Len(ss)]

\* The TCG_PCR_EVENT2 record of a firmware event, whose digests are pairs of
\* an algorithm and the cells of its digest.
Record(e) ==
  Word(e.register + RegisterBase) \o Word(e.type) \o Word(Len(e.digests))
    \o Concat([i \in 1..Len(e.digests) |-> <<e.digests[i].algo>> \o e.digests[i].cells])
    \o Word(Len(e.data)) \o e.data

BankDigests(e) == {i \in 1..Len(e.digests) : e.digests[i].algo = BankAlgorithm}

\* What firmware writes fits the format: the record of the digest sizes is as long
\* as it says, and each event names a register, or none if it is a note, and has
\* digests of the sizes listed.
Words == 0..LOG_TERMINATOR
ListedSizes == DigestSizes(SubSeq(SpecIdRecord, SPEC_ID_HEADER_SIZE + 1, Len(SpecIdRecord)))
ListedSize(algo) ==
  IF ListedSizes[algo] # 0 THEN ListedSizes[algo] ELSE ALGO_DIGEST_SIZES[algo]
ASSUME SpecIdAssumption ==
  /\ SpecIdRecord \in Seq(Cells)
  /\ Len(SpecIdRecord) >= SPEC_ID_HEADER_SIZE
  /\ Len(SpecIdRecord) = SPEC_ID_HEADER_SIZE + U32At(SpecIdRecord, SpecIdSizeOffset)
ASSUME FirmwareAssumption ==
  \A e \in FirmwareEvents :
    /\ e.digests \in Seq([algo : Cells, cells : Seq(Cells)]) /\ e.data \in Seq(Cells)
    /\ {e.register + RegisterBase, e.type, Len(e.digests), Len(e.data)} \subseteq Words
    /\ e.register \in Int /\ e.register + RegisterBase # LOG_TERMINATOR
    /\ e.type # EV_NO_ACTION => e.register \in Registers
    /\ \A i \in 1..Len(e.digests) :
         Len(e.digests[i].cells) = ListedSize(e.digests[i].algo)
\* What follows a log that may be padded is one padding cell repeated.
ASSUME FillsAssumption ==
  \A f \in Fills :
    /\ f \in Seq(Cells)
    /\ IF ToleratePadding THEN \E pad \in PaddingBytes : \A i \in 1..Len(f) : f[i] = pad
       ELSE f = <<>>

Extended(file, r, digest) == [file EXCEPT ![r] = Append(@, digest)]

\* Firmware records an event, and extends the bank with the digest it has for
\* it unless the event is a note that extends nothing.
FirmwareEvent(e) ==
  /\ phase = "booting"
  /\ Len(written) + Len(Record(e)) <= MaxLogSize
  /\ written' = written \o Record(e)
  /\ history' = IF e.type = EV_NO_ACTION \/ BankDigests(e) = {}
                  THEN history
                  ELSE Append(history, Extended(Current, e.register,
                         e.digests[CHOOSE i \in BankDigests(e) : TRUE].cells))
  /\ UNCHANGED <<vars, phase, booted, capture, replayed, report>>

CloseLog ==
  /\ phase = "booting"
  /\ phase' = "booted"
  /\ booted' = Current
  /\ UNCHANGED <<vars, written, history, capture, replayed, report>>

\* User space extends a register of its own, which no log records (PCR 8).
UserExtend(r, digest) ==
  /\ phase = "booted"
  /\ Current = booted
  /\ history' = Append(history, Extended(Current, r, digest))
  /\ UNCHANGED <<vars, phase, written, booted, capture, replayed, report>>

\* The log is copied out: all of it, with or without a terminator, or only its
\* first n cells; then what the table holds beyond it.
CopyLog(n, terminated, filler) ==
  /\ phase = "booted"
  /\ terminated => n = Len(written)
  /\ data' = SubSeq(written, 1, n)
               \o (IF terminated THEN Word(LOG_TERMINATOR) ELSE <<>>) \o filler
  /\ capture' = [whole |-> n = Len(written), terminated |-> terminated]
  /\ phase' = "parsing"
  /\ UNCHANGED <<limit, fill, pc, offset, algo_sizes, entry, events,
                 written, history, booted, replayed, report>>

-----------------------------------------------------------------------------
(* The tool.                                                               *)

Parse ==
  /\ phase = "parsing"
  /\ Next
  /\ phase' = IF pc' = "accepted" THEN "replaying" ELSE phase
  /\ UNCHANGED <<written, history, booted, capture, replayed, report>>

BankDigest(d) == SubSeq(data, d.at + 1, d.at + d.size)

\* Notes are replayed too.
WrongReplayable(e) ==
  Carries(e.digests, BankAlgorithm) /\ (ReportsAll => e.register \in Registers)

\* One turn of the replay loop: notes, events without a digest of the bank and
\* (TDX) events of no register are passed over.
Replayable(e) ==
  /\ Measured(e)
  /\ Carries(e.digests, BankAlgorithm)
  /\ ReportsAll => e.register \in Registers

ReplayEvent ==
  /\ phase = "replaying"
  /\ replayed < Len(events)
  /\ LET e == events[replayed + 1]
         old == IF e.register \in DOMAIN report THEN report[e.register] ELSE <<>>
     IN report' = IF Replayable(e)
                    THEN [r \in DOMAIN report \cup {e.register} |->
                            IF r = e.register
                              THEN Append(old, BankDigest(e.digests[BankAlgorithm]))
                              ELSE report[r]]
                    ELSE report
  /\ replayed' = replayed + 1
  /\ UNCHANGED <<vars, phase, written, history, booted, capture>>

\* The last event is left out.
WrongReport ==
  /\ phase = "replaying"
  /\ replayed = Len(events) - 1
  /\ phase' = "reported"
  /\ UNCHANGED <<vars, written, history, booted, capture, replayed, report>>
Report ==
  /\ phase = "replaying"
  /\ replayed = Len(events)
  /\ phase' = "reported"
  /\ UNCHANGED <<vars, written, history, booted, capture, replayed, report>>

Firmware ==
  \/ \E e \in FirmwareEvents : FirmwareEvent(e)
  \/ CloseLog
  \/ \E r \in UserRegisters, e \in FirmwareEvents : \E i \in BankDigests(e) :
       UserExtend(r, e.digests[i].cells)
  \/ \E n \in 0..Len(written), terminated \in BOOLEAN, filler \in Fills :
       CopyLog(n, terminated, filler)

Tool == Parse \/ ReplayEvent \/ Report

BootNext == Firmware \/ Tool

\* The tool runs until it has an answer; nothing makes firmware or user act.
BootSpec == BootInit /\ [][BootNext]_allVars /\ WF_allVars(Tool)

-----------------------------------------------------------------------------
(* Properties.                                                             *)

\* The type invariant of the composition, on top of the parser's.
BootTypeOK ==
  /\ TypeOK
  /\ phase \in {"booting", "booted", "parsing", "replaying", "reported"}
  /\ written \in Seq(Cells)
  /\ \A i \in 1..Len(history) : history[i] \in [Registers -> Seq(Seq(Cells))]
  /\ booted \in [Registers -> Seq(Seq(Cells))]
  /\ replayed \in 0..Len(events)
  /\ DOMAIN report \subseteq Registers

\* The tool keeps the promise of MeasurementReport: whatever was lost of the
\* log on its way, it refuses or reports one moment of the boot, with every
\* register as it was at that same moment.
Outcome ==
  CASE phase = "reported" -> [kind |-> "reported", values |-> report]
    [] pc = "refused" -> [kind |-> "refused", values |-> <<>>]
    [] OTHER -> [kind |-> "pending", values |-> <<>>]
Extensions == UNION {{e.digests[i].cells : i \in 1..Len(e.digests)} : e \in FirmwareEvents}

Promise == INSTANCE MeasurementReport WITH Digests <- Extensions, outcome <- Outcome
ReportsAMoment == Promise!Spec

\* A report of the boot as a whole: what user space did later is not in it.
ReproducesBoot ==
  \A r \in Registers :
    IF r \in DOMAIN report THEN report[r] = booted[r] ELSE booted[r] = <<>>

\* A log copied whole is replayed whole or refused, also when it ends in what is
\* taken for fill, so that nothing tells its end: no event that was extended is
\* left behind there, and none counts that was not.
WholeLogReplayedWhole == phase = "reported" /\ capture.whole => ReproducesBoot

\* A log copied whole is accepted and replayed, unless it ends in zeros with
\* no terminator: then the end of the log cannot be told from the fill.
Unambiguous ==
  capture.whole /\ (ToleratePadding => capture.terminated \/ data[Len(data)] # 0)
WholeLogIsReplayed ==
  (phase = "parsing" /\ Unambiguous) ~> (phase = "reported" /\ ReproducesBoot)

\* What README.md says of a CCEL: the fill is not a source of event bytes, so a
\* truncated log cannot be completed with fill and replayed.  The cells that the
\* events were read from are those that firmware wrote.
FillIsNoSourceOfEvents ==
  phase = "reported" =>
    LET end == events[Len(events)].end
    IN end <= Len(written) /\ SubSeq(data, 1, end) = SubSeq(written, 1, end)

=============================================================================

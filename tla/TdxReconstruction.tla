-------------------------- MODULE TdxReconstruction --------------------------
(***************************************************************************)
(* How a machine's registers are computed without it: a baseline is        *)
(* extracted from the event log of a reference machine (tdx/baseline.py),  *)
(* kept, edited, and combined with firmware, a UKI and a disk image, none  *)
(* of them necessarily the machine's (tdx/registers.py).                   *)
(*                                                                         *)
(* The machine is outside the repository: it measures its slots in the     *)
(* order of its layout.  A register's value is the sequence of digests it  *)
(* was extended with.  A digest says which slot it is of and by what       *)
(* (which firmware, image, ...) it is determined.                          *)
(* A definition named Wrong... is a deliberate error in the definition     *)
(* that follows it.                                                        *)
(***************************************************************************)
EXTENDS Integers, SequencesExt, Selection

CONSTANTS
  Firmwares, Ukis, Disks,
  SoundFirmwares,  \* the firmware whose metadata MRTD and RTMR[0] can be measured by
  UkisWithKernel,  \* the UKIs with a .linux section
  PlainUkis,       \* the UKIs with no .profile and no repeated section
  Layouts          \* the orders in which machines measure RTMR[0] and RTMR[1]

ASSUME ImagesAssumption ==
  /\ SoundFirmwares \subseteq Firmwares
  /\ UkisWithKernel \subseteq Ukis /\ PlainUkis \subseteq Ukis

VARIABLES
  machine,    \* the reference machine
  log,        \* its measurable events, once captured
  baseline,   \* the baseline file
  edited,     \* the baseline's events were edited: at most once (a bound)
  request,    \* what the registers are computed for
  registers,  \* those computed so far
  pc          \* idle, verify, mrtd, rtmr0, rtmr1, rtmr2, computed or refused

vars == <<machine, log, baseline, edited, request, registers, pc>>

NotThere == "none"
Malformed == [of |-> "malformed", by |-> NotThere]

Machines == [layout : Layouts, firmware : SoundFirmwares, secureboot : {"on", "off"},
             uki : Ukis, disk : Disks]

-----------------------------------------------------------------------------
(* What a machine measures.                                                *)

DriverVariables == {"SecureBoot", "PK", "KEK", "db", "dbx"}
BootVariables == {"BootOrder", "Boot0000", "Boot0001", "Boot0002", "Boot0003", "Boot0004"}
AcpiTables == {"ACPI1", "ACPI2", "ACPI3", "ACPI4"}
Rtmr0Slots == DriverVariables \cup BootVariables \cup AcpiTables
                \cup {"TdxTable", "CFV", "Separator", "Unknown", "Bankless"}
Rtmr1Slots == {"Calling", "Separator", "GPT", "UKI", "Kernel", "Exiting", "Exited"}
ASSUME LayoutsAssumption == Layouts \subseteq [rtmr0 : Seq(Rtmr0Slots), rtmr1 : Seq(Rtmr1Slots)]

\* The order of the one firmware the tool reconstructs.
Standard ==
  [rtmr0 |-> <<"TdxTable", "CFV", "SecureBoot", "PK", "KEK", "db", "dbx", "Separator",
               "ACPI1", "ACPI2", "ACPI3",
               "BootOrder", "Boot0001", "Boot0002", "Boot0003", "Boot0000">>,
   rtmr1 |-> <<"Calling", "Separator", "GPT", "UKI", "Kernel", "Exiting", "Exited">>]

DeterminedBy(slot, m) ==
  CASE slot \in {"CFV", "PK", "KEK", "db", "dbx"} -> m.firmware
    [] slot = "SecureBoot" -> m.secureboot
    [] slot = "GPT" -> m.disk
    [] slot \in {"UKI", "Kernel", "Sections", "Profile"} -> m.uki
    [] OTHER -> "platform"
NoDigest == [of |-> NotThere, by |-> NotThere]
\* "Bankless" is an event recorded without a SHA-384 digest: it extends nothing.
Digest(slot, m) ==
  IF slot = "Bankless" THEN NoDigest ELSE [of |-> slot, by |-> DeterminedBy(slot, m)]

EventType(slot) ==
  CASE slot = "TdxTable" -> "HANDOFF_TABLES2"
    [] slot = "CFV" -> "PLATFORM_FIRMWARE_BLOB2"
    [] slot \in DriverVariables -> "VARIABLE_DRIVER_CONFIG"
    [] slot \in BootVariables -> "VARIABLE_BOOT"
    [] slot \in AcpiTables -> "PLATFORM_CONFIG_FLAGS"
    [] slot = "Separator" -> "SEPARATOR"
    [] slot = "GPT" -> "GPT_EVENT"
    [] slot \in {"UKI", "Kernel"} -> "BOOT_SERVICES_APPLICATION"
    [] slot \in {"Calling", "Exiting", "Exited"} -> "ACTION"
    [] OTHER -> slot

\* A UKI with no .linux section has no kernel to start; one with profiles has the
\* sections measured of the profile that was chosen at boot.
Slots(rtmr, m) ==
  CASE rtmr = 0 -> m.layout.rtmr0
    [] rtmr = 1 -> Chosen(m.layout.rtmr1, LAMBDA s : s # "Kernel" \/ m.uki \in UkisWithKernel)
    [] rtmr = 2 -> IF m.uki \in PlainUkis THEN <<"Sections">> ELSE <<"Profile">>
Register(rtmr, m) ==
  LET slots == Chosen(Slots(rtmr, m), LAMBDA s : Digest(s, m) # NoDigest)
  IN  [i \in 1..Len(slots) |-> Digest(slots[i], m)]

EventOf(rtmr, slot, m) ==
  [rtmr |-> rtmr, event_type |-> EventType(slot),
   name |-> IF slot \in DriverVariables \cup BootVariables THEN slot ELSE "",
   value |-> DeterminedBy(slot, m), digest |-> Digest(slot, m)]
EventsOf(rtmr, m) ==
  LET slots == Slots(rtmr, m) IN [i \in 1..Len(slots) |-> EventOf(rtmr, slots[i], m)]

-----------------------------------------------------------------------------
(* Extracting a baseline from a log.                                       *)

\* Boot variables are taken to be computable.
WrongComputable == {<<0, "PLATFORM_FIRMWARE_BLOB2">>, <<0, "SEPARATOR">>, <<1, "ACTION">>,
                    <<1, "GPT_EVENT">>, <<1, "SEPARATOR">>, <<1, "BOOT_SERVICES_APPLICATION">>,
                    <<0, "VARIABLE_BOOT">>}
Computable == {<<0, "PLATFORM_FIRMWARE_BLOB2">>, <<0, "SEPARATOR">>, <<1, "ACTION">>,
               <<1, "GPT_EVENT">>, <<1, "SEPARATOR">>, <<1, "BOOT_SERVICES_APPLICATION">>}

IsSecureBoot(e) ==
  e.rtmr = 0 /\ e.event_type = "VARIABLE_DRIVER_CONFIG" /\ e.name = "SecureBoot"
IsComputable(e) == e.rtmr = 2 \/ <<e.rtmr, e.event_type>> \in Computable \/ IsSecureBoot(e)

\* An unnamed event is labelled with its type.
LabelOf(e) ==
  CASE e.rtmr = 0 /\ e.event_type = "HANDOFF_TABLES2" -> "TdxTable"
    [] e.rtmr = 0 /\ e.event_type = "PLATFORM_CONFIG_FLAGS" -> "ACPI_DATA"
    [] e.event_type \in {"VARIABLE_DRIVER_CONFIG", "VARIABLE_BOOT"} /\ e.name # "" -> e.name
    [] OTHER -> e.event_type

\* The last SecureBoot event wins.
SecureBootOf(events) ==
  LET i == SelectLastInSeq(events, IsSecureBoot)
  IN  IF i # 0 /\ events[i].value = "on" THEN "on" ELSE "off"

\* An event with no digest of the bank is passed over.
BaselineEvent(e) == [rtmr |-> e.rtmr, label |-> LabelOf(e), digest |-> e.digest]
Recorded(events) == Chosen(events, LAMBDA e : e.digest # NoDigest)
Kept(events) == [i \in 1..Len(events) |-> BaselineEvent(events[i])]

Extracted(events, hash) ==
  [firmware_sha384 |-> hash, secureboot |-> SecureBootOf(events),
   events |-> Kept(Chosen(Recorded(events), LAMBDA e : ~IsComputable(e)))]
\* A baseline extracted when GPT events were still kept.
LegacyExtracted(events, hash) ==
  [firmware_sha384 |-> hash, secureboot |-> SecureBootOf(events),
   events |-> Kept(Chosen(Recorded(events),
                          LAMBDA e : ~IsComputable(e) \/ e.event_type = "GPT_EVENT"))]

NoBaseline == [firmware_sha384 |-> NotThere, secureboot |-> "off", events |-> <<>>]
NoRequest == [firmware |-> NotThere, uki |-> NotThere, disk |-> NotThere, rtmr3 |-> NotThere]

-----------------------------------------------------------------------------
(* Computing registers from a baseline.                                    *)

FixedLabels == <<"TdxTable", "PK", "KEK", "db", "dbx">>
TrailingLabels == <<"ACPI_DATA", "ACPI_DATA", "ACPI_DATA",
                    "BootOrder", "Boot0001", "Boot0002", "Boot0003", "Boot0000">>
ExpectedLabels == FixedLabels \o TrailingLabels

RtmrEvents(rtmr) == Chosen(baseline.events, LAMBDA e : e.rtmr = rtmr)
Labels(es) == [i \in 1..Len(es) |-> es[i].label]
\* The digest of the first event of that label.
ByLabel(es, label) == es[SelectInSeq(es, LAMBDA e : e.label = label)].digest
Trailing(es) == Chosen(es, LAMBDA e : e.label \notin ToSet(FixedLabels))

\* A baseline that records no hash goes with any firmware.
FirmwareVerified(b, firmware) == b.firmware_sha384 \in {NotThere, firmware}

\* The order of the events replayed positionally is not checked.
WrongSupportedEvents(es) == ToBag(Labels(es)) = ToBag(ExpectedLabels)
SupportedEvents(es) ==
  /\ ToBag(Labels(es)) = ToBag(ExpectedLabels)
  /\ Labels(Trailing(es)) = TrailingLabels

AllDecode(digests) == Malformed \notin ToSet(digests)

ComputedDigest(slot, by) == [of |-> slot, by |-> by]
Rtmr0Digests(es) ==
  <<ByLabel(es, "TdxTable"), ComputedDigest("CFV", request.firmware),
    ComputedDigest("SecureBoot", baseline.secureboot),
    ByLabel(es, "PK"), ByLabel(es, "KEK"), ByLabel(es, "db"), ByLabel(es, "dbx"),
    ComputedDigest("Separator", "platform")>>
  \o LET trailing == Trailing(es) IN [i \in 1..Len(trailing) |-> trailing[i].digest]

\* Computed from the disk if one is given, else the first the baseline has.
GptDigest(gpt) ==
  IF request.disk # NotThere THEN ComputedDigest("GPT", request.disk) ELSE gpt[1].digest

Rtmr1Digests(gpt_digest) ==
  <<ComputedDigest("Calling", "platform"), ComputedDigest("Separator", "platform"), gpt_digest,
    ComputedDigest("UKI", request.uki), ComputedDigest("Kernel", request.uki),
    ComputedDigest("Exiting", "platform"), ComputedDigest("Exited", "platform")>>

-----------------------------------------------------------------------------
Init ==
  /\ machine \in Machines
  /\ log = <<>>
  /\ baseline = NoBaseline
  /\ edited = FALSE
  /\ request = NoRequest
  /\ registers = <<>>
  /\ pc = "idle"

\* The reference machine boots and its log is read out.  Bound: one baseline in a
\* behaviour (another would take its place in the file).
Capture ==
  /\ pc = "idle" /\ baseline = NoBaseline /\ log = <<>>
  /\ log' = EventsOf(0, machine) \o EventsOf(1, machine) \o EventsOf(2, machine)
  /\ UNCHANGED <<machine, baseline, edited, request, registers, pc>>

\* The hash recorded, if one is, is that of the firmware the log comes from.
ExtractBaseline(hash) ==
  /\ pc = "idle" /\ log # <<>>
  /\ hash \in {NotThere, machine.firmware}
  /\ baseline' = Extracted(log, hash)
  /\ log' = <<>>
  /\ UNCHANGED <<machine, edited, request, registers, pc>>

ExtractLegacyBaseline(hash) ==
  /\ pc = "idle" /\ log # <<>>
  /\ hash \in {NotThere, machine.firmware}
  /\ baseline' = LegacyExtracted(log, hash)
  /\ log' = <<>>
  /\ UNCHANGED <<machine, edited, request, registers, pc>>

\* Secure Boot is turned on or off on the machine, and with no new log in the
\* baseline.
Flipped(flag) == IF flag = "on" THEN "off" ELSE "on"
ToggleSecureBoot ==
  /\ pc = "idle" /\ baseline # NoBaseline
  /\ machine' = [machine EXCEPT !.secureboot = Flipped(@)]
  /\ baseline' = [baseline EXCEPT !.secureboot = Flipped(@)]
  /\ UNCHANGED <<log, edited, request, registers, pc>>

\* The events of the baseline file are edited: a digest is damaged, or two
\* neighbours that can be told apart change places.  An edit that gives another
\* machine's events the standard order is left out: nothing could tell it.
EditEvents(events) ==
  /\ pc = "idle" /\ ~edited
  /\ baseline' = [baseline EXCEPT !.events = events]
  /\ edited' = TRUE
  /\ UNCHANGED <<machine, log, request, registers, pc>>
DamageDigest(i) == EditEvents([baseline.events EXCEPT ![i].digest = Malformed])
SwapNext(i) ==
  /\ machine.layout = Standard
  /\ i + 1 \in DOMAIN baseline.events
  /\ baseline.events[i].label # baseline.events[i + 1].label
  /\ EditEvents([baseline.events EXCEPT ![i] = baseline.events[i + 1],
                                        ![i + 1] = baseline.events[i]])

\* The caller may give a value for RTMR[3], which is only looked at for its form.
Request(firmware, uki, disk, rtmr3) ==
  /\ pc = "idle" /\ baseline # NoBaseline
  /\ request' = [firmware |-> firmware, uki |-> uki, disk |-> disk, rtmr3 |-> rtmr3]
  /\ pc' = "verify"
  /\ UNCHANGED <<machine, log, baseline, edited, registers>>

VerifyInputs ==
  /\ pc = "verify"
  /\ pc' = IF FirmwareVerified(baseline, request.firmware) /\ request.rtmr3 # "malformed"
             THEN "mrtd" ELSE "refused"
  /\ UNCHANGED <<machine, log, baseline, edited, request, registers>>

\* A step of compute_all appends its register or refuses.
Outcome(accepted, digests, next) ==
  /\ registers' = IF accepted THEN Append(registers, digests) ELSE registers
  /\ pc' = IF accepted THEN next ELSE "refused"
  /\ UNCHANGED <<machine, log, baseline, edited, request>>

ComputeMrtd ==
  /\ pc = "mrtd"
  /\ Outcome(request.firmware \in SoundFirmwares,
             <<ComputedDigest("Firmware", request.firmware)>>, "rtmr0")

ComputeRtmr0 ==
  LET es == RtmrEvents(0)
  IN  /\ pc = "rtmr0"
      /\ Outcome(SupportedEvents(es) /\ AllDecode(Rtmr0Digests(es)), Rtmr0Digests(es), "rtmr1")

ComputeRtmr1 ==
  LET gpt == Chosen(RtmrEvents(1), LAMBDA e : e.label = "GPT_EVENT")
  IN  /\ pc = "rtmr1"
      /\ Outcome(/\ request.disk # NotThere \/ gpt # <<>>
                 /\ AllDecode(<<GptDigest(gpt)>>)
                 /\ request.uki \in UkisWithKernel,
                 Rtmr1Digests(GptDigest(gpt)), "rtmr2")

ComputeRtmr2 ==
  /\ pc = "rtmr2"
  /\ Outcome(request.uki \in PlainUkis,
             <<ComputedDigest("Sections", request.uki)>>, "computed")

\* The tool is run again later, perhaps with another baseline.
RunAgain ==
  /\ pc \in {"computed", "refused"}
  /\ pc' = "idle"
  /\ request' = NoRequest /\ registers' = <<>>
  /\ UNCHANGED <<machine, log, baseline, edited>>

Next ==
  \/ Capture
  \/ \E hash \in Firmwares \cup {NotThere} : ExtractBaseline(hash) \/ ExtractLegacyBaseline(hash)
  \/ ToggleSecureBoot
  \/ \E i \in DOMAIN baseline.events :
       DamageDigest(i) \/ SwapNext(i)
  \/ \E firmware \in Firmwares, uki \in Ukis, disk \in Disks \cup {NotThere},
        rtmr3 \in {NotThere, "malformed"} : Request(firmware, uki, disk, rtmr3)
  \/ VerifyInputs \/ ComputeMrtd \/ ComputeRtmr0 \/ ComputeRtmr1 \/ ComputeRtmr2
  \/ RunAgain

Spec == Init /\ [][Next]_vars

-----------------------------------------------------------------------------
(* Properties.                                                             *)

\* The type invariant.
TypeOK ==
  /\ machine \in Machines
  /\ baseline.firmware_sha384 \in Firmwares \cup {NotThere}
  /\ baseline.secureboot \in {"on", "off"}
  /\ edited \in BOOLEAN
  /\ pc \in {"idle", "verify", "mrtd", "rtmr0", "rtmr1", "rtmr2", "computed", "refused"}
  /\ Len(registers) = (CASE pc = "rtmr0" -> 1 [] pc = "rtmr1" -> 2 [] pc = "rtmr2" -> 3
                         [] pc = "computed" -> 4 [] pc = "refused" -> Len(registers) [] OTHER -> 0)

\* The machine the registers are asked for: the reference machine with the
\* firmware and the image that were given.
Described ==
  [machine EXCEPT !.firmware = request.firmware, !.uki = request.uki,
                  !.disk = IF request.disk # NotThere THEN request.disk ELSE @]

\* The registers computed are those one machine reports, never a combination of
\* halves of two: the baseline's events and the digests computed here are put
\* back in the order the machine measures them.
Reconstructs ==
  pc = "computed" /\ baseline.firmware_sha384 # NotThere =>
    \A rtmr \in 0..2 : registers[rtmr + 2] = Register(rtmr, Described)

\* With nothing wrong with the inputs, the registers of a standard machine are
\* computed.
RefusedForAReason ==
  pc = "refused" =>
    \/ machine.layout # Standard
    \/ baseline.firmware_sha384 \notin {NotThere, request.firmware}
    \/ edited
    \/ request.firmware \notin SoundFirmwares
    \/ request.uki \notin UkisWithKernel \cap PlainUkis
    \/ request.disk = NotThere
    \/ request.rtmr3 = "malformed"

\* The layouts that are told from the standard one by what a baseline has of them:
\* if the events kept of RTMR[0] are labelled as they must be, then all that are
\* recorded there are the standard ones, whichever ACPI table comes first.
SlotLabel(slot) == IF slot \in AcpiTables THEN "ACPI_DATA" ELSE slot
SlotLabels(slots) == [i \in 1..Len(slots) |-> SlotLabel(slots[i])]
RecordedSlots(layout) == Chosen(layout.rtmr0, LAMBDA s : s # "Bankless")
KeptSlots(layout) ==
  Chosen(RecordedSlots(layout), LAMBDA s : s \notin {"CFV", "SecureBoot", "Separator"})
SupportedLabels(labels) ==
  /\ ToBag(labels) = ToBag(ExpectedLabels)
  /\ Chosen(labels, LAMBDA l : l \notin ToSet(FixedLabels)) = TrailingLabels
ToldApart(layouts) ==
  \A layout \in layouts :
    /\ layout.rtmr1 = Standard.rtmr1
    /\ SupportedLabels(SlotLabels(KeptSlots(layout))) =>
         SlotLabels(RecordedSlots(layout)) = SlotLabels(Standard.rtmr0)

\* (Documented, not so.)  A baseline whose events are ordered differently from
\* what the supported firmware measures is refused.
OtherOrderRefused == pc = "computed" => Labels(RtmrEvents(0)) = ExpectedLabels

=============================================================================

# A TLA+ model of cvm-measure

`cvm-measure` predicts the launch measurements of confidential VMs.  For Intel
TDX it computes MRTD and RTMR[0..2] from a firmware image, a UKI, a disk and a
*baseline* captured once on a real machine; for Azure SEV-SNP it computes PCRs
from a UKI and a disk.  It also replays the event logs that such machines write
(the CCEL of a TDX guest, the vTPM log of an Azure guest).  A verifier compares
the result with a quote, so a wrong value that looks right is the one thing the
program must never produce: it has to compute the registers of a machine or
refuse.  Most properties below are forms of that sentence.

The program is sequential Python.  What is hard in it is not concurrency but
data that arrives damaged, cut short or from another machine; offsets and sizes
at their limits; the order in which things are hashed; and steps that fail
half-way.

Paths below are relative to the repository root; `cvm_measure/` is short for
`src/cvm_measure/`.

## 1. Inventory

| Component | State it keeps | Operations | What has to be right |
|---|---|---|---|
| Event log parser (`tcg.py`, `tdx/ccel.py`, `azure_snp/eventlog.py`) | buffer, body end, fill byte, cursor, digest sizes of the SpecIdEvent, events read | find the body, parse the SpecIdEvent, parse each event, check the tail | no byte of the fill taken for a digest, digests of the right length, records that tile the log, nothing dropped silently, a register that exists |
| Replay (`tdx/rtmr.py`, `azure_snp/eventlog.py`) | a register file | extend with each event's digest | the registers of one moment of the boot, or a refusal |
| RAM topology (`tdx/mrtd.py` `ram_regions`) | banks, RAM left, current node | place low memory, place a node's share | banks disjoint and sorted, all RAM placed, no node given more than its cap leaves |
| Unaccepted memory (`tdx/mrtd.py` `_unaccepted_mem_ranges`) | cursor into banks and into firmware regions | sweep | exactly the RAM no region covers; terminates |
| MRTD (`tdx/mrtd.py`) | regions, HOB list, digest | extract sections, build the TDHOB, measure page by page, `cfv_image` | what is measured is what the guest finds in memory; what cannot be loaded is refused |
| GUID table and metadata (`tdx/mrtd.py`) | how much of the table is left, blocks found, sections read | check the footer, walk the blocks backwards, locate the descriptor, parse sections | the sections of a descriptor that the table names, whatever sizes an image declares; ends |
| TDX baseline (`tdx/baseline.py`) | a JSON file: events, digests, Secure Boot flag, firmware hash | extract, load, toggle Secure Boot | keeps every event that cannot be computed, in order |
| TDX registers (`tdx/registers.py`) | registers computed so far | `compute_all`: verify, MRTD, RTMR[0], [1], [2] | registers of one machine, never of two |
| Disk (`disk.py`) | a temporary directory, the extracted image, mcopy's output file | resolve, bounded copy, validate and read the GPT, run mcopy | nothing left behind, extraction limit kept, the right table and the right UKI |
| UKI sections (`uki.py`) | none | list measured sections, refuse what is not modelled | what systemd-stub measures, or a refusal when the image does not decide it |
| PE (`tdx/pe.py`) | none | Authenticode digest, extract a section | every byte declared is hashed, none twice, none that is not there; virtual against raw size |
| Azure PCRs (`azure_snp/registers.py`) | PCRs computed so far | `compute_all`: PCR 4, 5, 8, 9, 11 | all of one guest or none; order of extends, digest truncation, where the command line ends |
| UEFI variables (`tdx/uefi.py`), GUIDs (`tdx/guid.py`) | none | serialise a structure | layout |
| Initdata (`initdata.py`, `tdx/initdata.py`) | none | find the algorithm, hash the file | the key counts only before the first table; a digest of the width the register takes |
| CLI and API (`cli.py`, `__init__.py`) | a baseline file on disk | `compute`, `extract-baseline`, `replay` | the calls above in the right order, of the same inputs |

How they interact: `replay` reads a log with the parser and replays it.
`extract-baseline` reads a log with the same parser and keeps what cannot be
computed.  `azure compute` takes a UKI and a partition table from a disk, and
initdata, to PCRs.  `compute` combines the baseline with MRTD (which uses the topology
and the sweep), the CFV of the firmware, the disk's partition table and the
UKI's sections.  All interaction is by call and return; the baseline file and
the temporary directory are the only state that outlives a function.

The hazards, each at its line and with the properties that speak of it, are
listed in `PROJECT.json` under `hazards`.

## 2. Modules

| Module | Models | Extends / uses |
|---|---|---|
| `EventLog` | the parser, with the parameters of either log | |
| `MeasurementReport` | abstract: what replay promises a verifier | |
| `MeasuredBoot` | firmware writing a log, the log being copied out, the parser, replay; implements `MeasurementReport` | `EventLog`, `INSTANCE MeasurementReport` |
| `RamTopology` | `ram_regions` | |
| `MemoryRegions` | address ranges, and the reference definition of uncovered RAM | |
| `UnacceptedMemory` | the sweep | `MemoryRegions` |
| `FirmwareMetadata` | GUID table, TDX metadata | |
| `Mrtd` | sections, TDHOB, measurement, `cfv_image` | `MemoryRegions` |
| `TdxReconstruction` | capture, baseline, `compute_all` | `Selection` |
| `Disk` | disk images, archives, GPT, mcopy | `Selection` |
| `PeImage` | PE headers, Authenticode digest, sections as they are loaded | |
| `Initdata` | the algorithm an initdata file declares, its digest | |
| `UkiMeasurement` | PCR 4, 5, 8, 9, 11 and RTMR[1], [2], [3] from a UKI and initdata, and the guest that boots it | `PeImage`, `Initdata`, `Selection` |
| `MC...` | constants for TLC | the module they are named after |
| `Selection` | what a list comprehension with a condition keeps of a list | |
| `...Proofs` | theorems; `EventLogProofs` has those of `MeasuredBoot` too | the module they are named after |

Some compositions are by module, others by promise: `MeasuredBoot` runs the
parser's actions on the log its firmware wrote, and its states map to those of
`MeasurementReport`; `UkiMeasurement` computes registers with the operators of
`PeImage` and `Initdata`; `TdxReconstruction` has the digests of a UKI as values
determined by it, and `UkiMeasurement` shows that they are; `Mrtd` starts from
the fields of the sections that `FirmwareMetadata` finds; `Mrtd` uses for unaccepted memory the reference definition
`Gaps`, and the sweep returns exactly that (`GapsAreWhole`, checked by the run
`UnacceptedMemory` and proved of every list by `RangesAreTheGaps`).
`UnacceptedMemory` assumes banks that are sorted and
disjoint, and `BanksAreSorted` in `RamTopologyProofs` proves it of every
topology.

Definitions named `Wrong...` are deliberate errors in the definition that
follows them.  No specification uses them: they are the mutants listed in
`PROJECT.json`, and for each property of each run there is one that TLC shows to
break it.

### From the code to the model

**`EventLog`.**  A cell stands for a byte on a reduced scale: 0..`MaxByte`, with
`MaxByte` for 0xFF.  A u32 takes two cells, so that the place where the fill
seems to begin can still fall within a number; a u16 and a u8 take one, since
no read of theirs can be cut in half.  `FindBody` is `_padding_start` as `parse_events` uses it;
`ParseSpecIdEvent` the first event with `parse_digest_sizes`;
`ParseEventHeader`, `ParseDigest` and `ParseEventData` are one turn of the loop
of `parse_events` with `_parse_event2` in three pieces, and every early `raise`
leads to `refused`; `CheckTail` is `_require_only_padding`.  `RequireStrict`
and `Require` are the two kinds of reads of `Cursor`: digests may not touch
the fill, other fields may run into it.  Digests are kept as the span they were
read from, so that a property can ask where a byte came from.  A CCEL has
`RegisterBase = 1` and `ToleratePadding = TRUE`, a vTPM log 0 and `FALSE`.

**`MeasuredBoot`.**  Firmware, the copy and user space are outside the
repository and are modelled from what the code assumes of them: firmware writes
a SpecIdEvent, then records, and extends a register for each record that is not
a note and has a digest of the bank.  The log may be cut at any cell and be
followed by any of `Fills`.  A register's value is the sequence of its digests:
the hash is taken to be injective, which is what a verifier relies on.  Three
assumptions say what the firmware of the runs and of the theorems is:
`SpecIdAssumption` (its first record is as long as it says),
`FirmwareAssumption` (each number fits its field, a measured event names a
register of the platform, and a digest has the size the SpecIdEvent lists for its
algorithm, or that of a known one it does not list) and `FillsAssumption` (what
follows a log that may be padded is one padding byte repeated).
`ReplayEvent` is one turn of the loop of `replay_events` /
`replay_event_log`.

**`RamTopology`, `UnacceptedMemory`.**  One action per branch of the loops;
variables have the names they have in the code.

**`FirmwareMetadata`.**  A cell is a field: a size, an offset, a GUID or a whole
section descriptor, so a size counts cells.  `ReadFooter` is the first half of
`_parse_fw_guid_table`, `WalkEntry` one turn of its loop, `LocateMetadata` the
checks of `_parse_tdx_metadata`, `ParseSection` one turn of its loop; `Refuse`
is each `raise`.  `SliceStart` keeps what Python makes of a negative start.  An
offset block with nothing in it has its own size and GUID read as the offset:
at full width that is a number larger than any image (`MetadataOffset`).

**`Mrtd`.**  Addresses and sizes count chunks of 256 bytes.  `ExtractRegion`
and `RefuseSections` are `_extract_material_regions`, `BuildTdhob`/`RefuseTdhob` are
`_build_tdhob`, `CheckRegion`, `MeasureChunk` and `NextRegion` are
`init_memory_region`.  The digest is the sequence of MEM.PAGE.ADD and MR.EXTEND
operations it absorbs.  Slices are Python's: past the end of the image they are
short.

**`TdxReconstruction`.**  A machine is a layout (which events its firmware
measures, in which order), a firmware, a Secure Boot setting, a UKI and a disk.
`Capture` boots one; `ExtractBaseline` and `ExtractLegacyBaseline` are
`extract_from_ccel` now and as it was when the GPT digest was still kept;
`ToggleSecureBoot` changes the setting on both sides; `DamageDigest` and
`SwapNext` edit the file.  `VerifyInputs`, `ComputeMrtd`, `ComputeRtmr0`,
`ComputeRtmr1` and `ComputeRtmr2` are `compute_all` in its order, and each may
refuse.  A digest is symbolic: what it is of, and what determines it.
`ToldApart` says of a set of layouts that the labels a baseline keeps of RTMR[0]
tell them from the standard one: if those of a layout are accepted, all it
records there is what the standard one does, except that the ACPI tables, which
have one label, may have changed places.  Two kinds of layouts are not told apart:
those that measure a computed event, say the separator, in another place, since
nothing of that event is in the baseline; and those that have the five events
looked up by label in another order, since that order is not looked at (the
finding of `TdxReconstructionOrder`).  `MCTdxReconstruction` has TLC confirm `ToldApart` of the
layouts of the run.

**`Disk`.**  A call of `gpt_event_data` or `extract_uki`, from
`_resolve_raw_disk` to the `finally` that removes the temporary directory.  A
checksum is what it is a checksum of.  The header is its fields in their order,
one cell each (`Place`), of which the first seven are the 92 bytes that are used
and measured, and the eighth the rest of the sector.  As in the code the header
says itself how long it is, and its checksum covers that much of it
(`Covered`): a tool may write any size, and damage goes unnoticed in what is not
covered, unless `HeaderSizeValid` refuses the size.  A sector may end early
(`header.length`).  Damage never yields a checksum that is right by chance
(`Damaged`).  `ArchiveFails`, of an archive that is not `readable`, and a
non-zero status of `Mcopy` are the failures that come from outside.

**`PeImage`.**  An image is a header and its content; on the scale used every
header field that is read, and every entry of the section table, takes one cell.
`AuthenticodeDefined` is the conjunction of all checks of
`pe_authenticode_digest` (each failure raises, and nothing is kept), and `Hashed`
the positions that the digest is computed over, in order; `Span` is a slice that
is cut short at the end of the file.  The loop over the sections is a function of
how many of them it has passed (`sum` in `SumOfBytes`, `hashed` in
`HashedSections`), in the order of `sections.sort()` (`InFileOrder`).  `ExtractDefined` and `Extracted` are
`pe_extract_section` at the virtual size, the only way it is called in `src`.
`<<>>` is its `None`.

**`Initdata`.**  A line is a table header, a quoted algorithm key or something
else; `SettledBy` is where the scan of `parse_algorithm` stops.  Digests keep
their widths, in units of 16 bytes, so that a digest cut to a register differs
from one that is not.

**`UkiMeasurement`.**  One action per register, in the order in which
`compute_all` of either platform calls for them; RTMR[3] is first, as in
`cli.py`.  A refusal drops the registers computed so far, as the exception does
(`TypeOK` says so, and its mutant keeps them).
The rest of the module is the guest: a firmware that hashes a regular image
whole, a systemd-stub that takes any one section of a name and may or may not
have a profile selected (`StubChoices`), an EFI stub that ends the command line
at its first NUL, and user space that extends as much of the initdata digest as
the register holds.  They are written from what the docstrings of the code say
of them, never from the code's own steps.

## 3. What is checked

### Runs that pass

| Run | Question | Bounds, and why they are enough |
|---|---|---|
| `EventLogCcel` | Does the parser keep its promises for any buffer? | SpecIdEvents well- and ill-formed in each field; up to two records, each field in and out of range; cut at any cell; tails of zeros, 0xFF, both, or neither. Two records are what "only the last event" and "each record follows the one before" need; the theorems of `EventLogProofs` drop the bound. |
| `BootCcel` | Is what is replayed of a TDX boot one moment of it, and is a whole log replayed whole? | `MaxLogSize = 41` holds two events. Digests, data and in one event the header end in 0xFF or 0, so that fill is mistaken for data and data for fill; notes, events without the bank and with two banks. |
| `BootVtpm` | The same for the vTPM log, which is the file's exact size, with a register that user space extends after the log is closed. | As above. |
| `RamTopology` | Is all of the RAM placed, above the hole within what the caps leave, and refused only when it cannot be? | Every topology of up to 9 GiB and four nodes, zero and negative arguments included. |
| `UnacceptedMemory` | Is the sweep exact, minimal and finite? | Up to three regions and three banks over eight addresses, overlapping, nested and empty ones included; ends that meet are all there. |
| `FirmwareMetadata` | Are the sections those that the image's table names, are sound images parsed, and does the walk end? | Images of up to three sections and three blocks, two of which may name an offset; each of them with any one cell changed to any of 24 values, two small ones with any two cells changed, all of them cut at either end at any place. The theorems drop the bounds. |
| `UkiMeasurement` | Are the registers those that the guest extends, and is a guest that the code undertakes to measure accepted? | UKIs laid out in ten ways and with a tail or certificates; each with any header or section field changed, the typical one with any two, all of them cut anywhere; the kernel's header changed likewise; NULs and bytes that are no UTF-8 anywhere in a command line of two bytes and its padding; every initdata file of up to three lines. Sizes lie on both sides of each check. |
| `Mrtd` | Is what is measured what is in memory? | Up to three sections of 18 kinds; pages of two chunks, an image of four, so that a section can be unaligned, clipped, empty or padded; with and without banks. |
| `TdxReconstruction` | Are the registers those of one machine? | The standard layout and twelve that differ in one event; two good firmwares and a broken one; three UKIs; two disks; one edit of the file; any number of computations. |
| `Disk` | Is what is returned the table or UKI of the image meant, within the limit and with nothing left behind? | Tables of up to three entries of three sizes at two places; headers that claim from 2 cells to 9, where 7 are used and there are 8; each header field damaged, each cell of the array, the end cut off at the array, within it and within the header, also where the checksum covers too little to show it; archives, whole and damaged, of up to two members with every combination of name, kind, declared and real size. |

What the properties say:

* `DigestsBeforeFill`, `DigestsAreWhole`, `OnlyLastEventReachesFill`,
  `NothingUnparsed` (`EventLog`): the promises of section 1, whatever sizes and
  counts a log declares.
* `ReportsAMoment` (`MeasuredBoot`): the refinement.  The tool refuses, or
  reports all registers as they were at *one* moment of the boot.  A log cut
  between two records gives an earlier moment; that cannot be told and is
  allowed.  `WholeLogReplayedWhole` (run `BootCcel`) excludes it for a log copied
  whole, also one that ends in what looks like fill, without saying that it is
  not refused; `WholeLogIsReplayed` (liveness) says that it is not, unless it ends in
  zeros and has no terminator.  In `BootVtpm` every whole log can be told, so
  that the second implies the first, which is not checked there.
* `BanksSortedDisjoint`, `AllRamPlaced`, `CapsRespected`,
  `RefusedOnlyIfItCannotFit` (`RamTopology`); `ExactCover`, `GapsAreWhole`,
  `Finishes` (`UnacceptedMemory`).  `CapsRespected` speaks of the banks above the
  hole: the 3 GiB below it are placed whatever the cap of the first node is (see
  below).
* `FoundWhereNamed`, `RefusedOnlyIfUnsound`, `Finishes` (`FirmwareMetadata`).  What
  a sound table is is stated without a walk, as a set of cuts that divides it
  into blocks.  A table declared larger than the image is walked in some other
  part of it (a negative start counts from the end), and the first property says
  that this never makes anything but named metadata pass.
* `ExtendsFollowTheirPage`, `EverySectionMeasured`, `MeasuresWhatIsThere`,
  `EndMarkerIsThere`, `CfvIsWhole`, `MeasuredIsLoadable`, `WellFormedIsMeasured`
  (`Mrtd`).  The last two bound from either side what is measured: no digest is
  returned of a table that cannot be loaded as it says, and no table is refused
  that is laid out as a firmware build does it.  Both are stated of the table,
  without the code's steps.  Between them are tables of which nothing is said,
  because neither the code nor its documentation does: sections that overlap,
  which are measured once each; volumes that are not measured and reach past the
  image; and a measured volume that claims more bytes than its memory in an image
  that ends where the memory is full, which is accepted because the slice is cut
  at the end of the image (`tdx/mrtd.py:481`), though `cfv_image` refuses
  such a CFV.
* `Reconstructs`, `RefusedForAReason` (`TdxReconstruction`): registers computed
  are those the machine described by the inputs reports, and a supported
  machine is not refused.  A baseline without a firmware hash may be combined
  with any firmware; the code documents that it cannot check that, and
  `Reconstructs` excepts it.
* `BootChainReproduced`, `SectionsReproduced`, `CmdlineAndInitrdReproduced`,
  `InitdataReproduced`: the registers are those of the guest, whichever choice
  the image leaves to it.  The first speaks of regular images (headers, then
  sections without a gap, then certificates), since the docstring of
  `pe_authenticode_digest` ("the entire file") is true only of those.
  `NothingClamped` holds of every image: no slice was cut short, so that a digest
  covers all that the image declares.  `RefusedForAReason` is the converse, on
  the limit of every check (`UkiMeasurement`).
* `NothingLeftBehind`, `WithinLimit`, `MeasuresThePartitions`, `UkiOfTheDisk`,
  `TableIsRead` (`Disk`).  The first of the last three says of the table returned,
  and the second of the table the EFI system partition is looked up in, that it
  is undamaged and that its checksum covers all that is used of it.  The last is
  the converse, for `gpt_event_data`: the table of an image in order, by itself or
  out of an archive in order, is read, on the limit of every check.

### Runs that show a divergence

Each checks a sentence of the documentation, which TLC refutes by what the
code does.

| Run | The documentation | The code |
|---|---|---|
| `BootCcelTruncated` | `README.md:392-394`: the fill is not a source of event bytes, so a truncated log cannot be completed with fill and replayed | Digests are read strictly, but the size and the data of the last event may run into the fill: a log cut there is accepted with data bytes firmware never wrote. No digest contains fill (`NoDigestFromFill` is proved), and the registers are still those of one moment (`ReportsAMoment`). |
| `TdxReconstructionOrder` | `README.md:383-386` and the docstring at `tdx/registers.py:213-215`: another event order is refused | The five fixed events are compared as a multiset, so their order in the baseline is not looked at. |

Three more, seen while modelling and not stated as runs:

* `README.md:375` and the docstring at `azure_snp/eventlog.py:80-82` say that a
  truncated log is refused.  If what is left of a cut event is shorter than a
  header and all zeros, it passes for padding: a vTPM log that is cut so is
  accepted without its last event, as if it had been cut before it.
  `ReportsAMoment` holds of such a log.
* `README.md:389` says that a topology whose per-node cap cannot hold the RAM is
  refused, and `tests/test_mrtd.py:133` that a cap smaller than the hole cannot
  fit.  The 3 GiB below the MMIO hole are placed without regard to the first
  node's cap (`tdx/mrtd.py:431`): 4 GiB are placed on two nodes capped at 1 GiB
  each.  `CapsRespected` therefore speaks of the banks above the hole only.
* RTMR[1] events of a baseline other than the GPT event are passed over
  (`tdx/registers.py:291`), so a machine that measures a boot services driver
  into RTMR[1] gets a value without it.  The machines of `TdxReconstruction` do
  not measure such events; that `Reconstructs` holds depends on this.

### Type invariants

Each module has one, and all of them are proved (section 4).  That of
`UkiMeasurement` is run as well, since it says that a call which fails reports
nothing.  `MeasuredEventsHaveRegister`, `RangesInOrder` and `BlocksAreMarked`
are likewise proved only.

### Deadlock and fairness

Deadlock is checked in the runs of `TdxReconstruction`, where the tool can
always be used again.  The other specifications are of calls that end.

Fairness is weak fairness of the steps of the tool, one thread of Python that
goes on until it returns or raises: `WF_vars(Next)` in `EventLog`,
`UnacceptedMemory` and `FirmwareMetadata`, `WF_allVars(Tool)` in `MeasuredBoot`.  Nothing makes
firmware or user space act.  The liveness properties are `Finishes`, of the sweep
and of the walk, and `WholeLogIsReplayed`.  The walk ends only because a size
less than that of an entry is refused: its mutant goes on for ever.

## 4. What is proved

TLAPS proves the following for every value of the constants that satisfies the
named assumptions (`ScaleAssumption` and the like, which TLC evaluates in the
runs).  In each module the argument is the same: an invariant `IInv` that holds
initially, is kept by each action (one lemma per action) and implies the
properties.  What a recursive function computes for every input is proved by a
least counterexample: a set of naturals that is not empty has a least member
(`LeastMember`), and what fails at a place first fails at some place.

**`EventLogProofs`** (any log, any scale, any digest table).  All of the
parser's safety properties, and `EventsTileLog`, which the runs do not state by
itself.  They are not inductive alone: the digest sizes a log declares are
remembered from its first event and used for all later ones, so `SizesAgree`
has to be carried along; and while an event is being read what holds of the
finished ones has to hold of the part read so far (`EntryInProgress`).

The same module has the proofs of `MeasuredBoot` (any firmware that satisfies
the assumptions, any place the log is cut at, any fill).  `ReportsOneMoment` is
the refinement: each step of the boot, of the parser and of the replay is a step
of `MeasurementReport` or a stutter.  The invariant `BootIInv` says that there
are events that firmware wrote, places where their records begin and register
files after each of them, by which the whole state is described:
`Chronicle` has the log as their records one behind the other, `Moments` the
history of the registers, `Copied` and `Genuine` how much of the log the buffer
holds and that what lies before the cursor is it, `EventsRead`, `EntryRead` and
`CursorInStep` that the events parsed are those events and the cursor is at the
end of the last, `Replayed` that the registers so far are the file after as many
events.  Reporting then gives the file of one moment.  `Exhausted`, that nothing
measured is left behind the last event of a log copied whole, gives
`WholeBootReplayed`.  The hard step is the last event, whose size and data may be
made of fill: its digests lie before it, and so it extends what the event that
firmware wrote did.  The invariant was first checked with TLC, on the
constants of `BootVtpm` and `BootCcel` with the three sequences as history
variables.

**`RamTopologyProofs`** (any request, any unit).  Type correctness, sorted
banks, all RAM placed, refusals justified, and above the hole no more on a node
than its cap leaves (`BanksWithinCap`).  `Accounted` says that
what is placed and what is left make up the RAM; `NodesFilled`, that while some
is left every node has been filled to its cap, is what makes a refusal right.
The lemmas about products are there because the cap is a number of nodes times
a number of GiB.

**`UnacceptedMemoryProofs`** (any lists of regions and banks, any addresses).
`UnacceptedIsExact` is the theorem that matters: an address is reported exactly
if it is RAM that no region covers.  `CoveredSoFar` says so of what lies behind
the cursor.  It rests on `PassedPrivates`: a region the index has passed lies
behind all RAM still to be swept, in later banks too.  `RangesAreTheGaps` says
that the list is `Gaps`, the reference definition that `Mrtd` starts from:
`RangesAreWhole`, that a reported range cannot be made longer within its bank
(`WholeGap`), needs that the cursor always stands at an edge, the start of a bank
or the end of a region (`CursorAtAnEdge`); and two lists of the same ranges in
order are one.

**`MrtdProofs`** (any table of sections, any image, page and bank sizes).  All
of the safety properties of `Mrtd`.  `RegionsMirrorSections` ties each region to
its section and to the bytes of the image behind it, `HobIsBuilt` the buffer of
the TDHOB to the list.  `ExtendsIntoItsPage` needs that the page of the next
chunk is the one added last (`PageIsOpen`); `MeasuresEverySection` counts, for
each address, the operations in the digest and the sections passed so far
(`CountedAt`); `OnlyLoadableIsMeasured`, `MeasuresTheWellFormed` and
`CfvMeasuredWhole` compare the checks, made region by region, with what is said
of the table at once.

**`FirmwareMetadataProofs`** (any image, any table size, any GUIDs).
`MetadataFoundWhereNamed` and `RefusalsJustified` are the two directions of what
the parser promises.  `Walked` says that what lies behind the walk is divided
into blocks, and gives the first; `Visited` says that if the table can be divided
at all, then the walk stops at its cuts and nowhere else, and gives the second.
Both name the block the dictionary has for the offset (`Taken`), since a later
block replaces an earlier one.

**`DiskProofs`** (any disks, any limits, any number and size of entries).  The
temporary directory is gone when a call ends, whichever step failed, and no more
than the limit is copied.  `DirectoryWhileItIsUsed` says at which steps there may
be a directory; `ResultsInOrder` is what types the result while a failed mcopy
has left a part of it.  `PartitionsMeasured`, `UkiIsTheDisks` and
`TableReadWhenUsable` say what is returned, and rest on three arguments.  The
image that is read is the only one meant (`OneImage`).  A table that passes the
checks is intact (`ValidIsIntact`): the size the header claims is itself
covered, so a header whose checksum agrees claims what it was made with and has
the same fields as far as that, and since the size is not less than what is used,
the checksum of the array is among them; so neither the header nor the array can
be other than they were.  Without the lower bound on the size the first step
fails, and the mutant `WrongHeaderSizeValid` shows what then is measured.  And the
entries cut out of the array of an intact table are the entries it was made of
(`ArrayOfSlots`, by division with remainder), of which the same places are kept
in the array and in the list of slots (`TakenInOrder`: what a selection keeps of a
sequence is the sequence at the selected places, in order).  `Selection` defines
that by the rank of a place, the number of places up to it, so that it is proved by
counting and not by induction over the sequence.

**`TdxReconstructionProofs`** (any firmware, UKI, disk and layout).  Type
correctness, and `RegistersOfOneCall`: the checks of a call are made by different
steps, and when the last register is computed all of them still hold of the
baseline and of the request that the registers are made of.

`MachineInvariance` adds `FromTheMachine`: the log is the machine's, and the
baseline is of the machine it was taken from (`BaselineOf`).  That is, there is a
place in the layout for every event kept of RTMR[0], whose label and digest the
event has unless it was damaged (`OfSlots`); the ACPI tables are in the order of
the layout (`TablesInOrder`); a baseline not edited, or of another layout than the
standard one, has the labels of the layout (`Labelled`).  Swapping two neighbours
keeps this because they have different labels, and toggling Secure Boot because its
event is not kept.  From it follow two theorems.  `RefusedOnlyForAReason` is
inductive on top of it: `StandardAccepted` shows that the thirteen events of a
standard machine pass every check of `_compute_rtmr0`.  `RegistersReconstructed`
supposes `ToldApart(Layouts)`, without which `Reconstructs` is false (layouts
of the second kind violate it).  `ReportedRtmr0` takes the sixteen digests one by one:
those looked up by label are of the slot of that label, those computed need that
the standard slot is recorded, and of those replayed by position the three ACPI
tables are in the order of the layout and so at 9, 10 and 11.  What the baseline
keeps of what was recorded of a log is a selection of a selection; `OrderWithin`
and `OneOrder` compose them.

**`UkiMeasurementProofs`** (any UKI and any initdata file).  `AllRegistersOrNone`:
a call that fails reports no register, though PCR 4 was computed long before.
`InitdataIsReproduced`: the scan that stops at the first table header or key finds
the one top-level key of a well-formed file, and the digest is as wide as the
register.

The other five properties compare what the code hashes with what the guest
does.  The invariant adds `Known`: each register computed has the value that its
action gives it, and the checks of that action held of the input
(`BootChainKnown`, `SectionsKnown`, `Pcr9Known`); and a call that was refused was
refused by a check that still fails (`CauseOfRefusal`).  Both are needed because
registers are computed one after the other: PCR 4 may be there when PCR 11
refuses the UKI, and the properties of a finished call rest on the checks of all
its registers.  `Known` was checked by TLC on the constants of the run before it
was proved.  What is left is about the input alone:

* `NothingIsClamped`: `InFileOrder` is a list of all the sections with content
  (`FileOrder`, by the number of sections ahead of each), so the concatenation
  along it has the bytes of each (`SectionsCovered`), and no span of a defined
  digest ends behind the file (`NoSpanIsCut`).
* `BootChainIsReproduced`: in a regular image each section begins where the one
  ahead of it in the file ends (`Tiling`), so the sizes added up are where the
  sections end, and the sections hashed so far are always one span behind the
  headers (`RegularSums`, by a least counterexample).  With the spans of the
  headers and of the tail that makes the whole file (`HashedIsWhole`).
* `SectionsAreReproduced`: a name that stands once leaves the stub no choice, and
  what is extracted is what is found in memory (`LoadedIsInMemory`,
  `StubTakesTheSame`).  systemd's list has one name more than the code's, which is
  never measured: the same places of both are selected (`SameNames`, by
  `TakenElsewhere`: an order-preserving map of the places of one selection to
  those of another keeps their ranks).
* `CmdlineAndInitrdAreReproduced`: a string that is accepted has its NULs at its
  end (`CmdlineEnds`), and so ends in the same place for the code, which strips
  them, and for the stub, which stops at the first (`StrippedIs`).
* `RefusedOnlyForAReason`: a regular image passes every check of the digest
  (`RegularIsDefined`), a section within the stub's limits is extracted
  (`SupportedIsExtracted`), a key that TOML has at the top level is the first line
  that settles the matter (`WellFormedIsAccepted`).

Only model-checked: liveness (both `Finishes`, `WholeLogIsReplayed`), which these
provers do not handle under fairness.  All safety properties of the passing runs
are proved.

No module uses a `RECURSIVE` operator.

## 5. What is not modelled

* `pe_extract_section` without `use_virtual_size`, which nothing outside of the
  tests uses, and `roothash`, which prints a word of the command line.
* TOML beyond lines: a line within a multi-line string that looks like the
  algorithm key is taken for one, and the code says that it does not parse TOML.
* The layout of the file system below `extract_uki`, which is mcopy's.
* `tdx/uefi.py` and `tdx/guid.py` lay out a structure that is hashed: no state
  and no choice.
* Argument parsing, printing and the wrappers of the Python API.
* `measure_all_regions` and `disable_unaccepted_memory`, which `compute_mrtd`
  never sets, and the bytes of a HOB.
* That two sections overlap is not forbidden by any property: the code accepts
  such a table, and says nothing about it, though the TDX module would not add a
  page twice.
* The fields of a GPT header that firmware compares and the code does not look
  at (its own sector, the backup table), and the bytes of a checksum.
* Hash collisions, and that files are replaced while a command reads them.

## 6. Plan

Done, in this order: `EventLog` and its proofs; `MeasurementReport` and
`MeasuredBoot`; `RamTopology`, `UnacceptedMemory` and their proofs; `Mrtd`;
`TdxReconstruction`; `Disk`; `FirmwareMetadata` and its proofs; `PeImage`,
`Initdata` and `UkiMeasurement`; first proofs of `Disk`, `UkiMeasurement` and
`TdxReconstruction`; all of `Mrtd`, `GapsAreWhole`, the refinement of
`MeasurementReport`; the rest of `Disk`, of `TdxReconstruction` and of
`UkiMeasurement`.

Next: `AzureCompute`.  `azure compute` reads the disk twice (`cli.py:315-321`); a
disk that is replaced in between yields registers of two images.

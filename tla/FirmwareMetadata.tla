-------------------------- MODULE FirmwareMetadata --------------------------
(***************************************************************************)
(* The way from a firmware image to the sections of its TDX metadata       *)
(* (tdx/mrtd.py, _parse_fw_guid_table and _parse_tdx_metadata): the footer *)
(* of the GUID table near the end of the image, the walk backwards through *)
(* the blocks of the table, the offset one of them holds, and the          *)
(* descriptor found there.                                                 *)
(*                                                                         *)
(* A cell of the image is a field: a size, an offset, a GUID, or a whole   *)
(* section descriptor.  GUIDs are cell values of their own.  Positions     *)
(* count from 0, as in the code.                                           *)
(* A definition named Wrong... is a deliberate error in the definition     *)
(* that follows it.                                                        *)
(***************************************************************************)
EXTENDS Integers, Sequences, FiniteSets

CONSTANTS
  Images,                     \* the firmware images tried
  FW_GUID_TABLE_END_OFFSET,   \* cells behind the footer
  FW_GUID_TABLE_FOOTER, TDX_METADATA_OFFSET_GUID, TDX_METADATA_GUID,
  TDX_METADATA_MAGIC, TDX_METADATA_VERSION

ASSUME ImagesAssumption == Images \subseteq Seq(Nat)
ASSUME FieldsAssumption ==
  {FW_GUID_TABLE_END_OFFSET, FW_GUID_TABLE_FOOTER, TDX_METADATA_OFFSET_GUID,
   TDX_METADATA_GUID, TDX_METADATA_MAGIC, TDX_METADATA_VERSION} \subseteq Nat

FW_GUID_ENTRY_SIZE == 2         \* a size and a GUID
GuidSize == 1
TDX_METADATA_HEADER_SIZE == 4   \* signature, length, version, section count
TDX_METADATA_SECTION_SIZE == 1

VARIABLES
  image,
  table_start, remaining,  \* the table, and how much of it is still to be walked
  guid_blocks,             \* GUID -> where in the image its block is
  sections,
  pc                       \* footer, walk, locate, sections, done or refused

vars == <<image, table_start, remaining, guid_blocks, sections, pc>>

Init ==
  /\ image \in Images
  /\ table_start = 0 /\ remaining = 0
  /\ guid_blocks = [g \in {} |-> 0]
  /\ sections = <<>>
  /\ pc = "footer"

Cell(at) == image[at + 1]
Size == Len(image)

-----------------------------------------------------------------------------
(* The footer.                                                             *)

TableEnd == Size - FW_GUID_TABLE_END_OFFSET - FW_GUID_ENTRY_SIZE

FooterValid ==
  /\ Size >= FW_GUID_TABLE_END_OFFSET + FW_GUID_ENTRY_SIZE
  /\ Cell(TableEnd + 1) = FW_GUID_TABLE_FOOTER
  /\ Cell(TableEnd) >= FW_GUID_ENTRY_SIZE

\* The size in the footer includes the footer.
DeclaredStart == TableEnd - (Cell(TableEnd) - FW_GUID_ENTRY_SIZE)

\* firmware[table_start:table_end]: a start before the image counts from its
\* end, and the slice is empty if that is behind the table.
SliceStart ==
  LET start == IF DeclaredStart >= 0 THEN DeclaredStart
               ELSE IF Size + DeclaredStart >= 0 THEN Size + DeclaredStart ELSE 0
  IN IF start <= TableEnd THEN start ELSE TableEnd

ReadFooter ==
  /\ pc = "footer" /\ FooterValid
  /\ table_start' = SliceStart
  /\ remaining' = TableEnd - SliceStart
  /\ pc' = "walk"
  /\ UNCHANGED <<image, guid_blocks, sections>>

-----------------------------------------------------------------------------
(* The walk.  An entry is at the end of its block, and its size is that of *)
(* the block with the entry.                                               *)

EntryAt == table_start + remaining - FW_GUID_ENTRY_SIZE

\* A size is believed however small it is.
WrongEntryValid ==
  remaining >= FW_GUID_ENTRY_SIZE /\ Cell(EntryAt) <= remaining
\* The block at the start of the table, which is all that remains, is refused.
WrongEntryBound ==
  /\ remaining >= FW_GUID_ENTRY_SIZE
  /\ Cell(EntryAt) >= FW_GUID_ENTRY_SIZE
  /\ Cell(EntryAt) < remaining
EntryValid ==
  /\ remaining >= FW_GUID_ENTRY_SIZE
  /\ Cell(EntryAt) >= FW_GUID_ENTRY_SIZE
  /\ Cell(EntryAt) <= remaining

Block == [start |-> table_start + remaining - Cell(EntryAt), size |-> Cell(EntryAt)]

\* A GUID that was there already is given to the block found later.
WalkEntry ==
  /\ pc = "walk" /\ remaining > 0 /\ EntryValid
  /\ guid_blocks' = [g \in DOMAIN guid_blocks \cup {Cell(EntryAt + 1)} |->
                       IF g = Cell(EntryAt + 1) THEN Block ELSE guid_blocks[g]]
  /\ remaining' = remaining - Cell(EntryAt)
  /\ UNCHANGED <<image, table_start, sections, pc>>

EndWalk ==
  /\ pc = "walk" /\ remaining = 0
  /\ pc' = "locate"
  /\ UNCHANGED <<image, table_start, remaining, guid_blocks, sections>>

-----------------------------------------------------------------------------
(* The descriptor.  Its offset counts from the end of the image to what    *)
(* follows the metadata GUID.                                              *)

HasOffsetBlock == TDX_METADATA_OFFSET_GUID \in DOMAIN guid_blocks
OffsetBlock == guid_blocks[TDX_METADATA_OFFSET_GUID]

\* A block with nothing in it has its own size and GUID read as the offset: a
\* number larger than any image.
MetadataOffset ==
  IF OffsetBlock.size > FW_GUID_ENTRY_SIZE THEN Cell(OffsetBlock.start) ELSE Size + 1

OffsetInRange(offset) == offset >= GuidSize /\ offset <= Size - GuidSize

\* The descriptor at a position: signature, length, version and count.  The
\* length is not looked at.
Signature(at) == Cell(at)
Version(at) == Cell(at + 2)
SectionCount(at) == Cell(at + 3)
FirstSection(at) == at + TDX_METADATA_HEADER_SIZE

\* The version is not looked at either.
WrongDescriptorValid(at) ==
  /\ Cell(at - GuidSize) = TDX_METADATA_GUID
  /\ at + TDX_METADATA_HEADER_SIZE <= Size
  /\ Signature(at) = TDX_METADATA_MAGIC
  /\ SectionCount(at) * TDX_METADATA_SECTION_SIZE <= Size - FirstSection(at)
DescriptorValid(at) ==
  /\ Cell(at - GuidSize) = TDX_METADATA_GUID
  /\ at + TDX_METADATA_HEADER_SIZE <= Size
  /\ Signature(at) = TDX_METADATA_MAGIC
  /\ Version(at) = TDX_METADATA_VERSION
  /\ SectionCount(at) * TDX_METADATA_SECTION_SIZE <= Size - FirstSection(at)

Desc == Size - MetadataOffset

Located == HasOffsetBlock /\ OffsetInRange(MetadataOffset) /\ DescriptorValid(Desc)

LocateMetadata ==
  /\ pc = "locate" /\ Located
  /\ pc' = "sections"
  /\ UNCHANGED <<image, table_start, remaining, guid_blocks, sections>>

ParseSection ==
  /\ pc = "sections" /\ Len(sections) < SectionCount(Desc)
  /\ sections' = Append(sections,
                   Cell(FirstSection(Desc) + Len(sections) * TDX_METADATA_SECTION_SIZE))
  /\ UNCHANGED <<image, table_start, remaining, guid_blocks, pc>>

Return ==
  /\ pc = "sections" /\ Len(sections) = SectionCount(Desc)
  /\ pc' = "done"
  /\ UNCHANGED <<image, table_start, remaining, guid_blocks, sections>>

Refuse ==
  /\ \/ pc = "footer" /\ ~FooterValid
     \/ pc = "walk" /\ remaining > 0 /\ ~EntryValid
     \/ pc = "locate" /\ ~Located
  /\ pc' = "refused"
  /\ UNCHANGED <<image, table_start, remaining, guid_blocks, sections>>

Next == ReadFooter \/ WalkEntry \/ EndWalk \/ LocateMetadata \/ ParseSection \/ Return \/ Refuse

\* One thread, which goes on until it returns or raises.
Spec == Init /\ [][Next]_vars /\ WF_vars(Next)

-----------------------------------------------------------------------------
(* Properties.                                                             *)

\* Every variable has values of its type, and the table is inside the image.
TypeOK ==
  /\ image \in Seq(Nat)
  /\ table_start \in Nat /\ remaining \in Nat
  /\ table_start + remaining <= Size
  /\ guid_blocks \in [DOMAIN guid_blocks -> [start : Nat, size : Nat]]
  /\ sections \in Seq(Nat)
  /\ pc \in {"footer", "walk", "locate", "sections", "done", "refused"}

\* What it means for an image to have metadata, without a walk.  Cuts divide a
\* table from start into blocks: each but the first is the end of a block whose
\* size leads to the cut before it.
IsBlock(from, to) ==
  /\ to - from >= FW_GUID_ENTRY_SIZE
  /\ Cell(to - FW_GUID_ENTRY_SIZE) = to - from
Divides(cuts, start) ==
  /\ {start, TableEnd} \subseteq cuts
  /\ \A to \in cuts \ {start} :
       \E from \in cuts : IsBlock(from, to) /\ \A c \in cuts : ~(from < c /\ c < to)
OffsetBlockEnds(cuts, start) ==
  {to \in cuts \ {start} : Cell(to - 1) = TDX_METADATA_OFFSET_GUID}
NamedBy(to) ==
  IF Cell(to - FW_GUID_ENTRY_SIZE) = FW_GUID_ENTRY_SIZE THEN Size + 1
  ELSE Cell(to - Cell(to - FW_GUID_ENTRY_SIZE))
Describes(offset) ==
  /\ offset \in TDX_METADATA_HEADER_SIZE..(Size - GuidSize)
  /\ LET at == Size - offset
     IN /\ Cell(at - GuidSize) = TDX_METADATA_GUID
        /\ Signature(at) = TDX_METADATA_MAGIC /\ Version(at) = TDX_METADATA_VERSION
        /\ SectionCount(at) <= offset - TDX_METADATA_HEADER_SIZE
SectionsBehind(offset) ==
  LET first == FirstSection(Size - offset)
  IN [i \in 1..SectionCount(Size - offset) |-> Cell(first + i - 1)]
HasTable(start) == FooterValid /\ DeclaredStart = start /\ start >= 0
Tables(start) == {cuts \in SUBSET (start..TableEnd) : Divides(cuts, start)}

\* The sections of mrtd.py:159-214 are those of a descriptor that the table
\* names, and the table is divided into blocks without a gap: a size that is
\* out of step never makes other bytes pass for metadata.  A table that is
\* declared larger than the image (mrtd.py:117) is no exception: what is walked
\* is some part of the image.
FoundWhereNamed ==
  pc = "done" =>
    /\ FooterValid
    /\ \E start \in 0..TableEnd :
         /\ DeclaredStart >= 0 => start = DeclaredStart
         /\ \E cuts \in Tables(start) : \E to \in OffsetBlockEnds(cuts, start) :
              Describes(NamedBy(to)) /\ sections = SectionsBehind(NamedBy(to))

\* An image is refused only if its table is missing or out of step, if no
\* block of it names metadata, or if one that does names something else: an
\* image whose metadata is sound is measured (mrtd.py:96-214).
RefusedOnlyIfUnsound ==
  pc = "refused" =>
    ~ \E start \in 0..Size : HasTable(start) /\
        \E cuts \in Tables(start) :
          /\ OffsetBlockEnds(cuts, start) # {}
          /\ \A to \in OffsetBlockEnds(cuts, start) : Describes(NamedBy(to))

\* While blocks are collected (mrtd.py:121-134) each is inside the table,
\* behind what is still to be walked, and ends in its own size and GUID; so the
\* offset is never read from another block's bytes.
BlocksAreMarked ==
  \A g \in DOMAIN guid_blocks :
    LET b == guid_blocks[g]
        entry == b.start + b.size - FW_GUID_ENTRY_SIZE
    IN /\ b.size >= FW_GUID_ENTRY_SIZE
       /\ table_start + remaining <= b.start
       /\ b.start + b.size <= TableEnd
       /\ Cell(entry) = b.size /\ Cell(entry + 1) = g

\* The walk backwards ends whatever sizes the entries declare
\* (mrtd.py:123-134): it is the lower bound on a size that makes it end.
Finishes == <>(pc \in {"done", "refused"})
=============================================================================

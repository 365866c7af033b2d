----------------------- MODULE FirmwareMetadataProofs -----------------------
(* Theorems about FirmwareMetadata, for every image.                        *)
EXTENDS FirmwareMetadata, TLAPS

Walking == pc \in {"walk", "locate", "sections", "done"}
Pos == table_start + remaining

\* The block that ends at a cut is the one the dictionary has for the offset.
Taken(to) ==
  /\ Cell(to - 1) = TDX_METADATA_OFFSET_GUID
  /\ OffsetBlock = [start |-> to - Cell(to - FW_GUID_ENTRY_SIZE),
                    size |-> Cell(to - FW_GUID_ENTRY_SIZE)]

\* What has been walked is divided into blocks.
Walked ==
  \E cuts \in SUBSET (Pos..TableEnd) :
    /\ Divides(cuts, Pos)
    /\ HasOffsetBlock => \E to \in cuts \ {Pos} : Taken(to)

\* If the table can be divided at all, the walk stops at its cuts, and has
\* collected the blocks that end behind it.
Visited ==
  \A cuts \in SUBSET (table_start..TableEnd) :
    Divides(cuts, table_start) =>
      /\ Pos \in cuts
      /\ \A to \in cuts : to > Pos => Cell(to - 1) \in DOMAIN guid_blocks
      /\ HasOffsetBlock => \E to \in cuts \ {table_start} : Taken(to)

\* The sections read so far.
ReadSoFar ==
  /\ Len(sections) <= SectionCount(Desc)
  /\ \A i \in 1..Len(sections) : sections[i] = Cell(FirstSection(Desc) + i - 1)
  /\ pc = "done" => Len(sections) = SectionCount(Desc)

IInv ==
  /\ TypeOK
  /\ BlocksAreMarked
  /\ pc = "footer" => guid_blocks = [g \in {} |-> 0] /\ sections = <<>>
  /\ Walking => FooterValid /\ table_start = SliceStart /\ Pos <= TableEnd /\ Walked /\ Visited
  /\ pc \in {"walk", "locate"} => sections = <<>>
  /\ pc \in {"locate", "sections", "done"} => remaining = 0
  /\ pc \in {"sections", "done"} => Located /\ ReadSoFar
  /\ RefusedOnlyIfUnsound

USE DEF FW_GUID_ENTRY_SIZE, GuidSize, TDX_METADATA_HEADER_SIZE, TDX_METADATA_SECTION_SIZE

LEMMA InitInv == Init => IInv
<1> SUFFICES ASSUME Init PROVE IInv
  OBVIOUS
<1> USE DEF Init
<1>1. TypeOK
  BY ImagesAssumption DEF TypeOK, Size
<1>2. BlocksAreMarked
  BY DEF BlocksAreMarked
<1> QED
  BY <1>1, <1>2 DEF IInv, Walking, RefusedOnlyIfUnsound

LEMMA Fields ==
  /\ FW_GUID_TABLE_END_OFFSET \in Nat /\ FW_GUID_TABLE_FOOTER \in Nat
  /\ TDX_METADATA_OFFSET_GUID \in Nat /\ TDX_METADATA_GUID \in Nat
  /\ TDX_METADATA_MAGIC \in Nat /\ TDX_METADATA_VERSION \in Nat
BY FieldsAssumption

LEMMA ImageType ==
  ASSUME TypeOK
  PROVE  Size \in Nat /\ \A at \in 0..(Size - 1) : Cell(at) \in Nat
<1>1. image \in Seq(Nat)
  BY DEF TypeOK
<1> QED
  BY <1>1 DEF Size, Cell

\* The slice of the table is inside the image.
LEMMA SliceInside ==
  ASSUME TypeOK, FooterValid
  PROVE  /\ TableEnd \in Nat /\ TableEnd < Size
         /\ SliceStart \in Nat /\ SliceStart <= TableEnd
         /\ DeclaredStart \in Int
         /\ DeclaredStart >= 0 => SliceStart = DeclaredStart
<1>1. Size \in Nat /\ TableEnd \in Nat /\ TableEnd + 1 < Size
  BY Fields, ImageType DEF FooterValid, TableEnd
<1>2. Cell(TableEnd) \in Nat
  BY <1>1, ImageType
<1> QED
  BY <1>1, <1>2 DEF FooterValid, DeclaredStart, SliceStart

LEMMA ReadFooterInv == IInv /\ ReadFooter => IInv'
<1> SUFFICES ASSUME IInv, ReadFooter PROVE IInv'
  OBVIOUS
<1> USE DEF ReadFooter
<1>0. TypeOK /\ guid_blocks = [g \in {} |-> 0] /\ sections = <<>>
  BY DEF IInv
<1>1. /\ Size' = Size /\ Size \in Nat /\ TableEnd' = TableEnd /\ SliceStart' = SliceStart /\ FooterValid'
      /\ table_start' = SliceStart /\ Pos' = TableEnd
      /\ TableEnd \in Nat /\ TableEnd < Size /\ SliceStart \in Nat /\ SliceStart <= TableEnd
  BY <1>0, SliceInside, ImageType DEF Size, TableEnd, SliceStart, DeclaredStart, Cell, FooterValid, Pos
<1>2. TypeOK'
  <2>1. table_start' \in Nat /\ remaining' \in Nat /\ table_start' + remaining' <= Size
    BY <1>1
  <2> QED
    BY <1>0, <1>1, <2>1 DEF TypeOK
<1>3. BlocksAreMarked'
  BY <1>0 DEF BlocksAreMarked
<1>4. Walked'
  <2>1. {TableEnd'} \in SUBSET (Pos'..TableEnd')
    BY <1>1
  <2>2. Divides({TableEnd}, Pos)'
    BY <1>1 DEF Divides
  <2>3. ~HasOffsetBlock'
    BY <1>0 DEF HasOffsetBlock
  <2> QED
    BY <2>1, <2>2, <2>3, Zenon DEF Walked
<1>5. Visited'
  <2> SUFFICES ASSUME NEW cuts \in SUBSET (table_start'..TableEnd'), Divides(cuts, table_start)'
               PROVE  /\ Pos' \in cuts
                      /\ \A to \in cuts : ~(to > Pos')
    BY <1>0 DEF Visited, HasOffsetBlock
  <2> QED
    BY <1>1 DEF Divides
<1> QED
  BY <1>0, <1>1, <1>2, <1>3, <1>4, <1>5 DEF IInv, Walking, RefusedOnlyIfUnsound

\* What the walk looks at stays as it is while the image does.
LEMMA SameImage ==
  ASSUME image' = image
  PROVE  /\ Size' = Size /\ TableEnd' = TableEnd /\ DeclaredStart' = DeclaredStart
         /\ SliceStart' = SliceStart /\ FooterValid' = FooterValid
         /\ \A at : Cell(at)' = Cell(at)
         /\ \A cuts, start : Divides(cuts, start)' = Divides(cuts, start)
<1>1. Size' = Size /\ TableEnd' = TableEnd /\ \A at : Cell(at)' = Cell(at)
  BY DEF Size, TableEnd, Cell
<1>2. DeclaredStart' = DeclaredStart
  BY <1>1 DEF DeclaredStart
<1>3. SliceStart' = SliceStart
  BY <1>1, <1>2 DEF SliceStart
<1>4. FooterValid' = FooterValid
  BY <1>1 DEF FooterValid
<1>5. ASSUME NEW cuts, NEW start
      PROVE  Divides(cuts, start)' = Divides(cuts, start)
  BY <1>1 DEF Divides, IsBlock
<1> QED
  BY <1>1, <1>2, <1>3, <1>4, <1>5

\* A block ahead of what is divided divides it further.
LEMMA DividesMore ==
  ASSUME TableEnd \in Int, NEW p \in Int, NEW q \in Int, q < p,
         NEW cuts \in SUBSET (p..TableEnd), Divides(cuts, p), IsBlock(q, p),
         p <= TableEnd
  PROVE  cuts \cup {q} \in SUBSET (q..TableEnd) /\ Divides(cuts \cup {q}, q)
<1>1. cuts \cup {q} \in SUBSET (q..TableEnd)
  OBVIOUS
<1>2. ASSUME NEW to \in (cuts \cup {q}) \ {q}
      PROVE  \E from \in cuts \cup {q} :
               IsBlock(from, to) /\ \A c \in cuts \cup {q} : ~(from < c /\ c < to)
  <2>1. CASE to = p
    BY <2>1
  <2>2. CASE to # p
    <3>1. PICK from \in cuts : IsBlock(from, to) /\ \A c \in cuts : ~(from < c /\ c < to)
      BY <1>2, <2>2 DEF Divides
    <3> QED
      BY <3>1
  <2> QED
    BY <2>1, <2>2
<1> QED
  BY <1>1, <1>2 DEF Divides

LEMMA WalkEntryInv == IInv /\ WalkEntry => IInv'
<1> SUFFICES ASSUME IInv, WalkEntry PROVE IInv'
  OBVIOUS
<1> DEFINE size == Cell(EntryAt)
           guid == Cell(EntryAt + 1)
<1>1. /\ TypeOK /\ BlocksAreMarked /\ sections = <<>> /\ pc = "walk" /\ FooterValid
      /\ table_start = SliceStart /\ Pos <= TableEnd /\ Walked /\ Visited
  BY DEF IInv, Walking, WalkEntry
<1>2. /\ image' = image /\ table_start' = table_start /\ sections' = sections /\ pc' = pc
      /\ remaining > 0 /\ EntryValid /\ remaining' = remaining - size
      /\ guid_blocks' = [g \in DOMAIN guid_blocks \cup {guid} |->
                           IF g = guid THEN Block ELSE guid_blocks[g]]
  BY DEF WalkEntry
<1>3. /\ Size' = Size /\ TableEnd' = TableEnd /\ SliceStart' = SliceStart /\ FooterValid'
      /\ \A at : Cell(at)' = Cell(at)
      /\ \A cuts, start : Divides(cuts, start)' = Divides(cuts, start)
  BY <1>1, <1>2, SameImage
<1>4. Size \in Nat /\ TableEnd \in Nat /\ TableEnd < Size /\ table_start \in Nat /\ remaining \in Nat
  BY <1>1, SliceInside, ImageType DEF TypeOK
<1>5. EntryAt \in Nat /\ EntryAt + 2 = Pos /\ EntryAt + 1 < Size
  BY <1>1, <1>2, <1>4 DEF EntryAt, EntryValid, Pos
<1>6. size \in Nat /\ size >= 2 /\ size <= remaining /\ guid \in Nat
  BY <1>2, <1>4, <1>5, <1>1, ImageType DEF EntryValid
<1>7. Block = [start |-> Pos - size, size |-> size] /\ Block \in [start : Nat, size : Nat]
  BY <1>4, <1>6 DEF Block, Pos
<1>8. Pos \in Nat /\ Pos' = Pos - size /\ Pos' \in Nat /\ table_start <= Pos'
  BY <1>2, <1>4, <1>6 DEF Pos
<1> HIDE DEF size, guid
<1>9. TypeOK'
  <2>1. guid_blocks \in [DOMAIN guid_blocks -> [start : Nat, size : Nat]]
    BY <1>1 DEF TypeOK
  <2>2. guid_blocks' \in [DOMAIN guid_blocks' -> [start : Nat, size : Nat]]
    BY <2>1, <1>2, <1>7
  <2>3. remaining' \in Nat /\ table_start' + remaining' <= Size'
    BY <1>1, <1>2, <1>3, <1>4, <1>6, <1>8 DEF Pos
  <2> QED
    BY <1>1, <1>2, <2>2, <2>3 DEF TypeOK
<1>10. BlocksAreMarked'
  <2> SUFFICES ASSUME NEW g \in DOMAIN guid_blocks'
               PROVE  /\ guid_blocks'[g].size >= 2
                      /\ Pos' <= guid_blocks'[g].start
                      /\ guid_blocks'[g].start + guid_blocks'[g].size <= TableEnd
                      /\ Cell(guid_blocks'[g].start + guid_blocks'[g].size - 2) = guid_blocks'[g].size
                      /\ Cell(guid_blocks'[g].start + guid_blocks'[g].size - 2 + 1) = g
    BY <1>3, Zenon DEF BlocksAreMarked, Pos
  <2>1. CASE g = guid
    <3>1. guid_blocks'[g] = [start |-> Pos - size, size |-> size]
      BY <2>1, <1>2, <1>7
    <3>2. guid_blocks'[g].start = Pos - size /\ guid_blocks'[g].size = size
      BY <3>1
    <3>3. guid_blocks'[g].start + guid_blocks'[g].size - 2 = EntryAt
      BY <3>2, <1>5, <1>6, <1>8
    <3> QED
      BY <2>1, <3>2, <3>3, <1>1, <1>4, <1>6, <1>8 DEF size, guid
  <2>2. CASE g # guid
    <3>1. g \in DOMAIN guid_blocks /\ guid_blocks'[g] = guid_blocks[g]
      BY <2>2, <1>2
    <3>2. guid_blocks[g] \in [start : Nat, size : Nat]
      BY <3>1, <1>1 DEF TypeOK
    <3>3. /\ guid_blocks[g].size >= 2
          /\ Pos <= guid_blocks[g].start
          /\ guid_blocks[g].start + guid_blocks[g].size <= TableEnd
          /\ Cell(guid_blocks[g].start + guid_blocks[g].size - 2) = guid_blocks[g].size
          /\ Cell(guid_blocks[g].start + guid_blocks[g].size - 2 + 1) = g
      BY <3>1, <1>1 DEF BlocksAreMarked, Pos
    <3> QED
      BY <3>1, <3>2, <3>3, <1>6, <1>8
  <2> QED
    BY <2>1, <2>2
<1>11. ASSUME NEW to, to = Pos, guid = TDX_METADATA_OFFSET_GUID
       PROVE  Taken(to)'
  <2>1. guid_blocks'[TDX_METADATA_OFFSET_GUID] = [start |-> Pos - size, size |-> size]
    BY <1>2, <1>7, <1>11
  <2>2. Cell(to - 1) = guid /\ Cell(to - 2) = size
    <3>1. to - 1 = EntryAt + 1 /\ to - 2 = EntryAt
      BY <1>11, <1>5
    <3> QED
      BY <3>1 DEF guid, size
  <2> QED
    BY <1>3, <1>11, <2>1, <2>2 DEF Taken, OffsetBlock
<1>12. ASSUME NEW to, Taken(to), HasOffsetBlock, guid # TDX_METADATA_OFFSET_GUID
       PROVE  Taken(to)'
  <2>1. guid_blocks'[TDX_METADATA_OFFSET_GUID] = guid_blocks[TDX_METADATA_OFFSET_GUID]
    BY <1>2, <1>12 DEF HasOffsetBlock
  <2> QED
    BY <1>3, <1>12, <2>1 DEF Taken, OffsetBlock
<1>13. HasOffsetBlock' => HasOffsetBlock \/ guid = TDX_METADATA_OFFSET_GUID
  BY <1>2 DEF HasOffsetBlock
<1>14. PICK p, q : p = Pos /\ q = Pos'
  OBVIOUS
<1>15. p \in Nat /\ q \in Nat /\ q = p - size /\ q < p /\ p <= TableEnd
  BY <1>1, <1>6, <1>8, <1>14
<1>16. IsBlock(q, p)
  <2>1. p - 2 = EntryAt
    BY <1>5, <1>14, <1>15
  <2> QED
    BY <2>1, <1>6, <1>15 DEF IsBlock, size
<1>17. Walked'
  <2>1. PICK cuts \in SUBSET (p..TableEnd) :
          /\ Divides(cuts, p)
          /\ HasOffsetBlock => \E to \in cuts \ {p} : Taken(to)
    BY <1>1, <1>14 DEF Walked
  <2>2. PICK more : more = cuts \cup {q}
    OBVIOUS
  <2>3. more \in SUBSET (q..TableEnd) /\ Divides(more, q)
    <3>1. cuts \cup {q} \in SUBSET (q..TableEnd) /\ Divides(cuts \cup {q}, q)
      <4>1. p \in Int /\ q \in Int /\ q < p /\ p <= TableEnd /\ TableEnd \in Int
        BY <1>4, <1>15
      <4> QED
        BY <4>1, <1>16, <2>1, DividesMore
    <3> QED
      BY <3>1, <2>2
  <2>4. ASSUME HasOffsetBlock' PROVE \E to \in more \ {q} : Taken(to)'
    <3>1. CASE guid = TDX_METADATA_OFFSET_GUID
      <4>1. p \in more \ {q}
        BY <1>15, <2>1, <2>2 DEF Divides
      <4> QED
        BY <3>1, <4>1, <1>11, <1>14
    <3>2. CASE guid # TDX_METADATA_OFFSET_GUID
      <4>1. PICK to \in cuts \ {p} : Taken(to)
        BY <3>2, <2>1, <2>4, <1>13
      <4>2. to \in more \ {q}
        BY <4>1, <2>1, <2>2, <1>4, <1>15
      <4> QED
        BY <4>1, <4>2, <3>2, <2>4, <1>12, <1>13
    <3> QED
      BY <3>1, <3>2
  <2>5. more \in SUBSET (Pos'..TableEnd') /\ Divides(more, Pos)'
    BY <2>3, <1>3, <1>14 DEF Divides, IsBlock
  <2>6. HasOffsetBlock' => \E to \in more \ {Pos'} : Taken(to)'
    BY <2>4, <1>14
  <2> QED
    BY <2>5, <2>6, Zenon DEF Walked
<1>18. Visited'
  <2> SUFFICES ASSUME NEW cuts \in SUBSET (table_start..TableEnd), Divides(cuts, table_start)
               PROVE  /\ q \in cuts
                      /\ \A to \in cuts : to > q => Cell(to - 1) \in DOMAIN guid_blocks'
                      /\ HasOffsetBlock' => \E to \in cuts \ {table_start} : Taken(to)'
    <3>1. table_start' = table_start /\ TableEnd' = TableEnd
      BY <1>2, <1>3
    <3>2. \A cuts : Divides(cuts, table_start)' <=> Divides(cuts, table_start)
      BY <3>1, <1>3
    <3>3. \A to : Cell(to - 1)' = Cell(to - 1)
      BY <1>3
    <3> QED
      BY <3>1, <3>2, <3>3, <1>14, Zenon DEF Visited
  <2>1. /\ p \in cuts
        /\ \A to \in cuts : to > p => Cell(to - 1) \in DOMAIN guid_blocks
        /\ HasOffsetBlock => \E to \in cuts \ {table_start} : Taken(to)
    BY <1>1, <1>14 DEF Visited
  <2>2. p # table_start
    BY <1>2, <1>4, <1>14 DEF Pos
  <2>3. PICK from \in cuts : IsBlock(from, p) /\ \A c \in cuts : ~(from < c /\ c < p)
    BY <2>1, <2>2 DEF Divides
  <2>4. from = q
    BY <2>3, <1>4, <1>15, <1>16 DEF IsBlock
  <2>5. ASSUME NEW to \in cuts, to > q PROVE Cell(to - 1) \in DOMAIN guid_blocks'
    <3>1. to \in Int /\ to >= p
      BY <2>3, <2>4, <2>5, <1>4, <1>15
    <3>2. CASE to = p
      <4>1. to - 1 = EntryAt + 1
        BY <3>2, <1>5, <1>14
      <4> QED
        BY <4>1, <1>2 DEF guid
    <3>3. CASE to > p
      BY <3>3, <2>1, <1>2
    <3> QED
      BY <3>1, <3>2, <3>3, <1>15
  <2>6. ASSUME HasOffsetBlock' PROVE \E to \in cuts \ {table_start} : Taken(to)'
    <3>1. CASE guid = TDX_METADATA_OFFSET_GUID
      BY <3>1, <2>1, <2>2, <1>11, <1>14
    <3>2. CASE guid # TDX_METADATA_OFFSET_GUID
      BY <3>2, <2>1, <2>6, <1>12, <1>13
    <3> QED
      BY <3>1, <3>2
  <2> QED
    BY <2>3, <2>4, <2>5, <2>6
<1>19. Pos' <= TableEnd' /\ table_start' = SliceStart'
  BY <1>1, <1>2, <1>3, <1>4, <1>14, <1>15
<1> QED
  BY <1>1, <1>2, <1>3, <1>9, <1>10, <1>17, <1>18, <1>19 DEF IInv, Walking, RefusedOnlyIfUnsound

LEMMA SameWalk ==
  ASSUME UNCHANGED <<image, table_start, remaining, guid_blocks>>
  PROVE  Walked' = Walked /\ Visited' = Visited /\ BlocksAreMarked' = BlocksAreMarked
         /\ Pos' = Pos /\ SliceStart' = SliceStart /\ FooterValid' = FooterValid
         /\ TableEnd' = TableEnd /\ Size' = Size
         /\ (\A at : Cell(at)' = Cell(at))
         /\ Located' = Located /\ Desc' = Desc
<1>1. /\ Size' = Size /\ TableEnd' = TableEnd /\ SliceStart' = SliceStart
      /\ FooterValid' = FooterValid
      /\ \A at : Cell(at)' = Cell(at)
      /\ \A cuts, start : Divides(cuts, start)' = Divides(cuts, start)
  BY SameImage
<1>2. /\ Pos' = Pos /\ HasOffsetBlock' = HasOffsetBlock /\ OffsetBlock' = OffsetBlock
  BY DEF Pos, HasOffsetBlock, OffsetBlock
<1>3. \A to : Taken(to)' = Taken(to)
  BY <1>1, <1>2 DEF Taken
<1>4. Walked' = Walked
  BY <1>1, <1>2, <1>3 DEF Walked
<1>5. Visited' = Visited
  BY <1>1, <1>2, <1>3 DEF Visited
<1>6. BlocksAreMarked' = BlocksAreMarked
  BY <1>1 DEF BlocksAreMarked
<1>7. Located' = Located /\ Desc' = Desc
  BY <1>1, <1>2 DEF Located, Desc, MetadataOffset, OffsetInRange, DescriptorValid, Signature,
                    Version, SectionCount, FirstSection
<1> QED
  BY <1>1, <1>2, <1>4, <1>5, <1>6, <1>7

LEMMA EndWalkInv == IInv /\ EndWalk => IInv'
<1> SUFFICES ASSUME IInv, EndWalk PROVE IInv'
  OBVIOUS
<1> USE DEF EndWalk
<1>1. TypeOK'
  BY SameWalk DEF IInv, TypeOK
<1> QED
  BY <1>1, SameWalk DEF IInv, Walking, RefusedOnlyIfUnsound

\* The descriptor and all the sections it counts are inside the image.
LEMMA DescriptorInside ==
  ASSUME TypeOK, BlocksAreMarked, FooterValid, Located
  PROVE  /\ MetadataOffset \in Nat /\ Desc \in Nat /\ SectionCount(Desc) \in Nat
         /\ FirstSection(Desc) \in Nat /\ FirstSection(Desc) + SectionCount(Desc) <= Size
         /\ MetadataOffset \in 4..(Size - 1)
         /\ Describes(MetadataOffset)
<1>1. /\ Size \in Nat /\ TableEnd \in Nat /\ TableEnd < Size
      /\ \A at \in 0..(Size - 1) : Cell(at) \in Nat
  BY SliceInside, ImageType
<1>2. OffsetBlock \in [start : Nat, size : Nat] /\ OffsetBlock.size >= 2
      /\ OffsetBlock.start + OffsetBlock.size <= TableEnd
  BY DEF Located, HasOffsetBlock, OffsetBlock, TypeOK, BlocksAreMarked
<1>3. MetadataOffset \in Nat
  <2>1. OffsetBlock.start \in 0..(Size - 1)
    BY <1>1, <1>2
  <2> QED
    BY <1>1, <2>1 DEF MetadataOffset
<1>4. MetadataOffset >= 1 /\ MetadataOffset <= Size - 1 /\ DescriptorValid(Desc)
  BY DEF Located, OffsetInRange
<1>5. Desc \in Nat /\ Desc = Size - MetadataOffset /\ Desc + 4 <= Size
  BY <1>1, <1>3, <1>4 DEF Desc, DescriptorValid
<1>6. SectionCount(Desc) \in Nat
  BY <1>1, <1>5 DEF SectionCount
<1>7. FirstSection(Desc) = Desc + 4 /\ SectionCount(Desc) * 1 <= Size - FirstSection(Desc)
  BY <1>4 DEF FirstSection, DescriptorValid
<1>8. MetadataOffset \in 4..(Size - 1)
  BY <1>1, <1>3, <1>4, <1>5
<1>9. Describes(MetadataOffset)
  <2>1. /\ Cell(Desc - 1) = TDX_METADATA_GUID
        /\ Signature(Desc) = TDX_METADATA_MAGIC /\ Version(Desc) = TDX_METADATA_VERSION
    BY <1>4 DEF DescriptorValid
  <2>2. SectionCount(Desc) <= MetadataOffset - 4
    BY <1>1, <1>3, <1>5, <1>6, <1>7
  <2> QED
    BY <1>5, <1>8, <2>1, <2>2 DEF Describes
<1> QED
  BY <1>1, <1>3, <1>5, <1>6, <1>7, <1>8, <1>9

LEMMA LocateMetadataInv == IInv /\ LocateMetadata => IInv'
<1> SUFFICES ASSUME IInv, LocateMetadata PROVE IInv'
  OBVIOUS
<1> USE DEF LocateMetadata
<1>1. TypeOK'
  BY SameWalk DEF IInv, TypeOK
<1>2. ReadSoFar'
  <2>1. sections' = <<>> /\ SectionCount(Desc)' = SectionCount(Desc)
    BY SameWalk DEF IInv, SectionCount
  <2>2. SectionCount(Desc) \in Nat
    BY DescriptorInside DEF IInv, Walking
  <2> QED
    BY <2>1, <2>2 DEF ReadSoFar
<1> QED
  BY <1>1, <1>2, SameWalk DEF IInv, Walking, RefusedOnlyIfUnsound

LEMMA ParseSectionInv == IInv /\ ParseSection => IInv'
<1> SUFFICES ASSUME IInv, ParseSection PROVE IInv'
  OBVIOUS
<1> USE DEF ParseSection
<1> DEFINE n == Len(sections)
           at == FirstSection(Desc) + n
<1>1. TypeOK /\ BlocksAreMarked /\ FooterValid /\ Located /\ ReadSoFar /\ sections \in Seq(Nat)
  BY DEF IInv, Walking, TypeOK
<1>2. n \in Nat /\ n < SectionCount(Desc) /\ FirstSection(Desc) \in Nat /\ SectionCount(Desc) \in Nat
      /\ at \in 0..(Size - 1) /\ Size \in Nat
  BY <1>1, DescriptorInside, ImageType
<1>3. Cell(at) \in Nat
  BY <1>1, <1>2, ImageType
<1>4. sections' = Append(sections, Cell(at))
  BY <1>2
<1>5. /\ sections' \in Seq(Nat) /\ Len(sections') = n + 1 /\ sections'[n + 1] = Cell(at)
      /\ \A i \in 1..n : sections'[i] = sections[i]
  BY <1>1, <1>3, <1>4
<1>6. FirstSection(Desc)' = FirstSection(Desc) /\ SectionCount(Desc)' = SectionCount(Desc)
  BY SameWalk DEF FirstSection, SectionCount
<1>7. TypeOK'
  BY <1>1, <1>5, SameWalk DEF TypeOK
<1>8. ReadSoFar'
  <2>1. ASSUME NEW i \in 1..(n + 1)
        PROVE  sections'[i] = Cell(FirstSection(Desc) + i - 1)
    <3>1. CASE i \in 1..n
      BY <1>1, <1>5, <3>1 DEF ReadSoFar
    <3>2. CASE i = n + 1
      <4>1. FirstSection(Desc) + i - 1 = at
        BY <1>2, <3>2
      <4> QED
        BY <1>5, <3>2, <4>1
    <3> QED
      BY <1>2, <3>1, <3>2
  <2>2. Len(sections') <= SectionCount(Desc)
    BY <1>2, <1>5
  <2>3. \A i \in 1..Len(sections') : sections'[i] = Cell(FirstSection(Desc) + i - 1)'
    BY <1>5, <1>6, <2>1, SameWalk
  <2> QED
    BY <1>6, <2>2, <2>3 DEF ReadSoFar
<1> HIDE DEF n, at
<1> QED
  BY <1>7, <1>8, SameWalk DEF IInv, Walking, RefusedOnlyIfUnsound

LEMMA ReturnInv == IInv /\ Return => IInv'
<1> SUFFICES ASSUME IInv, Return PROVE IInv'
  OBVIOUS
<1> USE DEF Return
<1>1. TypeOK'
  BY SameWalk DEF IInv, TypeOK
<1>2. ReadSoFar'
  <2>1. FirstSection(Desc)' = FirstSection(Desc) /\ SectionCount(Desc)' = SectionCount(Desc)
    BY SameWalk DEF FirstSection, SectionCount
  <2> QED
    BY <2>1, SameWalk DEF IInv, ReadSoFar
<1> QED
  BY <1>1, <1>2, SameWalk DEF IInv, Walking, RefusedOnlyIfUnsound

\* A block the dictionary has leads to the offset that is written in it.
LEMMA TakenNames ==
  ASSUME TypeOK, BlocksAreMarked, FooterValid, HasOffsetBlock,
         NEW to \in 0..TableEnd, Taken(to)
  PROVE  MetadataOffset = NamedBy(to)
<1>1. /\ Size \in Nat /\ TableEnd \in Nat /\ TableEnd < Size
      /\ \A at \in 0..(Size - 1) : Cell(at) \in Nat
  BY SliceInside, ImageType
<1>2. OffsetBlock \in [start : Nat, size : Nat] /\ OffsetBlock.size >= 2
  BY DEF HasOffsetBlock, OffsetBlock, TypeOK, BlocksAreMarked
<1>3. OffsetBlock.start = to - Cell(to - 2) /\ OffsetBlock.size = Cell(to - 2)
  BY DEF Taken
<1> QED
  BY <1>2, <1>3 DEF MetadataOffset, NamedBy

LEMMA RefuseInv == IInv /\ Refuse => IInv'
<1> SUFFICES ASSUME IInv, Refuse PROVE IInv'
  OBVIOUS
<1> USE DEF Refuse
<1>1. TypeOK /\ TypeOK' /\ BlocksAreMarked
  BY SameWalk DEF IInv, TypeOK
<1>2. ASSUME NEW start \in 0..Size, HasTable(start), NEW cuts \in Tables(start),
             OffsetBlockEnds(cuts, start) # {},
             \A to \in OffsetBlockEnds(cuts, start) : Describes(NamedBy(to))
      PROVE  FALSE
  <2>1. /\ FooterValid /\ DeclaredStart = start /\ start >= 0
        /\ cuts \in SUBSET (start..TableEnd) /\ Divides(cuts, start)
    BY <1>2 DEF HasTable, Tables
  <2>2. Walking
    BY <2>1 DEF IInv, Walking
  <2>3. table_start = start /\ Visited /\ remaining \in Nat /\ Size \in Nat /\ TableEnd \in Nat
        /\ TableEnd < Size
    BY <1>1, <2>1, <2>2, SliceInside, ImageType DEF IInv, TypeOK
  <2>4. /\ Pos \in cuts
        /\ \A to \in cuts : to > Pos => Cell(to - 1) \in DOMAIN guid_blocks
        /\ HasOffsetBlock => \E to \in cuts \ {start} : Taken(to)
    BY <2>1, <2>3 DEF Visited
  <2>5. CASE pc = "walk" /\ remaining > 0
    <3>1. Pos # start /\ Pos \in Nat
      BY <1>1, <2>3, <2>5 DEF Pos, TypeOK
    <3>2. PICK from \in cuts : IsBlock(from, Pos)
      BY <2>1, <2>4, <3>1 DEF Divides
    <3>3. EntryAt = Pos - 2
      BY <2>3, <3>1 DEF EntryAt, Pos
    <3>4. from \in Int /\ from >= start /\ Pos = start + remaining /\ start \in Int
      BY <2>1, <2>3, <1>2 DEF Pos
    <3>5. EntryValid
      BY <2>3, <3>1, <3>2, <3>3, <3>4 DEF IsBlock, EntryValid
    <3> QED
      BY <2>5, <3>5
  <2>6. CASE pc = "locate"
    <3>1. remaining = 0 /\ Pos = start
      BY <2>3, <2>6, <1>2 DEF IInv, Pos
    <3>2. PICK last : last \in OffsetBlockEnds(cuts, start)
      BY <1>2
    <3>3. last \in cuts /\ last > Pos /\ Cell(last - 1) = TDX_METADATA_OFFSET_GUID
      BY <2>1, <2>3, <3>1, <3>2, <1>2 DEF OffsetBlockEnds
    <3>4. HasOffsetBlock
      BY <2>4, <3>3 DEF HasOffsetBlock
    <3>5. PICK to \in cuts \ {start} : Taken(to)
      BY <2>4, <3>4
    <3>6. to \in OffsetBlockEnds(cuts, start) /\ to \in 0..TableEnd
      BY <2>1, <2>3, <3>5, <1>2 DEF OffsetBlockEnds, Taken
    <3>7. MetadataOffset = NamedBy(to)
      BY <1>1, <2>1, <3>4, <3>5, <3>6, TakenNames
    <3>8. Describes(MetadataOffset)
      BY <1>2, <3>6, <3>7
    <3>9. Located
      <4>1. /\ MetadataOffset \in 4..(Size - 1)
            /\ Cell(Desc - 1) = TDX_METADATA_GUID
            /\ Signature(Desc) = TDX_METADATA_MAGIC /\ Version(Desc) = TDX_METADATA_VERSION
            /\ SectionCount(Desc) <= MetadataOffset - 4
        BY <3>8 DEF Describes, Desc
      <4>2. Desc \in Nat /\ Desc + 4 <= Size /\ Desc = Size - MetadataOffset
        BY <2>3, <4>1 DEF Desc
      <4>3. SectionCount(Desc) \in Nat
        BY <1>1, <2>3, <4>2, ImageType DEF SectionCount
      <4>4. SectionCount(Desc) * 1 <= Size - FirstSection(Desc)
        BY <2>3, <4>1, <4>2, <4>3 DEF FirstSection
      <4> QED
        BY <2>3, <3>4, <4>1, <4>2, <4>4 DEF Located, OffsetInRange, DescriptorValid
    <3> QED
      BY <2>6, <3>9
  <2> QED
    BY <2>1, <2>5, <2>6 DEF Refuse
<1>3. RefusedOnlyIfUnsound
  BY <1>2 DEF RefusedOnlyIfUnsound
<1>4. RefusedOnlyIfUnsound'
  <2>1. ~ \E start \in 0..Size : HasTable(start) /\
            \E cuts \in Tables(start) :
              /\ OffsetBlockEnds(cuts, start) # {}
              /\ \A to \in OffsetBlockEnds(cuts, start) : Describes(NamedBy(to))
    BY <1>2
  <2>2. image' = image
    OBVIOUS
  <2> QED
    BY <2>1, <2>2 DEF RefusedOnlyIfUnsound, HasTable, Tables, OffsetBlockEnds, Describes, NamedBy,
       Divides, IsBlock, FooterValid, DeclaredStart, TableEnd, Size, Cell, Signature, Version,
       SectionCount
<1> QED
  BY <1>1, <1>4, SameWalk DEF IInv, Walking

LEMMA StutterInv == IInv /\ UNCHANGED vars => IInv'
<1> SUFFICES ASSUME IInv, UNCHANGED vars PROVE IInv'
  OBVIOUS
<1> USE DEF vars
<1>1. TypeOK'
  BY DEF IInv, TypeOK, Size
<1>2. ReadSoFar' = ReadSoFar
  BY SameWalk DEF ReadSoFar, FirstSection, SectionCount
<1>3. RefusedOnlyIfUnsound' = RefusedOnlyIfUnsound
  BY SameImage DEF RefusedOnlyIfUnsound, HasTable, Tables, OffsetBlockEnds, Describes, NamedBy,
       Signature, Version, SectionCount
<1> QED
  BY <1>1, <1>2, <1>3, SameWalk DEF IInv, Walking

(* ---- Theorems --------------------------------------------------------- *)

THEOREM Invariance == Spec => []IInv
<1>1. IInv /\ [Next]_vars => IInv'
  <2> SUFFICES ASSUME IInv, [Next]_vars PROVE IInv'
    OBVIOUS
  <2>1. CASE ReadFooter
    BY <2>1, ReadFooterInv
  <2>2. CASE WalkEntry
    BY <2>2, WalkEntryInv
  <2>3. CASE EndWalk
    BY <2>3, EndWalkInv
  <2>4. CASE LocateMetadata
    BY <2>4, LocateMetadataInv
  <2>5. CASE ParseSection
    BY <2>5, ParseSectionInv
  <2>6. CASE Return
    BY <2>6, ReturnInv
  <2>7. CASE Refuse
    BY <2>7, RefuseInv
  <2>8. CASE UNCHANGED vars
    BY <2>8, StutterInv
  <2> QED
    BY <2>1, <2>2, <2>3, <2>4, <2>5, <2>6, <2>7, <2>8 DEF Next
<1> QED
  BY <1>1, InitInv, PTL DEF Spec

\* Types, and a table inside the image: mrtd.py:117 never reads outside it.
THEOREM TypeCorrect == Spec => []TypeOK
<1>1. IInv => TypeOK
  BY DEF IInv
<1> QED
  BY <1>1, Invariance, PTL

\* Every block collected is inside the table, is not walked again, and ends in
\* its own size and GUID.
THEOREM BlocksMarked == Spec => []BlocksAreMarked
<1>1. IInv => BlocksAreMarked
  BY DEF IInv
<1> QED
  BY <1>1, Invariance, PTL

\* Of any image whatever, the sections returned are those of a descriptor that
\* a block of its table names.
THEOREM MetadataFoundWhereNamed == Spec => []FoundWhereNamed
<1>1. ASSUME IInv PROVE FoundWhereNamed
  <2> SUFFICES ASSUME pc = "done"
               PROVE  /\ FooterValid
                      /\ \E start \in 0..TableEnd :
                           /\ DeclaredStart >= 0 => start = DeclaredStart
                           /\ \E cuts \in Tables(start) : \E to \in OffsetBlockEnds(cuts, start) :
                                /\ Describes(NamedBy(to))
                                /\ sections = SectionsBehind(NamedBy(to))
    BY DEF FoundWhereNamed
  <2>1. /\ TypeOK /\ BlocksAreMarked /\ FooterValid /\ table_start = SliceStart /\ Walked
        /\ remaining = 0 /\ Located /\ ReadSoFar /\ sections \in Seq(Nat)
    BY <1>1 DEF IInv, Walking, TypeOK
  <2>2. /\ table_start \in 0..TableEnd /\ TableEnd \in Nat /\ Pos = table_start
        /\ DeclaredStart >= 0 => table_start = DeclaredStart
    BY <2>1, SliceInside DEF Pos
  <2>3. PICK cuts \in SUBSET (table_start..TableEnd) :
          /\ Divides(cuts, table_start)
          /\ \E to \in cuts \ {table_start} : Taken(to)
    BY <2>1, <2>2 DEF Walked, Located
  <2>4. PICK to \in cuts \ {table_start} : Taken(to)
    BY <2>3
  <2>5. cuts \in Tables(table_start) /\ to \in OffsetBlockEnds(cuts, table_start)
        /\ to \in 0..TableEnd
    BY <2>2, <2>3, <2>4 DEF Tables, OffsetBlockEnds, Taken
  <2>6. MetadataOffset = NamedBy(to) /\ Describes(NamedBy(to))
    BY <2>1, <2>4, <2>5, TakenNames, DescriptorInside DEF Located
  <2>7. sections = SectionsBehind(NamedBy(to))
    <3>1. Len(sections) = SectionCount(Desc) /\ SectionCount(Desc) \in Nat
      BY <2>1, DescriptorInside DEF ReadSoFar
    <3>2. sections = [i \in 1..SectionCount(Desc) |-> Cell(FirstSection(Desc) + i - 1)]
      BY <2>1, <3>1 DEF ReadSoFar
    <3> QED
      BY <3>2, <2>6 DEF SectionsBehind, Desc
  <2> QED
    BY <2>1, <2>2, <2>5, <2>6, <2>7
<1> QED
  BY <1>1, Invariance, PTL

\* An image is refused only if its table, or what the table names, is unsound.
THEOREM RefusalsJustified == Spec => []RefusedOnlyIfUnsound
<1>1. IInv => RefusedOnlyIfUnsound
  BY DEF IInv
<1> QED
  BY <1>1, Invariance, PTL

=============================================================================

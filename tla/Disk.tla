-------------------------------- MODULE Disk --------------------------------
(***************************************************************************)
(* What is taken out of a disk image (disk.py): the partition table that   *)
(* firmware measures (gpt_event_data) or the UKI in its EFI system         *)
(* partition (extract_uki).  An image in an archive is first copied into a *)
(* temporary directory, within a limit; any step may fail.                 *)
(*                                                                         *)
(* The image is made of cells: a sector takes one, a partition entry       *)
(* entry_size of them, the first its type and the second its first sector. *)
(* The header is its fields, one cell each, in their order.  A checksum is *)
(* modelled as what it is the checksum of: damage that leaves a checksum   *)
(* right is not modelled, but what a checksum does not cover may change.   *)
(* mcopy, the archive and the tool that partitioned the disk are external. *)
(* A definition named Wrong... is a deliberate error in the definition     *)
(* that follows it.                                                        *)
(***************************************************************************)
EXTENDS Integers, SequencesExt, Selection

CONSTANTS
  Inputs,             \* the disks the caller may name
  MaxExtractBytes,    \* the extraction limit
  CopyChunkBytes,     \* what one read of the archive gives at most
  MinEntrySize,       \* _GPT_MIN_ENTRY_SIZE
  MaxEntryArray       \* _GPT_MAX_ENTRY_ARRAY_BYTES

ASSUME SizesAssumption ==
  /\ {MaxExtractBytes, MaxEntryArray} \subseteq Nat
  /\ CopyChunkBytes \in Nat \ {0} /\ MinEntrySize \in Nat \ {0, 1}

VARIABLES
  input,    \* [archive, members, readable]: a raw image is the one member of no
            \* archive; readable is whether nothing fails while the archive is copied
  job,      \* "gpt" or "uki"
  tmpdir,   \* whether the temporary directory exists
  copied,   \* what has been written into it
  output,   \* the file the UKI is copied to
  result,   \* what the call returns
  pc        \* open, choose, copy, read, mcopy, cleanup, digest, returned or raised

vars == <<input, job, tmpdir, copied, output, result, pc>>

NoResult == [of |-> "nothing"]
EventData(header, entries) == [of |-> "gpt", header |-> header, entries |-> entries]
UkiIn(lba) == [of |-> "uki", lba |-> lba]
Stale == [of |-> "stale"]       \* a file that was there before
Partial == [of |-> "partial"]   \* what an mcopy that failed may leave

-----------------------------------------------------------------------------
(* Images.                                                                 *)

ZERO_GUID == 0
ESP_GUID == 1

\* Where a field ends in the header, counted in cells; reserved is what follows
\* the fields that are used, up to the end of the sector.
Place == [signature |-> 1, size |-> 2, crc |-> 3, entry_lba |-> 4, count |-> 5,
          entry_size |-> 6, array_crc |-> 7, reserved |-> 8]
HEADER_PREFIX_LEN == 7

\* The part of the header that is measured.
Prefix == {f \in DOMAIN Place : Place[f] <= HEADER_PREFIX_LEN}
PrefixOf(header) == [f \in Prefix |-> header[f]]

\* What the header checksum is taken over: as much of the header as it says to
\* have, with the checksum itself zeroed.
CoveredFields(header) == {f \in DOMAIN Place : Place[f] <= header.size}
Covered(header) ==
  [f \in CoveredFields(header) |-> IF f = "crc" THEN <<>> ELSE header[f]]

\* An image as a partitioning tool makes it: slots are the entries in use and
\* not, each a type and a first sector, at sector entry_lba.  The tool may say
\* any size of the header, and so leave fields out of the checksum.
EntryCells(slot, entry_size) == slot \o [i \in 1..(entry_size - 2) |-> 7]
EntryArray(slots, entry_size) ==
  [k \in 1..(Len(slots) * entry_size) |->
     EntryCells(slots[((k - 1) \div entry_size) + 1], entry_size)[((k - 1) % entry_size) + 1]]
Partitioned(slots, entry_size, entry_lba, header_size, reserved) ==
  LET array == EntryArray(slots, entry_size)
      header == [length |-> 8, signature |-> TRUE, size |-> header_size, crc |-> <<>>,
                 entry_lba |-> entry_lba, count |-> Len(slots), entry_size |-> entry_size,
                 array_crc |-> array, reserved |-> reserved]
  IN  [header |-> [header EXCEPT !.crc = Covered(header)],
       data |-> [i \in 1..(entry_lba - 2) |-> 9] \o array,
       slots |-> slots, size |-> entry_size, lba |-> entry_lba,
       header_size |-> header_size, reserved |-> reserved, intact |-> TRUE]
\* The image as it was before any damage.
Made(image) ==
  Partitioned(image.slots, image.size, image.lba, image.header_size, image.reserved)

Partitions(image) == Chosen(image.slots, LAMBDA s : s[1] # ZERO_GUID)

-----------------------------------------------------------------------------
(* Reading the partition table.                                            *)

EntrySizeValid(size) == \E n \in 0..size : size = MinEntrySize * 2^n

ArrayLength(h) == h.count * h.entry_size

\* Off by one.
WrongArrayFits(h) == h.count # 0 /\ ArrayLength(h) < MaxEntryArray
ArrayFits(h) == h.count # 0 /\ ArrayLength(h) <= MaxEntryArray

\* A header may say that it is shorter than what is used of it.
WrongHeaderSizeValid(h) == h.size <= h.length
HeaderSizeValid(h) == HEADER_PREFIX_LEN <= h.size /\ h.size <= h.length

\* length is how much of the header's sector there is to be read.
HeaderValid(h) ==
  /\ HEADER_PREFIX_LEN <= h.length /\ h.signature
  /\ HeaderSizeValid(h)
  /\ h.crc = Covered(h)
  /\ EntrySizeValid(h.entry_size)
  /\ ArrayFits(h)
  /\ h.entry_lba # 0

\* The array at entry_lba, cut short where the image ends.
Array(image) ==
  LET first == image.header.entry_lba - 1
      last == first + ArrayLength(image.header) - 1
  IN  SubSeq(image.data, first, IF last <= Len(image.data) THEN last ELSE Len(image.data))

GptValid(image) ==
  /\ HeaderValid(image.header)
  /\ Len(Array(image)) = ArrayLength(image.header)
  /\ image.header.array_crc = Array(image)

\* Entries are taken to be of the smallest size.
WrongEntryAt(array, i, size) == SubSeq(array, MinEntrySize * (i - 1) + 1, MinEntrySize * i)
EntryAt(array, i, size) == SubSeq(array, size * (i - 1) + 1, size * i)

\* The entries in use.
Entries(image) ==
  LET h == image.header
  IN  Chosen([i \in 1..h.count |-> EntryAt(Array(image), i, h.entry_size)],
             LAMBDA e : e[1] # ZERO_GUID)
EspIndex(image) == SelectInSeq(Entries(image), LAMBDA e : e[1] = ESP_GUID)

(* What the caller may name.                                               *)

\* Damage: a field that is used or covered is not what it was, or a cell of the
\* array is not, or not there; and no checksum comes out right by chance.
Damaged(image, made) ==
  /\ \/ \E f \in Prefix \cup CoveredFields(made.header) : image.header[f] # made.header[f]
     \/ Array(image) # Array(made)
  /\ image.header.crc = Covered(image.header) => Covered(image.header) = Covered(made.header)

\* An image is as it was made, or is damaged; its end may be cut off.
ImageAssumption(image) ==
  /\ image.slots \in Seq(Nat \X Nat) /\ image.slots # <<>>
  /\ EntrySizeValid(image.size) /\ {image.size, image.lba} \subseteq Nat \ {0, 1}
  /\ {image.header_size, image.header.size, image.header.length} \subseteq Nat
  /\ IF image.intact THEN image = Made(image) ELSE Damaged(image, Made(image))

ASSUME InputsAssumption ==
  \A disk \in Inputs :
    /\ \A i \in DOMAIN disk.members :
         /\ disk.members[i].declared \in Nat /\ disk.members[i].length \in Nat
         /\ ImageAssumption(disk.members[i].image)
    /\ ~disk.archive => DOMAIN disk.members = {1} /\ disk.members[1].raw
    /\ disk.readable \in BOOLEAN

-----------------------------------------------------------------------------
Init ==
  /\ input \in Inputs
  /\ job \in {"gpt", "uki"}
  /\ tmpdir = FALSE
  /\ copied = 0
  /\ output \in {NoResult, Stale}
  /\ result = NoResult
  /\ pc = "open"

(* Getting at the raw image.                                               *)

\* The archive's raw members, by their place in it.
Candidates == {i \in DOMAIN input.members : input.members[i].raw}
Member == input.members[CHOOSE i \in Candidates : TRUE]

UseRawDisk ==
  /\ pc = "open" /\ ~input.archive
  /\ pc' = "read"
  /\ UNCHANGED <<input, job, tmpdir, copied, output, result>>

MakeTempDir ==
  /\ pc = "open" /\ input.archive
  /\ tmpdir' = TRUE
  /\ pc' = "choose"
  /\ UNCHANGED <<input, job, copied, output, result>>

\* The directory is left to the caller, who never sees it.
WrongTmpdirAfterFailure == tmpdir
TmpdirAfterFailure == FALSE

\* Whatever is raised before the image is copied out, the directory goes first.
RaiseFromResolve ==
  /\ tmpdir' = TmpdirAfterFailure
  /\ pc' = "raised"
  /\ UNCHANGED <<input, job, copied, output, result>>

\* The first of several will do.
WrongUnambiguous == Candidates # {}
Unambiguous == \E i \in Candidates : Candidates = {i}

MemberAcceptable ==
  /\ Unambiguous
  /\ Member.file
  /\ Member.declared <= MaxExtractBytes
  /\ Member.inside

ChooseMember ==
  /\ pc = "choose"
  /\ IF MemberAcceptable
       THEN pc' = "copy" /\ UNCHANGED <<input, job, tmpdir, copied, output, result>>
       ELSE RaiseFromResolve

\* The archive turns out to be damaged, when it is opened or while it is read,
\* or there is no room for what is copied.
ArchiveFails == pc \in {"choose", "copy"} /\ ~input.readable /\ RaiseFromResolve

Chunk ==
  IF Member.length - copied <= CopyChunkBytes THEN Member.length - copied ELSE CopyChunkBytes

\* The declared size is relied on.
WrongOverLimit(size) == Member.declared > MaxExtractBytes
OverLimit(size) == size > MaxExtractBytes

CopyChunk ==
  /\ pc = "copy" /\ copied < Member.length
  /\ IF OverLimit(copied + Chunk)
       THEN RaiseFromResolve
       ELSE /\ copied' = copied + Chunk
            /\ UNCHANGED <<input, job, tmpdir, output, result, pc>>

EndCopy ==
  /\ pc = "copy" /\ copied = Member.length
  /\ pc' = "read"
  /\ UNCHANGED <<input, job, tmpdir, copied, output, result>>

RawImage == IF input.archive THEN Member.image ELSE input.members[1].image

-----------------------------------------------------------------------------
(* Taking out what is asked for.                                           *)

ReadTable ==
  /\ pc = "read" /\ job = "gpt"
  /\ result' = IF GptValid(RawImage)
                 THEN EventData(PrefixOf(RawImage.header), Entries(RawImage))
                 ELSE NoResult
  /\ pc' = "cleanup"
  /\ UNCHANGED <<input, job, tmpdir, copied, output>>

FindEsp ==
  /\ pc = "read" /\ job = "uki"
  /\ pc' = IF GptValid(RawImage) /\ EspIndex(RawImage) # 0 THEN "mcopy" ELSE "cleanup"
  /\ UNCHANGED <<input, job, tmpdir, copied, output, result>>

Succeeded(status) == status = 0

\* mcopy copies the UKI out of the file system at the offset, or fails, having
\* written nothing or a part of it.  The result is not read until the end.
UkiOf(image) == UkiIn(Entries(image)[EspIndex(image)][2])
Copied == UkiOf(RawImage)
Mcopy(status) ==
  /\ pc = "mcopy"
  /\ output' \in IF status = 0 THEN {Copied} ELSE {output, Partial}
  /\ result' = IF Succeeded(status) THEN [of |-> "output"] ELSE NoResult
  /\ pc' = "cleanup"
  /\ UNCHANGED <<input, job, tmpdir, copied>>

\* The finally clause, whether something is being raised or not.
Cleanup ==
  /\ pc = "cleanup"
  /\ tmpdir' = FALSE
  /\ pc' = IF result = NoResult THEN "raised"
           ELSE IF job = "gpt" THEN "returned" ELSE "digest"
  /\ UNCHANGED <<input, job, copied, output, result>>

Digest ==
  /\ pc = "digest"
  /\ result' = output
  /\ pc' = "returned"
  /\ UNCHANGED <<input, job, tmpdir, copied, output>>

Next ==
  \/ UseRawDisk \/ MakeTempDir \/ ChooseMember \/ ArchiveFails \/ CopyChunk \/ EndCopy
  \/ ReadTable \/ FindEsp \/ (\E status \in {0, 1} : Mcopy(status)) \/ Cleanup \/ Digest

Spec == Init /\ [][Next]_vars

-----------------------------------------------------------------------------
(* Properties.                                                             *)

\* The type invariant.
TypeOK ==
  /\ job \in {"gpt", "uki"}
  /\ tmpdir \in BOOLEAN
  /\ copied \in Nat
  /\ output.of \in {"nothing", "stale", "partial", "uki"}
  /\ result.of \in {"nothing", "gpt", "output"} \cup (IF pc = "returned" THEN {"uki"} ELSE {})
  /\ pc \in {"open", "choose", "copy", "read", "mcopy", "cleanup", "digest", "returned", "raised"}

\* However a call ends, nothing of the disk is left in the temporary directory.
NothingLeftBehind == pc \in {"returned", "raised"} => ~tmpdir

\* An archive never takes more room than the limit, whatever size it declares.
WithinLimit == copied <= MaxExtractBytes

\* The images the caller may have meant: any of the archive's raw members.
Meant == {input.members[i].image : i \in Candidates}

\* The table returned is as it was made, with a checksum over every field that is
\* used; it lists each of the partitions in use once, as many cells of it as the
\* entry has, in the order of the table; and no other image in the archive could
\* be meant (disk.py:65-150, disk.py:234-246).
MeasuresThePartitions ==
  pc = "returned" /\ job = "gpt" =>
    \A image \in Meant :
      /\ image.intact
      /\ Prefix \subseteq CoveredFields(image.header)
      /\ result.header = PrefixOf(image.header)
      /\ result.entries =
           [i \in 1..Len(Partitions(image)) |->
              EntryCells(Partitions(image)[i], image.header.entry_size)]

\* The UKI whose digest is returned was copied by this call out of the EFI system
\* partition that the disk's table, as it was made, lists first: not a file of an
\* earlier call, nor a part of one (disk.py:153-161, disk.py:276-293).
UkiOfTheDisk ==
  pc = "returned" /\ job = "uki" =>
    \A image \in Meant :
      /\ image.intact
      /\ Prefix \subseteq CoveredFields(image.header)
      /\ \E i \in DOMAIN image.slots :
           /\ image.slots[i][1] = ESP_GUID
           /\ \A j \in 1..(i - 1) : image.slots[j][1] # ESP_GUID
           /\ result = UkiIn(image.slots[i][2])

\* An archive that gives up one raw member: nothing fails while it is read, and
\* the member is a regular file within the directory and within the limit,
\* whichever of its sizes one asks.
GivesOneImage ==
  /\ input.readable
  /\ \E i \in Candidates :
       LET member == input.members[i]
       IN /\ Candidates = {i}
          /\ member.file /\ member.inside
          /\ member.declared <= MaxExtractBytes /\ member.length <= MaxExtractBytes
\* An image as it was made, of a header that covers what is used of it and is all
\* in its sector, and of an array within the limit.
WellMade(image) ==
  /\ image.intact
  /\ image.header.size \in HEADER_PREFIX_LEN..image.header.length
  /\ ArrayLength(image.header) <= MaxEntryArray
Usable == (input.archive => GivesOneImage) /\ \A image \in Meant : WellMade(image)

\* A table that should be read is: the call for the partition table fails only if
\* the archive or the image is not in order, on the limits of every check too.
TableIsRead == pc = "raised" /\ job = "gpt" => ~Usable

(* The inductive invariant: when there is a temporary directory, which member *)
(* is copied into it, and what has become of the output.                      *)
DirectoryWhileItIsUsed == tmpdir => pc \in {"choose", "copy", "read", "mcopy", "cleanup"}
CopyOfTheMember == pc = "copy" => Unambiguous
ResultsInOrder ==
  /\ result.of = "nothing" => result = NoResult
  /\ pc \in {"open", "choose", "copy", "read", "mcopy"} => result = NoResult
  /\ pc = "cleanup" /\ job = "gpt" => result.of # "output"
  /\ pc = "cleanup" /\ job = "uki" => result.of # "gpt"
  /\ pc = "cleanup" /\ result.of = "output" => output.of = "uki"
  /\ pc = "mcopy" => job = "uki"
  /\ pc = "digest" => job = "uki" /\ output.of = "uki"
  /\ pc = "returned" => result.of = job

IInv ==
  /\ input \in Inputs
  /\ TypeOK
  /\ DirectoryWhileItIsUsed
  /\ WithinLimit
  /\ CopyOfTheMember
  /\ ResultsInOrder

(* What has been found out about the image that is read: that no other can be *)
(* meant, and how the table and the UKI came out of it.                       *)
OneImage(image) ==
  /\ ~input.archive => pc \notin {"choose", "copy"}
  /\ pc \in {"read", "mcopy", "cleanup", "digest", "returned"} => Meant = {image}
TableOf(image) ==
  job = "gpt" =>
    /\ pc \in {"cleanup", "returned"} /\ result # NoResult =>
         GptValid(image) /\ result = EventData(PrefixOf(image.header), Entries(image))
    /\ pc = "cleanup" /\ result = NoResult => ~GptValid(image)
    /\ pc = "raised" => ~GptValid(image) \/ (input.archive /\ ~GivesOneImage)
UkiFrom(image) ==
  /\ pc = "mcopy" => GptValid(image) /\ EspIndex(image) # 0
  /\ pc = "cleanup" /\ result.of = "output" =>
       GptValid(image) /\ EspIndex(image) # 0 /\ output = UkiOf(image)
  /\ pc = "digest" => GptValid(image) /\ EspIndex(image) # 0 /\ output = UkiOf(image)
  /\ pc = "returned" /\ job = "uki" =>
       GptValid(image) /\ EspIndex(image) # 0 /\ result = UkiOf(image)

AnswersOf(image) == RawImage = image /\ OneImage(image) /\ TableOf(image) /\ UkiFrom(image)

=============================================================================

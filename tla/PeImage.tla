------------------------------ MODULE PeImage ------------------------------
(***************************************************************************)
(* PE images (tdx/pe.py): which bytes the Authenticode digest covers, and  *)
(* what a section holds once it is loaded.                                 *)
(*                                                                         *)
(* An image is a header and its content, a sequence of cells that the      *)
(* header describes.  A cell is a byte of some file, or Zero.  On the      *)
(* scale used here the DOS header, the signature, the COFF header, every   *)
(* field of the optional header that is read and every entry of the        *)
(* section table take one cell.                                            *)
(* A definition named Wrong... is a deliberate error in the definition     *)
(* that follows it.                                                        *)
(***************************************************************************)
EXTENDS Integers, Sequences, FiniteSets, SequencesExt

CONSTANT MAX_VIRTUAL_PADDING_BYTES
ASSUME PaddingAssumption == MAX_VIRTUAL_PADDING_BYTES \in Nat

Zero == -1

PeSection == [name : STRING, virt_addr : Nat, virt_size : Nat, raw_size : Nat, raw_ptr : Nat]
PeHeader == [signed : BOOLEAN,   \* both signatures are there
             opt : Nat \ {0, 1}, opt_size : Nat,   \* the optional header
             magic : {"PE32", "PE32+", "ROM"},
             certs : BOOLEAN,    \* enough directories for a certificate table
             cert_size : Nat, size_of_headers : Nat, image_size : Nat,
             sections : Seq(PeSection)]

File(header, content) == [header |-> header, content |-> content]
PeSize(pe) == Len(pe.content)
SectionsOf(pe) == pe.header.sections

-----------------------------------------------------------------------------
(* Headers.                                                                *)

IsPe(pe) == pe.header.signed /\ PeSize(pe) >= pe.header.opt - 1
SectionTable(pe) == pe.header.opt + pe.header.opt_size
HeaderFits(pe) == pe.header.opt <= PeSize(pe) /\ SectionTable(pe) <= PeSize(pe)
EntryFits(pe, i) == SectionTable(pe) + i <= PeSize(pe)

\* pe_section_names
NamesReadable(pe) == IsPe(pe) /\ HeaderFits(pe) /\ \A i \in DOMAIN SectionsOf(pe) : EntryFits(pe, i)
Names(pe) == [i \in DOMAIN SectionsOf(pe) |-> SectionsOf(pe)[i].name]

HasContent(s) == s.raw_size # 0 /\ s.raw_ptr # 0
RawEnd(s) == s.raw_ptr + s.raw_size

-----------------------------------------------------------------------------
(* The Authenticode digest.                                                *)

\* Where the fields of the optional header are; PE32+ has one more before the
\* directories.
SizeOfImageAt(pe) == pe.header.opt + 1
ChecksumAt(pe) == pe.header.opt + 3
NumRvaAt(pe) == pe.header.opt + (IF pe.header.magic = "PE32+" THEN 5 ELSE 4)
CertEntryAt(pe) == NumRvaAt(pe) + 1

HasCertEntry(pe) == pe.header.certs /\ CertEntryAt(pe) + 1 <= SectionTable(pe)
CertSize(pe) == IF HasCertEntry(pe) THEN pe.header.cert_size ELSE 0
AfterFields(pe) == (IF HasCertEntry(pe) THEN CertEntryAt(pe) ELSE ChecksumAt(pe)) + 1

\* The entries of the sections with content, and their order in the file.
Contents(pe) == {i \in DOMAIN SectionsOf(pe) : HasContent(SectionsOf(pe)[i])}
Before(pe, i, j) ==
  LET s == SectionsOf(pe)[i]
      t == SectionsOf(pe)[j]
  IN \/ s.raw_ptr < t.raw_ptr
     \/ s.raw_ptr = t.raw_ptr /\ s.raw_size < t.raw_size
     \/ s.raw_ptr = t.raw_ptr /\ s.raw_size = t.raw_size /\ i < j
InFileOrder(pe) ==
  [k \in 1..Cardinality(Contents(pe)) |->
     CHOOSE i \in Contents(pe) : Cardinality({j \in Contents(pe) : Before(pe, j, i)}) = k - 1]

\* The headers and the sections, by their sizes.
SumOfBytes(pe) ==
  LET order == InFileOrder(pe)
      sum[k \in 0..Len(order)] ==
        IF k = 0 THEN pe.header.size_of_headers
        ELSE sum[k - 1] + SectionsOf(pe)[order[k]].raw_size
  IN sum[Len(order)]
ExtraEnd(pe) == PeSize(pe) - CertSize(pe)

\* A section may end anywhere.
WrongAuthenticodeDefined(pe) ==
  /\ IsPe(pe) /\ HeaderFits(pe)
  /\ pe.header.opt < PeSize(pe) /\ pe.header.magic \in {"PE32", "PE32+"}
  /\ NumRvaAt(pe) < PeSize(pe)
  /\ pe.header.size_of_headers <= PeSize(pe)
  /\ \A i \in DOMAIN SectionsOf(pe) : EntryFits(pe, i)
  /\ AfterFields(pe) <= pe.header.size_of_headers
  /\ CertSize(pe) # 0 => ExtraEnd(pe) >= SumOfBytes(pe)

AuthenticodeDefined(pe) ==
  /\ IsPe(pe) /\ HeaderFits(pe)
  /\ pe.header.opt < PeSize(pe) /\ pe.header.magic \in {"PE32", "PE32+"}
  /\ NumRvaAt(pe) < PeSize(pe)
  /\ pe.header.size_of_headers <= PeSize(pe)
  /\ \A i \in DOMAIN SectionsOf(pe) : EntryFits(pe, i)
  /\ \A i \in Contents(pe) : RawEnd(SectionsOf(pe)[i]) <= PeSize(pe)
  /\ AfterFields(pe) <= pe.header.size_of_headers
  /\ CertSize(pe) # 0 => ExtraEnd(pe) >= SumOfBytes(pe)

\* pe_data[from:to], as positions in the file.
Span(pe, from, to) ==
  LET end == IF to <= PeSize(pe) THEN to ELSE PeSize(pe)
  IN [k \in 1..(IF end > from THEN end - from ELSE 0) |-> from + k - 1]

HashedHeaders(pe) ==
  Span(pe, 0, ChecksumAt(pe))
  \o (IF HasCertEntry(pe) THEN Span(pe, ChecksumAt(pe) + 1, CertEntryAt(pe)) ELSE <<>>)
  \o Span(pe, AfterFields(pe), pe.header.size_of_headers)
SectionSpan(pe, i) == Span(pe, SectionsOf(pe)[i].raw_ptr, RawEnd(SectionsOf(pe)[i]))
HashedSections(pe) ==
  LET order == InFileOrder(pe)
      hashed[k \in 0..Len(order)] ==
        IF k = 0 THEN <<>> ELSE hashed[k - 1] \o SectionSpan(pe, order[k])
  IN hashed[Len(order)]

\* The certificates are hashed with what is behind the sections.
WrongHashed(pe) ==
  HashedHeaders(pe) \o HashedSections(pe) \o Span(pe, SumOfBytes(pe), PeSize(pe))
\* All positions the digest is computed over, in order.
Hashed(pe) ==
  HashedHeaders(pe) \o HashedSections(pe) \o Span(pe, SumOfBytes(pe), ExtraEnd(pe))

DigestOver(pe, positions) == [k \in 1..Len(positions) |-> pe.content[positions[k] + 1]]
AuthenticodeDigest(pe) == LET hashed == Hashed(pe) IN DigestOver(pe, hashed)

-----------------------------------------------------------------------------
(* Sections, at their virtual size.  No content is <<>>.                   *)

NamedSections(pe, name) == {i \in DOMAIN SectionsOf(pe) : SectionsOf(pe)[i].name = name}
First(S) == CHOOSE i \in S : \A j \in S : i <= j

HasSizeOfImage(pe) == SizeOfImageAt(pe) < SectionTable(pe) /\ SizeOfImageAt(pe) < PeSize(pe)

\* A section that ends with the image does not fit in it.
WrongLoadDefined(pe, s) ==
  HasContent(s) =>
    /\ RawEnd(s) <= PeSize(pe)
    /\ s.virt_size # 0 =>
         /\ HasSizeOfImage(pe) => s.virt_addr + s.virt_size < pe.header.image_size
         /\ s.virt_size - s.raw_size <= MAX_VIRTUAL_PADDING_BYTES
LoadDefined(pe, s) ==
  HasContent(s) =>
    /\ RawEnd(s) <= PeSize(pe)
    /\ s.virt_size # 0 =>
         /\ HasSizeOfImage(pe) => s.virt_addr + s.virt_size <= pe.header.image_size
         /\ s.virt_size - s.raw_size <= MAX_VIRTUAL_PADDING_BYTES

\* The entries are read up to the first of that name.
ExtractDefined(pe, name) ==
  IsPe(pe) =>
    /\ HeaderFits(pe)
    /\ LET named == NamedSections(pe, name)
       IN IF named = {} THEN \A i \in DOMAIN SectionsOf(pe) : EntryFits(pe, i)
          ELSE EntryFits(pe, First(named)) /\ LoadDefined(pe, SectionsOf(pe)[First(named)])

Loaded(pe, s) ==
  LET raw == SubSeq(pe.content, s.raw_ptr + 1, RawEnd(s))
  IN IF s.virt_size <= s.raw_size THEN SubSeq(raw, 1, s.virt_size)
     ELSE raw \o [k \in 1..(s.virt_size - s.raw_size) |-> Zero]

Extracted(pe, name) ==
  LET named == NamedSections(pe, name)
      s == SectionsOf(pe)[First(named)]
  IN IF IsPe(pe) /\ named # {} /\ HasContent(s) THEN Loaded(pe, s) ELSE <<>>

-----------------------------------------------------------------------------
(* What Authenticode is meant to cover.  A regular image has its headers   *)
(* first and behind them its sections, without gaps, and certificates at   *)
(* the end.                                                                *)

Regular(pe) ==
  LET headers == pe.header.size_of_headers
      Bytes(i) == SectionsOf(pe)[i].raw_ptr..(RawEnd(SectionsOf(pe)[i]) - 1)
      sections == UNION {Bytes(i) : i \in Contents(pe)}
  IN /\ NamesReadable(pe) /\ pe.header.magic # "ROM"
     /\ CertEntryAt(pe) <= SectionTable(pe)
     /\ SectionTable(pe) + Len(SectionsOf(pe)) <= headers
     /\ sections \subseteq headers..(ExtraEnd(pe) - 1)
     /\ \A i, j \in Contents(pe) : i # j => Bytes(i) \cap Bytes(j) = {}
     /\ \A k \in sections : k = headers \/ k - 1 \in sections
     /\ headers <= ExtraEnd(pe)

\* The whole file but the checksum, the certificate table's directory entry and
\* the certificates.
WholeFile(pe) ==
  LET ahead == Span(pe, 0, ChecksumAt(pe))
  IN IF HasCertEntry(pe)
       THEN ahead \o Span(pe, ChecksumAt(pe) + 1, CertEntryAt(pe))
                  \o Span(pe, CertEntryAt(pe) + 1, ExtraEnd(pe))
       ELSE ahead \o Span(pe, ChecksumAt(pe) + 1, ExtraEnd(pe))
=============================================================================

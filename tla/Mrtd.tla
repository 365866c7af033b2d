-------------------------------- MODULE Mrtd --------------------------------
(***************************************************************************)
(* The measurement of a TDX launch (tdx/mrtd.py): the sections of the      *)
(* firmware's metadata become regions, the TDHOB is built from them and    *)
(* from the RAM they leave, and every region is measured page by page as   *)
(* the TDX module would.  cfv_image, which RTMR[0] needs, reads the same   *)
(* sections.                                                               *)
(*                                                                         *)
(* Addresses, sizes and file offsets count chunks (256 bytes in the code). *)
(* The digest is the sequence of operations it was extended with.  The     *)
(* walk to the metadata is not part of this module: it starts from the     *)
(* sections.  It has measure_all_regions false, which is what compute_mrtd *)
(* passes.                                                                 *)
(* A definition named Wrong... is a deliberate error in the definition     *)
(* that follows it.                                                        *)
(***************************************************************************)
EXTENDS MemoryRegions

CONSTANTS
  SectionLists,    \* the metadata tables tried
  BankLists,       \* the RAM topologies tried; <<>> is none
  ImageSize,       \* the size of the firmware image
  PageSize,        \* a page, in chunks
  HandoffSize, DescriptorSize, EndMarkerSize,  \* the parts of a HOB list
  EarlyLimit       \* 4 GiB

ASSUME SizesAssumption ==
  /\ {ImageSize, PageSize, HandoffSize, DescriptorSize, EndMarkerSize} \subseteq Nat \ {0}
  /\ EarlyLimit \in Nat

SectionTypes == {"BFV", "CFV", "TDHOB", "TEMPMEM", "UNKNOWN"}
Section == [type : SectionTypes, data_offset : Nat, data_size : Nat,
            memory_base : Nat, memory_size : Nat, extend_mr : BOOLEAN]
ASSUME SectionsAssumption == SectionLists \subseteq Seq(Section)
ASSUME BanksAssumption == BankLists \subseteq Seq(Region)

VARIABLES
  sections, banks,   \* the inputs
  regions,           \* the regions extracted: [gpr, host_buffer, extend_mr]
  tdhob_index,       \* which of them is the TDHOB; 0: none yet
  hob,               \* the HOB list in it
  region, step,      \* the region being measured, the chunks of it that have been
  digest,
  pc                 \* extract, build, check, measure, done or refused

vars == <<sections, banks, regions, tdhob_index, hob, region, step, digest, pc>>

\* What a chunk holds: a chunk of the image, of the HOB list, or zeros.
Image(at) == [of |-> "image", at |-> at]
Hob(at) == [of |-> "hob", at |-> at]
Zero == [of |-> "zero", at |-> 0]
Zeros(n) == [i \in 1..n |-> Zero]

NoHob == [end |-> 0, resources |-> <<>>]

Init ==
  /\ sections \in SectionLists
  /\ banks \in BankLists
  /\ regions = <<>> /\ tdhob_index = 0 /\ hob = NoHob
  /\ region = 1 /\ step = 0 /\ digest = <<>>
  /\ pc = "extract"

-----------------------------------------------------------------------------
(* Regions from sections.                                                  *)

Gpr(s) == [start |-> s.memory_base, length |-> s.memory_size]
Lesser(a, b) == IF a <= b THEN a ELSE b

\* firmware[offset : offset + size]: what the image has of it.
Slice(offset, size) ==
  [i \in 1..(Lesser(offset + size, ImageSize) - Lesser(offset, ImageSize)) |->
     Image(offset + i - 1)]

\* The size in memory is taken for the size in the file.
WrongBufferOf(s) ==
  IF s.type \in {"BFV", "CFV"} THEN Slice(s.data_offset, s.memory_size) ELSE <<>>
BufferOf(s) ==
  IF s.type \in {"BFV", "CFV"} THEN Slice(s.data_offset, s.data_size) ELSE <<>>

Taken == sections[Len(regions) + 1]

ExtractRegion ==
  /\ pc = "extract" /\ Len(regions) < Len(sections)
  /\ Taken.type # "UNKNOWN"
  /\ ~(Taken.type = "TDHOB" /\ tdhob_index # 0)
  /\ regions' = Append(regions, [gpr |-> Gpr(Taken), host_buffer |-> BufferOf(Taken),
                                 extend_mr |-> Taken.extend_mr])
  /\ tdhob_index' = IF Taken.type = "TDHOB" THEN Len(regions) + 1 ELSE tdhob_index
  /\ UNCHANGED <<sections, banks, hob, region, step, digest, pc>>

\* An unknown section, a second TDHOB, or none at all.
RefuseSections ==
  /\ pc = "extract"
  /\ IF Len(regions) < Len(sections)
       THEN Taken.type = "UNKNOWN" \/ (Taken.type = "TDHOB" /\ tdhob_index # 0)
       ELSE tdhob_index = 0
  /\ pc' = "refused"
  /\ UNCHANGED <<sections, banks, regions, tdhob_index, hob, region, step, digest>>

-----------------------------------------------------------------------------
(* The TDHOB.                                                              *)

PrivateResources == [i \in 1..Len(regions) |-> regions[i].gpr]
Unaccepted == IF banks = <<>> THEN <<>> ELSE Gaps(banks, PrivateResources)

EarlyAccept(r) == End(r) <= EarlyLimit

Resources ==
  [i \in 1..Len(regions) |->
     [kind |-> "system", gpr |-> regions[i].gpr, early |-> FALSE]]
  \o [i \in 1..Len(Unaccepted) |->
        [kind |-> "unaccepted", gpr |-> Unaccepted[i], early |-> EarlyAccept(Unaccepted[i])]]

\* Only the resources the firmware owns are counted.
WrongEndOfHobOffset == HandoffSize + DescriptorSize * Len(regions)
EndOfHobOffset == HandoffSize + DescriptorSize * (Len(regions) + Len(Unaccepted))
HobLength == HandoffSize + DescriptorSize * Len(Resources) + EndMarkerSize

Tdhob == regions[tdhob_index]
HobBuffer ==
  [i \in 1..Tdhob.gpr.length |-> IF i <= HobLength THEN Hob(i) ELSE Zero]

BuildTdhob ==
  /\ pc = "extract" /\ Len(regions) = Len(sections) /\ tdhob_index # 0
  /\ HobLength <= Tdhob.gpr.length
  /\ hob' = [end |-> Tdhob.gpr.start + EndOfHobOffset, resources |-> Resources]
  /\ regions' = [regions EXCEPT ![tdhob_index].host_buffer = HobBuffer]
  /\ pc' = "check"
  /\ UNCHANGED <<sections, banks, tdhob_index, region, step, digest>>

RefuseTdhob ==
  /\ pc = "extract" /\ Len(regions) = Len(sections) /\ tdhob_index # 0
  /\ HobLength > Tdhob.gpr.length
  /\ pc' = "refused"
  /\ UNCHANGED <<sections, banks, regions, tdhob_index, hob, region, step, digest>>

-----------------------------------------------------------------------------
(* Measuring a region.                                                     *)

Measured == regions[region]

\* A region that starts within a page is measured.
WrongMeasurable(r) ==
  /\ r.extend_mr => r.gpr.length = Len(r.host_buffer)
  /\ r.gpr.length % PageSize = 0
\* A region that is not measured is to be filled as well.
WrongMeasurableFilled(r) ==
  /\ r.gpr.length = Len(r.host_buffer)
  /\ r.gpr.start % PageSize = 0
  /\ r.gpr.length % PageSize = 0
Measurable(r) ==
  /\ r.extend_mr => r.gpr.length = Len(r.host_buffer)
  /\ r.gpr.start % PageSize = 0
  /\ r.gpr.length % PageSize = 0

CheckRegion ==
  /\ pc = "check" /\ region <= Len(regions)
  /\ pc' = IF Measurable(Measured) THEN "measure" ELSE "refused"
  /\ UNCHANGED <<sections, banks, regions, tdhob_index, hob, region, step, digest>>

PageAdd(gpa) == [op |-> "page_add", gpa |-> gpa, chunk |-> Zero]
MrExtend(gpa, chunk) == [op |-> "mr_extend", gpa |-> gpa, chunk |-> chunk]

\* A page is added after its first chunk.
WrongPageDue(i) == i % PageSize = 1 % PageSize
PageDue(i) == i % PageSize = 0

\* The last chunk of a region is left out.
WrongChunksLeft == step + 1 < Measured.gpr.length
ChunksLeft == step < Measured.gpr.length

MeasureChunk ==
  /\ pc = "measure" /\ ChunksLeft
  /\ LET gpa == Measured.gpr.start + step
     IN  digest' = digest
           \o (IF PageDue(step) THEN <<PageAdd(gpa)>> ELSE <<>>)
           \o (IF Measured.extend_mr
                 THEN <<MrExtend(gpa, Measured.host_buffer[step + 1])>> ELSE <<>>)
  /\ step' = step + 1
  /\ UNCHANGED <<sections, banks, regions, tdhob_index, hob, region, pc>>

NextRegion ==
  /\ pc = "measure" /\ ~ChunksLeft
  /\ region' = region + 1 /\ step' = 0 /\ pc' = "check"
  /\ UNCHANGED <<sections, banks, regions, tdhob_index, hob, digest>>

Finalize ==
  /\ pc = "check" /\ region > Len(regions)
  /\ pc' = "done"
  /\ UNCHANGED <<sections, banks, regions, tdhob_index, hob, region, step, digest>>

Next ==
  \/ ExtractRegion \/ RefuseSections
  \/ BuildTdhob \/ RefuseTdhob
  \/ CheckRegion \/ MeasureChunk \/ NextRegion \/ Finalize

Spec == Init /\ [][Next]_vars

-----------------------------------------------------------------------------
(* The CFV as RTMR[0] measures it.                                         *)

CfvSections == {i \in 1..Len(sections) : sections[i].type = "CFV"}
Cfv == sections[CHOOSE i \in CfvSections : TRUE]

\* Bytes past the end of the image are not noticed.
WrongCfvUsable ==
  /\ Cardinality(CfvSections) = 1
  /\ Cfv.memory_size # 0 /\ Cfv.data_size <= Cfv.memory_size
  /\ Cfv.memory_size <= ImageSize
CfvUsable ==
  /\ Cardinality(CfvSections) = 1
  /\ Cfv.memory_size # 0 /\ Cfv.data_size <= Cfv.memory_size
  /\ Cfv.memory_size <= ImageSize
  /\ Cfv.data_offset + Cfv.data_size <= ImageSize

cfv_image ==
  LET file == Slice(Cfv.data_offset, Cfv.data_size)
  IN  file \o Zeros(Cfv.memory_size - Len(file))

-----------------------------------------------------------------------------
(* Properties.                                                             *)

Chunk == {Image(at) : at \in 0..(ImageSize - 1)} \cup {Hob(at) : at \in 1..HobLength} \cup {Zero}
PageOf(a) == a - (a % PageSize)

\* The type invariant.
TypeOK ==
  /\ Len(regions) <= Len(sections)
  /\ tdhob_index \in 0..Len(regions)
  /\ \A i \in 1..Len(regions) :
       \A k \in 1..Len(regions[i].host_buffer) : regions[i].host_buffer[k] \in Chunk
  /\ region \in 1..(Len(regions) + 1)
  /\ step \in Nat
  /\ pc \in {"extract", "check", "measure", "done", "refused"}

\* A chunk is extended only into the page added last, as the TDX module requires
\* of MR.EXTEND.
ExtendsFollowTheirPage ==
  \A k \in 1..Len(digest) :
    digest[k].op = "mr_extend" =>
      LET adds == {j \in 1..k : digest[j].op = "page_add"}
      IN  \E j \in adds : /\ \A i \in adds : i <= j
                          /\ digest[j].gpa = PageOf(digest[k].gpa)

Covering(a, Which(_)) ==
  Cardinality({i \in 1..Len(sections) : In(a, Gpr(sections[i])) /\ Which(sections[i])})
TimesMeasured(op, gpa) ==
  Cardinality({k \in 1..Len(digest) : digest[k].op = op /\ digest[k].gpa = gpa})

\* In a finished measurement each page of a section is added once for it, and
\* each chunk extended once if the section asks for it; nothing else is.
EverySectionMeasured ==
  pc = "done" =>
    \A a \in UNION {Gpr(sections[i]).start..End(Gpr(sections[i])) : i \in 1..Len(sections)} :
      /\ TimesMeasured("page_add", a) =
           IF PageOf(a) = a THEN Covering(a, LAMBDA s : TRUE) ELSE 0
      /\ TimesMeasured("mr_extend", a) =
           Covering(a, LAMBDA s : s.extend_mr)

\* What memory holds at an address of a section when the guest starts.
Held(s, a) ==
  LET at == a - s.memory_base
  IN  IF s.type \in {"BFV", "CFV"}
        THEN IF at < s.data_size /\ s.data_offset + at < ImageSize
               THEN {Image(s.data_offset + at)} ELSE {}
      ELSE IF s.type = "TDHOB" /\ at < HobLength THEN {Hob(at + 1)} ELSE {Zero}

\* What is extended for an address is what a section puts there: never a byte of
\* the image beside the section's, nor one past its end.
MeasuresWhatIsThere ==
  \A k \in 1..Len(digest) :
    digest[k].op = "mr_extend" =>
      \E i \in 1..Len(sections) :
        /\ In(digest[k].gpa, Gpr(sections[i]))
        /\ digest[k].chunk \in Held(sections[i], digest[k].gpa)

\* The end marker of a TDHOB lies in its region, where the handoff table says.
EndMarkerIsThere ==
  hob # NoHob =>
    /\ hob.end = Tdhob.gpr.start + HandoffSize + DescriptorSize * Len(hob.resources)
    /\ hob.end + EndMarkerSize <= End(Tdhob.gpr)

OnPages(s) == s.memory_base = PageOf(s.memory_base) /\ s.memory_size = PageOf(s.memory_size)
IsVolume(s) == s.type \in {"BFV", "CFV"}

\* There is one TDHOB, and it has room for the list.
OneTdhobWithRoom ==
  \E i \in 1..Len(sections) :
    /\ sections[i].type = "TDHOB"
    /\ \A j \in 1..Len(sections) : sections[j].type = "TDHOB" => j = i
    /\ HandoffSize + EndMarkerSize
         + DescriptorSize * (Len(sections) + (IF banks = <<>> THEN 0 ELSE
             Len(Gaps(banks, [k \in 1..Len(sections) |-> Gpr(sections[k])]))))
           <= sections[i].memory_size

\* A digest is returned only of a table in which every section is known and lies
\* on whole pages, the image has a chunk for each chunk of a volume that is
\* measured, no memory without contents is measured, and the HOB list fits.
MeasuredIsLoadable ==
  pc = "done" =>
    /\ OneTdhobWithRoom
    /\ \A i \in 1..Len(sections) :
         LET s == sections[i]
         IN  /\ s.type # "UNKNOWN" /\ OnPages(s)
             /\ s.extend_mr /\ IsVolume(s) =>
                  \A k \in 0..(s.memory_size - 1) :
                    k < s.data_size /\ s.data_offset + k < ImageSize
             /\ s.extend_mr /\ s.type = "TEMPMEM" => s.memory_size = 0

\* A table as a firmware build lays it out: the volumes are in the image and fit
\* their memory, which those that are measured fill; temporary memory is not
\* measured; sections do not overlap.
WellFormed ==
  /\ OneTdhobWithRoom
  /\ \A i \in 1..Len(sections) :
       LET s == sections[i]
       IN  /\ s.type # "UNKNOWN" /\ OnPages(s)
           /\ IsVolume(s) =>
                /\ s.data_offset + s.data_size <= ImageSize
                /\ s.data_size <= s.memory_size
                /\ s.extend_mr => s.data_size = s.memory_size
           /\ s.type = "TEMPMEM" => ~s.extend_mr
           /\ \A j \in 1..(i - 1) :
                \/ End(Gpr(s)) <= sections[j].memory_base
                \/ End(Gpr(sections[j])) <= s.memory_base

\* No well-formed table is refused.  Of tables that are neither well-formed nor
\* kept from a digest by MeasuredIsLoadable, as those with sections that overlap,
\* nothing is said.
WellFormedIsMeasured == pc = "refused" => ~WellFormed

\* The CFV that goes into RTMR[0] has its size in memory, holds all its bytes of
\* the image, and is what MRTD measures if that section is measured too.
CfvIsWhole ==
  CfvUsable =>
    /\ Len(cfv_image) = Cfv.memory_size
    /\ \A k \in 1..Cfv.data_size : cfv_image[k] = Image(Cfv.data_offset + k - 1)
    /\ pc = "done" /\ Cfv.extend_mr =>
         \A k \in 1..Cfv.memory_size :
           MrExtend(Cfv.memory_base + k - 1, cfv_image[k]) \in ToSet(digest)

=============================================================================

--------------------------- MODULE UkiMeasurement ---------------------------
(***************************************************************************)
(* The registers that are computed from a UKI and from initdata: PCR 4, 5, *)
(* 8, 9 and 11 of an Azure guest (azure_snp/registers.py) and RTMR[1], [2] *)
(* and [3] of a TDX guest (tdx/registers.py), with the sections of uki.py; *)
(* and the guest that boots the same UKI: its firmware, systemd-stub and   *)
(* user space.                                                             *)
(*                                                                         *)
(* A register is the sequence of what it was extended with.  A digest is   *)
(* what it is of: cells of the UKI, or a constant.                         *)
(* A definition named Wrong... is a deliberate error in the definition     *)
(* that follows it.                                                        *)
(***************************************************************************)
EXTENDS PeImage, Initdata, Selection

CONSTANTS
  Cases    \* the inputs tried: platform, uki, initdata and a register given as hex

\* A UKI is its file pe, whose cells are their own positions; the header its
\* kernel has; and which bytes are NUL or no UTF-8.
ASSUME CasesAssumption ==
  \A c \in Cases : /\ c.platform \in {"azure", "tdx"}
                   /\ c.hex \in {"none", "good", "bad"}
                   /\ c.initdata = NoInitdata \/ c.initdata \in Seq(Line)
                   /\ c.uki.pe.content \in Seq(Nat) /\ c.uki.kernel \in PeHeader
                   /\ c.uki.pe.header \in PeHeader

VARIABLES
  input,      \* one of Cases
  registers,  \* those computed so far
  pc          \* the register to compute next, done or refused

vars == <<input, registers, pc>>

pe == input.uki.pe

UKI_MEASURED_SECTIONS ==
  <<".linux", ".osrel", ".cmdline", ".initrd", ".ucode", ".splash", ".dtb", ".uname", ".sbat",
    ".pcrpkey", ".profile", ".dtbauto", ".hwids", ".efifw">>
MeasuredNames == ToSet(UKI_MEASURED_SECTIONS)

Stages == [azure |-> <<"pcr4", "pcr5", "pcr8", "pcr9", "pcr11">>,
           tdx |-> <<"rtmr3", "rtmr1", "rtmr2">>]
StageAfter(stage) ==
  LET stages == Stages[input.platform]
      i == CHOOSE k \in DOMAIN stages : stages[k] = stage
  IN IF i = Len(stages) THEN "done" ELSE stages[i + 1]

Init ==
  /\ input \in Cases
  /\ registers = [r \in {} |-> <<>>]
  /\ pc = Stages[input.platform][1]

\* A command that ends with an error reports the registers it has.
WrongOutcome(defined, value) ==
  /\ IF defined
       THEN /\ registers' = [r \in DOMAIN registers \cup {pc} |->
                               IF r = pc THEN value ELSE registers[r]]
            /\ pc' = StageAfter(pc)
       ELSE UNCHANGED registers /\ pc' = "refused"
  /\ UNCHANGED input
\* A register is computed, or the command ends with an error.
Outcome(defined, value) ==
  /\ IF defined
       THEN /\ registers' = [r \in DOMAIN registers \cup {pc} |->
                               IF r = pc THEN value ELSE registers[r]]
            /\ pc' = StageAfter(pc)
       ELSE /\ registers' = [r \in {} |-> <<>>]
            /\ pc' = "refused"
  /\ UNCHANGED input

Action(what) == <<"action", <<what>>>>
Separator == <<"separator", <<>>>>
Gpt == <<"gpt", <<>>>>
CallingBootOption == Action("Calling EFI Application from Boot Option")
ExitBootServices == <<Action("Exit Boot Services Invocation"),
                      Action("Exit Boot Services Returned with Success")>>

-----------------------------------------------------------------------------
(* The boot chain: PCR 4 and RTMR[1].                                      *)

Kernel == File(input.uki.kernel, Extracted(pe, ".linux"))

BootChainDefined ==
  /\ ExtractDefined(pe, ".linux") /\ Kernel.content # <<>>
  /\ AuthenticodeDefined(pe) /\ AuthenticodeDefined(Kernel)
BootChain == <<<<"authenticode", AuthenticodeDigest(pe)>>,
               <<"authenticode", AuthenticodeDigest(Kernel)>>>>

ComputePcr4 ==
  pc = "pcr4" /\ Outcome(BootChainDefined, <<CallingBootOption, Separator>> \o BootChain)

ComputePcr5 ==
  pc = "pcr5" /\ Outcome(TRUE, <<Separator, Gpt>> \o ExitBootServices)

ComputeRtmr1 ==
  pc = "rtmr1" /\ Outcome(BootChainDefined,
                          <<CallingBootOption, Separator, Gpt>> \o BootChain \o ExitBootServices)

-----------------------------------------------------------------------------
(* The sections: PCR 11 and RTMR[2].                                       *)

\* Repeated sections are measured by their first.
WrongUkiModelled == NamesReadable(pe) /\ NamedSections(pe, ".profile") = {}
UkiModelled ==
  /\ NamesReadable(pe)
  /\ NamedSections(pe, ".profile") = {}
  /\ \A name \in MeasuredNames : Cardinality(NamedSections(pe, name)) <= 1

\* The names of the sections there are, in systemd's order.
MeasuredSections ==
  Chosen(UKI_MEASURED_SECTIONS, LAMBDA name : Extracted(pe, name) # <<>>)

SectionsDefined == UkiModelled /\ \A name \in MeasuredNames : ExtractDefined(pe, name)
\* Every section is extended by its name, and then by its content.
Extends(names, contents) ==
  [k \in 1..(2 * Len(names)) |->
     IF k % 2 = 1 THEN <<"name", <<names[(k + 1) \div 2]>>>> ELSE <<"content", contents[k \div 2]>>]
SectionDigests ==
  LET names == MeasuredSections
  IN Extends(names, [k \in DOMAIN names |-> Extracted(pe, names[k])])

ComputePcr11 == pc = "pcr11" /\ Outcome(SectionsDefined, SectionDigests)
ComputeRtmr2 == pc = "rtmr2" /\ Outcome(SectionsDefined, SectionDigests)

-----------------------------------------------------------------------------
(* The command line and the initrd: PCR 9.                                 *)

IsNul(cell) == cell = Zero \/ cell \in input.uki.nuls

\* The string without the NULs at its end, and as it is terminated.
Stripped(string) ==
  LET rest == {k \in DOMAIN string : ~IsNul(string[k])}
  IN IF rest = {} THEN <<>> ELSE SubSeq(string, 1, CHOOSE k \in rest : \A j \in rest : j <= k)

\* A NUL within the string is no reason to refuse it.
WrongCmdlineDefined(raw) == \A k \in DOMAIN Stripped(raw) : Stripped(raw)[k] \notin input.uki.invalid
CmdlineDefined(raw) ==
  \A k \in DOMAIN Stripped(raw) :
    ~IsNul(Stripped(raw)[k]) /\ Stripped(raw)[k] \notin input.uki.invalid

Pcr9Defined ==
  /\ \A name \in {".cmdline", ".initrd", ".ucode"} : ExtractDefined(pe, name)
  /\ Extracted(pe, ".cmdline") # <<>> /\ Extracted(pe, ".initrd") # <<>>
  /\ CmdlineDefined(Extracted(pe, ".cmdline"))

ComputePcr9 ==
  pc = "pcr9" /\ Outcome(Pcr9Defined,
    <<<<"cmdline", Stripped(Extracted(pe, ".cmdline"))>>,
      <<"initrd", Extracted(pe, ".ucode") \o Extracted(pe, ".initrd")>>>>)

-----------------------------------------------------------------------------
(* Initdata: PCR 8 and RTMR[3].  A register that is given is the last      *)
(* resort of a caller without the file.                                    *)

Given == <<<<"given", <<>>>>>>
Sha256Width == Width("sha256")

\* The digest is extended at its full width.
WrongTruncated(digest) == digest
Truncated(digest) == SubSeq(digest, 1, Sha256Width)

Resolved(require, wide_enough, digest) ==
  IF input.initdata # NoInitdata
    THEN Outcome(input.hex = "none" /\ DigestDefined(input.initdata, require) /\ wide_enough,
                 <<<<"extended", digest>>>>)
    ELSE Outcome(input.hex # "bad", IF input.hex = "good" THEN Given ELSE <<>>)

ResolvePcr8 ==
  LET digest == InitdataDigest(input.initdata)
  IN pc = "pcr8" /\ Resolved("", Len(digest) >= Sha256Width, Truncated(digest))
ResolveRtmr3 ==
  pc = "rtmr3" /\ Resolved("sha384", TRUE, InitdataDigest(input.initdata))

-----------------------------------------------------------------------------
Next ==
  \/ ComputePcr4 \/ ComputePcr5 \/ ResolvePcr8 \/ ComputePcr9 \/ ComputePcr11
  \/ ResolveRtmr3 \/ ComputeRtmr1 \/ ComputeRtmr2

Spec == Init /\ [][Next]_vars

-----------------------------------------------------------------------------
(* The guest.  Its firmware hashes a regular image whole.  systemd-stub    *)
(* takes one section of each name, and which one of several is not decided *)
(* by the image; nor is whether a profile is selected.                     *)

UnifiedSections ==
  <<".linux", ".osrel", ".cmdline", ".initrd", ".ucode", ".splash", ".dtb", ".uname", ".sbat",
    ".pcrsig", ".pcrpkey", ".profile", ".dtbauto", ".hwids", ".efifw">>

\* What is found in memory where a section is loaded.
InMemory(s) ==
  [k \in 1..s.virt_size |-> IF k <= s.raw_size THEN pe.content[s.raw_ptr + k] ELSE Zero]
Loadable(name) ==
  {i \in NamedSections(pe, name) : HasContent(SectionsOf(pe)[i]) /\ SectionsOf(pe)[i].virt_size # 0
                                  /\ RawEnd(SectionsOf(pe)[i]) <= PeSize(pe)}
Present == {name \in ToSet(UnifiedSections) : Loadable(name) # {}}
StubChoices ==
  {choice \in [Present -> UNION {Loadable(name) : name \in Present}] :
     \A name \in Present : choice[name] \in Loadable(name)}

StubSection(choice, name) ==
  IF name \in Present THEN InMemory(SectionsOf(pe)[choice[name]]) ELSE <<>>
StubMeasures(choice, profile) ==
  Chosen(UnifiedSections,
    LAMBDA name : name \in Present /\ name # ".pcrsig" /\ (name = ".profile" => profile))
GuestSections(choice, profile) ==
  LET names == StubMeasures(choice, profile)
  IN Extends(names, [k \in DOMAIN names |-> StubSection(choice, names[k])])

WholeDigest(image) ==
  LET whole == WholeFile(image) IN DigestOver(image, whole)
GuestKernel(choice) == File(input.uki.kernel, StubSection(choice, ".linux"))
GuestBoot(choice) == <<<<"authenticode", WholeDigest(pe)>>,
                       <<"authenticode", WholeDigest(GuestKernel(choice))>>>>
GuestBootRegister(choice) ==
  [pcr4 |-> <<CallingBootOption, Separator>> \o GuestBoot(choice),
   rtmr1 |-> <<CallingBootOption, Separator, Gpt>> \o GuestBoot(choice) \o ExitBootServices]

\* The stub's string ends at its first NUL.
Terminated(string) ==
  LET nuls == {k \in DOMAIN string : IsNul(string[k])}
  IN IF nuls = {} THEN string ELSE SubSeq(string, 1, First(nuls) - 1)
GuestCmdline(choice) == <<"cmdline", Terminated(StubSection(choice, ".cmdline"))>>
GuestInitrd(choice) ==
  <<"initrd", StubSection(choice, ".ucode") \o StubSection(choice, ".initrd")>>

\* What user space extends: as much of the digest as the register holds.
RegisterWidth == [azure |-> Sha256Width, tdx |-> Width("sha384")]
GuestInitdata ==
  LET digest == DigestOf(TheAlgorithm(input.initdata), input.initdata)
  IN <<<<"extended", [k \in 1..RegisterWidth[input.platform] |-> digest[k]]>>>>

-----------------------------------------------------------------------------
(* Properties.                                                             *)

Computed(names) == {r \in names : r \in DOMAIN registers}

Ahead(stage) ==
  LET stages == Stages[input.platform]
  IN {stages[k] : k \in {j \in DOMAIN stages : \E i \in DOMAIN stages : j < i /\ stages[i] = stage}}

\* The registers computed are those ahead of the one to come; a call that fails
\* reports none of them (azure_snp/registers.py:103-129).
TypeOK ==
  \/ pc = "refused" /\ DOMAIN registers = {}
  \/ pc = "done" /\ DOMAIN registers = ToSet(Stages[input.platform])
  \/ pc \in ToSet(Stages[input.platform]) /\ DOMAIN registers = Ahead(pc)

\* PCR 4 and RTMR[1] have, among their constants, the two digests firmware takes
\* of regular images: of the whole file, and of the kernel as the stub loads it, whichever .linux
\* section it takes (azure_snp/registers.py:161-196, tdx/registers.py:269-322).
\* Reported registers only: PCR 4 is computed before PCR 11 refuses the UKI.
BootChainReproduced ==
  pc = "done" =>
    \A r \in Computed({"pcr4", "rtmr1"}), choice \in StubChoices :
      Regular(pe) /\ Regular(GuestKernel(choice)) =>
        registers[r] = GuestBootRegister(choice)[r]

\* PCR 11 and RTMR[2] have what systemd-stub measures, whichever section of a
\* name it takes and whether or not a profile is selected (uki.py:64-108); no
\* byte of it comes from behind the section in the file (tdx/pe.py:265-294).
SectionsReproduced ==
  pc = "done" =>
    \A r \in Computed({"pcr11", "rtmr2"}), choice \in StubChoices, profile \in BOOLEAN :
      registers[r] = GuestSections(choice, profile)

\* PCR 9 has the command line the stub passes on, which ends at its first NUL,
\* and the microcode ahead of the initrd (azure_snp/registers.py:255-332).
CmdlineAndInitrdReproduced ==
  pc = "done" /\ input.platform = "azure" =>
    \A choice \in StubChoices :
      registers["pcr9"] = <<GuestCmdline(choice), GuestInitrd(choice)>>

\* PCR 8 and RTMR[3] have the digest of the algorithm that the file declares at
\* its top level, cut to the register's width and never padded; a file with
\* no such key has no register (initdata.py:53-96, azure_snp/registers.py:228-252).
InitdataReproduced ==
  \A r \in Computed({"pcr8", "rtmr3"}) :
    IF input.initdata = NoInitdata
      THEN registers[r] = IF input.hex = "good" THEN Given ELSE <<>>
      ELSE /\ AlgorithmKeys(input.initdata) # {}
           /\ WellFormed(input.initdata) => registers[r] = GuestInitdata

\* Whatever an image declares, a digest that is computed covers all bytes of
\* the headers it declares, but for the two fields, and of every section, and
\* covers bytes of the file only: no span was cut short (tdx/pe.py:146-208).
NothingClamped ==
  Computed({"pcr4", "rtmr1"}) # {} =>
    \A image \in {pe, Kernel} :
      LET headers == 0..(image.header.size_of_headers - 1)
          fields == {ChecksumAt(image)} \cup (IF HasCertEntry(image) THEN {CertEntryAt(image)} ELSE {})
          sections == UNION {SectionsOf(image)[i].raw_ptr..(RawEnd(SectionsOf(image)[i]) - 1) :
                               i \in Contents(image)}
          hashed == Hashed(image)
      IN /\ (headers \ fields) \cup sections \subseteq ToSet(hashed)
         /\ ToSet(hashed) \subseteq 0..(PeSize(image) - 1)

\* What the code undertakes to measure, said of the inputs alone.
SectionSupported(s) ==
  s.virt_size # 0 => /\ s.virt_addr + s.virt_size <= pe.header.image_size
                     /\ s.virt_size <= s.raw_size + MAX_VIRTUAL_PADDING_BYTES
UkiSupported ==
  /\ Regular(pe)
  /\ NamedSections(pe, ".profile") = {}
  /\ \A name \in MeasuredNames : \A i, j \in NamedSections(pe, name) : i = j
  /\ \A i \in Contents(pe) :
       SectionsOf(pe)[i].name \in MeasuredNames => SectionSupported(SectionsOf(pe)[i])
  /\ ".linux" \in Present
  /\ \A choice \in StubChoices : Regular(GuestKernel(choice))
CmdlineSupported ==
  /\ {".cmdline", ".initrd"} \subseteq Present
  /\ \A choice \in StubChoices :
       LET string == StubSection(choice, ".cmdline")
           text == Terminated(string)
       IN /\ \A k \in DOMAIN text : text[k] \notin input.uki.invalid
          /\ \A k \in DOMAIN string : k > Len(text) => IsNul(string[k])
InitdataSupported ==
  IF input.initdata = NoInitdata THEN input.hex # "bad"
  ELSE /\ input.hex = "none" /\ WellFormed(input.initdata)
       /\ input.platform = "tdx" => TheAlgorithm(input.initdata) = "sha384"

\* A refusal has a reason: the registers of a guest that the code undertakes to
\* measure are computed, on the limits of every check too (uki.py:85-108,
\* tdx/pe.py:150-206, tdx/pe.py:263-294, initdata.py:53-96).
RefusedForAReason ==
  pc = "refused" =>
    ~(UkiSupported /\ InitdataSupported /\ (input.platform = "azure" => CmdlineSupported))
=============================================================================

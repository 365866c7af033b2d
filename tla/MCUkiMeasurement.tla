-------------------------- MODULE MCUkiMeasurement --------------------------
(* UKIs as a linker lays them out, with sections missing, repeated, empty,   *)
(* out of order or with a profile; the same with a field of the header, of   *)
(* a section or of the kernel's header changed, or two of them, or the file  *)
(* cut anywhere; command lines with NULs and bytes that are no UTF-8; and    *)
(* initdata of up to three lines.                                            *)
EXTENDS UkiMeasurement

HeadersOfKernel ==
  [signed |-> TRUE, opt |-> 3, opt_size |-> 6, magic |-> "PE32", certs |-> TRUE, cert_size |-> 0,
   size_of_headers |-> 10, image_size |-> 40,
   sections |-> <<[name |-> ".text", virt_addr |-> 20, virt_size |-> 1, raw_size |-> 1, raw_ptr |-> 10]>>]

RawSizeOf(name) == CASE name = ".linux" -> 11 [] name = ".cmdline" -> 2 [] OTHER -> 1
ImageEnd == 200

\* The sections one after the other behind the headers, then a tail and the
\* certificates.
Linked(names, tail, cert) ==
  LET headers == 10 + Len(names)
      Ptr(i) == headers + FoldLeft(LAMBDA sum, k : sum + RawSizeOf(names[k]), 0, [k \in 1..(i - 1) |-> k])
      size == Ptr(Len(names) + 1) + tail + cert
  IN File([signed |-> TRUE, opt |-> 3, opt_size |-> 7, magic |-> "PE32+", certs |-> TRUE,
           cert_size |-> cert, size_of_headers |-> headers, image_size |-> ImageEnd,
           sections |-> [i \in 1..Len(names) |->
             [name |-> names[i], virt_addr |-> 20 * i, virt_size |-> RawSizeOf(names[i]),
              raw_size |-> RawSizeOf(names[i]), raw_ptr |-> Ptr(i)]]],
          [k \in 1..size |-> k - 1])

MakeUki(image) == [pe |-> image, nuls |-> {}, invalid |-> {}, kernel |-> HeadersOfKernel]

Typical == MakeUki(Linked(<<".linux", ".cmdline", ".initrd">>, 0, 2))
Layouts ==
  {<<".linux", ".cmdline", ".initrd">>, <<".initrd", ".ucode", ".text", ".linux", ".cmdline", ".osrel">>,
   <<".linux", ".cmdline", ".initrd", ".cmdline">>, <<".linux", ".initrd", ".cmdline", ".linux">>,
   <<".linux", ".cmdline", ".initrd", ".profile">>, <<".pcrsig", ".cmdline", ".initrd", ".linux">>,
   <<".linux", ".initrd">>, <<".cmdline", ".initrd">>, <<".linux", ".cmdline">>, <<>>}
Plain == {MakeUki(Linked(names, 0, 2)) : names \in Layouts}
         \cup {MakeUki(Linked(<<".initrd", ".cmdline", ".linux">>, tail, cert)) : tail \in {0, 1}, cert \in {0, 2}}

ChangedHeader(h) ==
  {[h EXCEPT !.signed = FALSE], [h EXCEPT !.magic = "ROM"], [h EXCEPT !.magic = "PE32"],
   [h EXCEPT !.magic = "PE32+"], [h EXCEPT !.certs = FALSE]}
  \cup {[h EXCEPT !.opt_size = n] : n \in {5, 6, 7, 8, 60}}
  \cup {[h EXCEPT !.cert_size = n] : n \in {0, 1, 3, 20, 60}}
  \cup {[h EXCEPT !.size_of_headers = n] :
          n \in {5, 9, 60} \cup ((h.size_of_headers - 1)..(h.size_of_headers + 2))}
ChangedSection(s) ==
  {[s EXCEPT !.virt_size = n] : n \in {0, 1, 9} \cup (((s.raw_size - 1)..(s.raw_size + 3)) \cap Nat)}
  \cup {[s EXCEPT !.raw_size = n] : n \in {0, s.raw_size + 1, 60}}
  \cup {[s EXCEPT !.raw_ptr = n] : n \in {0, 4, s.raw_ptr - 1, s.raw_ptr + 1} \cap Nat}
  \cup {[s EXCEPT !.virt_addr = n] : n \in {ImageEnd - s.virt_size, ImageEnd - s.virt_size + 1}}
  \cup {[s EXCEPT !.name = n] : n \in {".profile", ".linux", ".ucode", ".text"}}
Changed(h) ==
  ChangedHeader(h) \cup UNION {{[h EXCEPT !.sections[i] = s] : s \in ChangedSection(h.sections[i])} :
                                 i \in DOMAIN h.sections}

ChangedUki(u) == {[u EXCEPT !.pe.header = h] : h \in Changed(u.pe.header)}
                 \cup {[u EXCEPT !.kernel = h] : h \in Changed(u.kernel)}
CutUki(u) == {[u EXCEPT !.pe.content = SubSeq(@, 1, n)] : n \in 0..Len(u.pe.content)}
CmdlineOf(u) == {s.raw_ptr + k : s \in {x \in ToSet(u.pe.header.sections) : x.name = ".cmdline"}, k \in {0, 1}}
CmdlinesOf(u) == {[u EXCEPT !.nuls = n, !.invalid = v] : n \in SUBSET CmdlineOf(u), v \in SUBSET CmdlineOf(u)}
Padded(u) == [u EXCEPT !.pe.header.sections[2].virt_size = 3]

Ukis == Plain \cup UNION {ChangedUki(u) : u \in Plain} \cup UNION {ChangedUki(u) : u \in ChangedUki(Typical)}
        \cup UNION {CutUki(u) : u \in Plain} \cup CmdlinesOf(Typical) \cup CmdlinesOf(Padded(Typical))

Case(platform, uki, initdata, hex) ==
  [platform |-> platform, uki |-> uki, initdata |-> initdata, hex |-> hex]
Lines == {[kind |-> "table", name |-> ""], [kind |-> "other", name |-> ""]}
         \cup [kind : {"algorithm"}, name : AlgorithmNames \ {""}]
Files == UNION {[1..n -> Lines] : n \in 0..3} \cup {NoInitdata}
MCCases ==
  {Case(platform, u, NoInitdata, "none") : platform \in {"azure", "tdx"}, u \in Ukis}
  \cup {Case(platform, Typical, f, hex) : platform \in {"azure", "tdx"}, f \in Files,
                                          hex \in {"none", "good", "bad"}}
=============================================================================

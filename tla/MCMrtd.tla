------------------------------ MODULE MCMrtd ------------------------------
(* Tables of up to three sections over an image of four chunks and pages of *)
(* two: sections that are padded, clipped by the end of the image, empty,   *)
(* out of line or overlapping, and TDHOBs with and without enough room.     *)
EXTENDS Mrtd

S(type, offset, size, base, memory, extend) ==
  [type |-> type, data_offset |-> offset, data_size |-> size,
   memory_base |-> base, memory_size |-> memory, extend_mr |-> extend]

Volumes == {S("BFV", 2, 2, 0, 2, TRUE), S("BFV", 0, 4, 0, 4, TRUE), S("BFV", 2, 2, 1, 2, TRUE),
            S("BFV", 0, 2, 0, 4, TRUE), S("BFV", 3, 2, 0, 2, TRUE), S("BFV", 3, 2, 0, 2, FALSE),
            S("BFV", 2, 1, 0, 1, FALSE), S("BFV", 2, 4, 0, 2, TRUE), S("BFV", 5, 1, 0, 0, TRUE),
            S("CFV", 0, 2, 4, 2, TRUE), S("CFV", 0, 1, 4, 2, FALSE), S("CFV", 1, 2, 0, 2, TRUE),
            S("CFV", 3, 2, 4, 2, FALSE), S("CFV", 0, 0, 4, 0, TRUE)}
Rest == {S("TDHOB", 0, 0, 12, 6, FALSE), S("TDHOB", 0, 0, 12, 8, TRUE), S("TDHOB", 0, 0, 12, 4, TRUE),
         S("TEMPMEM", 0, 0, 2, 2, FALSE), S("TEMPMEM", 0, 0, 2, 2, TRUE),
         S("UNKNOWN", 0, 0, 2, 2, FALSE)}

MCSectionLists == UNION {[1..n -> Volumes \cup Rest] : n \in 1..3}
Bank(start, length) == [start |-> start, length |-> length]
MCBankLists == {<<>>, <<Bank(0, 6), Bank(7, 1), Bank(8, 8)>>}
=============================================================================

------------------------- MODULE MCFirmwareMetadata -------------------------
(* Images that are built as an OVMF build lays them out, and the same with   *)
(* one or two fields changed or an end cut off.                              *)
EXTENDS FirmwareMetadata

MCFooter == 20
MCOffsetGuid == 21
MCMetadataGuid == 22
MCMagic == 23
OtherGuid == 24
MCVersion == 1

Filled(n) == [i \in 1..n |-> 0]
Other(n) == Filled(n) \o <<n + FW_GUID_ENTRY_SIZE, OtherGuid>>
Naming(offset) == <<offset, 1 + FW_GUID_ENTRY_SIZE, MCOffsetGuid>>
Empty == <<FW_GUID_ENTRY_SIZE, MCOffsetGuid>>
Footer(table) == <<Len(table) + FW_GUID_ENTRY_SIZE, MCFooter>>
Metadata(ss) == <<MCMetadataGuid, MCMagic, 4 + Len(ss), MCVersion, Len(ss)>> \o ss

\* The metadata ahead of a table of which the named block is between others.
Built(ss, before, after) ==
  LET behind == Len(Metadata(ss)) - 1 + Len(before) + 3 + Len(after) + 2 + 1
      table == before \o Naming(behind) \o after
  IN Metadata(ss) \o table \o Footer(table) \o <<0>>

SectionLists == {<<>>, <<7>>, <<7, 8>>}
Plain == {Built(ss, b, a) : ss \in SectionLists, b \in {<<>>, Other(0), Other(1)},
                            a \in {<<>>, Other(2)}}
\* Two blocks name an offset, or one of them nothing.
Twice == {Built(<<7>>, Naming(o), <<>>) : o \in {1, 4, 13}} \cup {Built(<<7>>, <<>>, Naming(14))}
         \cup {Built(<<7>>, Empty, <<>>), Built(<<7>>, <<>>, Empty)}
Intact == Plain \cup Twice

Values == 0..18 \cup {MCFooter, MCOffsetGuid, MCMetadataGuid, MCMagic, OtherGuid}
Changed(f) == {[f EXCEPT ![i] = v] : i \in DOMAIN f, v \in Values}
Small == {Built(<<7>>, <<>>, <<>>), Built(<<7>>, Other(0), <<>>)}
FewValues == {0, 1, 2, 3, 5, 8, 18, MCOffsetGuid}
ChangedTwice(f) ==
  {[f EXCEPT ![i] = v, ![j] = w] : i \in DOMAIN f, j \in DOMAIN f,
                                       v \in FewValues, w \in FewValues}
Cut(f) == {SubSeq(f, i, Len(f)) : i \in 1..(Len(f) + 1)}
              \cup {SubSeq(f, 1, i) : i \in 0..Len(f)}

MCImages == UNION {Changed(f) : f \in Intact} \cup UNION {ChangedTwice(f) : f \in Small}
            \cup UNION {Cut(f) : f \in Intact}
=============================================================================

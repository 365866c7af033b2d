--------------------------- MODULE MCMeasuredBoot ---------------------------
(* Boots of up to two events for TLC.  Algorithm 2, with digests of two     *)
(* cells, is the bank that is replayed; algorithm 1 has one cell.           *)
EXTENDS MeasuredBoot

MCAlgoDigestSizes == [a \in Cells |-> IF a \in {1, 2} THEN a ELSE 0]

MCSpecIdRecord ==
  LET payload == <<Signature, 0>> \o Word(2) \o <<1, 1, 2, 2>> \o <<0>>
  IN Word(0) \o Word(EV_NO_ACTION) \o <<1>> \o Word(Len(payload)) \o payload

Bank(cells) == [algo |-> 2, cells |-> cells]
Other == [algo |-> 1, cells |-> <<2>>]
Ev(r, t, ds, d) == [register |-> r, type |-> t, digests |-> ds, data |-> d]

\* Digests and data that end in a fill cell, an event with both banks, one
\* without the bank, and notes that extend nothing.
Ordinary == {Ev(r, 1, <<Bank(cells)>>, d) : r \in {0, 1}, cells \in {<<1, 0>>, <<2, MaxByte>>},
                                            d \in {<<>>, <<0>>, <<1, MaxByte>>}}
Special == {Ev(0, 1, <<Other, Bank(<<1, 1>>)>>, <<>>), Ev(1, 1, <<Other>>, <<1>>),
            Ev(0, EV_NO_ACTION, <<Bank(<<2, 2>>)>>, <<2>>)}
MCFirmwareEvents == Ordinary \cup Special
\* In a CCEL a note may also be addressed to no register at all.  The header of
\* an event without digests ends in zeros, as the fill does.
MCCcelEvents ==
  MCFirmwareEvents \cup {Ev(0 - RegisterBase, EV_NO_ACTION, <<>>, <<>>), Ev(1, 1, <<>>, <<>>)}

NoLogs == {}
Repeat(c, n) == [i \in 1..n |-> c]
CcelFills == {<<>>} \cup {Repeat(c, n) : c \in {0, MaxByte}, n \in {1, 9}}
VtpmFills == {<<>>}
=============================================================================

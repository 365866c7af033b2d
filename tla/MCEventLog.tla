----------------------------- MODULE MCEventLog -----------------------------
(* Small logs for TLC: a SpecIdEvent, whole or damaged, up to two records   *)
(* drawn from well-formed and ill-formed ones, cut anywhere, then fill.     *)
EXTENDS EventLog

Word(n) == <<n % (MaxByte + 1), n \div (MaxByte + 1)>>

SpecId(payload) == Word(0) \o Word(EV_NO_ACTION) \o <<1>> \o Word(Len(payload)) \o payload

Payload(count, pairs, vendor) == <<Signature, 0>> \o Word(count) \o pairs \o vendor

\* Algorithm 1 has digests of one cell and algorithm 2 of two; 3 is unknown.
OneAlgo == Payload(1, <<2, 2>>, <<0>>)
Payloads ==
  {OneAlgo, Payload(2, <<1, 1, 2, 2>>, <<1, 3>>), Payload(2, <<2, 2, 3, 1>>, <<0>>),
   Payload(0, <<>>, <<0>>), Payload(3, <<2, 2>>, <<0>>), Payload(1, <<2, 1>>, <<0>>),
   Payload(1, <<3, 3>>, <<0>>), Payload(1, <<3, 0>>, <<0>>), Payload(2, <<2, 2, 2, 2>>, <<0>>),
   Payload(1, <<2, 2>>, <<0, 0>>), Payload(1, <<2, 2>>, <<1>>), <<Signature>>,
   <<1>> \o Tail(OneAlgo), <<>>}

DigestLists ==
  {<<0, <<>>>>, <<1, <<>>>>, <<1, <<2, 1, 0>>>>, <<1, <<2, 0, 3>>>>, <<2, <<2, 1, 0>>>>,
   <<2, <<1, 3, 2, 0, 1>>>>, <<2, <<2, 1, 1, 2, 1, 1>>>>, <<1, <<3, 1>>>>, <<15, <<1, 1>>>>}
EventDatas == {<<0, 0>>, <<1, 0, 0>>, <<1, 0, 3>>, <<2, 0, 1, 3>>, <<2, 0, 1>>, <<0, 3>>, <<3, 3>>}

Record(r, t, ds, d) == Word(r) \o Word(t) \o Word(ds[1]) \o ds[2] \o d
Records == {Record(r, t, ds, d) : r \in {0, 1, 2, 3, 15}, t \in {1, EV_NO_ACTION},
                                  ds \in DigestLists, d \in EventDatas}
WellFormed == {Record(r, 1, ds, d) : r \in {1, 2}, ds \in {<<1, <<2, 1, 0>>>>, <<1, <<2, 0, 3>>>>},
                                     d \in {<<0, 0>>, <<1, 0, 3>>}}

Bodies == {<<>>} \cup Records \cup {a \o b : a \in WellFormed, b \in WellFormed}

Repeat(c, n) == [i \in 1..n |-> c]
Tails == {<<>>, <<1>>} \cup {Repeat(c, n) : c \in {0, MaxByte}, n \in {1, 2, 8}}
               \cup {Repeat(MaxByte, 2) \o Repeat(0, 3), Repeat(MaxByte, 2) \o <<1>>}

Prefixes(s, from) == {SubSeq(s, 1, n) : n \in from..Len(s)}

SpecIdLogs == {l \o t : l \in UNION {Prefixes(SpecId(p), 0) : p \in Payloads}, t \in Tails}
RecordLogs == {l \o t : l \in UNION {Prefixes(SpecId(OneAlgo) \o b, Len(SpecId(OneAlgo))) : b \in Bodies},
                        t \in Tails}
OtherSpecIdLogs == {SpecId(p) \o b : p \in Payloads, b \in Records}

MCLogs == SpecIdLogs \cup RecordLogs \cup OtherSpecIdLogs
MCAlgoDigestSizes == [a \in Cells |-> IF a \in {1, 2} THEN a ELSE 0]
=============================================================================

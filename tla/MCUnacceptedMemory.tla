------------------------ MODULE MCUnacceptedMemory ------------------------
(* Up to three firmware regions, overlapping, nested or empty ones among    *)
(* them, against up to three banks with holes between them.                 *)
EXTENDS UnacceptedMemory

MaxAddress == 7
Within == {r \in [start : 0..MaxAddress, length : 0..3] : End(r) <= MaxAddress + 1}

InOrder(rs) == \A i, j \in 1..Len(rs) : i < j => rs[i].start <= rs[j].start
Disjoint(rs) == \A i, j \in 1..Len(rs) : i < j => End(rs[i]) <= rs[j].start

MCPrivates == {ps \in UNION {[1..n -> Within] : n \in 0..2} : InOrder(ps)}
                \cup {<<a, b, c>> : a \in {[start |-> 0, length |-> 4], [start |-> 1, length |-> 1]},
                                    b \in {[start |-> 1, length |-> 2], [start |-> 2, length |-> 0]},
                                    c \in {[start |-> s, length |-> 2] : s \in 2..5}}
MCBanks == {<<[start |-> 0, length |-> l], [start |-> 4, length |-> m],
              [start |-> 5, length |-> n]>> : l \in {0, 3, 4}, m \in {0, 1}, n \in {0, 1, 3}}
             \cup {<<>>, <<[start |-> 2, length |-> 5]>>,
                   <<[start |-> 1, length |-> 2], [start |-> 3, length |-> 4]>>}
MCAddresses == 0..MaxAddress
=============================================================================

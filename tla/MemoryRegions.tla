---------------------------- MODULE MemoryRegions ----------------------------
(* Ranges of guest physical addresses (GuestPhysicalRegion of tdx/mrtd.py), *)
(* and what the RAM not covered by a set of them is.                        *)
EXTENDS Integers, Sequences, SequencesExt, FiniteSets

Region == [start : Nat, length : Nat]
End(r) == r.start + r.length

In(a, r) == r.start <= a /\ a < End(r)
InSome(a, rs) == \E i \in 1..Len(rs) : In(a, rs[i])

\* The ranges of a bank that none of the regions covers, as large as can be.
GapsIn(bank, privates) ==
  LET free == {a \in bank.start..(End(bank) - 1) : ~InSome(a, privates)}
      first == {a \in free : a - 1 \notin free}
      Length(a) == CHOOSE n \in 1..bank.length :
                     /\ a + n \notin free
                     /\ \A k \in 1..(n - 1) : a + k \in free
  IN  {[start |-> a, length |-> Length(a)] : a \in first}
\* Those of all the banks, by address.
Gaps(banks, privates) ==
  LET gaps == UNION {GapsIn(banks[i], privates) : i \in 1..Len(banks)}
      Below(r) == Cardinality({s \in gaps : s.start < r.start})
  IN  [i \in 1..Cardinality(gaps) |-> CHOOSE r \in gaps : Below(r) = i - 1]

=============================================================================

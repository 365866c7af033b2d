-------------------------- MODULE UnacceptedMemory --------------------------
(***************************************************************************)
(* The sweep that finds the guest RAM no firmware region covers            *)
(* (_unaccepted_mem_ranges of tdx/mrtd.py), which the TDHOB lists and MRTD *)
(* therefore measures.                                                     *)
(*                                                                         *)
(* Both lists are sorted by start before the sweep; the model starts from  *)
(* the sorted lists.  The firmware's regions may be empty or overlap; the  *)
(* banks do not overlap, which RamTopologyProofs proves of ram_regions.    *)
(* A definition named Wrong... is a deliberate error in the definition     *)
(* that follows it.                                                        *)
(***************************************************************************)
EXTENDS MemoryRegions

CONSTANTS
  Privates,   \* lists of firmware regions, each sorted by start
  Banks,      \* lists of RAM banks, each sorted and disjoint
  Addresses   \* the addresses the properties speak of

ASSUME AddressesAssumption == Addresses \subseteq Nat
ASSUME PrivatesAssumption ==
  /\ Privates \subseteq Seq(Region)
  /\ \A ps \in Privates : \A i, j \in 1..Len(ps) : i < j => ps[i].start <= ps[j].start
ASSUME BanksAssumption ==
  /\ Banks \subseteq Seq(Region)
  /\ \A bs \in Banks : \A i, j \in 1..Len(bs) : i < j => End(bs[i]) <= bs[j].start

VARIABLES
  sorted_private, sorted_ram,
  bank,        \* the bank being swept, or the next one
  priv_idx,    \* the first firmware region not passed: it outlives a bank
  cur_start,   \* how far the bank has been swept
  unaccepted,  \* the gaps found
  pc           \* "bank", "sweep" or "done"

vars == <<sorted_private, sorted_ram, bank, priv_idx, cur_start, unaccepted, pc>>

Init ==
  /\ sorted_private \in Privates
  /\ sorted_ram \in Banks
  /\ bank = 1 /\ priv_idx = 1 /\ cur_start = 0
  /\ unaccepted = <<>>
  /\ pc = "bank"

Ram == sorted_ram[bank]
Private == sorted_private[priv_idx]

Gap(from, to) == [start |-> from, length |-> to - from]
Least(a, b) == IF a <= b THEN a ELSE b

SkipEmptyBank ==
  /\ pc = "bank"
  /\ bank <= Len(sorted_ram)
  /\ Ram.length = 0
  /\ bank' = bank + 1
  /\ UNCHANGED <<sorted_private, sorted_ram, priv_idx, cur_start, unaccepted, pc>>

EnterBank ==
  /\ pc = "bank"
  /\ bank <= Len(sorted_ram)
  /\ Ram.length # 0
  /\ cur_start' = Ram.start
  /\ pc' = "sweep"
  /\ UNCHANGED <<sorted_private, sorted_ram, bank, priv_idx, unaccepted>>

\* There is a region to look at and some of the bank left.
Sweeping ==
  /\ pc = "sweep"
  /\ cur_start < End(Ram)
  /\ priv_idx <= Len(sorted_private)

\* A region that starts at or below the cursor is taken to be behind it.
WrongBehind(p) == p.length = 0 \/ p.start <= cur_start
\* Off by one: a region that ends at the cursor is not behind it.
WrongBehindEnd(p) == p.length = 0 \/ End(p) < cur_start
Behind(p) == p.length = 0 \/ End(p) <= cur_start

\* Off by one: a region that starts at the bank's last address is beyond it.
WrongBeyond(p) == p.start >= End(Ram) - 1
Beyond(p) == p.start >= End(Ram)

SkipPrivate ==
  /\ Sweeping
  /\ Behind(Private)
  /\ priv_idx' = priv_idx + 1
  /\ UNCHANGED <<sorted_private, sorted_ram, bank, cur_start, unaccepted, pc>>

GapBefore(p) == Gap(cur_start, p.start)

\* The gap before a region, if any, is unaccepted; the sweep goes on after it.
CutPrivate ==
  /\ Sweeping
  /\ ~Behind(Private)
  /\ ~Beyond(Private)
  /\ unaccepted' = IF Private.start > cur_start
                     THEN Append(unaccepted, GapBefore(Private)) ELSE unaccepted
  /\ cur_start' = Least(End(Private), End(Ram))
  /\ UNCHANGED <<sorted_private, sorted_ram, bank, priv_idx, pc>>

\* The next region lies beyond the bank and is kept for a later one.
LeaveBank ==
  /\ pc = "sweep"
  /\ Sweeping => ~Behind(Private) /\ Beyond(Private)
  /\ unaccepted' = IF cur_start < End(Ram)
                     THEN Append(unaccepted, Gap(cur_start, End(Ram))) ELSE unaccepted
  /\ bank' = bank + 1
  /\ pc' = "bank"
  /\ UNCHANGED <<sorted_private, sorted_ram, priv_idx, cur_start>>

Return ==
  /\ pc = "bank"
  /\ bank > Len(sorted_ram)
  /\ pc' = "done"
  /\ UNCHANGED <<sorted_private, sorted_ram, bank, priv_idx, cur_start, unaccepted>>

Next == SkipEmptyBank \/ EnterBank \/ SkipPrivate \/ CutPrivate \/ LeaveBank \/ Return

\* A loop of one thread, which goes on while it can.
Spec == Init /\ [][Next]_vars /\ WF_vars(Next)

-----------------------------------------------------------------------------
(* Properties.                                                             *)

\* The type invariant.
TypeOK ==
  /\ sorted_private \in Seq(Region) /\ sorted_ram \in Seq(Region)
  /\ bank \in 1..(Len(sorted_ram) + 1)
  /\ priv_idx \in 1..(Len(sorted_private) + 1)
  /\ cur_start \in Nat
  /\ unaccepted \in Seq(Region)
  /\ pc \in {"bank", "sweep", "done"}

\* An address is reported unaccepted exactly if it is RAM and no firmware
\* region covers it.
ExactCover ==
  pc = "done" =>
    \A a \in Addresses :
      InSome(a, unaccepted) <=> InSome(a, sorted_ram) /\ ~InSome(a, sorted_private)

\* The ranges are not empty and come in order without overlapping, so the TDHOB
\* describes no address twice.
RangesInOrder ==
  \A i \in 1..Len(unaccepted) :
    /\ unaccepted[i].length > 0
    /\ \A j \in 1..(i - 1) : End(unaccepted[j]) <= unaccepted[i].start

\* The ranges are as few as they can be within the banks: two of the same bank
\* never meet.
GapsAreWhole == pc = "done" => unaccepted = Gaps(sorted_ram, sorted_private)

\* The sweep comes to an end: no region is looked at for ever.
Finishes == <>(pc = "done")

=============================================================================

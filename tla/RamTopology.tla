---------------------------- MODULE RamTopology ----------------------------
(***************************************************************************)
(* The guest's RAM banks (ram_regions of tdx/mrtd.py): 3 GiB below the     *)
(* MMIO hole, the flash window just below 4 GiB, and one bank per NUMA     *)
(* node from 4 GiB up, until the requested RAM is placed.                  *)
(*                                                                         *)
(* Sizes are in a unit of which GIB and MIB are multiples.  A definition   *)
(* named Wrong... is a deliberate error in the definition that follows it. *)
(***************************************************************************)
EXTENDS Integers, Sequences

CONSTANTS
  GIB, MIB,
  Requests    \* the requests: ram_gib, numa_nodes, and the cap if one is given

ASSUME ScaleAssumption == GIB \in Nat /\ MIB \in Nat \ {0} /\ 2 * MIB <= GIB
ASSUME RequestsAssumption ==
  Requests \subseteq [ram_gib : Int, numa_nodes : Int, capped : BOOLEAN, max_per_node_gib : Int]

MMIO_HOLE_START == 3 * GIB
MMIO_HOLE_END == 4 * GIB

VARIABLES
  request,
  regions,    \* the banks placed so far
  start,      \* where the next node's bank begins
  taken,      \* what the MMIO hole has taken of the next node's share
  remaining,  \* RAM still to be placed
  node,       \* nodes dealt with
  pc          \* "check", "place", "placed" or "refused"

vars == <<request, regions, start, taken, remaining, node, pc>>

Region(s, length) == [start |-> s, length |-> length]
End(r) == r.start + r.length
Least(a, b) == IF a <= b THEN a ELSE b

\* The cap of a node, the whole RAM when none is given.
NodeCap == IF request.capped THEN request.max_per_node_gib ELSE request.ram_gib

Init ==
  /\ request \in Requests
  /\ regions = <<>>
  /\ start = 0 /\ taken = 0 /\ remaining = 0 /\ node = 0
  /\ pc = "check"

TooSmall ==
  /\ pc = "check"
  /\ request.ram_gib < 4
  /\ pc' = "refused"
  /\ UNCHANGED <<request, regions, start, taken, remaining, node>>

PlaceLowMemory ==
  /\ pc = "check"
  /\ request.ram_gib >= 4
  /\ regions' = <<Region(0, MMIO_HOLE_START), Region(MMIO_HOLE_END - 2 * MIB, 2 * MIB)>>
  /\ start' = MMIO_HOLE_END
  /\ taken' = MMIO_HOLE_START
  /\ remaining' = request.ram_gib * GIB - MMIO_HOLE_START
  /\ pc' = "place"
  /\ UNCHANGED <<request, node>>

\* The share of every node is reduced by the hole.
WrongShare == Least(NodeCap * GIB - MMIO_HOLE_START, remaining)
\* The hole takes nothing of the first node's share.
WrongShareOfHole == Least(NodeCap * GIB, remaining)
Share == Least(NodeCap * GIB - taken, remaining)

\* A node without a share moves the next one up all the same.
WrongNextStart == start + Share
NextStart == IF Share > 0 THEN start + Share ELSE start

PlaceNode ==
  /\ pc = "place"
  /\ node < request.numa_nodes
  /\ regions' = IF Share > 0 THEN Append(regions, Region(start, Share)) ELSE regions
  /\ start' = NextStart
  /\ remaining' = IF Share > 0 THEN remaining - Share ELSE remaining
  /\ taken' = 0
  /\ node' = node + 1
  /\ UNCHANGED <<request, pc>>

\* What is left over is forgotten.
WrongFits == TRUE
Fits == remaining <= 0

Finish ==
  /\ pc = "place"
  /\ node >= request.numa_nodes
  /\ pc' = IF Fits THEN "placed" ELSE "refused"
  /\ UNCHANGED <<request, regions, start, taken, remaining, node>>

Next == TooSmall \/ PlaceLowMemory \/ PlaceNode \/ Finish

Spec == Init /\ [][Next]_vars

-----------------------------------------------------------------------------
(* Properties.                                                             *)

\* The type invariant.
TypeOK ==
  /\ request \in [ram_gib : Int, numa_nodes : Int, capped : BOOLEAN, max_per_node_gib : Int]
  /\ regions \in Seq([start : Nat, length : Nat])
  /\ start \in Nat /\ taken \in Nat /\ remaining \in Int /\ node \in Nat
  /\ pc \in {"check", "place", "placed", "refused"}

\* The banks are not empty, and each ends before the next begins: what the
\* sweep of _unaccepted_mem_ranges needs of them, whatever the topology.
BanksSortedDisjoint ==
  \A i \in 1..Len(regions) :
    /\ regions[i].length > 0
    /\ \A j \in 1..(i - 1) : End(regions[j]) <= regions[i].start

\* A placed topology is the whole of the RAM asked for and nothing more: the
\* banks above 4 GiB follow each other and end where the RAM does.
AllRamPlaced ==
  pc = "placed" =>
    /\ \A i \in 3..Len(regions) :
         regions[i].start = IF i = 3 THEN MMIO_HOLE_END ELSE End(regions[i - 1])
    /\ Len(regions) >= 3
    /\ End(regions[Len(regions)]) = (request.ram_gib + 1) * GIB

\* Above the hole a node gets one bank at most, and only what its cap leaves it:
\* the first node what the 3 GiB below the hole leave, hence none if they fill
\* its cap.  What lies below the hole is placed whatever the cap is, so that this
\* does not keep the first node within a cap of less than 3 GiB.
CapsRespected ==
  pc = "placed" =>
    /\ \A i \in 3..Len(regions) : regions[i].length <= NodeCap * GIB
    /\ IF NodeCap * GIB > MMIO_HOLE_START
         THEN /\ Len(regions) - 2 <= request.numa_nodes
              /\ regions[3].length + MMIO_HOLE_START <= NodeCap * GIB
         ELSE Len(regions) - 2 <= request.numa_nodes - 1

\* A topology is refused only if the RAM cannot be placed: it is too small for
\* a TDX guest, there is no node, or the nodes cannot hold it.
RefusedOnlyIfItCannotFit ==
  pc = "refused" => \/ request.ram_gib < 4
                    \/ request.numa_nodes < 1
                    \/ request.numa_nodes * NodeCap < request.ram_gib

(* The inductive invariant: what has been placed and what is left always    *)
(* make up the RAM, and while some is left every node has filled its share. *)
Low == <<Region(0, MMIO_HOLE_START), Region(MMIO_HOLE_END - 2 * MIB, 2 * MIB)>>
Placing == pc \in {"place", "placed"} \/ (pc = "refused" /\ regions # <<>>)
NodeBanks == Len(regions) - 2

Accounted ==
  Placing =>
    /\ request.ram_gib >= 4
    /\ remaining >= 0
    /\ start + remaining = MMIO_HOLE_END + request.ram_gib * GIB - MMIO_HOLE_START
BanksFollow ==
  Placing =>
    /\ Len(regions) >= 2
    /\ regions[1] = Low[1] /\ regions[2] = Low[2]
    /\ \A i \in 3..Len(regions) :
         /\ regions[i].length > 0
         /\ regions[i].start = IF i = 3 THEN MMIO_HOLE_END ELSE End(regions[i - 1])
    /\ start = IF Len(regions) = 2 THEN MMIO_HOLE_END ELSE End(regions[Len(regions)])
BanksBelowStart == Placing => \A i \in 1..Len(regions) : End(regions[i]) <= start
SharesCapped ==
  Placing =>
    /\ NodeBanks <= node
    /\ node > 0 => node <= request.numa_nodes
    /\ node > 0 => taken = 0
    /\ node = 0 => taken = MMIO_HOLE_START
    /\ \A i \in 3..Len(regions) : regions[i].length <= NodeCap * GIB
    /\ node > 0 => IF NodeCap * GIB > MMIO_HOLE_START
                     THEN /\ NodeBanks >= 1
                          /\ regions[3].length + MMIO_HOLE_START <= NodeCap * GIB
                     ELSE NodeBanks <= node - 1
NodesFilled ==
  Placing /\ remaining > 0 =>
    request.ram_gib * GIB - remaining >= node * (NodeCap * GIB)
Settled ==
  /\ pc = "check" => regions = <<>> /\ node = 0
  /\ pc = "placed" => remaining = 0 /\ node >= request.numa_nodes
  /\ pc = "refused" =>
       \/ request.ram_gib < 4
       \/ Placing /\ remaining > 0 /\ node >= request.numa_nodes

IInv ==
  /\ TypeOK
  /\ Accounted
  /\ BanksFollow
  /\ BanksBelowStart
  /\ BanksSortedDisjoint
  /\ SharesCapped
  /\ NodesFilled
  /\ Settled

=============================================================================

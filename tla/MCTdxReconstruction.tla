------------------------ MODULE MCTdxReconstruction ------------------------
(* Machines that measure the standard order or depart from it in one place. *)
EXTENDS TdxReconstruction

MCFirmwares == {"fw1", "fw2", "broken"}
MCSoundFirmwares == {"fw1", "fw2"}
MCUkis == {"uki", "bare", "profiled"}
MCUkisWithKernel == {"uki", "profiled"}
MCPlainUkis == {"uki", "bare"}
MCDisks == {"disk1", "disk2"}

Swapped(s, i, j) == [s EXCEPT ![i] = s[j], ![j] = s[i]]
Rtmr0Layout(slots) == [rtmr0 |-> slots, rtmr1 |-> Standard.rtmr1]
S == Standard.rtmr0

\* Departures in the events a baseline keeps.
MCLayouts ==
  {Standard}
    \cup {Rtmr0Layout(slots) : slots \in
            {Swapped(S, 10, 11), Swapped(S, 11, 12), Swapped(S, 13, 14),
             RemoveAt(S, 1), RemoveAt(S, 6), RemoveAt(S, 9), RemoveAt(S, 16),
             InsertAt(S, 12, "ACPI4"), Append(S, "Boot0004"), Append(S, "Unknown"),
             InsertAt(S, 5, "PK"), InsertAt(S, 5, "Bankless")}}

ASSUME LayoutsToldApart == ToldApart(MCLayouts)

\* The fixed events in another order.
ReorderedLayouts == {Standard, Rtmr0Layout(Swapped(S, 4, 5)), Rtmr0Layout(Swapped(S, 1, 4))}
=============================================================================

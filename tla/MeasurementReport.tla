------------------------- MODULE MeasurementReport -------------------------
(***************************************************************************)
(* What a verifier is promised by the replay of an event log, with no log  *)
(* in sight.  A register starts at zero and only ever becomes the hash of  *)
(* its value and a digest, so its value is modelled as the sequence of the *)
(* digests it was extended with.  The tool either refuses, or reports the  *)
(* registers as they all were at one moment of the boot; a register it     *)
(* leaves out had not been extended at that moment.                        *)
(***************************************************************************)
EXTENDS Naturals, Sequences

CONSTANTS Registers, Digests

VARIABLES
  history,   \* the register file after each extend, starting with all zeros
  outcome    \* what the tool answered

vars == <<history, outcome>>

Zero == <<>>
Pending == [kind |-> "pending", values |-> <<>>]
Refused == [kind |-> "refused", values |-> <<>>]
Reported(values) == [kind |-> "reported", values |-> values]

Init ==
  /\ history = <<[r \in Registers |-> Zero]>>
  /\ outcome = Pending

Extend ==
  \E r \in Registers, d \in Digests :
    /\ history' = Append(history, [history[Len(history)] EXCEPT ![r] = Append(@, d)])
    /\ UNCHANGED outcome

\* values are the registers at moment k, those never extended optional.
Snapshot(values, k) ==
  /\ DOMAIN values \subseteq Registers
  /\ \A r \in Registers :
       IF r \in DOMAIN values THEN values[r] = history[k][r] ELSE history[k][r] = Zero

Refuse == outcome = Pending /\ outcome' = Refused /\ UNCHANGED history

Report ==
  /\ outcome = Pending
  /\ \E k \in 1..Len(history), extended \in SUBSET Registers :
       LET values == [r \in extended |-> history[k][r]] IN
         /\ Snapshot(values, k)
         /\ outcome' = Reported(values)
  /\ UNCHANGED history

Next == Extend \/ Refuse \/ Report

Spec == Init /\ [][Next]_vars

=============================================================================

------------------------------ MODULE AckedLog ------------------------------
(***************************************************************************)
(* What a log behind an acknowledgement promises (DurableLog): records get *)
(* consecutive offsets; an acknowledged record is in the log; a failure    *)
(* may take a tail of the log away, but never an acknowledged record, and  *)
(* so an acknowledged offset is never given to another record.             *)
(***************************************************************************)
EXTENDS Integers

VARIABLES length, acknowledged

Init == length = 0 /\ acknowledged = {}

Grow == length' = length + 1 /\ UNCHANGED acknowledged

\* One sync may answer several appends.
Acknowledge ==
  /\ \E S \in SUBSET (0 .. length - 1) : acknowledged' = acknowledged \cup S
  /\ UNCHANGED length

LoseTail ==
  /\ length' \in 0 .. length
  /\ acknowledged \subseteq 0 .. length' - 1
  /\ UNCHANGED acknowledged

Next == Grow \/ Acknowledge \/ LoseTail

Spec == Init /\ [][Next]_<<length, acknowledged>>
=============================================================================

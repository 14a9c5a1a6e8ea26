------------------------------ MODULE MCChecked -----------------------------
(* The checked processor on words of four bits and registers of two or     *)
(* four lanes: every pair of words, and every register that MaxSteps       *)
(* instructions make of a few loaded ones.  A behaviour stays in one unit: *)
(* no modelled instruction moves a value between the two.                  *)
EXTENDS CheckedCpuImpl, CheckedVectors

VARIABLE unit

MCRow(a, b, c, d) == [i \in 0..3 |-> CASE i = 0 -> a [] i = 1 -> b [] i = 2 -> c [] OTHER -> d]
MCPatterns == {MCRow(1, 15, 8, 2), MCRow(3, 8, 0, 7), MCRow(14, 5, 9, 1),
               MCRow(12, 10, 13, 0), MCRow(7, 4, 6, 11), MCRow(15, 8, 8, 15)}
MCOrders == {MCRow(0, 1, 2, 3), MCRow(3, 0, 1, 1), MCRow(2, 3, 3, 0)}

ASSUME MCFit == ConstantsFit

MCInit == Init /\ InitVectors /\ unit \in {"integer", "vector"}
MCInteger == unit = "integer" /\ Next /\ UNCHANGED <<unit, vectors>>
MCVector == unit = "vector" /\ NextVectors /\ UNCHANGED <<unit, vars>>
MCSpec == MCInit /\ [][MCInteger \/ MCVector]_<<vars, unit, vectors>>
=============================================================================

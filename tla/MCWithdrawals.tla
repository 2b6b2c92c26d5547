--------------------------- MODULE MCWithdrawals ---------------------------
(* Instances of Withdrawals for TLC. *)
EXTENDS Withdrawals, TLC

CONSTANTS w1, w2, w3, w4

TwoWithdrawals == {w1, w2}
ThreeWithdrawals == {w1, w2, w3}
FourWithdrawals == {w1, w2, w3, w4}

UnitAmounts == [w \in Work |-> 1]
OwnKeys == [w \in Work |-> w]
NoDefects == [w \in Work |-> "none"]

(* A request repeated under another withdrawal ID, and an unrelated one.   *)
RepeatedKey == [w \in Work |-> IF w = w3 THEN w3 ELSE w1]

(* A withdrawal quarantined before it is signed, at its first check or     *)
(* when it already holds a slot.                                           *)
BadAddress == [w \in Work |-> IF w = w4 THEN "address" ELSE "none"]
BadMessage == [w \in Work |-> IF w = w2 THEN "message" ELSE "none"]

Symmetry == Permutations(Work \ {w4})

(* Of the first two withdrawals under RepeatedKey, and of the drivers.     *)
RepeatedKeySymmetry == Permutations({w1, w2}) \cup Permutations(Drivers)
=============================================================================

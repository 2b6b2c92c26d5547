----------------------------- MODULE MCDeposits -----------------------------
(* Instances of Deposits for TLC. *)
EXTENDS Deposits

CONSTANTS d1, d2, d3

TwoDeposits == {d1, d2}
ThreeDeposits == {d1, d2, d3}

AllOk == [d \in Deposits |-> "ok"]
OneFailed == [d \in Deposits |-> IF d = d3 THEN "failed" ELSE "ok"]
OneReviewed == [d \in Deposits |-> IF d = d2 THEN "review" ELSE "ok"]

(* d1 is below one of the minimums.                                        *)
SmallAndLarge == [d \in Deposits |-> IF d = d1 THEN 1 ELSE 2]
=============================================================================

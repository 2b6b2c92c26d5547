----------------------------- MODULE MCSigning -----------------------------
(* An instance of Signing for TLC. *)
EXTENDS Signing, TLC

CONSTANTS k1, k2

(* k1 is the key of the hot wallet, k2 another one.                        *)
OneGoodKey == k1 :> "hot" @@ k2 :> "elsewhere"

OnePointThree == [num |-> 13, den |-> 10]
QuarterUnit == [num |-> 25, den |-> 100]

Symmetry == Permutations(Users)
=============================================================================

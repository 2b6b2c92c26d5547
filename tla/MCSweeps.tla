------------------------------ MODULE MCSweeps ------------------------------
(* Instance of Sweeps for TLC. *)
EXTENDS Sweeps, TLC

CONSTANTS s1, d1, d2

(* Every deposit goes to the one source.                                   *)
OneRecipient == [d \in Credits |-> s1]

CreditSymmetry == Permutations(Credits)
=============================================================================

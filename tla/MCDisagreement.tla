--------------------------- MODULE MCDisagreement ---------------------------
(* Three heights, of which the branches share the first and the second     *)
(* changes the watched account; the secondary starts two blocks behind.    *)
EXTENDS Disagreement

MCInitialTip == [n \in Nodes |-> IF n = Primary THEN 3 ELSE 1]
=============================================================================

--------------------------- MODULE SequenceRules ---------------------------
(***************************************************************************)
(* The two rules of the sequence manager (go/sequences/manager.go) that    *)
(* depend on no state of their own: which slot Reserve hands out, and what *)
(* the startup reconciliation makes of a reservation.  Withdrawals and     *)
(* sweeps reserve through the same manager.                                *)
(***************************************************************************)
EXTENDS Integers, FiniteSetsExt

(* Reserve: the first slot at or above the chain sequence that is above    *)
(* every open one.                                                         *)
FirstFreeSlot(open, seq) ==
    LET above == {s \in open : s >= seq}
    IN  IF above = {} THEN seq ELSE Max(above) + 1

(* Mutant: a broadcast transaction that is not found is written off.       *)
resolveWritesOff(status, hasSigned, lookup) ==
    IF lookup = "found" \/ (lookup = "notfound" /\ status = "BROADCAST") THEN "CONSUMED"
    ELSE IF lookup = "notfound" /\ status = "RESERVED" /\ ~hasSigned THEN "RELEASED"
    ELSE "RECONCILIATION_REQUIRED"

(* resolve: the status chain truth gives a listed reservation.  hasSigned: *)
(* workFacts found signed bytes (and the hash persisted with them);        *)
(* lookup: what reading the work item and searching the hash answered.     *)
resolve(status, hasSigned, lookup) ==
    CASE lookup = "unreadable"                           -> "RECONCILIATION_REQUIRED"
      [] lookup = "found"                                -> "CONSUMED"
      [] lookup = "error"                                -> "RECONCILIATION_REQUIRED"
      [] lookup = "notfound" /\ status = "RESERVED"      ->
             IF hasSigned THEN "RECONCILIATION_REQUIRED" ELSE "RELEASED"
      [] OTHER                                           -> "RECONCILIATION_REQUIRED"
=============================================================================

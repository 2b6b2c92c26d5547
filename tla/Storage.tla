------------------------------ MODULE Storage ------------------------------
(***************************************************************************)
(* The status vocabularies of the storage layer and the legal-transition   *)
(* tables every status write goes through (go/storage/transitions.go).     *)
(*                                                                         *)
(* A repository UpdateStatus(id, from, to) is a compare-and-set: it first  *)
(* checks that the table allows from -> to, then that the stored status    *)
(* is still `from`; otherwise it fails and writes nothing.  The tables are *)
(* therefore part of every guard of the modules that extend this one.      *)
(***************************************************************************)

(* Sequence reservation statuses.  "NONE": no row for this slot.           *)
SequenceStatuses ==
    {"RESERVED", "SIGNED", "BROADCAST", "CONSUMED", "RELEASED", "RECONCILIATION_REQUIRED"}

sequenceTransitions ==
    [RESERVED |-> {"SIGNED", "RELEASED", "RECONCILIATION_REQUIRED"},
     SIGNED |-> {"BROADCAST", "CONSUMED", "RECONCILIATION_REQUIRED"},
     BROADCAST |-> {"CONSUMED", "RECONCILIATION_REQUIRED"},
     RECONCILIATION_REQUIRED |-> {"CONSUMED", "RELEASED"},
     CONSUMED |-> {},
     RELEASED |-> {}]

(* Withdrawal statuses.  "NONE": the withdrawal was not submitted yet.     *)
PreSignedStatuses ==
    {"REQUESTED", "ADDRESS_VALIDATED", "COMPLIANCE_APPROVED", "FUNDS_RESERVED",
     "SEQUENCE_RESERVED", "TRANSACTION_BUILT", "TRANSACTION_SIMULATED"}

WithdrawalStatuses ==
    PreSignedStatuses \cup
    {"SIGNED", "BROADCAST", "INCLUDED", "CONFIRMED", "FAILED", "CANCELLED", "REVIEW_REQUIRED"}

withdrawalTransitions ==
    [REQUESTED |-> {"ADDRESS_VALIDATED", "CANCELLED", "REVIEW_REQUIRED"},
     ADDRESS_VALIDATED |-> {"COMPLIANCE_APPROVED", "CANCELLED", "REVIEW_REQUIRED"},
     COMPLIANCE_APPROVED |-> {"FUNDS_RESERVED", "CANCELLED", "REVIEW_REQUIRED"},
     FUNDS_RESERVED |-> {"SEQUENCE_RESERVED", "CANCELLED", "REVIEW_REQUIRED"},
     SEQUENCE_RESERVED |-> {"TRANSACTION_BUILT", "CANCELLED", "REVIEW_REQUIRED"},
     TRANSACTION_BUILT |-> {"TRANSACTION_SIMULATED", "CANCELLED", "REVIEW_REQUIRED"},
     TRANSACTION_SIMULATED |-> {"SIGNED", "CANCELLED", "REVIEW_REQUIRED"},
     SIGNED |-> {"BROADCAST", "REVIEW_REQUIRED"},
     BROADCAST |-> {"INCLUDED", "FAILED", "REVIEW_REQUIRED"},
     INCLUDED |-> {"CONFIRMED", "FAILED", "REVIEW_REQUIRED"},
     CONFIRMED |-> {"REVIEW_REQUIRED"},
     FAILED |-> {"REVIEW_REQUIRED"},
     CANCELLED |-> {"REVIEW_REQUIRED"},
     REVIEW_REQUIRED |-> {"BROADCAST", "INCLUDED", "CONFIRMED", "FAILED", "CANCELLED"}]

(* Deposit statuses.  "NONE": no record for this deposit key.              *)
DepositStatuses ==
    {"DISCOVERED", "VALIDATED", "AWAITING_CONFIRMATIONS", "CREDITABLE", "CREDITED",
     "SWEEP_PENDING", "SWEPT", "REJECTED", "REVIEW_REQUIRED", "ORPHANED", "DUPLICATE",
     "BELOW_MINIMUM", "SUSPENDED"}

depositTransitions ==
    [DISCOVERED |-> {"VALIDATED", "REJECTED", "REVIEW_REQUIRED", "ORPHANED", "SUSPENDED"},
     VALIDATED |-> {"AWAITING_CONFIRMATIONS", "REJECTED", "BELOW_MINIMUM", "REVIEW_REQUIRED",
                    "ORPHANED", "SUSPENDED"},
     AWAITING_CONFIRMATIONS |-> {"CREDITABLE", "REVIEW_REQUIRED", "ORPHANED", "SUSPENDED"},
     CREDITABLE |-> {"CREDITED", "REVIEW_REQUIRED", "ORPHANED", "SUSPENDED"},
     CREDITED |-> {"SWEEP_PENDING"},
     SWEEP_PENDING |-> {"SWEPT"},
     SWEPT |-> {},
     REJECTED |-> {},
     BELOW_MINIMUM |-> {"AWAITING_CONFIRMATIONS", "REVIEW_REQUIRED", "ORPHANED", "SUSPENDED"},
     REVIEW_REQUIRED |-> {"VALIDATED", "REJECTED"},
     ORPHANED |-> {"DISCOVERED"},
     DUPLICATE |-> {},
     SUSPENDED |-> {"DISCOVERED", "VALIDATED", "AWAITING_CONFIRMATIONS", "CREDITABLE",
                    "BELOW_MINIMUM"}]

(* Sweep job statuses.  "NONE": no job of this identity.                   *)
SweepStatuses ==
    {"PENDING", "BUILT", "SIGNED", "BROADCAST", "CONFIRMED", "DEFERRED", "FAILED", "CANCELLED"}

TerminalSweepStatuses == {"CONFIRMED", "FAILED", "CANCELLED"}

sweepTransitions ==
    [PENDING |-> {"BUILT", "DEFERRED", "CANCELLED"},
     BUILT |-> {"SIGNED", "CANCELLED"},
     DEFERRED |-> {"PENDING", "CANCELLED"},
     SIGNED |-> {"BROADCAST"},
     BROADCAST |-> {"CONFIRMED", "FAILED"},
     CONFIRMED |-> {},
     FAILED |-> {},
     CANCELLED |-> {}]

(* ValidateSequenceTransition, ValidateWithdrawalTransition,               *)
(* ValidateDepositTransition, ValidateSweepTransition                      *)
SequenceMoveLegal(from, to) ==
    from \in SequenceStatuses /\ to \in sequenceTransitions[from]

WithdrawalMoveLegal(from, to) ==
    from \in WithdrawalStatuses /\ to \in withdrawalTransitions[from]

DepositMoveLegal(from, to) ==
    from \in DepositStatuses /\ to \in depositTransitions[from]

SweepMoveLegal(from, to) ==
    from \in SweepStatuses /\ to \in sweepTransitions[from]
=============================================================================

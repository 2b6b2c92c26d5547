---------------------------- MODULE Withdrawals ----------------------------
(***************************************************************************)
(* The withdrawal state machine of one source account: the workflow        *)
(* (go/withdrawals/workflow.go), the broadcaster (broadcast.go), the       *)
(* adapter service that drives it (cmd/sovren-adapter/                     *)
(* withdrawals_service.go) and the operator's review resolution            *)
(* (review_resolution.go), composed with the sequence manager and the      *)
(* chain.                                                                  *)
(*                                                                         *)
(* Every workflow method reads the record, calls the chain or the signer   *)
(* without holding any lock, and ends in one storage transaction that      *)
(* compares and sets the status.  A method is split where something it     *)
(* read or caused outside the transaction can be overtaken: the balance,   *)
(* the account sequence, the reservation it signs for, the signature, the  *)
(* broadcast.  A method whose only effect is one compare-and-set on what   *)
(* it read is one action: when the status changed in between, the          *)
(* transaction conflicts and nothing happens.                              *)
(***************************************************************************)
EXTENDS SequenceManager

CONSTANTS KeyOf,            \* KeyOf[w]: the idempotency key w is submitted with
          MinWithdrawal,    \* minimum_withdrawal_usovr
          MaxFee,           \* max_fee_usovr
          Defect,           \* Defect[w]: what validation will reject about the request
          MaxCrashes,       \* bound: crashes of workers
          MaxItems,         \* bound: open review items of a withdrawal
          Pausable,         \* flows the operator pauses and resumes
          Outcomes,         \* review outcomes the operator uses
          CancelInReview    \* the exchange calls Cancel on REVIEW_REQUIRED records

ASSUME WithdrawalsAssumption ==
    /\ MinWithdrawal \in Nat
    /\ MaxFee \in Nat
    /\ Fee <= MaxFee
    /\ Defect \in [Work -> {"none", "address", "message"}]
    /\ MaxCrashes \in Nat
    /\ MaxItems \in Nat
    /\ Pausable \subseteq {"signing", "broadcast"}
    /\ Outcomes \subseteq {"CONFIRMED", "FAILED", "CANCELLED"}
    /\ CancelInReview \in BOOLEAN

VARIABLES wd,          \* wd[w]: status and bound sequence of the record
          openItems,   \* openItems[w]: unresolved review items that point at w
          signatures,  \* every signature the signer ever produced (history)
          paused,      \* operational controls: paused flows
          crashes

storeVars == <<rows, signedTx, wd, openItems>>
vars == <<chainVars, storeVars, job, signatures, paused, crashes>>

Records == [status : WithdrawalStatuses \cup {"NONE"}, seq : Slots \cup {NoSlot}]

Init ==
    /\ ChainInit
    /\ ReservationsInit
    /\ job = [p \in Workers |-> Idle]
    /\ wd = [w \in Work |-> [status |-> "NONE", seq |-> NoSlot]]
    /\ openItems = [w \in Work |-> 0]
    /\ signatures = {}
    /\ paused = {}
    /\ crashes = 0

(* The signed bytes of w, as the chain sees them.                          *)
TxOf(w) == [w |-> w, seq |-> signedTx[w]]

(* Repository UpdateStatus on a record: the compare-and-set.               *)
StatusIs(w, from, to) == wd[w].status = from /\ WithdrawalMoveLegal(from, to)

Moved(w, to) == [wd EXCEPT ![w].status = to]

Done(p) == job' = [job EXCEPT ![p] = Idle]

Goto(p, pc) == job' = [job EXCEPT ![p].pc = pc]

(* A transaction that fails or a method that returns early.                *)
NoWrite == UNCHANGED storeVars

(* quarantine: flip to REVIEW_REQUIRED and open a review item, or conflict *)
Quarantine(w, from) ==
    \/ /\ StatusIs(w, from, "REVIEW_REQUIRED")
       /\ wd' = Moved(w, "REVIEW_REQUIRED")
       /\ openItems' = [openItems EXCEPT ![w] = @ + 1]
       /\ UNCHANGED <<rows, signedTx>>
    \/ ~StatusIs(w, from, "REVIEW_REQUIRED") /\ NoWrite

(* UpdateStatus without further effects, or conflict                       *)
Advance(w, from, to) ==
    \/ StatusIs(w, from, to) /\ wd' = Moved(w, to) /\ UNCHANGED <<rows, signedTx, openItems>>
    \/ ~StatusIs(w, from, to) /\ NoWrite
-----------------------------------------------------------------------------
(* The exchange's calls *)

(* Mutant: only a repeated withdrawal ID is a duplicate.                   *)
SubmitByID(w) ==
    /\ wd[w].status = "NONE"
    /\ wd' = [wd EXCEPT ![w] = [status |-> "REQUESTED", seq |-> NoSlot]]
    /\ UNCHANGED <<rows, signedTx, openItems, job, chainVars, signatures, paused, crashes>>

(* Submit: a duplicate idempotency key (or ID) leaves the original record. *)
Submit(w) ==
    /\ \A v \in Work : KeyOf[v] = KeyOf[w] => wd[v].status = "NONE"
    /\ wd' = [wd EXCEPT ![w] = [status |-> "REQUESTED", seq |-> NoSlot]]
    /\ UNCHANGED <<rows, signedTx, openItems, job, chainVars, signatures, paused, crashes>>

ApproveCompliance(w) ==
    /\ StatusIs(w, "ADDRESS_VALIDATED", "COMPLIANCE_APPROVED")
    /\ wd' = Moved(w, "COMPLIANCE_APPROVED")
    /\ UNCHANGED <<rows, signedTx, openItems, job, chainVars, signatures, paused, crashes>>

(* Cancel: from whatever status the record has, if the table allows it; a  *)
(* RESERVED reservation is released in the same transaction.               *)
Cancel(w) ==
    /\ WithdrawalMoveLegal(wd[w].status, "CANCELLED")
    /\ wd[w].status = "REVIEW_REQUIRED" => CancelInReview
    /\ wd' = Moved(w, "CANCELLED")
    /\ rows' = IF HasRow(w) THEN MoveRowIf(SlotOf(w), "RESERVED", "RELEASED") ELSE rows
    /\ UNCHANGED <<signedTx, openItems, job, chainVars, signatures, paused, crashes>>
-----------------------------------------------------------------------------
(* The driver *)

(* driveWithdrawals lists the records of one status and calls that         *)
(* status's step for each; the record may have moved on by the time of the *)
(* call.  Recover is called by the exchange, not by the driver.            *)
StepOf(status) ==
    CASE status = "REQUESTED"             -> "validate"
      [] status = "COMPLIANCE_APPROVED"   -> "funds"
      [] status = "FUNDS_RESERVED"        -> "sequence"
      [] status = "SEQUENCE_RESERVED"     -> "build"
      [] status = "TRANSACTION_BUILT"     -> "simulate"
      [] status = "TRANSACTION_SIMULATED" -> "sign"
      [] status = "SIGNED"                -> "broadcast"
      [] status = "BROADCAST"             -> "confirm"
      [] status = "INCLUDED"              -> "confirm"
      [] OTHER                            -> "none"

List(p, w) ==
    /\ job[p].pc = "idle"
    /\ IF p \in Drivers
       THEN StepOf(wd[w].status) # "none"
       ELSE wd[w].status = "REVIEW_REQUIRED" /\ openItems[w] < MaxItems
    /\ job' = [job EXCEPT ![p] = [Idle EXCEPT
                  !.w = w,
                  !.pc = IF p \in Drivers THEN StepOf(wd[w].status) ELSE "recover"]]
    /\ NoWrite
    /\ UNCHANGED <<chainVars, signatures>>

(* ValidateAddress: a rejected address quarantines from whatever status    *)
(* was read, an accepted one moves REQUESTED on.                           *)
ValidateAddress(p) ==
    LET w == job[p].w IN
    /\ job[p].pc = "validate"
    /\ IF Defect[w] = "address" THEN Quarantine(w, wd[w].status)
                               ELSE Advance(w, "REQUESTED", "ADDRESS_VALIDATED")
    /\ Done(p)
    /\ UNCHANGED <<chainVars, signatures>>

(* preSignReservationStatus: nothing signed could redeem the reservation.  *)
PreSignReservation(w) == HasRow(w) => rows[SlotOf(w)].status \in {"RESERVED", "RELEASED"}


(* The records SumCommittedBySource counts.                                *)
Committed(w) ==
    \/ wd[w].status \in {"FUNDS_RESERVED", "SEQUENCE_RESERVED", "TRANSACTION_BUILT",
                         "TRANSACTION_SIMULATED", "SIGNED", "BROADCAST"}
    \/ /\ wd[w].status = "REVIEW_REQUIRED"
       /\ ~(signedTx[w] = NoSlot /\ PreSignReservation(w))

SumCommittedBySource ==
    MapThenSumSet(LAMBDA w : Amount[w] + MaxFee, {w \in Work : Committed(w)})

(* ReserveFunds: the checks and the balance query, outside the lock ...    *)
ReserveFundsRead(p) ==
    LET w == job[p].w IN
    /\ job[p].pc = "funds"
    /\ \/ /\ wd[w].status = "COMPLIANCE_APPROVED"
          /\ Amount[w] >= MinWithdrawal
          /\ job' = [job EXCEPT ![p] = [@ EXCEPT !.pc = "fundsCommit", !.n = balance]]
       \/ Done(p)
    /\ NoWrite
    /\ UNCHANGED <<chainVars, signatures>>


(* ... and the committed sum, the check and the status flip under it.      *)
ReserveFundsCommit(p) ==
    LET w == job[p].w IN
    /\ job[p].pc = "fundsCommit"
    /\ IF job[p].n < SumCommittedBySource + Amount[w] + MaxFee
       THEN NoWrite
       ELSE Advance(w, "COMPLIANCE_APPROVED", "FUNDS_RESERVED")
    /\ Done(p)
    /\ UNCHANGED <<chainVars, signatures>>

(* ReserveSequence reads the record (its status is not checked here), has  *)
(* the sequence manager reserve a slot, and binds it to the record.        *)
ReserveSequence(p) ==
    /\ job[p].pc = "sequence"
    /\ job' = [job EXCEPT ![p] = [@ EXCEPT !.pc = "seqLookup", !.seen = wd[job[p].w].status]]
    /\ NoWrite
    /\ UNCHANGED <<chainVars, signatures>>

ManagerReserve(p) ==
    /\ ReserveLookup(p) \/ ReserveAccount(p) \/ ReserveInsert(p)
    /\ UNCHANGED <<wd, openItems, chainVars, signatures>>

(* ErrReleasedSlotUnusable quarantines from the status that was read.      *)
ReserveSequenceUnusable(p) ==
    /\ job[p].pc = "seqUnusable"
    /\ Quarantine(job[p].w, job[p].seen)
    /\ Done(p)
    /\ UNCHANGED <<chainVars, signatures>>

ReserveSequenceBind(p) ==
    LET w == job[p].w IN
    /\ job[p].pc = "seqBind"
    /\ \/ /\ StatusIs(w, "FUNDS_RESERVED", "SEQUENCE_RESERVED")
          /\ wd' = [wd EXCEPT ![w] = [status |-> "SEQUENCE_RESERVED", seq |-> job[p].slot]]
          /\ UNCHANGED <<rows, signedTx, openItems>>
       \/ ~StatusIs(w, "FUNDS_RESERVED", "SEQUENCE_RESERVED") /\ NoWrite
    /\ Done(p)
    /\ UNCHANGED <<chainVars, signatures>>

(* Build: the message is built, or rejected and quarantined from whatever  *)
(* status was read.                                                        *)
Build(p) ==
    LET w == job[p].w IN
    /\ job[p].pc = "build"
    /\ IF Defect[w] = "message" THEN Quarantine(w, wd[w].status)
                               ELSE Advance(w, "SEQUENCE_RESERVED", "TRANSACTION_BUILT")
    /\ Done(p)
    /\ UNCHANGED <<chainVars, signatures>>

(* Simulate: held (signer or simulation unavailable, node error), a gas    *)
(* limit and fee within max_fee_usovr, or quarantined                      *)
Simulate(p) ==
    LET w == job[p].w IN
    /\ job[p].pc = "simulate"
    /\ \/ NoWrite
       \/ Advance(w, "TRANSACTION_BUILT", "TRANSACTION_SIMULATED")
       \/ Quarantine(w, "TRANSACTION_BUILT")
    /\ Done(p)
    /\ UNCHANGED <<chainVars, signatures>>


(* Sign, up to the signer call: the status, the signing pause, and the     *)
(* bound reservation, which must be RESERVED and match the record.         *)
SignCheck(p) ==
    LET w == job[p].w IN
    /\ job[p].pc = "sign"
    /\ \/ /\ \/ wd[w].status # "TRANSACTION_SIMULATED"
             \/ "signing" \in paused
             \/ ~HasRow(w)
          /\ Done(p) /\ NoWrite
       \/ /\ wd[w].status = "TRANSACTION_SIMULATED" /\ "signing" \notin paused /\ HasRow(w)
          /\ IF rows[SlotOf(w)].status = "RESERVED" /\ SlotOf(w) = wd[w].seq
             THEN job' = [job EXCEPT ![p] = [@ EXCEPT !.pc = "signCall", !.slot = SlotOf(w)]]
                  /\ NoWrite
             ELSE Done(p) /\ Quarantine(w, "TRANSACTION_SIMULATED")
    /\ UNCHANGED <<chainVars, signatures>>

(* The signer: unavailable (a timeout may hide a signature that was made), *)
(* refusing, or answering with a signature that verifies or does not.      *)
SignCall(p) ==
    LET w == job[p].w
        sig == [w |-> w, seq |-> job[p].slot]
    IN
    /\ job[p].pc = "signCall"
    /\ \/ Done(p) /\ NoWrite /\ signatures' \in {signatures, signatures \cup {sig}}
       \/ Done(p) /\ Quarantine(w, "TRANSACTION_SIMULATED") /\ UNCHANGED signatures
       \/ \E next \in {"signPersist", "signReject"} :
            Goto(p, next) /\ NoWrite /\ signatures' = signatures \cup {sig}
    /\ UNCHANGED chainVars

(* Mutant: the reservation is left to a later transaction.                 *)
SignPersistRecordOnly(p) ==
    LET w == job[p].w IN
    /\ job[p].pc = "signPersist"
    /\ \/ /\ StatusIs(w, "TRANSACTION_SIMULATED", "SIGNED")
          /\ wd' = Moved(w, "SIGNED")
          /\ signedTx' = [signedTx EXCEPT ![w] = job[p].slot]
          /\ UNCHANGED <<rows, openItems>>
       \/ ~StatusIs(w, "TRANSACTION_SIMULATED", "SIGNED") /\ NoWrite
    /\ Done(p)
    /\ UNCHANGED <<chainVars, signatures>>

(* The signed bytes, the status and the reservation, in one transaction    *)
SignPersist(p) ==
    LET w == job[p].w
        s == job[p].slot
    IN
    /\ job[p].pc = "signPersist"
    /\ \/ /\ StatusIs(w, "TRANSACTION_SIMULATED", "SIGNED") /\ RowIs(s, "RESERVED", "SIGNED")
          /\ wd' = Moved(w, "SIGNED")
          /\ signedTx' = [signedTx EXCEPT ![w] = s]
          /\ rows' = MoveRow(s, "SIGNED")
          /\ UNCHANGED openItems
       \/ /\ ~(StatusIs(w, "TRANSACTION_SIMULATED", "SIGNED") /\ RowIs(s, "RESERVED", "SIGNED"))
          /\ NoWrite
    /\ Done(p)
    /\ UNCHANGED <<chainVars, signatures>>

(* quarantinePostSignature: a signature exists that did not verify         *)
SignReject(p) ==
    LET w == job[p].w
        s == job[p].slot
        ok == /\ StatusIs(w, "TRANSACTION_SIMULATED", "REVIEW_REQUIRED")
              /\ RowIs(s, "RESERVED", "RECONCILIATION_REQUIRED")
    IN
    /\ job[p].pc = "signReject"
    /\ \/ /\ ok
          /\ wd' = Moved(w, "REVIEW_REQUIRED")
          /\ rows' = MoveRow(s, "RECONCILIATION_REQUIRED")
          /\ openItems' = [openItems EXCEPT ![w] = @ + 1]
          /\ UNCHANGED signedTx
       \/ ~ok /\ NoWrite
    /\ Done(p)
    /\ UNCHANGED <<chainVars, signatures>>
-----------------------------------------------------------------------------
(* The broadcaster *)

(* Mutant: no review item is opened.                                       *)
QuarantineSignedSilently(w, from, rowFrom) ==
    \/ /\ StatusIs(w, from, "REVIEW_REQUIRED") /\ HasRow(w)
       /\ wd' = Moved(w, "REVIEW_REQUIRED")
       /\ rows' = MoveRowIf(SlotOf(w), rowFrom, "RECONCILIATION_REQUIRED")
       /\ UNCHANGED <<signedTx, openItems>>
    \/ ~(StatusIs(w, from, "REVIEW_REQUIRED") /\ HasRow(w)) /\ NoWrite

(* quarantineReservation within a transaction that flips w to review       *)
QuarantineSigned(w, from, rowFrom) ==
    \/ /\ StatusIs(w, from, "REVIEW_REQUIRED") /\ HasRow(w)
       /\ wd' = Moved(w, "REVIEW_REQUIRED")
       /\ openItems' = [openItems EXCEPT ![w] = @ + 1]
       /\ rows' = MoveRowIf(SlotOf(w), rowFrom, "RECONCILIATION_REQUIRED")
       /\ UNCHANGED signedTx
    \/ ~(StatusIs(w, from, "REVIEW_REQUIRED") /\ HasRow(w)) /\ NoWrite

(* The SIGNED -> BROADCAST transaction with advanceReservation             *)
MarkBroadcast(w) ==
    \/ /\ StatusIs(w, "SIGNED", "BROADCAST") /\ HasRow(w)
       /\ wd' = Moved(w, "BROADCAST")
       /\ rows' = MoveRowIf(SlotOf(w), "SIGNED", "BROADCAST")
       /\ UNCHANGED <<signedTx, openItems>>
    \/ ~(StatusIs(w, "SIGNED", "BROADCAST") /\ HasRow(w)) /\ NoWrite

(* Broadcast, up to the wire: the status and the broadcast pause           *)
BroadcastCheck(p) ==
    LET w == job[p].w IN
    /\ job[p].pc = "broadcast"
    /\ IF wd[w].status = "SIGNED" /\ "broadcast" \notin paused
       THEN Goto(p, "broadcastCall")
       ELSE Done(p)
    /\ NoWrite
    /\ UNCHANGED <<chainVars, signatures>>

BroadcastCall(p) ==
    /\ job[p].pc = "broadcastCall"
    /\ \E answer \in {"accepted", "rejected", "error"} :
         /\ BroadcastAnswer(TxOf(job[p].w), answer)
         /\ job' = [job EXCEPT ![p] = [@ EXCEPT !.pc = "broadcastCommit", !.seen = answer]]
    /\ NoWrite
    /\ UNCHANGED <<chainSeq, balance, paid, reverted, outside, signatures>>

(* Acceptance; CheckTx rejection; or, after a transport error, the search  *)
(* by hash that finds the transaction or does not.                         *)
BroadcastCommit(p) ==
    LET w == job[p].w IN
    /\ job[p].pc = "broadcastCommit"
    /\ \/ job[p].seen = "accepted" /\ MarkBroadcast(w)
       \/ job[p].seen = "rejected" /\ QuarantineSigned(w, "SIGNED", "SIGNED")
       \/ job[p].seen = "error" /\ Included(TxOf(w)) /\ MarkBroadcast(w)
       \/ job[p].seen = "error" /\ QuarantineSigned(w, "SIGNED", "SIGNED")
    /\ Done(p)
    /\ UNCHANGED <<chainVars, signatures>>

(* consumeReservation: legal from any status a signed slot can have        *)
Consumable(w) ==
    /\ HasRow(w)
    /\ rows[SlotOf(w)].status \in {"CONSUMED", "SIGNED", "BROADCAST", "RECONCILIATION_REQUIRED"}

(* Mutant: a transaction that is not found is waited for without timeout.  *)
ConfirmBroadcastPatiently(p) ==
    LET w == job[p].w IN
    /\ job[p].pc = "confirm"
    /\ wd[w].status = "BROADCAST"
    /\ \/ Done(p) /\ NoWrite
       \/ /\ Included(TxOf(w)) /\ Consumable(w)
          /\ wd' = Moved(w, "INCLUDED")
          /\ rows' = MoveRow(SlotOf(w), "CONSUMED")
          /\ Goto(p, "confirmDepth")
          /\ UNCHANGED <<signedTx, openItems>>
    /\ UNCHANGED <<chainVars, signatures>>

(* Confirm on a BROADCAST record: not found yet, or not found after the    *)
(* broadcast timeout, or found: INCLUDED and the reservation CONSUMED.     *)
ConfirmBroadcast(p) ==
    LET w == job[p].w IN
    /\ job[p].pc = "confirm"
    /\ wd[w].status = "BROADCAST"
    /\ \/ Done(p) /\ NoWrite
       \/ Done(p) /\ QuarantineSigned(w, "BROADCAST", "BROADCAST")
       \/ /\ Included(TxOf(w)) /\ Consumable(w)
          /\ wd' = Moved(w, "INCLUDED")
          /\ rows' = MoveRow(SlotOf(w), "CONSUMED")
          /\ Goto(p, "confirmDepth")
          /\ UNCHANGED <<signedTx, openItems>>
    /\ UNCHANGED <<chainVars, signatures>>

(* Confirm on an INCLUDED record: the transaction is not found any more,   *)
(* or it is found and Confirm goes on to the execution result.             *)
ConfirmIncluded(p) ==
    LET w == job[p].w IN
    /\ job[p].pc = "confirm"
    /\ wd[w].status # "BROADCAST"
    /\ \/ Done(p) /\ NoWrite
       \/ wd[w].status = "INCLUDED" /\ Done(p) /\ Quarantine(w, "INCLUDED")
       \/ wd[w].status = "INCLUDED" /\ Included(TxOf(w)) /\ Goto(p, "confirmDepth") /\ NoWrite
    /\ UNCHANGED <<chainVars, signatures>>


(* Execution failed; or succeeded at the required depth or below it        *)
ConfirmDepth(p) ==
    LET w == job[p].w IN
    /\ job[p].pc = "confirmDepth"
    /\ \/ TxOf(w) \in reverted /\ Advance(w, "INCLUDED", "FAILED")
       \/ TxOf(w) \in paid /\ (Advance(w, "INCLUDED", "CONFIRMED") \/ NoWrite)
    /\ Done(p)
    /\ UNCHANGED <<chainVars, signatures>>

(* Recover: a quarantined record with persisted bytes                      *)
Recover(p) ==
    LET w == job[p].w IN
    /\ job[p].pc = "recover"
    /\ \/ /\ wd[w].status = "REVIEW_REQUIRED" /\ signedTx[w] # NoSlot
          /\ \E result \in {"included", "accepted", "rejected", "error"} :
               /\ RebroadcastPersisted(TxOf(w), result)
               /\ IF result \in {"included", "accepted"} THEN Goto(p, "recoverCommit") ELSE Done(p)
       \/ /\ ~(wd[w].status = "REVIEW_REQUIRED" /\ signedTx[w] # NoSlot)
          /\ Done(p) /\ UNCHANGED mempool
    /\ NoWrite
    /\ UNCHANGED <<chainSeq, balance, paid, reverted, outside, signatures>>

RecoverCommit(p) ==
    /\ job[p].pc = "recoverCommit"
    /\ Advance(job[p].w, "REVIEW_REQUIRED", "BROADCAST")
    /\ Done(p)
    /\ UNCHANGED <<chainVars, signatures>>
-----------------------------------------------------------------------------
(* The operator *)

(* The determination behind an outcome, which review_resolution.go leaves  *)
(* to the operator: CONFIRMED when the transaction is on chain and paid,   *)
(* FAILED when the slot is spent and the withdrawal was not paid.          *)
OperatorVerified(w, outcome) ==
    CASE outcome = "CONFIRMED" -> TxOf(w) \in paid
      [] outcome = "FAILED"    -> /\ \A t \in paid : t.w # w
                                  /\ signedTx[w] < chainSeq
                                  /\ \A s \in SlotsOf(w) : s < chainSeq
      [] OTHER                 -> TRUE

(* Mutant: a slot counts as unsigned when no signed bytes are persisted.   *)
ResolveReviewByBytes(w) ==
    /\ wd[w].status = "REVIEW_REQUIRED"
    /\ openItems[w] > 0
    /\ \E outcome \in Outcomes :
         /\ (outcome = "CANCELLED") <=> (signedTx[w] = NoSlot)
         /\ wd' = Moved(w, outcome)
         /\ rows' = IF HasRow(w)
                    THEN MoveRow(SlotOf(w), IF outcome = "CANCELLED" THEN "RELEASED"
                                                                   ELSE "CONSUMED")
                    ELSE rows
    /\ openItems' = [openItems EXCEPT ![w] = @ - 1]
    /\ UNCHANGED <<signedTx, job, chainVars, signatures, paused, crashes>>

(* Mutant: a resolved item can be resolved again.                          *)
ResolveReviewAgain(w) ==
    /\ wd[w].status \in {"REVIEW_REQUIRED", "CANCELLED"}
    /\ signedTx[w] = NoSlot /\ ~HasRow(w)
    /\ wd' = Moved(w, "CANCELLED")
    /\ openItems' = [openItems EXCEPT ![w] = @ - 1]
    /\ UNCHANGED <<rows, signedTx, job, chainVars, signatures, paused, crashes>>

(* resolveReviewItem on a withdrawal: the terminal status, the reservation *)
(* (CONSUMED when something may be signed, else RELEASED) and the review   *)
(* item, in one transaction.                                               *)
ResolveReview(w) ==
    LET preSign == signedTx[w] = NoSlot /\ PreSignReservation(w)
        seqTo(outcome) == IF outcome = "CANCELLED" THEN "RELEASED" ELSE "CONSUMED"
    IN
    /\ wd[w].status = "REVIEW_REQUIRED"
    /\ openItems[w] > 0
    /\ \E outcome \in Outcomes :
         /\ OperatorVerified(w, outcome)
         /\ (outcome = "CANCELLED") <=> preSign
         /\ HasRow(w) => \/ rows[SlotOf(w)].status = seqTo(outcome)
                         \/ SequenceMoveLegal(rows[SlotOf(w)].status, seqTo(outcome))
         /\ wd' = Moved(w, outcome)
         /\ rows' = IF HasRow(w) THEN MoveRow(SlotOf(w), seqTo(outcome)) ELSE rows
    /\ openItems' = [openItems EXCEPT ![w] = @ - 1]
    /\ UNCHANGED <<signedTx, job, chainVars, signatures, paused, crashes>>

(* POST /v1/controls/pause and /resume                                     *)
Pause(flow) ==
    /\ paused' = IF flow \in paused THEN paused \ {flow} ELSE paused \cup {flow}
    /\ UNCHANGED <<storeVars, job, chainVars, signatures, crashes>>
-----------------------------------------------------------------------------
(* A crash loses the worker's locals; a driver has to reconcile before it  *)
(* drives withdrawals again.                                               *)
Crash(p) ==
    /\ crashes < MaxCrashes
    /\ job[p].pc # "down"
    /\ crashes' = crashes + 1
    /\ job' = [job EXCEPT ![p] = IF p \in Drivers THEN Down ELSE Idle]
    /\ UNCHANGED <<storeVars, chainVars, signatures, paused>>

Reconcile(p) ==
    /\ ReconcileList(p) \/ ReconcileRow(p) \/ ReconcileDone(p)
    /\ UNCHANGED <<wd, openItems, chainVars, signatures>>

WorkflowStep(p) ==
    \/ \E w \in Work : List(p, w)
    \/ ValidateAddress(p)
    \/ ReserveFundsRead(p) \/ ReserveFundsCommit(p)
    \/ ReserveSequence(p) \/ ManagerReserve(p)
    \/ ReserveSequenceUnusable(p) \/ ReserveSequenceBind(p)
    \/ Build(p) \/ Simulate(p)
    \/ SignCheck(p) \/ SignCall(p) \/ SignPersist(p) \/ SignReject(p)
    \/ BroadcastCheck(p) \/ BroadcastCall(p) \/ BroadcastCommit(p)
    \/ ConfirmBroadcast(p) \/ ConfirmIncluded(p) \/ ConfirmDepth(p)
    \/ Recover(p) \/ RecoverCommit(p)
    \/ Reconcile(p)

ExchangeStep(w) == Submit(w) \/ ApproveCompliance(w) \/ Cancel(w)

ChainStep == ChainNext /\ UNCHANGED <<storeVars, job, signatures, paused, crashes>>

Next ==
    \/ \E p \in Workers : WorkflowStep(p) /\ UNCHANGED <<paused, crashes>>
    \/ \E p \in Workers : Crash(p)
    \/ \E w \in Work : ExchangeStep(w) \/ ResolveReview(w)
    \/ \E flow \in Pausable : Pause(flow)
    \/ ChainStep

Spec == Init /\ [][Next]_vars

Step(A) == A /\ UNCHANGED <<paused, crashes>>

(* The ticker of the withdrawals service never stops: every step a driver  *)
(* is in ends, and each pass reaches every record of every status.  The    *)
(* node's answers about a transaction do not stay undecided: BroadcastTimeout *)
(* elapses, and the chain grows to the confirmation depth.                 *)
Fairness ==
    \A p \in Drivers :
        /\ WF_vars(Step(WorkflowStep(p)))
        /\ \A w \in Work :
             /\ SF_vars(Step(List(p, w)))
             /\ SF_vars(Step((ConfirmBroadcast(p) \/ ConfirmIncluded(p)) /\ job[p].w = w
                            /\ (wd' # wd \/ job'[p].pc = "confirmDepth")))
             /\ SF_vars(Step(ConfirmDepth(p) /\ job[p].w = w /\ wd' # wd))

FairSpec == Spec /\ Fairness
-----------------------------------------------------------------------------
(* Properties *)

PCs == {"idle", "down", "reconcile", "validate", "funds", "fundsCommit", "sequence",
        "seqLookup", "seqAccount", "seqInsert", "seqUnusable", "seqBind", "build",
        "simulate", "sign", "signCall", "signPersist", "signReject", "broadcast",
        "broadcastCall", "broadcastCommit", "confirm", "confirmDepth", "recover",
        "recoverCommit"}

Jobs == [pc : PCs, w : Work \cup {NoWork}, slot : Slots \cup {NoSlot},
         seen : WithdrawalStatuses \cup {"", "NONE", "accepted", "rejected", "error"},
         n : Nat, todo : SUBSET TodoItems]

(* Every variable has its type: the columns of the tables in               *)
(* storage/repo.go, the chain's answers and the workers' locals.           *)
TypeOK ==
    /\ ChainTypeOK
    /\ rows \in [Slots -> Rows]
    /\ signedTx \in [Work -> Slots \cup {NoSlot}]
    /\ job \in [Workers -> Jobs]
    /\ wd \in [Work -> Records]
    /\ openItems \in [Work -> Nat]
    /\ signatures \subseteq Txs
    /\ paused \subseteq {"signing", "broadcast"}
    /\ crashes \in Nat

(* Submit: "a second signed or broadcast transaction for the same key is   *)
(* impossible from this layer down".  All signatures ever produced for one *)
(* idempotency key, lost ones and retried ones included, are for one       *)
(* withdrawal and one sequence.                                            *)
OneSignedTxPerKey ==
    \A s, t \in signatures : KeyOf[s.w] = KeyOf[t.w] => s = t

(* The manager never lets two withdrawals hold signed bytes for the same   *)
(* account sequence, of which only one could ever be included.             *)
NoSharedSequence ==
    \A v, w \in Work : v # w /\ signedTx[v] # NoSlot => signedTx[v] # signedTx[w]

(* Persisted signed bytes keep the reservation of their sequence: it stays *)
(* bound to the withdrawal and never returns to a re-issuable status.      *)
SignedOwnsSlot ==
    \A w \in Work : signedTx[w] # NoSlot =>
        /\ rows[signedTx[w]].owner = w
        /\ rows[signedTx[w]].status \in
              {"SIGNED", "BROADCAST", "RECONCILIATION_REQUIRED", "CONSUMED"}



(* Every quarantined withdrawal has an open review item: the operator can  *)
(* see it and resolve it.                                                  *)
ReviewHasItem ==
    \A w \in Work : wd[w].status = "REVIEW_REQUIRED" => openItems[w] > 0

(* A reservation is marked CONSUMED only when the account sequence has     *)
(* really passed it, so a slot that is still usable is never written off.  *)
ConsumedIsSpent ==
    \A s \in Slots : rows[s].status = "CONSUMED" => s < chainSeq


(* A slot that may have a signature is never released or re-issued, on any *)
(* path of the workflow, the reconciliation or the review resolution.      *)
NeverReissued ==
    [][\A s \in Slots :
          rows[s].status \in {"SIGNED", "BROADCAST", "RECONCILIATION_REQUIRED", "CONSUMED"}
          => rows'[s].owner = rows[s].owner /\ rows'[s].status \notin {"RESERVED", "RELEASED"}]_vars

(* Signed bytes are never left lying: whatever the node answers, and if    *)
(* the driver restarts, the withdrawal reaches an outcome or the review    *)
(* queue again and again (a Recover puts it back into BROADCAST).          *)
SignedSettles ==
    \A w \in Work :
        signedTx[w] # NoSlot ~> wd[w].status \in {"CONFIRMED", "FAILED", "REVIEW_REQUIRED"}

(* What the record under a key tells the exchange                          *)
Told(k) ==
    LET ws == {w \in Work : KeyOf[w] = k /\ wd[w].status # "NONE"}
        w == CHOOSE w \in ws : TRUE
    IN  IF ws = {} THEN "none"
        ELSE IF wd[w].status \in {"CONFIRMED", "FAILED", "CANCELLED"} THEN wd[w].status
        ELSE IF wd[w].status = "REVIEW_REQUIRED" /\ signedTx[w] = NoSlot THEN "review"
        ELSE "open"

IdempotencyKeys == {KeyOf[w] : w \in Work}

Requests == INSTANCE Payout WITH
    Keys     <- IdempotencyKeys,
    told     <- [k \in IdempotencyKeys |-> Told(k)],
    payments <- [k \in IdempotencyKeys |-> Cardinality({t \in paid : KeyOf[t.w] = k})]


Calling(pc) == {p \in Workers : job[p].pc = pc}

=============================================================================

------------------------- MODULE WithdrawalsProofs -------------------------
(***************************************************************************)
(* Proofs about Withdrawals for every number of withdrawals, workers,      *)
(* slots, crashes and outside transactions.                                *)
(*                                                                         *)
(* 1. What any step may do to the stored state (StoreStep): records and    *)
(*    rows move along the tables, a signed slot keeps its owner, bytes are *)
(*    persisted only for a slot that was RESERVED.  One lemma per group of *)
(*    actions, combined in NextStore.                                      *)
(* 2. What the locals of a worker say about the stored state (JobsGood),   *)
(*    and that no step of any worker invalidates it: NextJobs.             *)
(* 3. The chain, the signatures and the controls.                          *)
(* 4. The inductive invariant IInv and the theorems.                       *)
(***************************************************************************)
EXTENDS Withdrawals, TLAPS

(* The statuses of a record that has no sequence yet.                      *)
Unbound == {"NONE", "REQUESTED", "ADDRESS_VALIDATED", "COMPLIANCE_APPROVED", "FUNDS_RESERVED"}

(* The statuses of a slot for which a signature may exist.                 *)
Held == {"SIGNED", "BROADCAST", "RECONCILIATION_REQUIRED", "CONSUMED"}

(* withdrawalTransitions leads to statuses of the table, to SIGNED only    *)
(* from TRANSACTION_SIMULATED, and never back to a status without a        *)
(* sequence.                                                               *)
LEMMA TableClosed ==
    ASSUME NEW from, NEW to, WithdrawalMoveLegal(from, to)
    PROVE  /\ from \in WithdrawalStatuses
           /\ to \in WithdrawalStatuses
           /\ to # "NONE" /\ to # "REQUESTED"
           /\ to = "SIGNED" => from = "TRANSACTION_SIMULATED"
           /\ from \notin Unbound => to \notin Unbound
  <1>1. from \in WithdrawalStatuses /\ to \in withdrawalTransitions[from]
    BY DEF WithdrawalMoveLegal
  <1>2. CASE from \in PreSignedStatuses
    BY <1>1, <1>2 DEF PreSignedStatuses, WithdrawalStatuses, withdrawalTransitions, Unbound
  <1>3. CASE from \notin PreSignedStatuses
    BY <1>1, <1>3 DEF PreSignedStatuses, WithdrawalStatuses, withdrawalTransitions, Unbound
  <1> QED BY <1>2, <1>3

(* sequenceTransitions: a held slot stays held unless it is released, and  *)
(* only RESERVED and RECONCILIATION_REQUIRED slots can be released.        *)
LEMMA RowTableClosed ==
    ASSUME NEW from, NEW to, SequenceMoveLegal(from, to)
    PROVE  /\ from \in SequenceStatuses
           /\ to \in SequenceStatuses
           /\ from \in Held /\ to # "RELEASED" => to \in Held
           /\ to = "RELEASED" => from \in {"RESERVED", "RECONCILIATION_REQUIRED"}
  BY DEF SequenceMoveLegal, SequenceStatuses, sequenceTransitions, Held

(* The initial state is well typed.                                        *)
LEMMA InitType == Init => TypeOK
  <1> SUFFICES ASSUME Init PROVE TypeOK OBVIOUS
  <1> USE DEF Init
  <1>1. ChainTypeOK
    BY ChainAssumption DEF ChainInit, ChainTypeOK
  <1>2. rows \in [Slots -> Rows] /\ signedTx \in [Work -> Slots \cup {NoSlot}]
    BY DEF ReservationsInit, Rows
  <1>3. Idle \in Jobs
    BY DEF Idle, Jobs, PCs
  <1>4. job \in [Workers -> Jobs]
    BY <1>3
  <1>5. wd \in [Work -> Records]
    BY DEF Records
  <1> QED BY <1>1, <1>2, <1>4, <1>5 DEF TypeOK

(* GetByWorkRef returns a row of the work item it was asked for.           *)
LEMMA SlotOfRow ==
    ASSUME NEW w, HasRow(w)
    PROVE  SlotOf(w) \in Slots /\ rows[SlotOf(w)].owner = w /\ rows[SlotOf(w)].status # "NONE"
  BY DEF HasRow, SlotOf, SlotsOf
-----------------------------------------------------------------------------
(* The types of the stored variables.                                      *)
StoreOK ==
    /\ rows \in [Slots -> Rows]
    /\ signedTx \in [Work -> Slots \cup {NoSlot}]
    /\ wd \in [Work -> Records]
    /\ openItems \in [Work -> Nat]

(* A record stays, moves along the table (the sequence changes only when   *)
(* it is bound), or is created under a key nobody used.                    *)
RecordMoves ==
    \A w \in Work :
        \/ wd'[w] = wd[w]
        \/ /\ WithdrawalMoveLegal(wd[w].status, wd'[w].status)
           /\ wd'[w].seq = wd[w].seq \/ wd[w].status = "FUNDS_RESERVED"
           /\ wd'[w].status = "SIGNED" => signedTx'[w] # NoSlot
        \/ /\ wd'[w].status = "REQUESTED"
           /\ \A v \in Work : KeyOf[v] = KeyOf[w] =>
                 wd[v].status = "NONE" /\ (v = w \/ wd'[v] = wd[v])

(* A held slot keeps its owner and stays held.                             *)
RowMoves ==
    \A s \in Slots : rows[s].status \in Held =>
        rows'[s].owner = rows[s].owner /\ rows'[s].status \in Held

(* Signed bytes are persisted for a RESERVED slot, which becomes SIGNED in *)
(* the same step.                                                          *)
BytesMoves ==
    \/ signedTx' = signedTx
    \/ \E w \in Work, s \in Slots :
          /\ signedTx' = [signedTx EXCEPT ![w] = s]
          /\ rows[s].status = "RESERVED"
          /\ rows'[s].status = "SIGNED"

StoreStep == StoreOK' /\ RecordMoves /\ RowMoves /\ BytesMoves

(* A step that writes nothing.                                             *)
LEMMA NoWriteStep ==
    ASSUME StoreOK, NoWrite
    PROVE  StoreStep
  BY DEF StoreOK, NoWrite, storeVars, StoreStep, RecordMoves, RowMoves, BytesMoves

(* UpdateStatus on a record along the table.                               *)
LEMMA MovedStep ==
    ASSUME StoreOK, NEW w \in Work, NEW to,
           WithdrawalMoveLegal(wd[w].status, to), to # "SIGNED",
           wd' = Moved(w, to)
    PROVE  wd' \in [Work -> Records] /\ RecordMoves
  <1>1. to \in WithdrawalStatuses
    BY TableClosed
  <1>2. wd' \in [Work -> Records]
    BY <1>1 DEF StoreOK, Moved, Records
  <1>3. wd'[w].status = to /\ wd'[w].seq = wd[w].seq /\ \A v \in Work \ {w} : wd'[v] = wd[v]
    BY DEF StoreOK, Moved, Records
  <1> QED BY <1>2, <1>3 DEF RecordMoves

(* UpdateStatus on a row along the table; only a RESERVED row is released. *)
LEMMA MoveRowStep ==
    ASSUME StoreOK, NEW s \in Slots, NEW to,
           SequenceMoveLegal(rows[s].status, to),
           to = "RELEASED" => rows[s].status = "RESERVED",
           rows' = MoveRow(s, to)
    PROVE  rows' \in [Slots -> Rows] /\ RowMoves
  <1>1. rows[s].status \in SequenceStatuses /\ to \in SequenceStatuses
    BY RowTableClosed
  <1>2. rows[s] \in [status : SequenceStatuses, owner : Work]
    BY <1>1 DEF StoreOK, Rows, NoRow, SequenceStatuses
  <1>3. [rows[s] EXCEPT !.status = to] \in Rows
    BY <1>1, <1>2 DEF Rows
  <1>4. rows' = [rows EXCEPT ![s] = [rows[s] EXCEPT !.status = to]]
    BY DEF MoveRow
  <1>5. rows' \in [Slots -> Rows]
    BY <1>3, <1>4 DEF StoreOK
  <1>6. rows[s].status \in Held => to \in Held
    BY RowTableClosed DEF Held
  <1>7. rows'[s].status = to /\ rows'[s].owner = rows[s].owner
    BY <1>2, <1>4 DEF StoreOK
  <1>8. \A u \in Slots \ {s} : rows'[u] = rows[u]
    BY <1>4 DEF StoreOK
  <1> QED BY <1>5, <1>6, <1>7, <1>8 DEF RowMoves

(* The same with a tolerated conflict.                                     *)
LEMMA MoveRowIfStep ==
    ASSUME StoreOK, NEW s \in Slots, NEW from, NEW to,
           to = "RELEASED" => from = "RESERVED",
           rows' = MoveRowIf(s, from, to)
    PROVE  rows' \in [Slots -> Rows] /\ RowMoves
  <1>1. CASE RowIs(s, from, to)
    BY <1>1, MoveRowStep DEF RowIs, MoveRowIf
  <1>2. CASE ~RowIs(s, from, to)
    BY <1>2 DEF MoveRowIf, StoreOK, RowMoves
  <1> QED BY <1>1, <1>2

(* quarantine, committed or in conflict.                                   *)
LEMMA QuarantineStep ==
    ASSUME StoreOK, NEW w \in Work, NEW from, Quarantine(w, from)
    PROVE  StoreStep
  <1>1. CASE ~StatusIs(w, from, "REVIEW_REQUIRED")
    BY <1>1, NoWriteStep DEF Quarantine
  <1>2. CASE StatusIs(w, from, "REVIEW_REQUIRED")
    <2>1. wd' \in [Work -> Records] /\ RecordMoves
      BY <1>2, MovedStep DEF Quarantine, StatusIs
    <2> QED BY <1>2, <2>1 DEF Quarantine, StoreOK, StoreStep, RowMoves, BytesMoves
  <1> QED BY <1>1, <1>2

(* UpdateStatus without further effects, committed or in conflict.         *)
LEMMA AdvanceStep ==
    ASSUME StoreOK, NEW w \in Work, NEW from, NEW to, to # "SIGNED", Advance(w, from, to)
    PROVE  StoreStep
  <1>1. CASE ~StatusIs(w, from, to)
    BY <1>1, NoWriteStep DEF Advance
  <1>2. CASE StatusIs(w, from, to)
    <2>1. wd' \in [Work -> Records] /\ RecordMoves
      BY <1>2, MovedStep DEF Advance, StatusIs
    <2> QED BY <1>2, <2>1 DEF Advance, StoreOK, StoreStep, RowMoves, BytesMoves
  <1> QED BY <1>1, <1>2

(* A quarantine of the record together with its reservation.               *)
LEMMA QuarantineSignedStep ==
    ASSUME StoreOK, NEW w \in Work, NEW from, NEW rowFrom, QuarantineSigned(w, from, rowFrom)
    PROVE  StoreStep
  <1>1. CASE ~(StatusIs(w, from, "REVIEW_REQUIRED") /\ HasRow(w))
    BY <1>1, NoWriteStep DEF QuarantineSigned
  <1>2. CASE StatusIs(w, from, "REVIEW_REQUIRED") /\ HasRow(w)
    <2>1. wd' \in [Work -> Records] /\ RecordMoves
      BY <1>2, MovedStep DEF QuarantineSigned, StatusIs
    <2>2. rows' \in [Slots -> Rows] /\ RowMoves
      BY <1>2, SlotOfRow, MoveRowIfStep DEF QuarantineSigned
    <2> QED BY <1>2, <2>1, <2>2 DEF QuarantineSigned, StoreOK, StoreStep, BytesMoves
  <1> QED BY <1>1, <1>2

(* SIGNED to BROADCAST with the reservation.                               *)
LEMMA MarkBroadcastStep ==
    ASSUME StoreOK, NEW w \in Work, MarkBroadcast(w)
    PROVE  StoreStep
  <1>1. CASE ~(StatusIs(w, "SIGNED", "BROADCAST") /\ HasRow(w))
    BY <1>1, NoWriteStep DEF MarkBroadcast
  <1>2. CASE StatusIs(w, "SIGNED", "BROADCAST") /\ HasRow(w)
    <2>1. wd' \in [Work -> Records] /\ RecordMoves
      BY <1>2, MovedStep DEF MarkBroadcast, StatusIs
    <2>2. rows' \in [Slots -> Rows] /\ RowMoves
      BY <1>2, SlotOfRow, MoveRowIfStep DEF MarkBroadcast
    <2> QED BY <1>2, <2>1, <2>2 DEF MarkBroadcast, StoreOK, StoreStep, BytesMoves
  <1> QED BY <1>1, <1>2
-----------------------------------------------------------------------------
(* Where a worker holds a reservation it signs for.                        *)
Signing == {"signCall", "signPersist", "signReject"}

(* What the locals of a worker say about the store, although it holds no   *)
(* lock: a worker between the check of the reservation and the persisted   *)
(* signature signs for the sequence the record still has.                  *)
JobGood(p) ==
    /\ job[p].pc \notin {"idle", "down", "reconcile"} => job[p].w \in Work
    /\ job[p].pc \in {"seqBind"} \cup Signing => job[p].slot \in Slots
    /\ job[p].pc \in Signing => /\ wd[job[p].w].status \notin Unbound
                                /\ job[p].slot = wd[job[p].w].seq
    /\ job[p].pc = "broadcastCall" => signedTx[job[p].w] # NoSlot

JobsGood == \A p \in Workers : JobGood(p)

(* The stored part of the type invariant.                                  *)
LEMMA TypeStore == TypeOK => StoreOK
  BY DEF TypeOK, StoreOK

(* A worker in a workflow step has a work item.                            *)
LEMMA BusyHasWork ==
    ASSUME JobsGood, NEW p \in Workers, job[p].pc \notin {"idle", "down", "reconcile"}
    PROVE  job[p].w \in Work
  BY DEF JobsGood, JobGood

(* The types of the fields of a worker's locals.                           *)
LEMMA JobFields ==
    ASSUME TypeOK, NEW p \in Workers
    PROVE  /\ job[p].pc \in PCs
           /\ job[p].slot \in Slots \cup {NoSlot}
           /\ job[p].n \in Nat
           /\ job[p].todo \subseteq TodoItems
  BY DEF TypeOK, Jobs

(* The steps from REQUESTED up to the simulation, the sequence apart.      *)
LEMMA IntakeStore ==
    ASSUME TypeOK, JobsGood, NEW p \in Workers,
           \/ \E w \in Work : List(p, w)
           \/ ValidateAddress(p)
           \/ ReserveFundsRead(p) \/ ReserveFundsCommit(p)
           \/ ReserveSequence(p)
           \/ Build(p) \/ Simulate(p)
    PROVE  StoreStep
  <1> StoreOK BY TypeStore
  <1>1. CASE \E w \in Work : List(p, w)
    BY <1>1, NoWriteStep DEF List
  <1>2. CASE ValidateAddress(p)
    BY <1>2, BusyHasWork, AdvanceStep, QuarantineStep DEF ValidateAddress
  <1>3. CASE ReserveFundsRead(p)
    BY <1>3, NoWriteStep DEF ReserveFundsRead
  <1>4. CASE ReserveFundsCommit(p)
    BY <1>4, BusyHasWork, NoWriteStep, AdvanceStep DEF ReserveFundsCommit
  <1>5. CASE ReserveSequence(p)
    BY <1>5, NoWriteStep DEF ReserveSequence
  <1>6. CASE Build(p)
    BY <1>6, BusyHasWork, AdvanceStep, QuarantineStep DEF Build
  <1>7. CASE Simulate(p)
    BY <1>7, BusyHasWork, NoWriteStep, AdvanceStep, QuarantineStep DEF Simulate
  <1> QED BY <1>1, <1>2, <1>3, <1>4, <1>5, <1>6, <1>7

(* Reserve inserts a free slot or reclaims a RELEASED one: never a held    *)
(* one.                                                                    *)
LEMMA InsertStore ==
    ASSUME TypeOK, JobsGood, NEW p \in Workers, ReserveInsert(p), UNCHANGED <<wd, openItems>>
    PROVE  StoreStep
  <1> StoreOK BY TypeStore
  <1> DEFINE next == TargetSlot(p)
             w == job[p].w
             row == [status |-> "RESERVED", owner |-> w]
  <1>1. w \in Work /\ next \in Slots /\ signedTx' = signedTx
    BY BusyHasWork DEF ReserveInsert
  <1>2. CASE rows' = rows
    BY <1>1, <1>2 DEF StoreOK, StoreStep, RecordMoves, RowMoves, BytesMoves
  <1>3. CASE SlotReservable(w, next) /\ rows' = [rows EXCEPT ![next] = row]
    <2>1. row \in Rows
      BY <1>1 DEF Rows, SequenceStatuses
    <2>2. rows' \in [Slots -> Rows]
      BY <1>1, <1>3, <2>1 DEF StoreOK
    <2>3. RowMoves
      BY <1>1, <1>3 DEF StoreOK, SlotReservable, RowMoves, Held
    <2> QED BY <1>1, <2>2, <2>3 DEF StoreOK, StoreStep, RecordMoves, BytesMoves
  <1> QED BY <1>2, <1>3 DEF ReserveInsert

(* ReserveSequence binds the sequence to a FUNDS_RESERVED record only.     *)
LEMMA BindStore ==
    ASSUME TypeOK, JobsGood, NEW p \in Workers, ReserveSequenceBind(p)
    PROVE  StoreStep
  <1> StoreOK BY TypeStore
  <1> DEFINE w == job[p].w
             bound == [status |-> "SEQUENCE_RESERVED", seq |-> job[p].slot]
  <1>1. w \in Work /\ job[p].slot \in Slots
    BY BusyHasWork DEF ReserveSequenceBind, JobsGood, JobGood
  <1>2. CASE NoWrite
    BY <1>2, NoWriteStep
  <1>3. CASE /\ StatusIs(w, "FUNDS_RESERVED", "SEQUENCE_RESERVED")
             /\ wd' = [wd EXCEPT ![w] = bound]
             /\ UNCHANGED <<rows, signedTx, openItems>>
    <2>1. bound \in Records
      BY <1>1 DEF Records, WithdrawalStatuses, PreSignedStatuses
    <2>2. wd' \in [Work -> Records]
      BY <1>3, <2>1 DEF StoreOK
    <2>3. wd'[w] = bound /\ \A v \in Work \ {w} : wd'[v] = wd[v]
      BY <1>1, <1>3 DEF StoreOK
    <2>4. RecordMoves
      BY <1>3, <2>3 DEF RecordMoves, StatusIs
    <2> QED BY <1>3, <2>2, <2>4 DEF StoreOK, StoreStep, RowMoves, BytesMoves
  <1> QED BY <1>2, <1>3 DEF ReserveSequenceBind

(* Sign persists the bytes, the record and the slot together.              *)
LEMMA SignPersistStore ==
    ASSUME TypeOK, JobsGood, NEW p \in Workers, SignPersist(p)
    PROVE  StoreStep
  <1> StoreOK BY TypeStore
  <1> DEFINE w == job[p].w
             s == job[p].slot
  <1>1. w \in Work /\ s \in Slots
    BY BusyHasWork DEF SignPersist, JobsGood, JobGood, Signing
  <1>2. CASE NoWrite
    BY <1>2, NoWriteStep
  <1>3. CASE /\ StatusIs(w, "TRANSACTION_SIMULATED", "SIGNED") /\ RowIs(s, "RESERVED", "SIGNED")
             /\ wd' = Moved(w, "SIGNED")
             /\ signedTx' = [signedTx EXCEPT ![w] = s]
             /\ rows' = MoveRow(s, "SIGNED")
             /\ UNCHANGED openItems
    <2>1. rows' \in [Slots -> Rows] /\ RowMoves
      BY <1>1, <1>3, MoveRowStep DEF RowIs
    <2>2. rows[s].status = "RESERVED" /\ rows'[s].status = "SIGNED"
      BY <1>1, <1>3, <2>1 DEF RowIs, MoveRow, StoreOK, Rows, NoRow
    <2>3. signedTx' \in [Work -> Slots \cup {NoSlot}] /\ signedTx'[w] # NoSlot
      BY <1>1, <1>3, ChainAssumption DEF StoreOK, NoSlot, Slots
    <2>4. wd' \in [Work -> Records]
      BY <1>1, <1>3 DEF StoreOK, Moved, Records, WithdrawalStatuses
    <2>5. wd'[w].status = "SIGNED" /\ wd'[w].seq = wd[w].seq /\ \A v \in Work \ {w} : wd'[v] = wd[v]
      BY <1>1, <1>3 DEF StoreOK, Moved, Records
    <2>6. RecordMoves
      BY <1>3, <2>3, <2>5 DEF RecordMoves, StatusIs
    <2>7. BytesMoves
      BY <1>1, <1>3, <2>2 DEF BytesMoves
    <2> QED BY <1>3, <2>1, <2>3, <2>4, <2>6, <2>7 DEF StoreOK, StoreStep
  <1> QED BY <1>2, <1>3 DEF SignPersist

(* quarantinePostSignature moves record and slot together.                 *)
LEMMA SignRejectStore ==
    ASSUME TypeOK, JobsGood, NEW p \in Workers, SignReject(p)
    PROVE  StoreStep
  <1> StoreOK BY TypeStore
  <1> DEFINE w == job[p].w
             s == job[p].slot
  <1>1. w \in Work /\ s \in Slots
    BY BusyHasWork DEF SignReject, JobsGood, JobGood, Signing
  <1>2. CASE NoWrite
    BY <1>2, NoWriteStep
  <1>3. CASE /\ StatusIs(w, "TRANSACTION_SIMULATED", "REVIEW_REQUIRED")
             /\ RowIs(s, "RESERVED", "RECONCILIATION_REQUIRED")
             /\ wd' = Moved(w, "REVIEW_REQUIRED")
             /\ rows' = MoveRow(s, "RECONCILIATION_REQUIRED")
             /\ openItems' = [openItems EXCEPT ![w] = @ + 1]
             /\ UNCHANGED signedTx
    <2>1. rows' \in [Slots -> Rows] /\ RowMoves
      BY <1>1, <1>3, MoveRowStep DEF RowIs
    <2>2. wd' \in [Work -> Records] /\ RecordMoves
      BY <1>1, <1>3, MovedStep DEF StatusIs
    <2>3. openItems' \in [Work -> Nat]
      BY <1>1, <1>3 DEF StoreOK
    <2>4. signedTx' = signedTx
      BY <1>3
    <2> QED BY <2>1, <2>2, <2>3, <2>4 DEF StoreOK, StoreStep, BytesMoves
  <1> QED BY <1>2, <1>3 DEF SignReject

(* The steps of ReserveSequence.                                           *)
LEMMA SequenceStore ==
    ASSUME TypeOK, JobsGood, NEW p \in Workers,
           \/ ManagerReserve(p) \/ ReserveSequenceUnusable(p) \/ ReserveSequenceBind(p)
    PROVE  StoreStep
  <1> StoreOK BY TypeStore
  <1>1. CASE ManagerReserve(p)
    <2>1. CASE ReserveInsert(p)
      BY <1>1, <2>1, InsertStore DEF ManagerReserve
    <2>2. CASE ReserveLookup(p) \/ ReserveAccount(p)
      BY <1>1, <2>2, NoWriteStep DEF ManagerReserve, ReserveLookup, ReserveAccount, NoWrite, storeVars
    <2> QED BY <1>1, <2>1, <2>2 DEF ManagerReserve
  <1>2. CASE ReserveSequenceUnusable(p)
    BY <1>2, BusyHasWork, QuarantineStep DEF ReserveSequenceUnusable
  <1>3. CASE ReserveSequenceBind(p)
    BY <1>3, BindStore
  <1> QED BY <1>1, <1>2, <1>3

(* The steps of Sign.                                                      *)
LEMMA SignStore ==
    ASSUME TypeOK, JobsGood, NEW p \in Workers,
           SignCheck(p) \/ SignCall(p) \/ SignPersist(p) \/ SignReject(p)
    PROVE  StoreStep
  <1> StoreOK BY TypeStore
  <1>1. CASE SignCheck(p)
    BY <1>1, BusyHasWork, NoWriteStep, QuarantineStep DEF SignCheck
  <1>2. CASE SignCall(p)
    BY <1>2, BusyHasWork, NoWriteStep, QuarantineStep DEF SignCall
  <1> QED BY <1>1, <1>2, SignPersistStore, SignRejectStore

(* The steps of Confirm; consumeReservation is the only move to CONSUMED.  *)
LEMMA ConfirmStore ==
    ASSUME TypeOK, JobsGood, NEW p \in Workers,
           ConfirmBroadcast(p) \/ ConfirmIncluded(p) \/ ConfirmDepth(p)
    PROVE  StoreStep
  <1> StoreOK BY TypeStore
  <1> DEFINE w == job[p].w
  <1>1. w \in Work
    BY BusyHasWork DEF ConfirmBroadcast, ConfirmIncluded, ConfirmDepth
  <1>2. CASE ConfirmIncluded(p)
    BY <1>1, <1>2, NoWriteStep, QuarantineStep DEF ConfirmIncluded
  <1>3. CASE ConfirmDepth(p)
    BY <1>1, <1>3, NoWriteStep, AdvanceStep DEF ConfirmDepth
  <1>4. CASE ConfirmBroadcast(p)
    <2>1. CASE NoWrite \/ QuarantineSigned(w, "BROADCAST", "BROADCAST")
      BY <1>1, <2>1, NoWriteStep, QuarantineSignedStep
    <2>2. CASE /\ wd[w].status = "BROADCAST" /\ Consumable(w)
               /\ wd' = Moved(w, "INCLUDED")
               /\ rows' = MoveRow(SlotOf(w), "CONSUMED")
               /\ UNCHANGED <<signedTx, openItems>>
      <3>1. WithdrawalMoveLegal("BROADCAST", "INCLUDED")
        BY DEF WithdrawalMoveLegal, WithdrawalStatuses, withdrawalTransitions
      <3>2. wd' \in [Work -> Records] /\ RecordMoves
        BY <1>1, <2>2, <3>1, MovedStep
      <3>3. SlotOf(w) \in Slots
        BY <2>2, SlotOfRow DEF Consumable
      <3>4. CASE rows[SlotOf(w)].status = "CONSUMED"
        <4>1. rows' = rows
          BY <2>2, <3>3, <3>4 DEF MoveRow, StoreOK, Rows, NoRow
        <4> QED BY <2>2, <3>2, <4>1 DEF StoreOK, StoreStep, RowMoves, BytesMoves
      <3>5. CASE rows[SlotOf(w)].status # "CONSUMED"
        <4>1. SequenceMoveLegal(rows[SlotOf(w)].status, "CONSUMED")
          BY <2>2, <3>5 DEF Consumable, SequenceMoveLegal, SequenceStatuses, sequenceTransitions
        <4>2. rows' \in [Slots -> Rows] /\ RowMoves
          BY <2>2, <3>3, <4>1, MoveRowStep
        <4> QED BY <2>2, <3>2, <4>2 DEF StoreOK, StoreStep, BytesMoves
      <3> QED BY <3>4, <3>5
    <2> QED BY <1>4, <2>1, <2>2 DEF ConfirmBroadcast
  <1> QED BY <1>2, <1>3, <1>4

(* The steps of Broadcast and Recover.                                     *)
LEMMA BroadcastStore ==
    ASSUME TypeOK, JobsGood, NEW p \in Workers,
           \/ BroadcastCheck(p) \/ BroadcastCall(p) \/ BroadcastCommit(p)
           \/ Recover(p) \/ RecoverCommit(p)
    PROVE  StoreStep
  <1> StoreOK BY TypeStore
  <1>1. CASE BroadcastCheck(p) \/ BroadcastCall(p) \/ Recover(p)
    BY <1>1, NoWriteStep DEF BroadcastCheck, BroadcastCall, Recover
  <1>2. CASE BroadcastCommit(p)
    BY <1>2, BusyHasWork, MarkBroadcastStep, QuarantineSignedStep DEF BroadcastCommit
  <1>3. CASE RecoverCommit(p)
    BY <1>3, BusyHasWork, AdvanceStep DEF RecoverCommit
  <1> QED BY <1>1, <1>2, <1>3

(* ReconcileAccount releases only what it listed as RESERVED.              *)
LEMMA ReconcileStore ==
    ASSUME TypeOK, JobsGood, NEW p \in Workers, Reconcile(p)
    PROVE  StoreStep
  <1> StoreOK BY TypeStore
  <1>1. CASE ReconcileList(p) \/ ReconcileDone(p)
    BY <1>1, NoWriteStep DEF Reconcile, ReconcileList, ReconcileDone, NoWrite, storeVars
  <1>2. CASE ReconcileRow(p)
    <2>1. PICK r \in job[p].todo : \E lookup \in Lookups(r.owner) :
              rows' = MoveRowIf(r.slot, r.status,
                                resolve(r.status, signedTx[r.owner] # NoSlot, lookup))
      BY <1>2 DEF ReconcileRow
    <2>2. PICK lookup \in Lookups(r.owner) :
              rows' = MoveRowIf(r.slot, r.status,
                                resolve(r.status, signedTx[r.owner] # NoSlot, lookup))
      BY <2>1
    <2> DEFINE to == resolve(r.status, signedTx[r.owner] # NoSlot, lookup)
    <2>3. r.slot \in Slots
      BY JobFields DEF TodoItems
    <2>4. to = "RELEASED" => r.status = "RESERVED"
      BY DEF resolve
    <2>5. rows' \in [Slots -> Rows] /\ RowMoves
      BY <2>2, <2>3, <2>4, MoveRowIfStep
    <2> QED BY <1>2, <2>5 DEF Reconcile, ReconcileRow, StoreOK, StoreStep, RecordMoves, BytesMoves
  <1> QED BY <1>1, <1>2 DEF Reconcile

(* The calls of the exchange: Submit, ApproveCompliance, Cancel.           *)
LEMMA ExchangeStore ==
    ASSUME TypeOK, NEW w \in Work, ExchangeStep(w)
    PROVE  StoreStep
  <1> StoreOK BY TypeStore
  <1>1. CASE Submit(w)
    <2> DEFINE new == [status |-> "REQUESTED", seq |-> NoSlot]
    <2>1. new \in Records
      BY DEF Records, WithdrawalStatuses, PreSignedStatuses
    <2>2. wd' \in [Work -> Records]
      BY <1>1, <2>1 DEF Submit, StoreOK
    <2>3. wd'[w] = new /\ \A v \in Work \ {w} : wd'[v] = wd[v]
      BY <1>1 DEF Submit, StoreOK
    <2>4. RecordMoves
      BY <1>1, <2>3 DEF Submit, RecordMoves
    <2> QED BY <1>1, <2>2, <2>4 DEF Submit, StoreOK, StoreStep, RowMoves, BytesMoves
  <1>2. CASE ApproveCompliance(w)
    <2>1. wd' \in [Work -> Records] /\ RecordMoves
      BY <1>2, MovedStep DEF ApproveCompliance, StatusIs
    <2> QED BY <1>2, <2>1 DEF ApproveCompliance, StoreOK, StoreStep, RowMoves, BytesMoves
  <1>3. CASE Cancel(w)
    <2>1. wd' \in [Work -> Records] /\ RecordMoves
      BY <1>3, MovedStep DEF Cancel
    <2>2. CASE HasRow(w)
      <3>1. rows' \in [Slots -> Rows] /\ RowMoves
        BY <1>3, <2>2, SlotOfRow, MoveRowIfStep DEF Cancel
      <3> QED BY <1>3, <2>1, <3>1 DEF Cancel, StoreOK, StoreStep, BytesMoves
    <2>3. CASE ~HasRow(w)
      BY <1>3, <2>1, <2>3 DEF Cancel, StoreOK, StoreStep, RowMoves, BytesMoves
    <2> QED BY <2>2, <2>3
  <1> QED BY <1>1, <1>2, <1>3 DEF ExchangeStep

(* The operator releases a slot only when it is RESERVED.                  *)
LEMMA ResolveStore ==
    ASSUME TypeOK, NEW w \in Work, ResolveReview(w)
    PROVE  StoreStep
  <1> StoreOK BY TypeStore
  <1> DEFINE preSign == signedTx[w] = NoSlot /\ PreSignReservation(w)
             seqTo(outcome) == IF outcome = "CANCELLED" THEN "RELEASED" ELSE "CONSUMED"
             s == SlotOf(w)
  <1>1. PICK outcome \in Outcomes :
          /\ (outcome = "CANCELLED") <=> preSign
          /\ HasRow(w) => \/ rows[s].status = seqTo(outcome)
                          \/ SequenceMoveLegal(rows[s].status, seqTo(outcome))
          /\ wd' = Moved(w, outcome)
          /\ rows' = IF HasRow(w) THEN MoveRow(s, seqTo(outcome)) ELSE rows
    BY DEF ResolveReview
  <1>2. outcome \in {"CONFIRMED", "FAILED", "CANCELLED"}
    BY WithdrawalsAssumption
  <1>3. WithdrawalMoveLegal(wd[w].status, outcome)
    BY <1>2 DEF ResolveReview, WithdrawalMoveLegal, WithdrawalStatuses, withdrawalTransitions
  <1>4. wd' \in [Work -> Records] /\ RecordMoves
    BY <1>1, <1>2, <1>3, MovedStep
  <1>5. openItems' \in [Work -> Nat] /\ signedTx' = signedTx
    BY DEF ResolveReview, StoreOK
  <1>6. CASE ~HasRow(w) \/ rows[s].status = seqTo(outcome)
    <2>1. rows' = rows
      BY <1>1, <1>6, SlotOfRow DEF MoveRow, StoreOK, Rows, NoRow
    <2> QED BY <1>4, <1>5, <2>1 DEF StoreOK, StoreStep, RowMoves, BytesMoves
  <1>7. CASE HasRow(w) /\ rows[s].status # seqTo(outcome)
    <2>1. s \in Slots /\ SequenceMoveLegal(rows[s].status, seqTo(outcome))
      BY <1>1, <1>7, SlotOfRow
    <2>2. seqTo(outcome) = "RELEASED" => rows[s].status = "RESERVED"
      BY <1>1, <1>7 DEF PreSignReservation
    <2>3. rows' = MoveRow(s, seqTo(outcome))
      BY <1>1, <1>7
    <2> HIDE DEF seqTo, s
    <2>4. rows' \in [Slots -> Rows] /\ RowMoves
      BY <2>1, <2>2, <2>3, MoveRowStep
    <2> QED BY <1>4, <1>5, <2>4 DEF StoreOK, StoreStep, BytesMoves
  <1> QED BY <1>6, <1>7

(* Every step is a StoreStep.                                              *)
LEMMA NextStore ==
    ASSUME TypeOK, JobsGood, Next
    PROVE  StoreStep
  <1> StoreOK BY TypeStore
  <1>1. ASSUME NEW p \in Workers, WorkflowStep(p) PROVE StoreStep
    BY <1>1, IntakeStore, SequenceStore, SignStore, BroadcastStore, ConfirmStore, ReconcileStore
    DEF WorkflowStep
  <1>2. ASSUME NEW p \in Workers, Crash(p) PROVE StoreStep
    BY <1>2, NoWriteStep DEF Crash, NoWrite
  <1>3. ASSUME NEW flow \in Pausable, Pause(flow) PROVE StoreStep
    BY <1>3, NoWriteStep DEF Pause, NoWrite
  <1>4. CASE ChainStep
    BY <1>4, NoWriteStep DEF ChainStep, NoWrite
  <1> QED BY <1>1, <1>2, <1>3, <1>4, ExchangeStore, ResolveStore DEF Next
-----------------------------------------------------------------------------
(* A bound sequence never changes.                                         *)
LEMMA BoundStays ==
    ASSUME RecordMoves, NEW w \in Work, wd[w].status \notin Unbound
    PROVE  wd'[w].status \notin Unbound /\ wd'[w].seq = wd[w].seq
  <1>1. CASE wd'[w] = wd[w]
    BY <1>1
  <1>2. CASE /\ WithdrawalMoveLegal(wd[w].status, wd'[w].status)
             /\ wd'[w].seq = wd[w].seq \/ wd[w].status = "FUNDS_RESERVED"
    BY <1>2, TableClosed DEF Unbound
  <1>3. CASE wd[w].status = "NONE"
    BY <1>3 DEF Unbound
  <1> QED BY <1>1, <1>2, <1>3 DEF RecordMoves

(* Persisted bytes are never removed.                                      *)
LEMMA BytesStay ==
    ASSUME StoreOK, BytesMoves, NEW w \in Work, signedTx[w] # NoSlot
    PROVE  signedTx'[w] # NoSlot
  BY ChainAssumption DEF StoreOK, BytesMoves, NoSlot, Slots

(* What the locals of a worker say survives the steps of the others.       *)
LEMMA JobFrame ==
    ASSUME TypeOK, JobsGood, StoreStep, NEW q \in Workers, job'[q] = job[q]
    PROVE  JobGood(q)'
  <1> DEFINE w == job[q].w
  <1> USE DEF JobsGood, JobGood
  <1>1. job[q].pc \in Signing => wd'[w].status \notin Unbound /\ job[q].slot = wd'[w].seq
    BY BusyHasWork, BoundStays DEF StoreStep, Signing
  <1>2. job[q].pc = "broadcastCall" => signedTx'[w] # NoSlot
    BY BusyHasWork, BytesStay, TypeStore DEF StoreStep
  <1> QED BY <1>1, <1>2

(* A worker whose new locals are good keeps all locals good.               *)
LEMMA JobMoved ==
    ASSUME TypeOK, JobsGood, StoreStep, NEW p \in Workers, NEW j \in Jobs,
           job' = [job EXCEPT ![p] = j],
           j.pc \notin {"idle", "down", "reconcile"} => j.w \in Work,
           j.pc \in {"seqBind"} \cup Signing => j.slot \in Slots,
           j.pc \in Signing => wd'[j.w].status \notin Unbound /\ j.slot = wd'[j.w].seq,
           j.pc = "broadcastCall" => signedTx'[j.w] # NoSlot
    PROVE  job' \in [Workers -> Jobs] /\ JobsGood'
  <1>1. job' \in [Workers -> Jobs] /\ job'[p] = j /\ \A q \in Workers \ {p} : job'[q] = job[q]
    BY DEF TypeOK
  <1>2. JobGood(p)'
    BY <1>1 DEF JobGood
  <1>3. \A q \in Workers \ {p} : JobGood(q)'
    BY <1>1, JobFrame
  <1> QED BY <1>1, <1>2, <1>3 DEF JobsGood

(* A step of none of the workers keeps all locals good.                    *)
LEMMA JobSame ==
    ASSUME TypeOK, JobsGood, StoreStep, job' = job
    PROVE  job' \in [Workers -> Jobs] /\ JobsGood'
  BY JobFrame DEF TypeOK, JobsGood

(* The locals of a worker without work.                                    *)
LEMMA IdleJobs == Idle \in Jobs /\ Down \in Jobs
  BY DEF Idle, Down, Jobs, PCs

(* A worker ends its method or crashes.                                    *)
LEMMA DoneMoved ==
    ASSUME TypeOK, JobsGood, StoreStep, NEW p \in Workers,
           job' = [job EXCEPT ![p] = Idle] \/ job' = [job EXCEPT ![p] = Down]
    PROVE  job' \in [Workers -> Jobs] /\ JobsGood'
  BY JobMoved, IdleJobs DEF Idle, Down, Signing

(* Going on with the same work item to a step that relies on nothing else. *)
LEMMA PlainMoved ==
    ASSUME TypeOK, JobsGood, StoreStep, NEW p \in Workers,
           NEW j \in Jobs, job' = [job EXCEPT ![p] = j],
           j.w = job[p].w, job[p].pc \notin {"idle", "down", "reconcile"},
           j.pc \notin {"seqBind", "signCall", "signPersist", "signReject", "broadcastCall"}
    PROVE  job' \in [Workers -> Jobs] /\ JobsGood'
  BY JobMoved, BusyHasWork DEF Signing

(* A SIGNED record has its signed bytes persisted.                         *)
SignedHasBytes == \A w \in Work : wd[w].status = "SIGNED" => signedTx[w] # NoSlot

(* Updated locals are well typed.                                          *)
LEMMA JobUpdates ==
    ASSUME TypeOK, NEW p \in Workers, NEW pc \in PCs
    PROVE  /\ job[p] \in Jobs
           /\ [job[p] EXCEPT !.pc = pc] \in Jobs
           /\ \A n \in Nat : [job[p] EXCEPT !.pc = pc, !.n = n] \in Jobs
           /\ \A s \in Slots : [job[p] EXCEPT !.pc = pc, !.slot = s] \in Jobs
  BY DEF TypeOK, Jobs

(* The driver picks a record and the step of its status.                   *)
LEMMA ListJobs ==
    ASSUME TypeOK, JobsGood, StoreStep, NEW p \in Workers, NEW w \in Work, List(p, w)
    PROVE  job' \in [Workers -> Jobs] /\ JobsGood'
  <1> DEFINE pc == IF p \in Drivers THEN StepOf(wd[w].status) ELSE "recover"
             j == [Idle EXCEPT !.w = w, !.pc = pc]
  <1>1. pc \in {"validate", "funds", "sequence", "build", "simulate", "sign", "broadcast",
                "confirm", "recover"}
    BY DEF List, StepOf
  <1>2. j \in Jobs /\ j.pc = pc /\ j.w = w
    BY <1>1 DEF Idle, Jobs, PCs
  <1>3. job' = [job EXCEPT ![p] = j]
    BY DEF List
  <1> HIDE DEF j, pc
  <1> QED BY <1>1, <1>2, <1>3, JobMoved DEF Signing

(* The steps that end a method.                                            *)
LEMMA SimpleJobs ==
    ASSUME TypeOK, JobsGood, StoreStep, NEW p \in Workers,
           \/ ValidateAddress(p) \/ ReserveFundsCommit(p) \/ ReserveSequenceUnusable(p)
           \/ ReserveSequenceBind(p) \/ Build(p) \/ Simulate(p) \/ SignPersist(p)
           \/ SignReject(p) \/ BroadcastCommit(p) \/ ConfirmDepth(p) \/ RecoverCommit(p)
    PROVE  job' \in [Workers -> Jobs] /\ JobsGood'
  <1>1. Done(p)
    BY DEF ValidateAddress, ReserveFundsCommit, ReserveSequenceUnusable, ReserveSequenceBind,
           Build, Simulate, SignPersist, SignReject, BroadcastCommit, ConfirmDepth, RecoverCommit
  <1> QED BY <1>1, DoneMoved DEF Done

(* The steps that go on to a plain step.                                   *)
LEMMA GotoJobs ==
    ASSUME TypeOK, JobsGood, StoreStep, NEW p \in Workers,
           job[p].pc \notin {"idle", "down", "reconcile"},
           NEW pc \in PCs \ {"seqBind", "signCall", "signPersist", "signReject", "broadcastCall"},
           Goto(p, pc)
    PROVE  job' \in [Workers -> Jobs] /\ JobsGood'
  <1> DEFINE j == [job[p] EXCEPT !.pc = pc]
  <1>1. j \in Jobs /\ j.w = job[p].w /\ j.pc = pc
    BY JobUpdates DEF Jobs
  <1>2. job' = [job EXCEPT ![p] = j]
    BY DEF Goto
  <1> HIDE DEF j
  <1> QED BY <1>1, <1>2, PlainMoved

(* Confirm and Recover before their last transaction.                      *)
LEMMA ConfirmJobs ==
    ASSUME TypeOK, JobsGood, StoreStep, NEW p \in Workers,
           ConfirmBroadcast(p) \/ ConfirmIncluded(p) \/ Recover(p)
    PROVE  job' \in [Workers -> Jobs] /\ JobsGood'
  <1>1. Done(p) \/ Goto(p, "confirmDepth") \/ Goto(p, "recoverCommit")
    BY DEF ConfirmBroadcast, ConfirmIncluded, Recover
  <1>2. job[p].pc \in {"confirm", "recover"}
    BY DEF ConfirmBroadcast, ConfirmIncluded, Recover
  <1>3. {"confirmDepth", "recoverCommit"} \subseteq
            PCs \ {"seqBind", "signCall", "signPersist", "signReject", "broadcastCall"}
    BY DEF PCs
  <1> QED BY <1>1, <1>2, <1>3, DoneMoved, GotoJobs DEF Done

(* The steps that remember an answer of the chain or of the store.         *)
LEMMA ReadJobs ==
    ASSUME TypeOK, JobsGood, StoreStep, NEW p \in Workers,
           ReserveFundsRead(p) \/ ReserveSequence(p) \/ BroadcastCall(p)
    PROVE  job' \in [Workers -> Jobs] /\ JobsGood'
  <1>1. job[p] \in Jobs
    BY DEF TypeOK
  <1>2. CASE ReserveFundsRead(p)
    <2> DEFINE j == [job[p] EXCEPT !.pc = "fundsCommit", !.n = balance]
    <2>1. j \in Jobs /\ j.w = job[p].w /\ j.pc = "fundsCommit"
      BY <1>1 DEF TypeOK, ChainTypeOK, Jobs, PCs
    <2>2. job' = [job EXCEPT ![p] = j] \/ Done(p)
      BY <1>2 DEF ReserveFundsRead
    <2>3. job[p].pc = "funds"
      BY <1>2 DEF ReserveFundsRead
    <2> HIDE DEF j
    <2> QED BY <2>1, <2>2, <2>3, PlainMoved, DoneMoved DEF Done
  <1>3. CASE ReserveSequence(p)
    <2> DEFINE j == [job[p] EXCEPT !.pc = "seqLookup", !.seen = wd[job[p].w].status]
    <2>1. job[p].w \in Work /\ job[p].pc = "sequence"
      BY <1>3, BusyHasWork DEF ReserveSequence
    <2>2. wd[job[p].w].status \in WithdrawalStatuses \cup {"NONE"}
      BY <2>1 DEF TypeOK, Records
    <2>3. j \in Jobs /\ j.w = job[p].w /\ j.pc = "seqLookup"
      BY <1>1, <2>2 DEF Jobs, PCs
    <2>4. job' = [job EXCEPT ![p] = j]
      BY <1>3 DEF ReserveSequence
    <2> HIDE DEF j
    <2> QED BY <2>1, <2>3, <2>4, PlainMoved
  <1>4. CASE BroadcastCall(p)
    <2>1. PICK answer \in {"accepted", "rejected", "error"} :
            job' = [job EXCEPT ![p] = [@ EXCEPT !.pc = "broadcastCommit", !.seen = answer]]
      BY <1>4 DEF BroadcastCall
    <2> DEFINE j == [job[p] EXCEPT !.pc = "broadcastCommit", !.seen = answer]
    <2>2. j \in Jobs /\ j.w = job[p].w /\ j.pc = "broadcastCommit"
      BY <1>1 DEF Jobs, PCs
    <2>3. job' = [job EXCEPT ![p] = j] /\ job[p].pc = "broadcastCall"
      BY <1>4, <2>1 DEF BroadcastCall
    <2> HIDE DEF j
    <2> QED BY <2>2, <2>3, PlainMoved
  <1> QED BY <1>2, <1>3, <1>4

(* A worker that was given a slot goes on with it. *)
LEMMA SlotJobs ==
    ASSUME TypeOK, JobsGood, StoreStep, NEW p \in Workers,
           job[p].pc \notin {"idle", "down", "reconcile"},
           NEW s \in Slots, NEW pc \in {"seqAccount", "seqBind"},
           job' = [job EXCEPT ![p] = [@ EXCEPT !.pc = pc, !.slot = s]]
    PROVE  job' \in [Workers -> Jobs] /\ JobsGood'
  <1> DEFINE j == [job[p] EXCEPT !.pc = pc, !.slot = s]
  <1>1. j \in Jobs /\ j.w = job[p].w /\ j.pc = pc /\ j.slot = s
    BY DEF TypeOK, Jobs, PCs
  <1>2. job' = [job EXCEPT ![p] = j]
    OBVIOUS
  <1> HIDE DEF j
  <1> QED BY <1>1, <1>2, BusyHasWork, JobMoved DEF Signing

(* The steps of Manager.Reserve return a slot of the table.                *)
LEMMA ManagerJobs ==
    ASSUME TypeOK, JobsGood, StoreStep, NEW p \in Workers, ManagerReserve(p)
    PROVE  job' \in [Workers -> Jobs] /\ JobsGood'
  <1> DEFINE w == job[p].w
  <1>1. {"seqAccount", "seqInsert", "seqUnusable"} \subseteq
            PCs \ {"seqBind", "signCall", "signPersist", "signReject", "broadcastCall"}
    BY DEF PCs
  <1>2. CASE ReserveLookup(p)
    <2>1. job[p].pc = "seqLookup"
      BY <1>2 DEF ReserveLookup
    <2>2. CASE ~HasRow(w)
      <3>1. Goto(p, "seqAccount")
        BY <1>2, <2>2 DEF ReserveLookup, Goto
      <3> QED BY <1>1, <2>1, <3>1, GotoJobs
    <2>3. CASE HasRow(w)
      <3>1. PICK pc \in {"seqAccount", "seqBind"} :
                job' = [job EXCEPT ![p] = [@ EXCEPT !.pc = pc, !.slot = SlotOf(w)]]
        BY <1>2, <2>3 DEF ReserveLookup
      <3> QED BY <2>1, <2>3, <3>1, SlotOfRow, SlotJobs
    <2> QED BY <2>2, <2>3
  <1>3. CASE ReserveAccount(p)
    <2> DEFINE j == [job[p] EXCEPT !.pc = "seqInsert", !.n = chainSeq]
    <2>1. j \in Jobs /\ j.w = job[p].w /\ j.pc = "seqInsert"
      BY DEF TypeOK, ChainTypeOK, Jobs, PCs
    <2>2. job[p].pc = "seqAccount" /\ (job' = [job EXCEPT ![p] = j] \/ job' = [job EXCEPT ![p] = Idle])
      BY <1>3 DEF ReserveAccount
    <2> HIDE DEF j
    <2> QED BY <2>1, <2>2, PlainMoved, DoneMoved
  <1>4. CASE ReserveInsert(p)
    <2>1. job[p].pc = "seqInsert" /\ TargetSlot(p) \in Slots
      BY <1>4 DEF ReserveInsert
    <2>2. CASE Goto(p, "seqUnusable")
      BY <1>1, <2>1, <2>2, GotoJobs
    <2>3. CASE job' = [job EXCEPT ![p] = [@ EXCEPT !.pc = "seqBind", !.slot = TargetSlot(p)]]
      BY <2>1, <2>3, SlotJobs
    <2>4. CASE HasRow(w) /\ job' = [job EXCEPT ![p] = [@ EXCEPT !.pc = "seqBind", !.slot = SlotOf(w)]]
      BY <2>1, <2>4, SlotOfRow, SlotJobs
    <2>5. CASE job' = [job EXCEPT ![p] = Idle]
      BY <2>5, DoneMoved
    <2> QED BY <1>4, <2>2, <2>3, <2>4, <2>5 DEF ReserveInsert, Goto
  <1> QED BY <1>2, <1>3, <1>4 DEF ManagerReserve

(* SignCheck hands on the sequence the record is bound to.                 *)
LEMMA SignCheckJobs ==
    ASSUME TypeOK, JobsGood, StoreStep, NEW p \in Workers, SignCheck(p)
    PROVE  job' \in [Workers -> Jobs] /\ JobsGood'
  <1> DEFINE w == job[p].w
             j == [job[p] EXCEPT !.pc = "signCall", !.slot = SlotOf(w)]
  <1>1. CASE Done(p)
    BY <1>1, DoneMoved DEF Done
  <1>2. CASE ~Done(p)
    <2>1. /\ wd[w].status = "TRANSACTION_SIMULATED" /\ HasRow(w) /\ SlotOf(w) = wd[w].seq
          /\ job' = [job EXCEPT ![p] = j] /\ wd' = wd /\ w \in Work
      BY <1>2, BusyHasWork DEF SignCheck, NoWrite, storeVars
    <2>2. SlotOf(w) \in Slots
      BY <2>1, SlotOfRow
    <2>3. j \in Jobs /\ j.w = w /\ j.pc = "signCall" /\ j.slot = SlotOf(w)
      BY <2>2 DEF TypeOK, Jobs, PCs
    <2> HIDE DEF j
    <2> QED BY <2>1, <2>2, <2>3, JobMoved DEF Unbound, Signing
  <1> QED BY <1>1, <1>2

(* SignCall keeps it.                                                      *)
LEMMA SignCallJobs ==
    ASSUME TypeOK, JobsGood, StoreStep, NEW p \in Workers, SignCall(p)
    PROVE  job' \in [Workers -> Jobs] /\ JobsGood'
  <1>1. CASE Done(p)
    BY <1>1, DoneMoved DEF Done
  <1>2. CASE ~Done(p)
    <2>1. PICK next \in {"signPersist", "signReject"} : Goto(p, next) /\ wd' = wd
      BY <1>2 DEF SignCall, NoWrite, storeVars
    <2>2. /\ job[p].w \in Work /\ job[p].slot \in Slots
          /\ wd[job[p].w].status \notin Unbound /\ job[p].slot = wd[job[p].w].seq
      BY BusyHasWork DEF SignCall, JobsGood, JobGood, Signing
    <2> DEFINE j == [job[p] EXCEPT !.pc = next]
    <2>3. j \in Jobs /\ j.w = job[p].w /\ j.pc = next /\ j.slot = job[p].slot
      BY DEF TypeOK, Jobs, PCs
    <2>4. job' = [job EXCEPT ![p] = j]
      BY <2>1 DEF Goto
    <2> HIDE DEF j
    <2> QED BY <2>1, <2>2, <2>3, <2>4, JobMoved DEF Signing
  <1> QED BY <1>1, <1>2

(* BroadcastCheck goes to the wire only with persisted bytes.              *)
LEMMA BroadcastCheckJobs ==
    ASSUME TypeOK, JobsGood, SignedHasBytes, StoreStep, NEW p \in Workers, BroadcastCheck(p)
    PROVE  job' \in [Workers -> Jobs] /\ JobsGood'
  <1>1. CASE Done(p)
    BY <1>1, DoneMoved DEF Done
  <1>2. CASE ~Done(p)
    <2> DEFINE j == [job[p] EXCEPT !.pc = "broadcastCall"]
    <2>1. /\ job[p].w \in Work /\ wd[job[p].w].status = "SIGNED"
          /\ job' = [job EXCEPT ![p] = j] /\ signedTx' = signedTx
      BY <1>2, BusyHasWork DEF BroadcastCheck, Goto, NoWrite, storeVars
    <2>2. j \in Jobs /\ j.w = job[p].w /\ j.pc = "broadcastCall"
      BY DEF TypeOK, Jobs, PCs
    <2> HIDE DEF j
    <2> QED BY <2>1, <2>2, JobMoved DEF SignedHasBytes, Signing
  <1> QED BY <1>1, <1>2

(* The listed rows stay rows of the table.                                 *)
LEMMA ReconcileJobs ==
    ASSUME TypeOK, JobsGood, StoreStep, NEW p \in Workers, Reconcile(p)
    PROVE  job' \in [Workers -> Jobs] /\ JobsGood'
  <1>1. CASE ReconcileDone(p)
    BY <1>1, DoneMoved DEF ReconcileDone
  <1>2. CASE ReconcileList(p)
    <2> DEFINE todo == {[slot |-> s, owner |-> rows[s].owner, status |-> rows[s].status] : s \in OpenSlots}
               j == [job[p] EXCEPT !.pc = "reconcile", !.todo = todo]
    <2>1. \A s \in OpenSlots : rows[s] \in [status : SequenceStatuses, owner : Work]
      BY DEF TypeOK, OpenSlots, Rows, NoRow
    <2>2. todo \subseteq TodoItems
      BY <2>1 DEF TodoItems, OpenSlots
    <2> HIDE DEF todo
    <2>3. j \in Jobs /\ j.pc = "reconcile"
      BY <2>2 DEF TypeOK, Jobs, PCs
    <2>4. job' = [job EXCEPT ![p] = j]
      BY <1>2 DEF ReconcileList, todo
    <2> HIDE DEF j
    <2> QED BY <2>3, <2>4, JobMoved DEF Signing
  <1>3. CASE ReconcileRow(p)
    <2>1. CASE job' = [job EXCEPT ![p] = Down]
      BY <2>1, DoneMoved
    <2>2. ASSUME NEW r \in job[p].todo, job' = [job EXCEPT ![p] = [job[p] EXCEPT !.todo = @ \ {r}]]
          PROVE  job' \in [Workers -> Jobs] /\ JobsGood'
      <3> DEFINE rest == job[p].todo \ {r}
                 j == [job[p] EXCEPT !.todo = rest]
      <3>1. job[p] \in Jobs /\ job[p].pc = "reconcile" /\ job[p].todo \subseteq TodoItems
        BY <1>3, JobFields DEF ReconcileRow, TypeOK
      <3>2. job' = [job EXCEPT ![p] = j]
        BY <2>2
      <3>3. rest \subseteq TodoItems
        BY <3>1
      <3> HIDE DEF rest
      <3>4. j \in Jobs /\ j.pc = "reconcile"
        BY <3>1, <3>3 DEF Jobs
      <3> HIDE DEF j
      <3> QED BY <3>2, <3>4, JobMoved DEF Signing
    <2>3. \/ job' = [job EXCEPT ![p] = Down]
          \/ \E r \in job[p].todo : job' = [job EXCEPT ![p] = [job[p] EXCEPT !.todo = @ \ {r}]]
      BY <1>3 DEF ReconcileRow
    <2> QED BY <2>1, <2>2, <2>3
  <1> QED BY <1>1, <1>2, <1>3 DEF Reconcile

(* Every step keeps the locals of all workers typed and good.              *)
LEMMA NextJobs ==
    ASSUME TypeOK, JobsGood, SignedHasBytes, StoreStep, Next
    PROVE  job' \in [Workers -> Jobs] /\ JobsGood'
  <1>1. ASSUME NEW p \in Workers, WorkflowStep(p)
        PROVE  job' \in [Workers -> Jobs] /\ JobsGood'
    BY <1>1, ListJobs, SimpleJobs, ReadJobs, ManagerJobs, SignCheckJobs, SignCallJobs,
       BroadcastCheckJobs, ConfirmJobs, ReconcileJobs
    DEF WorkflowStep
  <1>2. ASSUME NEW p \in Workers, Crash(p)
        PROVE  job' \in [Workers -> Jobs] /\ JobsGood'
    BY <1>2, DoneMoved DEF Crash
  <1>3. ASSUME NEW w \in Work, ExchangeStep(w) \/ ResolveReview(w)
        PROVE  job' = job
    BY <1>3 DEF ExchangeStep, Submit, ApproveCompliance, Cancel, ResolveReview
  <1>4. ASSUME NEW flow \in Pausable, Pause(flow)
        PROVE  job' = job
    BY <1>4 DEF Pause
  <1>5. CASE ChainStep
    BY <1>5, JobSame DEF ChainStep
  <1> QED BY <1>1, <1>2, <1>3, <1>4, <1>5, JobSame DEF Next
-----------------------------------------------------------------------------
(* The chain and the remaining variables *)

(* A worker step leaves the chain alone, or hands it the persisted bytes   *)
(* of a withdrawal.                                                        *)
WireMoves ==
    /\ UNCHANGED <<chainSeq, balance, paid, reverted, outside>>
    /\ \/ mempool' = mempool
       \/ \E w \in Work : signedTx[w] # NoSlot /\ mempool' = mempool \cup {TxOf(w)}

(* A new signature is for the sequence bound to its record.                *)
SignatureMoves ==
    \/ signatures' = signatures
    \/ \E w \in Work : /\ wd[w].status \notin Unbound
                       /\ wd[w].seq \in Slots
                       /\ signatures' = signatures \cup {[w |-> w, seq |-> wd[w].seq]}

(* Broadcast adds nothing or the transaction it was given.                 *)
LEMMA AnswerMoves ==
    ASSUME NEW t, NEW answer, BroadcastAnswer(t, answer)
    PROVE  mempool' = mempool \/ mempool' = mempool \cup {t}
  BY DEF BroadcastAnswer

(* What a worker step does to the chain.                                   *)
LEMMA WorkflowWire ==
    ASSUME TypeOK, JobsGood, NEW p \in Workers, WorkflowStep(p)
    PROVE  WireMoves
  <1>1. CASE BroadcastCall(p)
    <2>1. job[p].w \in Work /\ signedTx[job[p].w] # NoSlot
      BY <1>1, BusyHasWork DEF BroadcastCall, JobsGood, JobGood
    <2> QED BY <1>1, <2>1, AnswerMoves DEF BroadcastCall, WireMoves
  <1>2. CASE Recover(p)
    <2>1. job[p].w \in Work
      BY <1>2, BusyHasWork DEF Recover
    <2> QED BY <1>2, <2>1, AnswerMoves DEF Recover, RebroadcastPersisted, WireMoves
  <1>3. CASE chainVars' = chainVars
    BY <1>3 DEF chainVars, WireMoves
  <1>4. CASE \/ \E w \in Work : List(p, w)
             \/ ValidateAddress(p)
             \/ ReserveFundsRead(p) \/ ReserveFundsCommit(p)
             \/ ReserveSequence(p) \/ ManagerReserve(p)
             \/ ReserveSequenceUnusable(p) \/ ReserveSequenceBind(p)
             \/ Build(p) \/ Simulate(p)
    BY <1>3, <1>4 DEF List, ValidateAddress, ReserveFundsRead, ReserveFundsCommit,
       ReserveSequence, ManagerReserve, ReserveSequenceUnusable, ReserveSequenceBind, Build, Simulate
  <1>5. CASE \/ SignCheck(p) \/ SignCall(p) \/ SignPersist(p) \/ SignReject(p)
             \/ BroadcastCheck(p) \/ BroadcastCommit(p)
             \/ ConfirmBroadcast(p) \/ ConfirmIncluded(p) \/ ConfirmDepth(p)
             \/ RecoverCommit(p) \/ Reconcile(p)
    BY <1>3, <1>5 DEF SignCheck, SignCall, SignPersist, SignReject, BroadcastCheck,
       BroadcastCommit, ConfirmBroadcast, ConfirmIncluded, ConfirmDepth, RecoverCommit, Reconcile
  <1> QED BY <1>1, <1>2, <1>4, <1>5 DEF WorkflowStep

(* Only well-typed transactions reach the mempool.                         *)
LEMMA WireType ==
    ASSUME TypeOK, WireMoves
    PROVE  ChainTypeOK'
  <1>1. \A w \in Work : signedTx[w] # NoSlot => TxOf(w) \in Txs
    BY DEF TypeOK, TxOf, Txs
  <1> QED BY <1>1 DEF TypeOK, ChainTypeOK, WireMoves

(* The chain keeps its types; no inclusion overdraws the balance.          *)
LEMMA ChainStepType ==
    ASSUME ChainTypeOK, ChainNext
    PROVE  ChainTypeOK'
  <1>1. ASSUME NEW t \in mempool, IncludeTx(t)
        PROVE  ChainTypeOK'
    <2>1. t \in Txs /\ Amount[t.w] \in Nat /\ Fee \in Nat
      BY <1>1, ChainAssumption DEF ChainTypeOK, Txs
    <2>2. balance' \in Nat
      BY <1>1, <2>1 DEF IncludeTx, ChainTypeOK
    <2> QED BY <1>1, <2>1, <2>2 DEF IncludeTx, ChainTypeOK
  <1>2. ASSUME NEW t \in mempool, EvictTx(t)
        PROVE  ChainTypeOK'
    BY <1>2 DEF EvictTx, ChainTypeOK
  <1>3. CASE OutsideTx
    BY <1>3, ChainAssumption DEF OutsideTx, ChainTypeOK
  <1> QED BY <1>1, <1>2, <1>3 DEF ChainNext

(* Every step keeps the chain well typed.                                  *)
LEMMA NextChain ==
    ASSUME TypeOK, JobsGood, Next
    PROVE  ChainTypeOK'
  <1>1. ASSUME NEW p \in Workers, WorkflowStep(p)
        PROVE  ChainTypeOK'
    BY <1>1, WorkflowWire, WireType
  <1>2. CASE chainVars' = chainVars
    BY <1>2 DEF chainVars, TypeOK, ChainTypeOK
  <1>3. ASSUME NEW p \in Workers, Crash(p)
        PROVE  chainVars' = chainVars
    BY <1>3 DEF Crash
  <1>4. ASSUME NEW w \in Work, ExchangeStep(w) \/ ResolveReview(w)
        PROVE  chainVars' = chainVars
    BY <1>4 DEF ExchangeStep, Submit, ApproveCompliance, Cancel, ResolveReview
  <1>5. ASSUME NEW flow \in Pausable, Pause(flow)
        PROVE  chainVars' = chainVars
    BY <1>5 DEF Pause
  <1>6. CASE ChainStep
    BY <1>6, ChainStepType DEF ChainStep, TypeOK
  <1> QED BY <1>1, <1>2, <1>3, <1>4, <1>5, <1>6 DEF Next

(* The signer signs for the sequence bound to the record.                  *)
LEMMA SignCallSignatures ==
    ASSUME TypeOK, JobsGood, NEW p \in Workers, SignCall(p)
    PROVE  SignatureMoves
  <1> DEFINE w == job[p].w
  <1>1. w \in Work /\ job[p].slot \in Slots /\ wd[w].status \notin Unbound /\ job[p].slot = wd[w].seq
    BY BusyHasWork DEF SignCall, JobsGood, JobGood, Signing
  <1>2. signatures' = signatures \/ signatures' = signatures \cup {[w |-> w, seq |-> job[p].slot]}
    BY DEF SignCall
  <1> QED BY <1>1, <1>2 DEF SignatureMoves

(* No other step makes a signature.                                        *)
LEMMA NextSignatures ==
    ASSUME TypeOK, JobsGood, Next
    PROVE  SignatureMoves
  <1>1. CASE signatures' = signatures
    BY <1>1 DEF SignatureMoves
  <1>2. ASSUME NEW p \in Workers, WorkflowStep(p)
        PROVE  SignatureMoves
    <2>1. CASE SignCall(p)
      BY <2>1, SignCallSignatures
    <2>2. CASE \/ \E w \in Work : List(p, w)
               \/ ValidateAddress(p)
               \/ ReserveFundsRead(p) \/ ReserveFundsCommit(p)
               \/ ReserveSequence(p) \/ ManagerReserve(p)
               \/ ReserveSequenceUnusable(p) \/ ReserveSequenceBind(p)
               \/ Build(p) \/ Simulate(p)
      BY <1>1, <2>2 DEF List, ValidateAddress, ReserveFundsRead, ReserveFundsCommit,
         ReserveSequence, ManagerReserve, ReserveSequenceUnusable, ReserveSequenceBind, Build, Simulate
    <2>3. CASE \/ SignCheck(p) \/ SignPersist(p) \/ SignReject(p)
               \/ BroadcastCheck(p) \/ BroadcastCall(p) \/ BroadcastCommit(p)
               \/ ConfirmBroadcast(p) \/ ConfirmIncluded(p) \/ ConfirmDepth(p)
               \/ Recover(p) \/ RecoverCommit(p) \/ Reconcile(p)
      BY <1>1, <2>3 DEF SignCheck, SignPersist, SignReject, BroadcastCheck, BroadcastCall,
         BroadcastCommit, ConfirmBroadcast, ConfirmIncluded, ConfirmDepth, Recover, RecoverCommit,
         Reconcile
    <2> QED BY <1>2, <2>1, <2>2, <2>3 DEF WorkflowStep
  <1>3. ASSUME NEW p \in Workers, Crash(p)
        PROVE  SignatureMoves
    BY <1>1, <1>3 DEF Crash
  <1>4. ASSUME NEW w \in Work, ExchangeStep(w) \/ ResolveReview(w)
        PROVE  SignatureMoves
    BY <1>1, <1>4 DEF ExchangeStep, Submit, ApproveCompliance, Cancel, ResolveReview
  <1>5. ASSUME NEW flow \in Pausable, Pause(flow)
        PROVE  SignatureMoves
    BY <1>1, <1>5 DEF Pause
  <1>6. CASE ChainStep
    BY <1>1, <1>6 DEF ChainStep
  <1> QED BY <1>2, <1>3, <1>4, <1>5, <1>6 DEF Next

(* The controls and the crash counter keep their types.                    *)
LEMMA NextControls ==
    ASSUME TypeOK, Next
    PROVE  paused' \subseteq {"signing", "broadcast"} /\ crashes' \in Nat
  <1>1. CASE UNCHANGED <<paused, crashes>>
    BY <1>1 DEF TypeOK
  <1>2. ASSUME NEW p \in Workers, Crash(p)
        PROVE  paused' \subseteq {"signing", "broadcast"} /\ crashes' \in Nat
    BY <1>2 DEF Crash, TypeOK
  <1>3. ASSUME NEW w \in Work, ExchangeStep(w) \/ ResolveReview(w)
        PROVE  UNCHANGED <<paused, crashes>>
    BY <1>3 DEF ExchangeStep, Submit, ApproveCompliance, Cancel, ResolveReview
  <1>4. ASSUME NEW flow \in Pausable, Pause(flow)
        PROVE  paused' \subseteq {"signing", "broadcast"} /\ crashes' \in Nat
    BY <1>4, WithdrawalsAssumption DEF Pause, TypeOK
  <1>5. CASE ChainStep
    BY <1>1, <1>5 DEF ChainStep
  <1> QED BY <1>1, <1>2, <1>3, <1>4, <1>5 DEF Next
-----------------------------------------------------------------------------
(* The inductive invariant *)

(* A signature that was ever made is for the sequence its record has: the  *)
(* sequence is bound once, before anything can be signed, and a retry of a *)
(* lost signature signs the same sequence again.                           *)
SignatureIsBound ==
    \A g \in signatures : wd[g.w].status \notin Unbound /\ g.seq = wd[g.w].seq

(* At most one record per idempotency key exists.                          *)
OneRecordPerKey ==
    \A v, w \in Work : /\ KeyOf[v] = KeyOf[w]
                       /\ wd[v].status # "NONE" /\ wd[w].status # "NONE"
                       => v = w

(* The slot of persisted bytes is never reservable again.                  *)
BytesHold == \A w \in Work : signedTx[w] # NoSlot => rows[signedTx[w]].status \in Held

(* The inductive invariant.                                                *)
IInv ==
    /\ TypeOK
    /\ JobsGood
    /\ SignedHasBytes
    /\ SignatureIsBound
    /\ OneRecordPerKey
    /\ BytesHold
    /\ NoSharedSequence

(* It holds initially.                                                     *)
LEMMA InitIInv == Init => IInv
  <1> SUFFICES ASSUME Init PROVE IInv
    OBVIOUS
  <1>1. TypeOK
    BY InitType
  <1>2. JobsGood
    BY DEF Init, JobsGood, JobGood, Idle, Signing
  <1>3. /\ \A w \in Work : wd[w].status = "NONE" /\ signedTx[w] = NoSlot
        /\ signatures = {}
    BY DEF Init, ReservationsInit
  <1> QED BY <1>1, <1>2, <1>3 DEF IInv, SignedHasBytes, SignatureIsBound, OneRecordPerKey,
          BytesHold, NoSharedSequence

(* Persisted bytes stay distinct: new ones are for a RESERVED slot, and    *)
(* the slots of the others are held.                                       *)
LEMMA BytesStep ==
    ASSUME TypeOK, BytesHold, NoSharedSequence, StoreStep
    PROVE  BytesHold' /\ NoSharedSequence'
  <1> StoreOK BY TypeStore
  <1>1. CASE signedTx' = signedTx
    <2>1. \A w \in Work : signedTx[w] # NoSlot => signedTx[w] \in Slots
      BY DEF StoreOK
    <2>2. BytesHold'
      BY <1>1, <2>1 DEF StoreStep, RowMoves, BytesHold
    <2> QED BY <1>1, <2>2 DEF NoSharedSequence
  <1>2. ASSUME NEW w \in Work, NEW s \in Slots,
               signedTx' = [signedTx EXCEPT ![w] = s],
               rows[s].status = "RESERVED", rows'[s].status = "SIGNED"
        PROVE  BytesHold' /\ NoSharedSequence'
    <2>1. signedTx'[w] = s /\ \A v \in Work \ {w} : signedTx'[v] = signedTx[v]
      BY <1>2 DEF StoreOK
    <2>2. \A v \in Work \ {w} : signedTx[v] # NoSlot =>
              signedTx[v] \in Slots /\ rows[signedTx[v]].status \in Held
      BY DEF StoreOK, BytesHold
    <2>3. "RESERVED" \notin Held /\ "SIGNED" \in Held
      BY DEF Held
    <2>4. \A v \in Work \ {w} : signedTx'[v] # s
      <3> SUFFICES ASSUME NEW v \in Work \ {w}, signedTx[v] = s PROVE FALSE
        BY <2>1
      <3> QED BY <1>2, <2>2, <2>3, ChainAssumption DEF Slots, NoSlot
    <2>5. BytesHold'
      BY <1>2, <2>1, <2>2, <2>3 DEF StoreStep, RowMoves, BytesHold
    <2>6. NoSharedSequence'
      <3> SUFFICES ASSUME NEW u \in Work, NEW v \in Work, u # v, signedTx'[u] # NoSlot
                   PROVE  signedTx'[u] # signedTx'[v]
        BY DEF NoSharedSequence
      <3>1. CASE u = w
        BY <2>1, <2>4, <3>1
      <3>2. CASE v = w
        BY <2>1, <2>4, <3>2
      <3>3. CASE u # w /\ v # w
        BY <2>1, <3>3 DEF NoSharedSequence
      <3> QED BY <3>1, <3>2, <3>3
    <2> QED BY <2>5, <2>6
  <1> QED BY <1>1, <1>2 DEF StoreStep, BytesMoves

(* Submit creates the only record of its key.                              *)
LEMMA KeyStep ==
    ASSUME OneRecordPerKey, RecordMoves
    PROVE  OneRecordPerKey'
  <1> SUFFICES ASSUME NEW v \in Work, NEW w \in Work, KeyOf[v] = KeyOf[w],
                      wd'[v].status # "NONE", wd'[w].status # "NONE", v # w
               PROVE  FALSE
    BY DEF OneRecordPerKey
  <1>1. \A u \in Work : wd[u].status = "NONE" /\ wd'[u].status # "NONE" =>
          \A x \in Work : KeyOf[x] = KeyOf[u] => wd[x].status = "NONE" /\ (x = u \/ wd'[x] = wd[x])
    BY TableClosed DEF RecordMoves, WithdrawalStatuses, PreSignedStatuses
  <1>2. CASE wd[v].status = "NONE"
    BY <1>1, <1>2
  <1>3. CASE wd[w].status = "NONE"
    BY <1>1, <1>3
  <1>4. CASE wd[v].status # "NONE" /\ wd[w].status # "NONE"
    BY <1>4 DEF OneRecordPerKey
  <1> QED BY <1>2, <1>3, <1>4

(* Old signatures agree with their records, and so does a new one.         *)
LEMMA SignatureStep ==
    ASSUME TypeOK, SignatureIsBound, RecordMoves, SignatureMoves
    PROVE  signatures' \subseteq Txs /\ SignatureIsBound'
  <1>1. \A g \in signatures : g.w \in Work
    BY DEF TypeOK, Txs
  <1>2. \A g \in signatures : wd'[g.w].status \notin Unbound /\ g.seq = wd'[g.w].seq
    BY <1>1, BoundStays DEF SignatureIsBound
  <1>3. CASE signatures' = signatures
    BY <1>2, <1>3 DEF TypeOK, SignatureIsBound
  <1>4. ASSUME NEW w \in Work, wd[w].status \notin Unbound, wd[w].seq \in Slots,
               signatures' = signatures \cup {[w |-> w, seq |-> wd[w].seq]}
        PROVE  signatures' \subseteq Txs /\ SignatureIsBound'
    <2>1. [w |-> w, seq |-> wd[w].seq] \in Txs
      BY <1>4 DEF Txs
    <2>2. wd'[w].status \notin Unbound /\ wd'[w].seq = wd[w].seq
      BY <1>4, BoundStays
    <2> QED BY <1>2, <1>4, <2>1, <2>2 DEF TypeOK, SignatureIsBound
  <1> QED BY <1>3, <1>4 DEF SignatureMoves

(* A record becomes SIGNED together with its bytes.                        *)
LEMMA SignedStep ==
    ASSUME TypeOK, SignedHasBytes, StoreStep
    PROVE  SignedHasBytes'
  <1> SUFFICES ASSUME NEW w \in Work, wd'[w].status = "SIGNED" PROVE signedTx'[w] # NoSlot
    BY DEF SignedHasBytes
  <1>1. CASE wd'[w] = wd[w]
    BY <1>1, BytesStay, TypeStore DEF SignedHasBytes, StoreStep
  <1> QED BY <1>1 DEF StoreStep, RecordMoves

(* Every step preserves the inductive invariant.                           *)
LEMMA NextIInv ==
    ASSUME IInv, [Next]_vars
    PROVE  IInv' /\ RowMoves
  <1> USE DEF IInv
  <1>1. CASE Next
    <2>1. StoreStep
      BY <1>1, NextStore
    <2>2. job' \in [Workers -> Jobs] /\ JobsGood'
      BY <1>1, <2>1, NextJobs
    <2>3. signatures' \subseteq Txs /\ SignatureIsBound'
      BY <1>1, <2>1, NextSignatures, SignatureStep DEF StoreStep
    <2>4. TypeOK'
      BY <1>1, <2>1, <2>2, <2>3, NextChain, NextControls DEF TypeOK, StoreStep, StoreOK
    <2> QED BY <2>1, <2>2, <2>3, <2>4, BytesStep, KeyStep, SignedStep DEF StoreStep
  <1>2. CASE UNCHANGED vars
    <2> USE <1>2 DEF vars, chainVars, storeVars
    <2>1. TypeOK'
      BY DEF TypeOK, ChainTypeOK
    <2>2. JobsGood' /\ SignedHasBytes' /\ SignatureIsBound'
      BY DEF JobsGood, JobGood, SignedHasBytes, SignatureIsBound
    <2>3. OneRecordPerKey' /\ BytesHold' /\ NoSharedSequence' /\ RowMoves
      BY DEF OneRecordPerKey, BytesHold, NoSharedSequence, RowMoves
    <2> QED BY <2>1, <2>2, <2>3
  <1> QED BY <1>1, <1>2
-----------------------------------------------------------------------------
(* The theorems *)

(* The inductive invariant holds in every reachable state, for any number  *)
(* of withdrawals, workers, slots, crashes and outside transactions.       *)
THEOREM InductiveInvariant == Spec => []IInv
  BY InitIInv, NextIInv, PTL DEF Spec

(* Every variable keeps its type: every status the code writes is one of   *)
(* the tables in storage/transitions.go, every slot that is bound, signed  *)
(* or broadcast is a reservable one, and the balance is never overdrawn.   *)
THEOREM TypeCorrect == Spec => []TypeOK
  <1>1. IInv => TypeOK
    BY DEF IInv
  <1> QED BY <1>1, InductiveInvariant, PTL

(* Submit's promise: whatever crashes, retries and lost signatures happen, *)
(* and however many drivers run, all the signatures ever made for one      *)
(* idempotency key are for one withdrawal and one account sequence.        *)
THEOREM OneTransactionPerKey == Spec => []OneSignedTxPerKey
  <1>1. IInv => OneSignedTxPerKey
    <2> SUFFICES ASSUME IInv, NEW s \in signatures, NEW t \in signatures,
                        KeyOf[s.w] = KeyOf[t.w]
                 PROVE  s = t
      BY DEF OneSignedTxPerKey
    <2>1. s \in Txs /\ t \in Txs
      BY DEF IInv, TypeOK
    <2>2. wd[s.w].status # "NONE" /\ wd[t.w].status # "NONE"
      BY DEF IInv, SignatureIsBound, Unbound
    <2>3. s.w = t.w
      BY <2>1, <2>2 DEF IInv, OneRecordPerKey, Txs
    <2>4. s.seq = t.seq
      BY <2>3 DEF IInv, SignatureIsBound
    <2> QED BY <2>1, <2>3, <2>4 DEF Txs
  <1> QED BY <1>1, InductiveInvariant, PTL

(* The sequence manager's promise: two withdrawals never hold persisted    *)
(* signed bytes for the same account sequence, with any number of drivers. *)
THEOREM DistinctSequences == Spec => []NoSharedSequence
  <1>1. IInv => NoSharedSequence
    BY DEF IInv
  <1> QED BY <1>1, InductiveInvariant, PTL

(* A slot that may have been signed is never released and never given to   *)
(* another work item, by the workflow, the startup reconciliation or the   *)
(* operator's resolution.                                                  *)
THEOREM SlotsNeverReissued == Spec => NeverReissued
  <1>1. ASSUME IInv, [Next]_vars
        PROVE  [\A s \in Slots : rows[s].status \in Held =>
                   rows'[s].owner = rows[s].owner /\ rows'[s].status \in Held]_vars
    BY <1>1, NextIInv DEF RowMoves
  <1>2. [\A s \in Slots : rows[s].status \in Held =>
                   rows'[s].owner = rows[s].owner /\ rows'[s].status \in Held]_vars
        => [\A s \in Slots :
              rows[s].status \in {"SIGNED", "BROADCAST", "RECONCILIATION_REQUIRED", "CONSUMED"}
              => rows'[s].owner = rows[s].owner /\ rows'[s].status \notin {"RESERVED", "RELEASED"}]_vars
    BY DEF Held
  <1> QED BY <1>1, <1>2, InductiveInvariant, PTL DEF Spec, NeverReissued
=============================================================================

----------------------------- MODULE SequenceManager --------------------------
(***************************************************************************)
(* The durable sequence manager (go/sequences/manager.go) over the table   *)
(* sequence_reservations (go/storage/internal/sqlstore/sequences.go), for  *)
(* one (chain_id, source_address) account; accounts do not share rows.     *)
(*                                                                         *)
(* A row is identified by its slot, the account sequence it reserves:      *)
(* UNIQUE(chain_id, source_address, sequence) allows one row per slot,     *)
(* rows are never deleted, and a RELEASED row that is reclaimed keeps its  *)
(* id.  UNIQUE(work_kind, work_id) allows one row per work item.           *)
(*                                                                         *)
(* A worker is one thread of control that calls the manager.  Its local    *)
(* variables are in job[p]: what it read from the store or from the chain  *)
(* outside a transaction stays there, possibly stale, until the            *)
(* transaction that uses it.  A storage transaction is one action.         *)
(***************************************************************************)
EXTENDS Chain, Storage, SequenceRules

CONSTANTS Drivers,  \* workers of the adapter: drive withdrawals, reconcile at startup
          Callers,  \* workers of the exchange: call the recovery API
          NoWork

Workers == Drivers \cup Callers

ASSUME WorkersAssumption == NoWork \notin Work

VARIABLES rows,      \* rows[s]: the reservation of slot s
          signedTx,  \* signedTx[w]: sequence in the persisted signed bytes of w
          job        \* job[p]: the locals of worker p

NoSlot == -1

NoRow == [status |-> "NONE", owner |-> NoWork]

Rows == {NoRow} \cup [status : SequenceStatuses, owner : Work]

(* pc: where the worker is; w: its work item; slot: a slot it read or was  *)
(* given; seen: a status or an answer it read; n: a number it read from    *)
(* the chain; todo: the rows ListUnconsumed returned to ReconcileAccount.  *)
Idle == [pc |-> "idle", w |-> NoWork, slot |-> NoSlot, seen |-> "", n |-> 0, todo |-> {}]

Down == [Idle EXCEPT !.pc = "down"]

TodoItems == [slot : Slots, owner : Work, status : SequenceStatuses]

ReservationsInit ==
    /\ rows = [s \in Slots |-> NoRow]
    /\ signedTx = [w \in Work |-> NoSlot]

(* GetByWorkRef: the slot bound to w; there is at most one.                *)
SlotsOf(w) == {s \in Slots : rows[s].status # "NONE" /\ rows[s].owner = w}

HasRow(w) == SlotsOf(w) # {}

SlotOf(w) == CHOOSE s \in SlotsOf(w) : TRUE

(* ListUnconsumed                                                          *)
OpenSlots == {s \in Slots : rows[s].status \notin {"NONE", "CONSUMED", "RELEASED"}}

(* Repository UpdateStatus on a row: the compare-and-set.                  *)
RowIs(s, from, to) == rows[s].status = from /\ SequenceMoveLegal(from, to)

MoveRow(s, to) == [rows EXCEPT ![s].status = to]

(* Like UpdateStatus with ErrStatusConflict tolerated by the caller.       *)
MoveRowIf(s, from, to) == IF RowIs(s, from, to) THEN MoveRow(s, to) ELSE rows
-----------------------------------------------------------------------------
(* Manager.Reserve *)

(* Chain truth reconciled with the open reservations: the first slot at or *)
(* above the chain sequence that is above every open one.                  *)
NextSlot(seq) == FirstFreeSlot(OpenSlots, seq)

(* The slot this call goes for: a work item whose reservation was RELEASED *)
(* is bound to the same slot again.                                        *)
TargetSlot(p) == IF job[p].slot # NoSlot THEN job[p].slot ELSE NextSlot(job[p].n)

(* Repository Reserve succeeds on a free slot or a RELEASED one, unless    *)
(* the work item has a row elsewhere; anything else is ErrDuplicate.       *)
SlotReservable(w, s) ==
    /\ rows[s].status \in {"NONE", "RELEASED"}
    /\ SlotsOf(w) \subseteq {s}

(* The first read, outside any transaction: a live reservation of w is     *)
(* returned as it is, a RELEASED one is remembered.                        *)
ReserveLookup(p) ==
    LET w == job[p].w IN
    /\ job[p].pc = "seqLookup"
    /\ job' = [job EXCEPT ![p] =
          IF ~HasRow(w) THEN [@ EXCEPT !.pc = "seqAccount"]
          ELSE IF rows[SlotOf(w)].status = "RELEASED"
               THEN [@ EXCEPT !.pc = "seqAccount", !.slot = SlotOf(w)]
               ELSE [@ EXCEPT !.pc = "seqBind", !.slot = SlotOf(w)]]
    /\ UNCHANGED <<rows, signedTx>>

(* The account query, outside any transaction; it may fail.                *)
ReserveAccount(p) ==
    /\ job[p].pc = "seqAccount"
    /\ \/ job' = [job EXCEPT ![p] = [@ EXCEPT !.pc = "seqInsert", !.n = chainSeq]]
       \/ job' = [job EXCEPT ![p] = Idle]
    /\ UNCHANGED <<rows, signedTx>>

(* Mutant: the chain sequence alone, upserted over whatever row is there.  *)
ReserveInsertUpsert(p) ==
    /\ job[p].pc = "seqInsert"
    /\ job[p].n \in Slots
    /\ rows' = [rows EXCEPT ![job[p].n] = [status |-> "RESERVED", owner |-> job[p].w]]
    /\ job' = [job EXCEPT ![p] = [@ EXCEPT !.pc = "seqBind", !.slot = job[p].n]]
    /\ UNCHANGED signedTx

(* The transaction under the account lock.  A remembered slot below the    *)
(* chain sequence that was read is unusable.  On ErrDuplicate the row that *)
(* is bound to the work item by now, if any, is the result.                *)
ReserveInsert(p) ==
    LET w == job[p].w
        next == TargetSlot(p)
    IN
    /\ job[p].pc = "seqInsert"
    /\ next \in Slots
    /\ \/ /\ job[p].slot # NoSlot /\ job[p].slot < job[p].n
          /\ job' = [job EXCEPT ![p].pc = "seqUnusable"]
          /\ UNCHANGED rows
       \/ /\ ~(job[p].slot # NoSlot /\ job[p].slot < job[p].n)
          /\ SlotReservable(w, next)
          /\ rows' = [rows EXCEPT ![next] = [status |-> "RESERVED", owner |-> w]]
          /\ job' = [job EXCEPT ![p] = [@ EXCEPT !.pc = "seqBind", !.slot = next]]
       \/ /\ ~(job[p].slot # NoSlot /\ job[p].slot < job[p].n)
          /\ ~SlotReservable(w, next)
          /\ job' = [job EXCEPT ![p] =
                        IF HasRow(w) THEN [@ EXCEPT !.pc = "seqBind", !.slot = SlotOf(w)]
                                     ELSE Idle]
          /\ UNCHANGED rows
    /\ UNCHANGED signedTx
-----------------------------------------------------------------------------
(* Manager.ReconcileAccount *)

(* What workFacts and the Tx search may answer for a work item.            *)
Lookups(w) ==
    {"unreadable", "notfound"}
      \cup (IF signedTx[w] = NoSlot THEN {} ELSE {"error"})
      \cup (IF signedTx[w] # NoSlot /\ Included([w |-> w, seq |-> signedTx[w]])
            THEN {"found"} ELSE {})

(* A driver that starts lists the open reservations; when the account      *)
(* query or the listing fails the service refuses to start.                *)
ReconcileList(p) ==
    /\ job[p].pc = "down"
    /\ job' = [job EXCEPT ![p] = [@ EXCEPT !.pc = "reconcile",
          !.todo = {[slot |-> s, owner |-> rows[s].owner, status |-> rows[s].status]
                       : s \in OpenSlots}]]
    /\ UNCHANGED <<rows, signedTx>>

(* The listed rows are resolved in slot order, each with a compare-and-set *)
(* on the status that was listed.  A conflict is skipped; a move the table *)
(* forbids fails the pass, and the service does not start.                 *)
ReconcileRow(p) ==
    /\ job[p].pc = "reconcile"
    /\ \E r \in job[p].todo :
         /\ \A o \in job[p].todo : r.slot <= o.slot
         /\ \E lookup \in Lookups(r.owner) :
              LET to == resolve(r.status, signedTx[r.owner] # NoSlot, lookup) IN
              /\ rows' = MoveRowIf(r.slot, r.status, to)
              /\ job' = [job EXCEPT ![p] =
                            IF to = r.status \/ SequenceMoveLegal(r.status, to)
                            THEN [job[p] EXCEPT !.todo = @ \ {r}]
                            ELSE Down]
    /\ UNCHANGED signedTx

ReconcileDone(p) ==
    /\ job[p].pc = "reconcile"
    /\ job[p].todo = {}
    /\ job' = [job EXCEPT ![p] = Idle]
    /\ UNCHANGED <<rows, signedTx>>
-----------------------------------------------------------------------------
(* Manager.RebroadcastPersisted: the search by hash, and only when the     *)
(* transaction is not found the identical bytes again.  A failed search is *)
(* an error without a broadcast.                                           *)
RebroadcastPersisted(t, result) ==
    \/ result = "included" /\ Included(t) /\ UNCHANGED mempool
    \/ BroadcastAnswer(t, result)
=============================================================================

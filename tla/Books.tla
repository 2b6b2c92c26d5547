-------------------------------- MODULE Books --------------------------------
(***************************************************************************)
(* The ledger and its reconciliation.  A chain executes transactions       *)
(* (Bank), the scanner records what ParseBlockTransfers finds in each      *)
(* block (RecordBlock), and the reconciler compares the ledger with the    *)
(* live balances (reconcile.go, business.go, schedule.go).  Addresses join *)
(* the watch set late and an operator rescans, so the same block is parsed *)
(* again under another watch set.                                          *)
(*                                                                         *)
(* Crediting and the withdrawal and sweep workflows appear only as the     *)
(* statuses the reconciler reads: Deposits, Withdrawals and Sweeps model   *)
(* them.                                                                   *)
(***************************************************************************)
EXTENDS Integers, Sequences, FiniteSets, SequencesExt, FiniteSetsExt

CONSTANTS
    Accounts, NoAddr, NoIndex, RecognizedMemos,
    Txs,          \* the transactions that may be included
    BlockEvents,  \* the finalize_block_events a block may carry
    Genesis,      \* the balances before the first block
    Funding,      \* the transaction of the first block
    AtGenesis,    \* the rows of the watch table at the start
    Late,         \* the rows that may be added later
    Jobs,         \* hash -> [kind, source, hot, amt, fee] of the txs sent by workflows
    ListOrder,    \* ListActive returns the addresses in this order
    MaxHeight, MaxRescans, MaxReports

VARIABLES
    blocks,       \* the chain
    watch,        \* the watch table
    checkpoint,   \* the last fully processed height
    ledger,       \* ledger_entries in order of their ids
    fees,         \* fee_outflows
    deposits,     \* deposit records, by identity
    status,       \* hash -> status of the workflow record that sent it
    cursors,      \* NearRealTimePass: address -> last ledger id read
    report,       \* the last report: did it find a discrepancy, was it stored
    covered,      \* history: the heights recorded while an address was watched
    reports, rescans

vars == <<blocks, watch, checkpoint, ledger, fees, deposits, status,
          cursors, report, covered, reports, rescans>>
bookVars == <<checkpoint, ledger, fees, deposits, covered>>
reconVars == <<cursors, report, reports>>

INSTANCE Transfers
B == INSTANCE Bank
TS == INSTANCE TransfersTS

-----------------------------------------------------------------------------
(* The chain.                                                              *)

Height == Len(blocks)
BalanceAt(h) == IF h = 0 THEN Genesis ELSE blocks[h].bal
Balance(a) == BalanceAt(Height)[a]

(* What the events of the block itself pay out, from the module account.   *)
Paid(bal, events) ==
    FoldLeft(LAMBDA b, e : IF e.type = "coin_received"
                           THEN [b EXCEPT ![e.in] = @ + usovrAmount(e.amount)]
                           ELSE IF e.type = "coin_spent"
                           THEN [b EXCEPT ![e.out] = @ - usovrAmount(e.amount)] ELSE b,
             bal, events)

NewBlock(h, bal, txs, events) ==
    LET run == [i \in DOMAIN txs |-> B!Execute(txs[i], bal)]
        end == IF txs = <<>> THEN bal ELSE run[1].bal
    IN  [height |-> h, txs |-> txs,
         results |-> [height |-> h, events |-> events,
                      txs |-> [i \in DOMAIN txs |-> run[i].res]],
         bal |-> Paid(end, events)]

Included == {blocks[h].txs[1].hash : h \in {h \in 1..Height : blocks[h].txs # <<>>}}
HeightOf(hash) == CHOOSE h \in 1..Height :
                    blocks[h].txs # <<>> /\ blocks[h].txs[1].hash = hash

Produce(txs, events) ==
    /\ Height < MaxHeight
    /\ \A i \in DOMAIN txs : txs[i].hash \notin Included
    /\ blocks' = Append(blocks, NewBlock(Height + 1, BalanceAt(Height), txs, events))
    /\ UNCHANGED <<watch, bookVars, status, reconVars, rescans>>

-----------------------------------------------------------------------------
(* The scanner.                                                            *)

(* UNIQUE(chain_id, tx_hash, message_index, op_index) of TX rows and       *)
(* UNIQUE(chain_id, block_height, event_index) of BLOCK_EVENT rows.        *)
RowKey(r) == IF r.kind = "TX" THEN <<r.tx, r.msg, r.op>> ELSE <<r.height, r.op>>

LedgerEntry(kind, h, tx, msg, op, r, class) ==
    [kind |-> kind, height |-> h, tx |-> tx, msg |-> msg, op |-> op,
     dir |-> r.dir, addr |-> r.addr, amt |-> r.amt,
     code |-> IF kind = "TX" THEN r.code ELSE 0, class |-> class]

(* The rows RecordBlock appends.  Their keys differ (ReviewOpIndexBase,    *)
(* OUT rows after the coins), so their order decides their ids only.       *)
LedgerRows(bp, h) ==
    {LedgerEntry("TX", h, r.tx, r.msg, r.op, r, r.class) : r \in bp.transfers}
    \cup {LedgerEntry("TX", h, r.tx, r.msg, r.op, r, "UNATTRIBUTED_REVIEW") :
            r \in bp.reviewCandidates}
    \cup {LedgerEntry("BLOCK_EVENT", h, NoAddr, NoIndex, r.op, r, "UNATTRIBUTED_REVIEW") :
            r \in bp.blockEvents}

Stored(rows) == {RowKey(rows[i]) : i \in DOMAIN rows}

(* A plausible bug: a replayed row replaces the stored one.                *)
AppendRowUpsert(rows, r) ==
    IF RowKey(r) \in Stored(rows)
    THEN [i \in DOMAIN rows |-> IF RowKey(rows[i]) = RowKey(r) THEN r ELSE rows[i]]
    ELSE Append(rows, r)

(* Append of a key that exists is ErrDuplicate, which RecordBlock skips.   *)
AppendRow(rows, r) == IF RowKey(r) \in Stored(rows) THEN rows ELSE Append(rows, r)

(* recordDeposit runs for every external row, fresh or not; its own key    *)
(* makes it idempotent.  A failed transaction's record is REJECTED.        *)
DepositsOf(bp) ==
    {[tx |-> r.tx, msg |-> r.msg, coin |-> r.coin, addr |-> r.addr, amt |-> r.amt,
      op |-> r.op, open |-> r.code = 0 /\ ~r.review] :
        r \in {r \in bp.transfers : r.dir = "IN" /\ r.class = "EXTERNAL_DEPOSIT"}}

DepositKey(d) == <<d.tx, d.msg, d.coin, d.addr>>

Parsed(h) == ParseBlockTransfers(blocks[h], blocks[h].results, NewWatchSet(watch))

(* A plausible bug: what a failed transaction paid is not recorded.        *)
FeeRowsSuccessful(bp, h) ==
    {[tx |-> f.tx, payer |-> f.payer, fee |-> f.fee, code |-> f.code, height |-> h] :
        f \in {f \in bp.feeDeductions : f.code = 0}}

FeeRows(bp, h) ==
    {[tx |-> f.tx, payer |-> f.payer, fee |-> f.fee, code |-> f.code, height |-> h] :
        f \in bp.feeDeductions}

(* RecordBlock, with the checkpoint in the same database transaction.      *)
RecordBlock ==
    LET h == checkpoint + 1
        bp == Parsed(h)
    IN  /\ h <= Height
        /\ Belongs(blocks[h], blocks[h].results)
        /\ ledger' = FoldSet(LAMBDA r, rows : AppendRow(rows, r), ledger, LedgerRows(bp, h))
        /\ fees' = fees \cup {f \in FeeRows(bp, h) : \A g \in fees : g.tx # f.tx}
        /\ deposits' = deposits \cup
                {d \in DepositsOf(bp) : \A e \in deposits : DepositKey(e) # DepositKey(d)}
        /\ checkpoint' = h
        /\ covered' = [a \in Accounts |->
                IF a \in DOMAIN NewWatchSet(watch) THEN covered[a] \cup {h} ELSE covered[a]]
        /\ UNCHANGED <<blocks, watch, status, reconVars, rescans>>

(* resume-from: the scanner starts again at height h (see Deposits).       *)
ResumeFrom(h) ==
    /\ rescans < MaxRescans
    /\ rescans' = rescans + 1
    /\ checkpoint' = h - 1
    /\ UNCHANGED <<blocks, watch, ledger, fees, deposits, covered, status, reconVars>>

(* The exchange adds an address (seedWatchSet at startup, or its own       *)
(* writes to the table).                                                   *)
Enrol(a) ==
    /\ a \notin DOMAIN watch
    /\ watch' = [b \in DOMAIN watch \cup {a} |-> IF b = a THEN Late[a] ELSE watch[b]]
    /\ UNCHANGED <<blocks, bookVars, status, reconVars, rescans>>

-----------------------------------------------------------------------------
(* The workflows, as far as the reconciler reads them.                     *)

SetStatus(t, st) ==
    /\ status' = [status EXCEPT ![t] = st]
    /\ UNCHANGED <<blocks, watch, bookVars, reconVars, rescans>>

(* The broadcast reaches a node before the status is written, so the chain *)
(* may include the transaction while its record is still SIGNED.           *)
MarkBroadcast(t) == status[t] = "SIGNED" /\ SetStatus(t, "BROADCAST")

MarkIncluded(t) ==
    /\ Jobs[t].kind = "withdrawal" /\ status[t] = "BROADCAST" /\ t \in Included
    /\ SetStatus(t, "INCLUDED")

MarkFinal(t) ==
    /\ t \in Included
    /\ status[t] = IF Jobs[t].kind = "withdrawal" THEN "INCLUDED" ELSE "BROADCAST"
    /\ SetStatus(t, IF blocks[HeightOf(t)].results.txs[1].code = 0
                    THEN "CONFIRMED" ELSE "FAILED")

-----------------------------------------------------------------------------
(* The reconciler.                                                         *)

RowsOf(a) == {i \in DOMAIN ledger : ledger[i].addr = a}

Total(rows) == MapThenSumSet(LAMBDA i : ledger[i].amt, rows)


CountedRows(a) == {i \in RowsOf(a) : ledger[i].code = 0}

FeesOf(a) == {f \in fees : f.payer = a}

ExpectedBalance(a) ==
    LET rows == CountedRows(a)
    IN  [expected |-> Total({i \in rows : ledger[i].dir = "IN"})
                      - Total({i \in rows : ledger[i].dir = "OUT"})
                      - MapThenSumSet(LAMBDA f : f.fee, FeesOf(a)),
         earliest |-> LET hs == {ledger[i].height : i \in rows} \cup {f.height : f \in FeesOf(a)}
                      IN  IF hs = {} THEN 0 ELSE Min(hs)]

recommendedRescan(earliest) == IF earliest = 0 THEN 1 ELSE earliest

Entry(a, expected, observed, earliest) ==
    [addr |-> a, expected |-> expected, observed |-> observed,
     rescan |-> IF expected = observed THEN 0 ELSE recommendedRescan(earliest)]

Differs(e) == e.expected # e.observed

ReconcileAddress(a) ==
    LET pos == ExpectedBalance(a)
    IN  Entry(a, pos.expected, Balance(a), pos.earliest)

signedAmount(dir, amt) == IF dir = "IN" THEN amt ELSE -amt

(* ReconcileTx: the transaction parsed again under the present watch set,  *)
(* against the rows stored for it.  Event-derived rows are not compared.   *)
TxEntries(t) ==
    LET h == HeightOf(t)
        bp == ParseBlockTransfers(blocks[h], [blocks[h].results EXCEPT !.events = <<>>],
                                  NewWatchSet(watch))
        stored(c) == {i \in DOMAIN ledger :
                        ledger[i].kind = "TX" /\ RowKey(ledger[i]) = <<c.tx, c.msg, c.op>>}
        held(c) == MapThenSumSet(LAMBDA i : signedAmount(ledger[i].dir, ledger[i].amt),
                                 stored(c))
        known(f) == \E g \in fees : /\ g.payer = f.payer /\ g.height = h
                                    /\ g.tx = t /\ g.fee = f.fee
    IN  IF t \notin Included THEN {}
        ELSE {e \in {Entry(c.addr, held(c), signedAmount(c.dir, c.amt), h) :
                        c \in {c \in bp.transfers : c.code = 0}} : Differs(e)}
             \cup {Entry(f.payer, 0, -f.fee, h) : f \in {f \in bp.feeDeductions : ~known(f)}}

(* amountText: a negative expected or observed amount is an error, and the *)
(* report is not stored.                                                   *)
Storable(entries) == \A e \in entries : e.expected >= 0 /\ e.observed >= 0

(* finishReport: a clean near-real-time report is not stored.              *)
finishReport(kind, entries) ==
    [found |-> \E e \in entries : Differs(e),
     stored |-> /\ Storable(entries)
                /\ kind = "TX_NEAR_REAL_TIME" => \E e \in entries : Differs(e)]

Active == DOMAIN NewWatchSet(watch)
isOperationalWallet(a) == watch[a].kind \in {"HOT_WALLET", "COLD_WALLET", "FEE_WALLET"}

Run(kind) ==
    LET scope == IF kind = "WALLET_HOURLY"
                 THEN {a \in Active : isOperationalWallet(a)} ELSE Active
    IN  /\ report' = finishReport(kind, {ReconcileAddress(a) : a \in scope})
        /\ UNCHANGED <<blocks, watch, bookVars, status, cursors, rescans>>

(* POST /v1/reconcile/address and /v1/reconcile/tx.                        *)
ReconcileNow(entries) ==
    /\ report' = finishReport("MANUAL", entries)
    /\ UNCHANGED <<blocks, watch, bookVars, status, cursors, rescans>>

(* The transactions of the rows of an address after its cursor.            *)
NewTxs(a) == {ledger[i].tx : i \in {i \in RowsOf(a) : i > cursors[a] /\ ledger[i].kind = "TX"}}

(* A report that cannot be stored is the error that ends the pass.         *)
PassFails(a) == \E t \in NewTxs(a) : ~Storable(TxEntries(t))

(* NearRealTimePass: address by address; the addresses before the first    *)
(* one that fails move their cursors.                                      *)
NearRealTimePass ==
    LET order == SelectSeq(ListOrder, LAMBDA a : a \in Active)
        failing == {i \in DOMAIN order : PassFails(order[i])}
        done == IF failing = {} THEN ToSet(order)
                ELSE {order[i] : i \in 1..Min(failing) - 1}
        read == UNION {NewTxs(a) : a \in done}
        failed == IF failing = {} THEN {} ELSE {order[Min(failing)]}
        found == \E t \in read \cup UNION {NewTxs(a) : a \in failed} : TxEntries(t) # {}
    IN  /\ cursors' = [a \in Accounts |->
                          IF a \in done THEN Max(RowsOf(a) \cup {cursors[a]}) ELSE cursors[a]]
        /\ report' = [found |-> found, stored |-> found /\ failing = {}]
        /\ UNCHANGED <<blocks, watch, bookVars, status, rescans>>

-----------------------------------------------------------------------------
(* The hot-wallet comparison and the business section, which takes every   *)
(* deposit that may be credited for credited.                              *)

JobsIn(kind, sts) == {t \in DOMAIN Jobs : Jobs[t].kind = kind /\ status[t] \in sts}


(* Withdrawals count with their fee, sweeps with their amount only.        *)
UnconfirmedOutflow(a) ==
    MapThenSumSet(LAMBDA t : Jobs[t].amt + Jobs[t].fee,
                  {t \in JobsIn("withdrawal", {"BROADCAST", "INCLUDED"}) : Jobs[t].source = a})
    + MapThenSumSet(LAMBDA t : Jobs[t].amt,
                    {t \in JobsIn("sweep", {"BROADCAST"}) : Jobs[t].source = a})

UnconfirmedInflow(a) ==
    MapThenSumSet(LAMBDA t : Jobs[t].amt,
                  {t \in JobsIn("sweep", {"BROADCAST"}) : Jobs[t].hot = a /\ Jobs[t].source # a})

(* HotWallet(a).Explained.                                                 *)
HotWalletExplained(a) ==
    LET difference == Balance(a) - ExpectedBalance(a).expected
    IN  IF difference < 0 THEN -difference <= UnconfirmedOutflow(a)
        ELSE difference <= UnconfirmedInflow(a)

LedgerTotal(class, dir) ==
    Total({i \in UNION {CountedRows(a) : a \in Active} :
              ledger[i].class = class /\ ledger[i].dir = dir})

Business ==
    [uncredited |-> LedgerTotal("EXTERNAL_DEPOSIT", "IN")
                    - MapThenSumSet(LAMBDA d : d.amt, {d \in deposits : d.open}),
     withdrawals |-> LedgerTotal("WITHDRAWAL", "OUT")
                     - MapThenSumSet(LAMBDA t : Jobs[t].amt, JobsIn("withdrawal", {"CONFIRMED"})),
     sweeps |-> LedgerTotal("SWEEP", "IN")
                - MapThenSumSet(LAMBDA t : Jobs[t].amt, JobsIn("sweep", {"CONFIRMED"}))]

-----------------------------------------------------------------------------
Init ==
    /\ blocks = <<NewBlock(1, Genesis, <<Funding>>, <<>>)>>
    /\ watch = AtGenesis
    /\ checkpoint = 0 /\ ledger = <<>> /\ fees = {} /\ deposits = {}
    /\ status = [t \in DOMAIN Jobs |-> "SIGNED"]
    /\ cursors = [a \in Accounts |-> 0]
    /\ report = [found |-> FALSE, stored |-> TRUE]
    /\ covered = [a \in Accounts |-> {}]
    /\ reports = 0 /\ rescans = 0

ChainStep ==
    \/ \E tx \in Txs : Produce(<<tx>>, <<>>)
    \/ \E events \in BlockEvents : Produce(<<>>, events)

ScannerStep == RecordBlock \/ \E h \in 1..checkpoint : ResumeFrom(h)

WorkflowStep ==
    \E t \in DOMAIN Jobs : MarkBroadcast(t) \/ MarkIncluded(t) \/ MarkFinal(t)

ReconcilerStep ==
    /\ reports < MaxReports
    /\ reports' = reports + 1
    /\ \/ \E kind \in {"WALLET_HOURLY", "ADDRESS_DAILY"} : Run(kind)
       \/ \E a \in Active : ReconcileNow({ReconcileAddress(a)})
       \/ \E t \in Included : ReconcileNow(TxEntries(t))
       \/ NearRealTimePass

Next ==
    \/ ChainStep \/ ScannerStep \/ WorkflowStep \/ ReconcilerStep
    \/ \E a \in DOMAIN Late : Enrol(a)

Spec == Init /\ [][Next]_vars

-----------------------------------------------------------------------------
Recorded == Max({0} \cup UNION {covered[a] : a \in Accounts})

(* An address watched while every recorded block was parsed, the first     *)
(* time or by a rescan.                                                    *)
Complete(a) == a \in Active /\ covered[a] = 1..Recorded


(* recordDeposit runs for rows the ledger already holds: still, a deposit  *)
(* that may be credited is an EXTERNAL_DEPOSIT row of the ledger, so the   *)
(* uncredited bucket of Business is never negative.                        *)
DepositsAreLedgered ==
    /\ \A d \in deposits : \E i \in DOMAIN ledger :
          /\ RowKey(ledger[i]) = <<d.tx, d.msg, d.op>> /\ ledger[i].addr = d.addr
          /\ ledger[i].class = "EXTERNAL_DEPOSIT"
    /\ Business.uncredited >= 0


(* ReconcileTx: no alarm is raised about a transaction recorded while      *)
(* every address it touches was watched.                                   *)
NoFalseAlarm ==
    \A t \in Included :
        (\A a \in Active : HeightOf(t) \in covered[a]) => TxEntries(t) = {}


(* finishReport: a report that found a discrepancy is stored.              *)
ReportKept == report.found => report.stored
=============================================================================

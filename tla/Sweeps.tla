------------------------------- MODULE Sweeps -------------------------------
(***************************************************************************)
(* The sweep engine (go/sweeps): jobs that move the balance of deposit     *)
(* addresses to the hot wallet, the funding legs that pay their fee from   *)
(* the fee wallet under FEE_FUND, and the adapter service that drives them *)
(* (cmd/sovren-adapter/sweeper_service.go).                                *)
(*                                                                         *)
(* An engine method reads the job, asks the chain and the signer without   *)
(* holding a lock, and ends in a transaction that compares and sets the    *)
(* job's status.  A method is split where what it read can be overtaken:   *)
(* the deposit backlog of Plan, the balance, fee and pause Prepare starts  *)
(* with, the spend cap, the signature, the answer of the node.  Sequence   *)
(* slots come from the sequence manager; SequenceManager has its           *)
(* interleavings, here Reserve and the startup reconciliation are atomic.  *)
(***************************************************************************)
EXTENDS Storage, SequenceRules, FiniteSets

CONSTANTS Sources,           \* watched deposit addresses
          FeeWallet,         \* the watched fee wallet
          Credits,           \* deposits that arrive
          Recipient,         \* Recipient[d]: the address deposit d pays to
          DepositAmount,     \* base units of a deposit
          FeeWalletBalance,  \* initial balance of the fee wallet
          Strategies,        \* sweeps.strategy: the configurations considered
          MinSweep,          \* minimum_sweep_amount_usovr
          MaxFeePct,         \* maximum_fee_percentage_for_sweep
          FeeReserve,        \* fee_reserve_usovr
          FeeCap,            \* fee_wallet_max_spend_usovr, 0: disabled
          Window,            \* fee_wallet_spend_window_blocks
          Confirmations,     \* depth for CONFIRMED
          FeeFull,           \* fee of a transfer that empties the account
          FeePartial,        \* fee of any other transfer
          NodeAnswers,       \* answers of Broadcast that occur
          SignerAnswers,     \* answers of the signer that occur
          Pausable,          \* flows the operator pauses and resumes
          Sweepers,          \* processes that run the sweeper service
          OperatorRecovers,  \* the operator calls Recover
          MaxGas,            \* bound: how far the fee drifts
          MaxJobs,           \* bound: jobs per source
          MaxSlot,           \* bound: account sequences
          MaxHeight,         \* bound: blocks
          MaxFaults          \* bound: crashes, bad answers, lost transactions, fee moves

ASSUME SweepsAssumption ==
    /\ FeeWallet \notin Sources
    /\ Recipient \in [Credits -> Sources]
    /\ {DepositAmount, FeeWalletBalance, MinSweep, MaxFeePct, FeeReserve, FeeCap, Window,
        Confirmations, FeeFull, FeePartial, MaxGas, MaxJobs, MaxSlot, MaxHeight,
        MaxFaults} \subseteq Nat
    /\ Strategies \subseteq {"FEE_RESERVE", "FEE_FUND", "THRESHOLD_ONLY", "CUSTODY_ABSTRACTED"}
    /\ NodeAnswers \subseteq {"accepted", "rejected", "error"}
    /\ SignerAnswers \subseteq {"signed", "unavailable", "refused", "unbuildable"}
    /\ Pausable \subseteq {"sweep", "signing", "broadcast"}
    /\ OperatorRecovers \in BOOLEAN
    /\ Confirmations > 0 /\ Window > 0

VARIABLES strategy,  \* the configured strategy
          job,       \* job[id]: the sweep_jobs row
          row,       \* row[<<a, s>>]: the reservation of slot s of account a
          dep,       \* dep[d]: status of the deposit record, and the sweep it was swept by
          spends,    \* fee_funding_spends
          paused,    \* operational controls
          seq, bal,  \* account sequences and balances on chain
          gas,       \* current drift of the fee
          height,    \* height of the chain
          mempool,   \* jobs whose signed bytes are in the mempool
          landed,    \* landed[id]: height and code of the included transaction
          drv,       \* drv[p]: the locals of sweeper p
          faults     \* number of faults so far

storeVars == <<job, row, dep, spends>>
ledgerVars == <<seq, bal, height, landed>>
envVars == <<strategy, paused, gas>>
vars == <<storeVars, ledgerVars, mempool, envVars, drv, faults>>

Accounts == Sources \cup {FeeWallet}
Slots == 0 .. MaxSlot
NoSlot == -1

(* The n-th job of a source, and its funding leg (fundingSweepID).         *)
Ids == {"SWP", "FUND"} \X Sources \X (1 .. MaxJobs)
NoId == <<"", "", 0>>

IsFundingJob(id) == id[1] = "FUND"
fundingSweepID(id) == <<"FUND", id[2], id[3]>>
SourceAddress(id) == IF IsFundingJob(id) THEN FeeWallet ELSE id[2]

(* key: the balance and height snapshot of the idempotency key; slot, fee: *)
(* what the persisted signed bytes carry.                                  *)
NoJob == [status |-> "NONE", amount |-> 0, covered |-> {}, key |-> <<0, 0>>,
          slot |-> NoSlot, fee |-> 0]

Jobs == [status : SweepStatuses \cup {"NONE"}, amount : Nat, covered : SUBSET Credits,
         key : Nat \X Nat, slot : Slots \cup {NoSlot}, fee : Nat]

NoRow == [status |-> "NONE", owner |-> NoId]

Idle == [pc |-> "idle", id |-> NoId, seen |-> "", slot |-> NoSlot, balance |-> 0, fee |-> 0,
         backlog |-> {}, todo |-> {}, height |-> 0]

TypeOK ==
    /\ strategy \in Strategies
    /\ job \in [Ids -> Jobs]
    /\ row \in [Accounts \X Slots -> [status : SequenceStatuses, owner : Ids] \cup {NoRow}]
    /\ dep \in [Credits -> [status : {"NONE", "CREDITED", "SWEEP_PENDING", "SWEPT"},
                            sweep : Ids \cup {NoId}]]
    /\ spends \subseteq [id : Ids, amount : Nat, height : Nat]
    /\ paused \subseteq Pausable
    /\ seq \in [Accounts -> Nat] /\ bal \in [Accounts -> Nat]
    /\ mempool \subseteq Ids
    /\ landed \in [Ids -> [height : Nat, ok : BOOLEAN]]

Init ==
    /\ strategy \in Strategies
    /\ job = [id \in Ids |-> NoJob]
    /\ row = [k \in Accounts \X Slots |-> NoRow]
    /\ dep = [d \in Credits |-> [status |-> "NONE", sweep |-> NoId]]
    /\ spends = {} /\ paused = {}
    /\ seq = [a \in Accounts |-> 0]
    /\ bal = [a \in Accounts |-> IF a = FeeWallet THEN FeeWalletBalance ELSE 0]
    /\ gas = 0 /\ height = 1 /\ mempool = {}
    /\ landed = [id \in Ids |-> [height |-> 0, ok |-> FALSE]]
    /\ drv = [p \in Sweepers |-> Idle]
    /\ faults = 0
-----------------------------------------------------------------------------
(* The bound on what goes wrong in one behaviour.                          *)
FaultIf(happens) == IF happens THEN faults < MaxFaults /\ faults' = faults + 1
                               ELSE UNCHANGED faults

(* The repositories *)

Live(id) == job[id].status \notin TerminalSweepStatuses \cup {"NONE"}

(* GetActive                                                               *)
Active(a) == {id \in Ids : Live(id) /\ SourceAddress(id) = a}

(* Sweeps().Create: one live job per source, one job per idempotency key.  *)
Creatable(id, key) ==
    /\ job[id].status = "NONE"
    /\ Active(SourceAddress(id)) = {}
    /\ ~IsFundingJob(id) =>
         \A o \in Ids : ~IsFundingJob(o) /\ o[2] = id[2] /\ job[o].status # "NONE"
                           => job[o].key # key

(* Sweeps().UpdateStatus: the compare-and-set.                             *)
JobIs(id, from, to) == job[id].status = from /\ SweepMoveLegal(from, to)
Moved(id, to) == [job EXCEPT ![id].status = to]

(* GetByWorkRef                                                            *)
SlotsOf(id) == {s \in Slots : row[<<SourceAddress(id), s>>].owner = id}
HasRow(id) == SlotsOf(id) # {}
RowKey(id) == <<SourceAddress(id), CHOOSE s \in SlotsOf(id) : TRUE>>

(* A reservation moved if it has the status the caller expects; every      *)
(* caller tolerates the conflict.                                          *)
RowMoved(k, from, to) ==
    IF row[k].status = from /\ SequenceMoveLegal(from, to)
    THEN [row EXCEPT ![k].status = to] ELSE row

releaseUnsignedReservation(id) ==
    IF HasRow(id) THEN RowMoved(RowKey(id), "RESERVED", "RELEASED") ELSE row
quarantineReservation(id, from) == RowMoved(RowKey(id), from, "RECONCILIATION_REQUIRED")
advanceReservation(id, from, to) == RowMoved(RowKey(id), from, to)

Consumable(id) ==
    HasRow(id) /\ row[RowKey(id)].status \in
        {"SIGNED", "BROADCAST", "RECONCILIATION_REQUIRED", "CONSUMED"}
consumeReservation(id) == [row EXCEPT ![RowKey(id)].status = "CONSUMED"]

(* terminateJob and deferJob: the status flip and the release, or conflict *)
terminateJob(id, from) ==
    IF JobIs(id, from, "CANCELLED")
    THEN job' = Moved(id, "CANCELLED") /\ row' = releaseUnsignedReservation(id)
    ELSE UNCHANGED <<job, row>>

deferJob(id) ==
    IF JobIs(id, "PENDING", "DEFERRED")
    THEN job' = Moved(id, "DEFERRED") /\ row' = releaseUnsignedReservation(id)
    ELSE UNCHANGED <<job, row>>

(* deferOrCancel: BUILT has no way back to DEFERRED.                       *)
deferOrCancel(id, seen) == IF seen = "BUILT" THEN terminateJob(id, "BUILT") ELSE deferJob(id)
-----------------------------------------------------------------------------
(* The economics *)

(* estimateFee: what simulating a transfer of this amount costs now.       *)
estimateFee(a, amount) == gas + (IF amount = bal[a] THEN FeeFull ELSE FeePartial)

feeWithinPercentage(fee, amount) == fee * 100 <= amount * MaxFeePct

reserveFor(id) == IF ~IsFundingJob(id) /\ strategy = "FEE_RESERVE" THEN FeeReserve ELSE 0

economical(id, fee) ==
    IsFundingJob(id) \/ (job[id].amount >= MinSweep /\ feeWithinPercentage(fee, job[id].amount))

covers(id, balance, fee) == balance >= job[id].amount + fee + reserveFor(id)

StrategyAmount(balance, fee) ==
    CASE strategy = "FEE_FUND"    -> balance
      [] strategy = "FEE_RESERVE" -> balance - fee - FeeReserve
      [] OTHER                    -> balance - fee

(* planAmount: the strategy's rule, the minimum and the fee percentage.    *)
planAmount(balance, fee) ==
    LET amount == StrategyAmount(balance, fee)
    IN  IF amount <= 0 \/ amount < MinSweep
        THEN [amount |-> balance, ok |-> FALSE]
        ELSE [amount |-> amount, ok |-> feeWithinPercentage(fee, amount)]

planFeeMaxRounds == 8

(* Mutant: the amount is planned with the fee of a full-balance transfer.  *)
planFeeOneProbe(a) == planAmount(bal[a], estimateFee(a, bal[a]))

(* planFeeAmount: the amount whose own simulated fee it was planned with.  *)
planFeeAmount(a) ==
    LET seed == estimateFee(a, bal[a])
        round[n \in 0 .. planFeeMaxRounds] ==
            IF n = 0 THEN [plan |-> planAmount(bal[a], seed), fee |-> seed, done |-> FALSE]
            ELSE LET r == round[n - 1]
                     refee == estimateFee(a, r.plan.amount)
                 IN  IF r.done \/ ~r.plan.ok \/ r.plan.amount = bal[a] \/ refee = r.fee
                     THEN [r EXCEPT !.done = TRUE]
                     ELSE [plan |-> planAmount(bal[a], refee), fee |-> refee, done |-> FALSE]
        last == round[planFeeMaxRounds]
    IN  [amount |-> last.plan.amount, ok |-> last.plan.ok /\ last.done]
-----------------------------------------------------------------------------
(* Plan *)

(* The pause, the backlog and the height are read once for all sources.    *)
PlanStart(p) ==
    /\ drv[p].pc = "idle"
    /\ "sweep" \notin paused
    /\ drv' = [drv EXCEPT ![p] = [Idle EXCEPT
          !.pc = "plan", !.todo = Sources, !.height = height,
          !.backlog = {[d |-> d, status |-> dep[d].status] :
                          d \in {c \in Credits : dep[c].status \in {"CREDITED", "SWEEP_PENDING"}}}]]
    /\ UNCHANGED <<storeVars, ledgerVars, mempool>>

CoveredIds(p, s) == {b.d : b \in {c \in drv[p].backlog : Recipient[c.d] = s}}

(* custodySettle: bookkeeping only.  A CREDITED deposit that is no longer  *)
(* CREDITED fails the transaction and the pass.                            *)
CustodySettle(p, s) ==
    LET mine == {b \in drv[p].backlog : Recipient[b.d] = s}
        ok == \A b \in mine : b.status = "CREDITED" => dep[b.d].status = "CREDITED"
        settled == {b.d : b \in mine} \cap {d \in Credits : dep[d].status # "SWEPT"}
    IN
    /\ strategy = "CUSTODY_ABSTRACTED"
    /\ dep' = IF ok THEN [d \in Credits |->
                             IF d \in settled THEN [dep[d] EXCEPT !.status = "SWEPT"] ELSE dep[d]]
              ELSE dep
    /\ drv' = [drv EXCEPT ![p] = IF ok THEN [@ EXCEPT !.todo = @ \ {s}] ELSE Idle]
    /\ UNCHANGED <<job, row, spends>>

(* Mutant: every credited deposit of the source is flipped, whether or not *)
(* the backlog had it.                                                     *)
FlippedAll(p, s) ==
    [d \in Credits |-> IF Recipient[d] = s /\ dep[d].status = "CREDITED"
                       THEN [dep[d] EXCEPT !.status = "SWEEP_PENDING"] ELSE dep[d]]

(* The covered deposits that are CREDITED; others are SWEEP_PENDING from a *)
(* sweep that ended without confirming, or SWEPT by now.                   *)
Flipped(p, s) ==
    [d \in Credits |-> IF d \in CoveredIds(p, s) /\ dep[d].status = "CREDITED"
                       THEN [dep[d] EXCEPT !.status = "SWEEP_PENDING"] ELSE dep[d]]

(* createJob: the job and the CREDITED -> SWEEP_PENDING flips of the       *)
(* deposits it covers, in one transaction.                                 *)
CreateJob(p, s, id) ==
    LET key == <<bal[s], drv[p].height>>
        plan == planFeeAmount(s)
    IN
    /\ Creatable(id, key)
    /\ \A m \in 1 .. (id[3] - 1) : job[<<"SWP", s, m>>].status # "NONE"
    /\ job' = [job EXCEPT ![id] = [NoJob EXCEPT !.status = "PENDING", !.amount = plan.amount,
                                      !.covered = CoveredIds(p, s), !.key = key]]
    /\ dep' = Flipped(p, s)
    /\ drv' = [drv EXCEPT ![p] = [@ EXCEPT !.todo = @ \ {s},
                                     !.pc = IF plan.ok THEN "plan" ELSE "planDefer",
                                     !.id = IF plan.ok THEN NoId ELSE id]]
    /\ UNCHANGED <<row, spends>>

(* A source is held: it has a live job, too small a balance, a snapshot    *)
(* that was planned before, or cannot be simulated.                        *)
PlanSource(p, s) ==
    /\ drv[p].pc = "plan"
    /\ s \in drv[p].todo
    /\ \/ CustodySettle(p, s)
       \/ /\ strategy # "CUSTODY_ABSTRACTED"
          /\ bal[s] >= MinSweep
          /\ \E n \in 1 .. MaxJobs : CreateJob(p, s, <<"SWP", s, n>>)
       \/ /\ strategy # "CUSTODY_ABSTRACTED"
          /\ drv' = [drv EXCEPT ![p].todo = @ \ {s}]
          /\ UNCHANGED storeVars
    /\ UNCHANGED <<ledgerVars, mempool>>

(* The second transaction of createJob when the plan cannot be executed.   *)
PlanDefer(p) ==
    /\ drv[p].pc = "planDefer"
    /\ deferJob(drv[p].id)
    /\ drv' = [drv EXCEPT ![p] = [@ EXCEPT !.pc = "plan", !.id = NoId]]
    /\ UNCHANGED <<dep, spends, ledgerVars, mempool>>

PlanDone(p) ==
    /\ drv[p].pc = "plan"
    /\ drv[p].todo = {}
    /\ drv' = [drv EXCEPT ![p] = Idle]
    /\ UNCHANGED <<storeVars, ledgerVars, mempool>>
-----------------------------------------------------------------------------
(* Prepare *)

OpenSlots(a) == {s \in Slots : row[<<a, s>>].status \notin {"NONE", "CONSUMED", "RELEASED"}}

(* Manager.Reserve: the job's own slot again, or the next one.             *)
ReserveKey(id) ==
    IF HasRow(id) THEN RowKey(id)
    ELSE <<SourceAddress(id), FirstFreeSlot(OpenSlots(SourceAddress(id)), seq[SourceAddress(id)])>>

(* ErrReleasedSlotUnusable                                                 *)
SlotBurned(id) ==
    HasRow(id) /\ row[RowKey(id)].status = "RELEASED" /\ RowKey(id)[2] < seq[SourceAddress(id)]

(* The status, the pauses, the reservation, then balance and fee.  A       *)
(* burned slot cancels the job; a simulation that is not available holds   *)
(* it with its reservation made.  The signing pause is the one read here.  *)
PrepareReserve(p, id) ==
    LET k == ReserveKey(id)
        a == SourceAddress(id)
    IN
    /\ drv[p].pc = "idle"
    /\ job[id].status \in {"PENDING", "BUILT"}
    /\ "sweep" \notin paused
    /\ \/ SlotBurned(id) /\ terminateJob(id, job[id].status) /\ UNCHANGED drv
       \/ /\ ~SlotBurned(id)
          /\ k[2] \in Slots
          /\ row[k].status \in {"NONE", "RELEASED", "RESERVED"}
          /\ row' = [row EXCEPT ![k] = [status |-> "RESERVED", owner |-> id]]
          /\ \/ UNCHANGED drv
             \/ drv' = [drv EXCEPT ![p] = [Idle EXCEPT
                   !.pc = IF "signing" \in paused THEN "decideOnly" ELSE "decide",
                   !.id = id, !.seen = job[id].status, !.slot = k[2],
                   !.balance = bal[a], !.fee = estimateFee(a, job[id].amount)]]
          /\ UNCHANGED job
    /\ UNCHANGED <<dep, spends, ledgerVars, mempool>>

(* feeFundingCapExceeded: the leg in flight, the recorded spend of the     *)
(* window, and this fee.                                                   *)
WindowSpend(h) ==
    MapThenSumSet(LAMBDA r : r.amount, {r \in spends : h - Window < r.height /\ r.height <= h})

InFlightSpend ==
    MapThenSumSet(LAMBDA id : job[id].amount, {id \in Active(FeeWallet) : IsFundingJob(id)})


feeFundingCapExceeded(fee) == FeeCap > 0 /\ InFlightSpend + WindowSpend(height) + fee > FeeCap

(* checkFunding: what a sweep that the source cannot pay for waits for.    *)
NeedsFunding(p) ==
    /\ strategy = "FEE_FUND" /\ ~IsFundingJob(drv[p].id)
    /\ drv[p].balance < job[drv[p].id].amount + drv[p].fee

FundingVerdict(p) ==
    LET leg == job[fundingSweepID(drv[p].id)].status IN
    CASE leg = "NONE"                      -> IF feeFundingCapExceeded(drv[p].fee)
                                              THEN "defer" ELSE "fund"
      [] leg \in TerminalSweepStatuses     -> "defer"
      [] OTHER                             -> "hold"

(* The checks on what was read, in the order of the code: economics,       *)
(* funding, coverage; then BUILT, and on to the signer.                    *)
Verdict(p) ==
    LET id == drv[p].id IN
    CASE ~economical(id, drv[p].fee)              -> "defer"
      [] NeedsFunding(p)                          -> FundingVerdict(p)
      [] ~covers(id, drv[p].balance, drv[p].fee)  -> "defer"
      [] OTHER                                    -> "build"

PrepareDecide(p) ==
    LET id == drv[p].id
        verdict == Verdict(p)
        built == drv[p].seen = "BUILT" \/ JobIs(id, "PENDING", "BUILT")
    IN
    /\ drv[p].pc \in {"decide", "decideOnly"}
    /\ \/ verdict = "defer" /\ deferOrCancel(id, drv[p].seen)
       \/ verdict \in {"fund", "hold"} /\ UNCHANGED <<job, row>>
       \/ /\ verdict = "build"
          /\ job' = IF drv[p].seen = "PENDING" /\ built THEN Moved(id, "BUILT") ELSE job
          /\ UNCHANGED row
    /\ drv' = [drv EXCEPT ![p] =
          CASE verdict = "fund"                                           -> [@ EXCEPT !.pc = "fund"]
            [] verdict = "build" /\ built /\ drv[p].pc = "decide"         -> [@ EXCEPT !.pc = "sign"]
            [] OTHER                                                      -> Idle]
    /\ UNCHANGED <<dep, spends, ledgerVars, mempool>>

(* createFundingJob: a live leg of another sweep, or this one's leg, wins. *)
CreateFundingJob(p) ==
    LET leg == fundingSweepID(drv[p].id) IN
    /\ drv[p].pc = "fund"
    /\ job' = IF Creatable(leg, <<0, 0>>)
              THEN [job EXCEPT ![leg] = [NoJob EXCEPT !.status = "PENDING", !.amount = drv[p].fee]]
              ELSE job
    /\ drv' = [drv EXCEPT ![p] = Idle]
    /\ UNCHANGED <<row, dep, spends, ledgerVars, mempool>>

(* sign: the signer is unavailable and the job waits; the message cannot   *)
(* be built and the job is cancelled; the signer refuses, or its answer    *)
(* does not verify, and the reservation that was read is quarantined.      *)
SignCall(p, answer) ==
    /\ drv[p].pc = "sign"
    /\ \/ answer = "unavailable" /\ UNCHANGED <<job, row>>
       \/ answer = "unbuildable" /\ terminateJob(drv[p].id, "BUILT")
       \/ /\ answer = "refused"
          /\ row' = RowMoved(<<SourceAddress(drv[p].id), drv[p].slot>>,
                             "RESERVED", "RECONCILIATION_REQUIRED")
          /\ UNCHANGED job
       \/ answer = "signed" /\ UNCHANGED <<job, row>>
    /\ drv' = [drv EXCEPT ![p] = IF answer = "signed" THEN [@ EXCEPT !.pc = "persist"] ELSE Idle]
    /\ FaultIf(answer # "signed")
    /\ UNCHANGED <<dep, spends, ledgerVars, mempool>>

(* The signed bytes, the status and the reservation, in one transaction.   *)
SignPersist(p) ==
    LET id == drv[p].id
        k == <<SourceAddress(id), drv[p].slot>>
    IN
    /\ drv[p].pc = "persist"
    /\ IF JobIs(id, "BUILT", "SIGNED") /\ row[k].status = "RESERVED"
       THEN /\ job' = [job EXCEPT ![id] = [@ EXCEPT !.status = "SIGNED",
                                              !.slot = drv[p].slot, !.fee = drv[p].fee]]
            /\ row' = [row EXCEPT ![k].status = "SIGNED"]
       ELSE UNCHANGED <<job, row>>
    /\ drv' = [drv EXCEPT ![p] = Idle]
    /\ UNCHANGED <<dep, spends, ledgerVars, mempool>>
-----------------------------------------------------------------------------
(* Broadcast, Confirm, Recover *)

Landed(id) == landed[id].height > 0

CheckTxAccepts(id) ==
    LET a == SourceAddress(id)
        queued == {job[o].slot : o \in {q \in mempool : SourceAddress(q) = a}}
    IN  /\ job[id].slot >= seq[a]
        /\ job[id].slot \notin queued
        /\ seq[a] .. (job[id].slot - 1) \subseteq queued

(* What the node may answer to the signed bytes of a job: as in Chain.     *)
NodeAnswer(id, answer) ==
    /\ answer \in NodeAnswers
    /\ \/ answer = "accepted" /\ CheckTxAccepts(id) /\ mempool' = mempool \cup {id}
       \/ answer = "rejected" /\ UNCHANGED mempool
       \/ /\ answer = "error"
          /\ \/ UNCHANGED mempool
             \/ CheckTxAccepts(id) /\ mempool' = mempool \cup {id}
    /\ FaultIf(answer # "accepted")

(* Broadcast sends the bytes of a SIGNED job, whatever became of an        *)
(* earlier attempt ...                                                     *)
BroadcastSend(p, id) ==
    /\ drv[p].pc = "idle"
    /\ job[id].status = "SIGNED"
    /\ {"sweep", "broadcast"} \cap paused = {}
    /\ \E answer \in NodeAnswers :
         /\ NodeAnswer(id, answer)
         /\ drv' = [drv EXCEPT ![p] = [Idle EXCEPT !.pc = answer, !.id = id]]
    /\ UNCHANGED <<storeVars, ledgerVars>>

(* Mutant: a rejected transaction gives its slot back.                     *)
BroadcastApplyReleasing(p) ==
    LET id == drv[p].id IN
    /\ drv[p].pc \in {"accepted", "rejected", "error"}
    /\ \/ /\ drv[p].pc = "accepted" /\ JobIs(id, "SIGNED", "BROADCAST")
          /\ job' = Moved(id, "BROADCAST")
          /\ row' = advanceReservation(id, "SIGNED", "BROADCAST")
       \/ /\ drv[p].pc # "accepted"
          /\ row' = [row EXCEPT ![RowKey(id)].status = "RELEASED"]
          /\ UNCHANGED job
    /\ drv' = [drv EXCEPT ![p] = Idle]
    /\ UNCHANGED <<dep, spends, ledgerVars, mempool>>

(* ... and applies the answer: accepted, rejected by CheckTx, or unknown,  *)
(* where the search by hash finds an included transaction or quarantines.  *)
BroadcastApply(p) ==
    LET id == drv[p].id IN
    /\ drv[p].pc \in {"accepted", "rejected", "error"}
    /\ \/ /\ drv[p].pc = "accepted" \/ (drv[p].pc = "error" /\ Landed(id))
          /\ IF JobIs(id, "SIGNED", "BROADCAST")
             THEN /\ job' = Moved(id, "BROADCAST")
                  /\ row' = advanceReservation(id, "SIGNED", "BROADCAST")
             ELSE UNCHANGED <<job, row>>
       \/ /\ drv[p].pc = "rejected"
          /\ IF JobIs(id, "SIGNED", "BROADCAST")
             THEN job' = Moved(id, "FAILED") /\ row' = quarantineReservation(id, "SIGNED")
             ELSE UNCHANGED <<job, row>>
       \/ /\ drv[p].pc = "error"
          /\ row' = quarantineReservation(id, "SIGNED")
          /\ UNCHANGED job
    /\ drv' = [drv EXCEPT ![p] = Idle]
    /\ UNCHANGED <<dep, spends, ledgerVars, mempool>>

(* markDepositsSwept and recordFeeFundingSpend                             *)
DepositsSwept(id) ==
    [d \in Credits |-> IF d \in job[id].covered /\ dep[d].status = "SWEEP_PENDING"
                       THEN [status |-> "SWEPT", sweep |-> id] ELSE dep[d]]

SpendRecorded(id) ==
    IF IsFundingJob(id)
    THEN spends \cup {[id |-> id, amount |-> job[id].amount, height |-> landed[id].height]}
    ELSE spends

(* Mutant: any included transaction confirms the sweep.                    *)
ConfirmAnyCode(p, id) ==
    /\ drv[p].pc = "idle"
    /\ job[id].status = "BROADCAST"
    /\ Landed(id) /\ Consumable(id)
    /\ job' = Moved(id, "CONFIRMED") /\ row' = consumeReservation(id)
    /\ dep' = DepositsSwept(id) /\ spends' = SpendRecorded(id)
    /\ UNCHANGED <<ledgerVars, mempool, drv, faults>>

(* Confirm: not found after the timeout (the node may lag), failed, or     *)
(* successful and deep enough: job, reservation, deposits and spend change *)
(* in one transaction.                                                     *)
Confirm(p, id) ==
    /\ drv[p].pc = "idle"
    /\ job[id].status = "BROADCAST"
    /\ \/ /\ row' = quarantineReservation(id, "BROADCAST") /\ FaultIf(TRUE)
          /\ UNCHANGED <<job, dep, spends>>
       \/ /\ Landed(id) /\ ~landed[id].ok /\ Consumable(id)
          /\ job' = Moved(id, "FAILED") /\ row' = consumeReservation(id)
          /\ UNCHANGED <<dep, spends, faults>>
       \/ /\ Landed(id) /\ landed[id].ok /\ Consumable(id)
          /\ height - landed[id].height + 1 >= Confirmations
          /\ job' = Moved(id, "CONFIRMED") /\ row' = consumeReservation(id)
          /\ dep' = DepositsSwept(id) /\ spends' = SpendRecorded(id)
          /\ UNCHANGED faults
    /\ UNCHANGED <<ledgerVars, mempool, drv>>

(* Recover, called by the operator: RebroadcastPersisted finds the         *)
(* transaction or sends the same bytes.  The reservation stays as it is.   *)
Recover(id) ==
    /\ OperatorRecovers
    /\ job[id].status \in {"SIGNED", "BROADCAST"}
    /\ \/ /\ Landed(id) /\ UNCHANGED <<mempool, faults>>
          /\ job' = IF job[id].status = "SIGNED" THEN Moved(id, "BROADCAST") ELSE job
       \/ \E answer \in NodeAnswers :
            /\ NodeAnswer(id, answer)
            /\ job' = IF answer = "accepted" /\ job[id].status = "SIGNED"
                      THEN Moved(id, "BROADCAST") ELSE job
    /\ UNCHANGED <<row, dep, spends, ledgerVars, drv, envVars>>
-----------------------------------------------------------------------------
(* Revisit *)

replansStaleAmount(id) ==
    LET fresh == planFeeAmount(SourceAddress(id)) IN
    /\ ~IsFundingJob(id)
    /\ strategy \in {"FEE_RESERVE", "THRESHOLD_ONLY"}
    /\ fresh.ok /\ fresh.amount # job[id].amount

(* Back to PENDING when the full maths pass; cancelled when only the       *)
(* stored amount is in the way (replanStaleAmount).                        *)
Revisit(p, id) ==
    LET a == SourceAddress(id)
        fee == estimateFee(a, job[id].amount)
        passes == economical(id, fee) /\ covers(id, bal[a], fee)
    IN
    /\ drv[p].pc = "idle"
    /\ job[id].status = "DEFERRED"
    /\ "sweep" \notin paused
    /\ \/ passes /\ job' = Moved(id, "PENDING") /\ UNCHANGED row
       \/ ~passes /\ replansStaleAmount(id) /\ terminateJob(id, "DEFERRED")
    /\ UNCHANGED <<dep, spends, ledgerVars, mempool, drv>>
-----------------------------------------------------------------------------
(* Crash and restart of a sweeper *)

Crash(p) ==
    /\ drv[p].pc # "down"
    /\ FaultIf(TRUE)
    /\ drv' = [drv EXCEPT ![p] = [Idle EXCEPT !.pc = "down"]]
    /\ UNCHANGED <<storeVars, ledgerVars, mempool, envVars>>

(* sweeperSourceAddresses: accounts with a live job, and the fee wallet.   *)
StartupAccounts == {a \in Accounts : Active(a) # {}} \cup {FeeWallet}

Lookups(id) ==
    {"unreadable", "notfound"} \cup (IF job[id].slot # NoSlot THEN {"error"} ELSE {})
                               \cup (IF Landed(id) THEN {"found"} ELSE {})

(* runSweeperService: ReconcileAccount for each of them before any pass.   *)
Startup(p) ==
    LET open == {k \in StartupAccounts \X Slots : k[2] \in OpenSlots(k[1])} IN
    /\ drv[p].pc = "down"
    /\ \E lookup \in [open -> {"unreadable", "notfound", "error", "found"}] :
         /\ \A k \in open : lookup[k] \in Lookups(row[k].owner)
         /\ row' = [k \in DOMAIN row |->
                       IF k \in open
                       THEN [row[k] EXCEPT !.status =
                                resolve(@, job[row[k].owner].slot # NoSlot, lookup[k])]
                       ELSE row[k]]
    /\ drv' = [drv EXCEPT ![p] = Idle]
    /\ UNCHANGED <<job, dep, spends, ledgerVars, mempool>>
-----------------------------------------------------------------------------
(* The environment *)

(* A deposit arrives and is credited (the scanner).                        *)
Credit(d) ==
    /\ dep[d].status = "NONE"
    /\ dep' = [dep EXCEPT ![d].status = "CREDITED"]
    /\ bal' = [bal EXCEPT ![Recipient[d]] = @ + DepositAmount]
    /\ UNCHANGED <<job, row, spends, seq, height, landed, mempool, envVars, drv, faults>>

GasMoves ==
    /\ gas' \in (0 .. MaxGas) \ {gas}
    /\ FaultIf(TRUE)
    /\ UNCHANGED <<storeVars, ledgerVars, mempool, strategy, paused, drv>>

PauseResume(flow) ==
    /\ paused' = IF flow \in paused THEN paused \ {flow} ELSE paused \cup {flow}
    /\ FaultIf(flow \notin paused)
    /\ UNCHANGED <<storeVars, ledgerVars, mempool, strategy, gas, drv>>

(* A block includes a transaction that carries the account's sequence: it  *)
(* pays when the balance covers it, or fails and costs the fee.            *)
IncludeTx(id) ==
    LET a == SourceAddress(id)
        pays == [bal EXCEPT ![a] = @ - job[id].amount - job[id].fee]
    IN
    /\ id \in mempool
    /\ job[id].slot = seq[a]
    /\ height < MaxHeight
    /\ height' = height + 1
    /\ seq' = [seq EXCEPT ![a] = @ + 1]
    /\ mempool' = mempool \ {id}
    /\ \/ /\ bal[a] >= job[id].amount + job[id].fee
          /\ bal' = IF IsFundingJob(id) THEN [pays EXCEPT ![id[2]] = @ + job[id].amount] ELSE pays
          /\ landed' = [landed EXCEPT ![id] = [height |-> height + 1, ok |-> TRUE]]
          /\ UNCHANGED faults
       \/ /\ bal[a] >= job[id].fee
          /\ bal' = [bal EXCEPT ![a] = @ - job[id].fee]
          /\ landed' = [landed EXCEPT ![id] = [height |-> height + 1, ok |-> FALSE]]
          /\ FaultIf(TRUE)
    /\ UNCHANGED <<storeVars, envVars, drv>>

EmptyBlock ==
    /\ height < MaxHeight
    /\ height' = height + 1
    /\ UNCHANGED <<storeVars, seq, bal, landed, mempool, envVars, drv, faults>>

EvictTx(id) ==
    /\ id \in mempool
    /\ mempool' = mempool \ {id}
    /\ FaultIf(TRUE)
    /\ UNCHANGED <<storeVars, ledgerVars, envVars, drv>>
-----------------------------------------------------------------------------
(* Pass: plan, then one step for every live job.                           *)
SweeperStep(p) ==
    /\ \/ /\ \/ PlanStart(p) \/ PlanDefer(p) \/ PlanDone(p)
             \/ \E s \in Sources : PlanSource(p, s)
             \/ \E id \in Ids : PrepareReserve(p, id) \/ Revisit(p, id)
             \/ PrepareDecide(p) \/ CreateFundingJob(p) \/ SignPersist(p) \/ BroadcastApply(p)
             \/ Startup(p)
          /\ UNCHANGED faults
       \/ \E answer \in SignerAnswers : SignCall(p, answer)
       \/ \E id \in Ids : BroadcastSend(p, id) \/ Confirm(p, id)
    /\ UNCHANGED envVars

Environment ==
    \/ \E d \in Credits : Credit(d)
    \/ GasMoves \/ EmptyBlock
    \/ \E flow \in Pausable : PauseResume(flow)
    \/ \E id \in Ids : IncludeTx(id) \/ EvictTx(id) \/ Recover(id)
    \/ \E p \in Sweepers : Crash(p)

Next == Environment \/ \E p \in Sweepers : SweeperStep(p)

Spec == Init /\ [][Next]_vars
-----------------------------------------------------------------------------
(* Properties *)

(* A job with signed bytes that may still be included, terminal or not,    *)
(* owns the reservation of the sequence in those bytes, and that           *)
(* reservation is not RESERVED or RELEASED: no other job is given the      *)
(* sequence (releaseUnsignedReservation, quarantineReservation, startup).  *)
SignedKeepsSlot ==
    \A id \in Ids : job[id].slot # NoSlot =>
        LET r == row[<<SourceAddress(id), job[id].slot>>] IN
        /\ r.owner = id
        /\ r.status \notin {"RESERVED", "RELEASED"}

(* A deposit marked SWEPT by a sweep was covered by it, and the chain      *)
(* executed that sweep's transfer (Confirm, markDepositsSwept).            *)
SweptIsMoved ==
    \A d \in Credits : dep[d].sweep # NoId =>
        /\ landed[dep[d].sweep].ok
        /\ d \in job[dep[d].sweep].covered
        /\ job[dep[d].sweep].status = "CONFIRMED"

(* A deposit waits in SWEEP_PENDING only for a sweep that exists: one that *)
(* is live, or one that ended without confirming, whose deposits the next  *)
(* plan attaches again (createJob, custodySettle).                         *)
PendingHasSweep ==
    \A d \in Credits : dep[d].status = "SWEEP_PENDING" =>
        \E id \in Ids : d \in job[id].covered /\ job[id].status \notin {"NONE", "CONFIRMED"}


(* A sweep that is planned without being deferred passes the checks of     *)
(* Prepare as long as balance and gas stay what they were: planFeeAmount   *)
(* plans with the fee the execution will pay.                              *)
PlannedExecutes(id) ==
    LET fee == estimateFee(SourceAddress(id), job[id].amount) IN
    strategy # "FEE_FUND" => economical(id, fee) /\ covers(id, bal[SourceAddress(id)], fee)

PlannedIsExecutable ==
    [][\A id \in Ids :
          /\ job[id].status = "NONE" /\ job'[id].status = "PENDING" /\ ~IsFundingJob(id)
          /\ \A p \in Sweepers : drv'[p].pc # "planDefer"
          => PlannedExecutes(id)']_vars
=============================================================================

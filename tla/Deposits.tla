------------------------------ MODULE Deposits ------------------------------
(***************************************************************************)
(* The deposit scanner (go/deposits/scanner.go), the deposit state machine *)
(* and the crediting transaction (go/deposits/state.go), with the          *)
(* operator's controls and review resolutions that act on them.            *)
(*                                                                         *)
(* There is one scanner.  A cycle reads the tip, fixes the cursor, walks   *)
(* the new blocks one transaction each, and then works through the pending *)
(* deposits.  The operator acts between any two of its steps, the node may *)
(* roll back and serve another history, and a crash loses everything that  *)
(* is not in the store.                                                    *)
(*                                                                         *)
(* A deposit stands for its unique key (tx hash, message, coin,            *)
(* recipient): a transfer that ParseBlockTransfers classifies as           *)
(* EXTERNAL_DEPOSIT to a watched address.  A block hash is a number that   *)
(* no other block has; 0 is the empty hash.                                *)
(***************************************************************************)
EXTENDS Integers, Sequences, FiniteSets, Storage

CONSTANTS Deposits,       \* deposit keys
          Verdict,        \* Verdict[d]: what parsing says of d: "ok", "failed" tx, "review"
          AmountOf,       \* AmountOf[d]: base units
          Minimums,       \* minimum_deposit_usovr values the operator configures
          Confirmations,
          StartHeight,    \* scanner.start_height; 0: none
          RescanBases,    \* heights the operator asks to resume from
          MaxHeight,      \* bound: length of the node's chain
          RewriteDepth,   \* bound: blocks the node replaces at once
          MaxRewrites,    \* bound: times it does
          MaxCrashes      \* bound: crashes of the scanner

ASSUME DepositsAssumption ==
    /\ Verdict \in [Deposits -> {"ok", "failed", "review"}]
    /\ AmountOf \in [Deposits -> Nat \ {0}]
    /\ Minimums \subseteq Nat
    /\ Confirmations \in 1 .. 12
    /\ StartHeight \in Nat
    /\ RescanBases \subseteq Nat \ {0}
    /\ MaxHeight \in Nat /\ RewriteDepth \in Nat /\ MaxRewrites \in Nat /\ MaxCrashes \in Nat

VARIABLES chain,       \* the node's accepted chain: a sequence of blocks
          hashes,      \* number of blocks ever made; the next hash
          rewrites,
          dep,         \* dep[d]: status, block height and prior status of the record
          items,       \* items[d]: open review items that point at d
          checkpoint,  \* last fully processed height and its hash
          credited,    \* credited[d]: deposit.credited events in the outbox
          controls,    \* credit_paused, scan_without_credit, resume_from_height (0: none)
          conditions,  \* triggers of the open chain-review conditions
          minimum,     \* the configured minimum deposit (0: none)
          scan,        \* the scanner's locals
          recorded,    \* heights the scanner ever recorded (history)
          crashes

nodeVars == <<chain, hashes, rewrites>>
recordVars == <<dep, items, credited>>
vars == <<nodeVars, recordVars, checkpoint, controls, conditions, minimum, scan, recorded, crashes>>

NoCheckpoint == [height |-> -1, hash |-> 0]

(* Between cycles only forcedBase survives in memory.                      *)
Resting(base) ==
    [pc |-> "idle", forcedBase |-> base, base |-> 0, latest |-> 0, next |-> 0, expected |-> 0,
     gate |-> "open", todo |-> {}]

Init ==
    /\ chain = <<>> /\ hashes = 0 /\ rewrites = 0
    /\ dep = [d \in Deposits |-> [status |-> "NONE", height |-> 0, prior |-> "NONE"]]
    /\ items = [d \in Deposits |-> 0]
    /\ checkpoint = NoCheckpoint
    /\ credited = [d \in Deposits |-> 0]
    /\ controls = [paused |-> FALSE, scanOnly |-> FALSE, resume |-> 0]
    /\ conditions = {}
    /\ minimum \in Minimums
    /\ scan = Resting(StartHeight)
    /\ recorded = {}
    /\ crashes = 0
-----------------------------------------------------------------------------
(* The node *)

OnChain(d) == \E h \in DOMAIN chain : d \in chain[h].deps

Included(blocks) == UNION {blocks[h].deps : h \in DOMAIN blocks}

Produce ==
    /\ Len(chain) < MaxHeight
    /\ \E ds \in SUBSET (Deposits \ Included(chain)) :
         chain' = Append(chain, [hash |-> hashes + 1, deps |-> ds])
    /\ hashes' = hashes + 1
    /\ UNCHANGED <<rewrites, recordVars, checkpoint, controls, conditions, minimum, scan,
                   recorded, crashes>>

(* The node rolled back or resynced onto a different history: its last k   *)
(* blocks are others now.                                                  *)
Rewrite ==
    /\ rewrites < MaxRewrites
    /\ rewrites' = rewrites + 1
    /\ \E k \in 1 .. RewriteDepth :
         /\ k <= Len(chain)
         /\ LET kept == SubSeq(chain, 1, Len(chain) - k)
                new(ds) == [i \in 1 .. k |-> [hash |-> hashes + i, deps |-> ds[i]]]
            IN  \E ds \in [1 .. k -> SUBSET (Deposits \ Included(kept))] :
                  /\ \A i, j \in 1 .. k : i # j => ds[i] \cap ds[j] = {}
                  /\ chain' = kept \o new(ds)
         /\ hashes' = hashes + k
    /\ UNCHANGED <<recordVars, checkpoint, controls, conditions, minimum, scan, recorded, crashes>>

HashAt(h) == IF h \in DOMAIN chain THEN chain[h].hash ELSE 0
-----------------------------------------------------------------------------
(* Writes on deposit records *)

(* Repository UpdateStatus: to SUSPENDED it remembers the status, and from *)
(* there only that status is legal; any other move clears it.              *)
Moved(r, to) == [r EXCEPT !.status = to,
                          !.prior = IF to = "SUSPENDED" THEN r.status ELSE "NONE"]

CanMove(r, to) ==
    /\ DepositMoveLegal(r.status, to)
    /\ r.status = "SUSPENDED" => r.prior = to

(* Where recordDeposit routes a fresh or revived deposit                   *)
Routed(d) ==
    CASE Verdict[d] = "failed" -> "REJECTED"
      [] Verdict[d] = "review" -> "REVIEW_REQUIRED"
      [] OTHER -> IF minimum > 0 /\ AmountOf[d] < minimum THEN "BELOW_MINIMUM"
                                                          ELSE "AWAITING_CONFIRMATIONS"

(* Mutant: every deposit that is seen again is evaluated again.            *)
recordDepositAgain(d, h) ==
    [status |-> Routed(d), height |-> h, prior |-> "NONE"]

(* recordDeposit: a new key is inserted, an ORPHANED record revived (with  *)
(* the height it was first seen at), anything else is a duplicate.         *)
recordDeposit(d, h) ==
    CASE dep[d].status = "NONE"     -> [status |-> Routed(d), height |-> h, prior |-> "NONE"]
      [] dep[d].status = "ORPHANED" -> [dep[d] EXCEPT !.status = Routed(d)]
      [] OTHER                      -> dep[d]

(* Mutant: the review item is left to a later step.                        *)
RecordBlockNoItems(h) ==
    /\ dep' = [d \in Deposits |-> IF d \in chain[h].deps THEN recordDeposit(d, h) ELSE dep[d]]
    /\ checkpoint' = [height |-> h, hash |-> chain[h].hash]
    /\ recorded' = recorded \cup {h}
    /\ UNCHANGED <<items, credited>>

(* RecordBlock: the deposits, their review items and the checkpoint, in    *)
(* one transaction                                                         *)
RecordBlock(h) ==
    LET block == chain[h] IN
    /\ dep' = [d \in Deposits |-> IF d \in block.deps THEN recordDeposit(d, h) ELSE dep[d]]
    /\ items' = [d \in Deposits |->
          IF dep'[d].status = "REVIEW_REQUIRED" /\ dep[d].status # "REVIEW_REQUIRED"
          THEN items[d] + 1 ELSE items[d]]
    /\ checkpoint' = [height |-> h, hash |-> block.hash]
    /\ recorded' = recorded \cup {h}
    /\ UNCHANGED credited
-----------------------------------------------------------------------------
(* The scan cycle *)

Rest == scan' = Resting(scan.forcedBase)

(* The tip, or an answer of a node on another chain                        *)
CycleStart ==
    /\ scan.pc = "idle"
    /\ \/ /\ chain # <<>>
          /\ scan' = [scan EXCEPT !.pc = "controls", !.latest = Len(chain)]
          /\ UNCHANGED conditions
       \/ /\ conditions' = conditions \cup {"WRONG_CHAIN_ID"}
          /\ Rest
    /\ UNCHANGED <<nodeVars, recordVars, checkpoint, controls, minimum, recorded, crashes>>

(* resolveCursor: a requested base wins over the configured one ...        *)
ResolveControls ==
    /\ scan.pc = "controls"
    /\ scan' = IF controls.resume # 0
               THEN [scan EXCEPT !.pc = "clear", !.base = controls.resume]
               ELSE [scan EXCEPT !.pc = "cursor", !.base = scan.forcedBase]
    /\ UNCHANGED <<nodeVars, recordVars, checkpoint, controls, conditions, minimum, recorded,
                   crashes>>

(* ... and is cleared, whatever it is by now ...                           *)
ClearResume ==
    /\ scan.pc = "clear"
    /\ controls' = [controls EXCEPT !.resume = 0]
    /\ scan' = [scan EXCEPT !.pc = "cursor"]
    /\ UNCHANGED <<nodeVars, recordVars, checkpoint, conditions, minimum, recorded, crashes>>

(* ... then the base with its parent's hash from the node (which may fail  *)
(* to answer: the base is dropped), the checkpoint, or the tip.            *)
ResolveCursor ==
    /\ scan.pc = "cursor"
    /\ \/ /\ scan.base > 0
          /\ \/ /\ scan.base - 1 \in {0} \cup DOMAIN chain
                /\ scan' = [scan EXCEPT !.pc = "walk", !.forcedBase = 0,
                                        !.next = scan.base, !.expected = HashAt(scan.base - 1)]
             \/ /\ scan.base > 1
                /\ scan' = Resting(0)
       \/ /\ scan.base = 0
          /\ scan' = [scan EXCEPT !.pc = "walk",
                !.next = IF checkpoint = NoCheckpoint THEN scan.latest ELSE checkpoint.height + 1,
                !.expected = IF checkpoint = NoCheckpoint THEN 0 ELSE checkpoint.hash]
    /\ UNCHANGED <<nodeVars, recordVars, checkpoint, controls, conditions, minimum, recorded,
                   crashes>>

(* One block: unavailable, following on the expected parent, or not.       *)
Fetchable == scan.pc = "walk" /\ scan.next <= scan.latest /\ scan.next \in DOMAIN chain

HashChainBroken == scan.expected # 0 /\ HashAt(scan.next - 1) # scan.expected

WalkUnavailable ==
    /\ scan.pc = "walk" /\ scan.next <= scan.latest
    /\ Rest
    /\ UNCHANGED <<nodeVars, recordVars, checkpoint, controls, conditions, minimum, recorded,
                   crashes>>

WalkBlock ==
    /\ Fetchable
    /\ ~HashChainBroken
    /\ RecordBlock(scan.next)
    /\ scan' = [scan EXCEPT !.next = @ + 1, !.expected = HashAt(scan.next)]
    /\ UNCHANGED <<nodeVars, controls, conditions, minimum, crashes>>

(* The statuses orphanFlow marks *)
Orphanable == {"DISCOVERED", "VALIDATED", "AWAITING_CONFIRMATIONS", "CREDITABLE", "BELOW_MINIMUM"}


(* orphanFlow: the chain-review condition, once; the deposits of the       *)
(* replaced block and above, one by one; then the checkpoint goes back by  *)
(* one block, to the hash the node has there.  The cycle ends.             *)
OrphanOpen ==
    /\ Fetchable
    /\ HashChainBroken
    /\ conditions' = conditions \cup {"BLOCK_HASH_MISMATCH"}
    /\ scan' = [scan EXCEPT !.pc = "orphan",
          !.todo = {d \in Deposits : /\ dep[d].status \in Orphanable
                                     /\ dep[d].height >= scan.next - 1}]
    /\ UNCHANGED <<nodeVars, recordVars, checkpoint, controls, minimum, recorded, crashes>>

OrphanMark ==
    /\ scan.pc = "orphan"
    /\ \E d \in scan.todo :
         /\ CanMove(dep[d], "ORPHANED")
         /\ dep' = [dep EXCEPT ![d] = Moved(@, "ORPHANED")]
         /\ scan' = [scan EXCEPT !.todo = @ \ {d}]
    /\ UNCHANGED <<nodeVars, items, credited, checkpoint, controls, conditions, minimum, recorded,
                   crashes>>


OrphanRollback ==
    LET replaced == scan.next - 1
        height == IF replaced > 1 THEN replaced - 1 ELSE 0
    IN
    /\ scan.pc = "orphan" /\ scan.todo = {}
    /\ \/ checkpoint' = [height |-> height, hash |-> HashAt(height)]
       \/ height > 0 /\ UNCHANGED checkpoint  \* the node does not answer
    /\ Rest
    /\ UNCHANGED <<nodeVars, recordVars, controls, conditions, minimum, recorded, crashes>>
-----------------------------------------------------------------------------
(* Pending deposits *)

ConfirmationCount(latest, height) == IF latest < height THEN 0 ELSE latest - height + 1

Deep(latest, r) == ConfirmationCount(latest, r.height) >= Confirmations

CreditGateClosed == controls.paused \/ controls.scanOnly \/ conditions # {}

(* LoadCreditGate, as far as EvaluateCreditConditions tells apart          *)
LoadCreditGate ==
    IF controls.scanOnly THEN "suspend" ELSE IF CreditGateClosed THEN "hold" ELSE "open"

(* Mutant: suspended deposits wait for another reason to be looked at.     *)
PromotedNotResumed(r, d) ==
    IF r.status = "AWAITING_CONFIRMATIONS" /\ Deep(scan.latest, r) THEN Moved(r, "CREDITABLE") ELSE r

(* What processPending does to one record before it credits: SUSPENDED     *)
(* resumes, BELOW_MINIMUM is measured again, AWAITING_CONFIRMATIONS that   *)
(* is deep enough becomes CREDITABLE.                                      *)
Promoted(r, d) ==
    LET resumed == IF r.status = "SUSPENDED" /\ ~controls.scanOnly /\ ~controls.paused
                   THEN Moved(r, r.prior) ELSE r
        revived == IF resumed.status = "BELOW_MINIMUM" /\ ~(minimum > 0 /\ AmountOf[d] < minimum)
                   THEN Moved(resumed, "AWAITING_CONFIRMATIONS") ELSE resumed
    IN  IF revived.status = "AWAITING_CONFIRMATIONS" /\ Deep(scan.latest, revived)
        THEN Moved(revived, "CREDITABLE") ELSE revived

(* The gate is loaded once per cycle; the scanner is the only writer of    *)
(* these records, so the single updates of this pass are one step.         *)
ProcessPending ==
    /\ scan.pc = "walk" /\ scan.next > scan.latest
    /\ dep' = [d \in Deposits |-> Promoted(dep[d], d)]
    /\ scan' = [scan EXCEPT !.pc = "credit", !.gate = LoadCreditGate,
                            !.todo = {d \in Deposits : dep'[d].status = "CREDITABLE"}]
    /\ UNCHANGED <<nodeVars, items, credited, checkpoint, controls, conditions, minimum, recorded,
                   crashes>>

(* Mutant: the gate loaded at the start of the pass decides.               *)
CreditDepositUnchecked(d) ==
    /\ CanMove(dep[d], "CREDITED") /\ credited[d] = 0
    /\ dep' = [dep EXCEPT ![d] = Moved(@, "CREDITED")]
    /\ credited' = [credited EXCEPT ![d] = @ + 1]
    /\ scan' = [scan EXCEPT !.todo = @ \ {d}]

(* CreditDeposit: under the credit-gate lock the gate is read again; when  *)
(* it has closed the pass ends.  Else the status and the outbox event, in  *)
(* one transaction that a duplicate event would fail.                      *)
CreditDeposit(d) ==
    \/ /\ CreditGateClosed
       /\ Rest
       /\ UNCHANGED <<dep, credited>>
    \/ /\ ~CreditGateClosed
       /\ CanMove(dep[d], "CREDITED") /\ credited[d] = 0
       /\ dep' = [dep EXCEPT ![d] = Moved(@, "CREDITED")]
       /\ credited' = [credited EXCEPT ![d] = @ + 1]
       /\ scan' = [scan EXCEPT !.todo = @ \ {d}]
    \/ /\ ~CreditGateClosed
       /\ ~(CanMove(dep[d], "CREDITED") /\ credited[d] = 0)
       /\ Rest
       /\ UNCHANGED <<dep, credited>>

(* EvaluateCreditConditions on one CREDITABLE record: hold, suspend or     *)
(* credit                                                                  *)
EvaluateCredit ==
    /\ scan.pc = "credit"
    /\ \E d \in scan.todo :
         LET next == [scan EXCEPT !.todo = @ \ {d}] IN
         \/ /\ ~Deep(scan.latest, dep[d]) \/ scan.gate = "hold"
            /\ scan' = next
            /\ UNCHANGED <<dep, credited>>
         \/ /\ Deep(scan.latest, dep[d]) /\ scan.gate = "suspend"
            /\ CanMove(dep[d], "SUSPENDED")
            /\ dep' = [dep EXCEPT ![d] = Moved(@, "SUSPENDED")]
            /\ scan' = next
            /\ UNCHANGED credited
         \/ /\ Deep(scan.latest, dep[d]) /\ scan.gate = "open"
            /\ CreditDeposit(d)
    /\ UNCHANGED <<nodeVars, items, checkpoint, controls, conditions, minimum, recorded, crashes>>

CycleEnd ==
    /\ scan.pc = "credit" /\ scan.todo = {}
    /\ Rest
    /\ UNCHANGED <<nodeVars, recordVars, checkpoint, controls, conditions, minimum, recorded,
                   crashes>>
-----------------------------------------------------------------------------
(* The operator *)

ApplyControls ==
    /\ \/ controls' = [controls EXCEPT !.paused = ~@]
       \/ controls' = [controls EXCEPT !.scanOnly = ~@]
       \/ \E h \in RescanBases : controls' = [controls EXCEPT !.resume = h]
    /\ UNCHANGED <<nodeVars, recordVars, checkpoint, conditions, minimum, scan, recorded, crashes>>

ResolveChainReview ==
    /\ \E trigger \in conditions : conditions' = conditions \ {trigger}
    /\ UNCHANGED <<nodeVars, recordVars, checkpoint, controls, minimum, scan, recorded, crashes>>

(* Mutant: an item can be resolved again while the deposit is pending.     *)
ResolveDepositReviewAgain(d) ==
    /\ dep[d].status \in {"REVIEW_REQUIRED", "AWAITING_CONFIRMATIONS"}
    /\ \E to \in {"AWAITING_CONFIRMATIONS", "REJECTED"} : dep' = [dep EXCEPT ![d] = Moved(@, to)]
    /\ items' = [items EXCEPT ![d] = @ - 1]
    /\ UNCHANGED <<nodeVars, credited, checkpoint, controls, conditions, minimum, scan, recorded,
                   crashes>>

(* resolveDepositReview: back into the credit pipeline, or REJECTED        *)
ResolveDepositReview(d) ==
    /\ dep[d].status = "REVIEW_REQUIRED" /\ items[d] > 0
    /\ \E to \in {"AWAITING_CONFIRMATIONS", "REJECTED"} : dep' = [dep EXCEPT ![d] = Moved(@, to)]
    /\ items' = [items EXCEPT ![d] = @ - 1]
    /\ UNCHANGED <<nodeVars, credited, checkpoint, controls, conditions, minimum, scan, recorded,
                   crashes>>

(* A restart loses the locals and may come with another configuration.     *)
Restart ==
    /\ crashes < MaxCrashes
    /\ crashes' = crashes + 1
    /\ scan' = Resting(StartHeight)
    /\ minimum' \in Minimums
    /\ UNCHANGED <<nodeVars, recordVars, checkpoint, controls, conditions, recorded>>

Cycle ==
    \/ CycleStart \/ ResolveControls \/ ClearResume \/ ResolveCursor
    \/ WalkUnavailable \/ WalkBlock
    \/ OrphanOpen \/ OrphanMark \/ OrphanRollback
    \/ ProcessPending \/ EvaluateCredit \/ CycleEnd

Operator ==
    \/ ApplyControls \/ ResolveChainReview
    \/ \E d \in Deposits : ResolveDepositReview(d)

Next == Produce \/ Rewrite \/ Cycle \/ Operator \/ Restart

Spec == Init /\ [][Next]_vars

(* The poll ticker starts cycle after cycle, and the node answers again    *)
(* after a failure: it reports its own chain, and serves every block.      *)
Fairness ==
    /\ WF_vars(Cycle)
    /\ SF_vars(CycleStart /\ scan'.pc = "controls")
    /\ SF_vars(ResolveCursor /\ scan'.pc = "walk")
    /\ \A h \in 1 .. MaxHeight : SF_vars(WalkBlock /\ scan.next = h)

FairSpec == Spec /\ Fairness
-----------------------------------------------------------------------------
(* Properties *)

(* Every variable has its type: deposit records, checkpoint, controls and  *)
(* the scanner's locals.                                                   *)
TypeOK ==
    /\ chain \in Seq([hash : Nat, deps : SUBSET Deposits])
    /\ hashes \in Nat /\ rewrites \in Nat
    /\ dep \in [Deposits -> [status : DepositStatuses \cup {"NONE"}, height : Nat,
                             prior : DepositStatuses \cup {"NONE"}]]
    /\ items \in [Deposits -> Nat]
    /\ credited \in [Deposits -> Nat]
    /\ checkpoint \in [height : Nat \cup {-1}, hash : Nat]
    /\ controls \in [paused : BOOLEAN, scanOnly : BOOLEAN, resume : Nat]
    /\ conditions \subseteq {"BLOCK_HASH_MISMATCH", "WRONG_CHAIN_ID"}
    /\ minimum \in Nat
    /\ scan \in [pc : {"idle", "controls", "clear", "cursor", "walk", "orphan", "credit"},
                 forcedBase : Nat, base : Nat, latest : Nat, next : Nat, expected : Nat,
                 gate : {"open", "hold", "suspend"}, todo : SUBSET Deposits]
    /\ recorded \subseteq Nat
    /\ crashes \in Nat

(* The hash the scanner stopped at is on the node's chain.                 *)
InSync == checkpoint.height >= 1 /\ checkpoint.hash = HashAt(checkpoint.height)

(* The credited event is in the outbox exactly when the deposit is         *)
(* CREDITED, once: no replay, rescan, revival or restart credits again.    *)
CreditedExactlyOnce ==
    \A d \in Deposits : credited[d] = IF dep[d].status = "CREDITED" THEN 1 ELSE 0

(* No step credits a deposit while crediting is paused, scan-without-      *)
(* credit is on or a chain-review condition is open, although the pass     *)
(* loaded the gate before.                                                 *)
GateRespected == [][credited' # credited => ~CreditGateClosed]_vars



(* Only operators move a deposit out of review, and each has an open item  *)
(* for it.                                                                 *)
ReviewItemsMatch ==
    \A d \in Deposits : (dep[d].status = "REVIEW_REQUIRED") <=> (items[d] > 0)

(* A deposit that is deep enough is credited, unless the gate closes or    *)
(* it turns out orphaned: parking it as SUSPENDED or a restart does not    *)
(* lose it.                                                                *)
DeepIsCredited ==
    \A d \in Deposits :
        dep[d].status \in {"AWAITING_CONFIRMATIONS", "CREDITABLE", "SUSPENDED"} /\ Deep(Len(chain), dep[d])
        ~> dep[d].status \in {"CREDITED", "ORPHANED"} \/ CreditGateClosed
=============================================================================

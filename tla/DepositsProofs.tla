--------------------------- MODULE DepositsProofs ---------------------------
(***************************************************************************)
(* Proofs about Deposits for every set of deposits, verdicts, amounts,     *)
(* minimums, confirmations and bounds.                                     *)
(*                                                                         *)
(* A record, its open review items and its credited events are good        *)
(* together (Good).  Each lemma of the first part says that one way the    *)
(* code writes a record keeps it good; the invariant IInv is the type      *)
(* invariant and the goodness of every deposit.                            *)
(***************************************************************************)
EXTENDS Deposits, SequenceTheorems, TLAPS

Statuses == DepositStatuses \cup {"NONE"}

Records == [status : Statuses, height : Nat, prior : Statuses]

Blocks == [hash : Nat, deps : SUBSET Deposits]

(* A deposit record r with i open review items and c credited events: one  *)
(* item exactly in review, one event exactly when credited, and what       *)
(* SUSPENDED resumes to is neither (else resuming would credit without an  *)
(* event, or put back into review without an item).                        *)
Good(r, i, c) ==
    /\ r \in Records
    /\ r.prior \notin {"CREDITED", "REVIEW_REQUIRED"}
    /\ i = (IF r.status = "REVIEW_REQUIRED" THEN 1 ELSE 0)
    /\ c = (IF r.status = "CREDITED" THEN 1 ELSE 0)

Scans == [pc : {"idle", "controls", "clear", "cursor", "walk", "orphan", "credit"},
          forcedBase : Nat, base : Nat, latest : Nat, next : Nat, expected : Nat,
          gate : {"open", "hold", "suspend"}, todo : SUBSET Deposits]

AllGood == \A d \in Deposits : Good(dep[d], items[d], credited[d])

IInv == TypeOK /\ AllGood

(* depositTransitions: a CREDITED deposit goes nowhere the scanner sends   *)
(* it, one in review leaves only by a resolution.                          *)
LEMMA TableClosed ==
    ASSUME NEW from, NEW to, DepositMoveLegal(from, to)
    PROVE  /\ from \in DepositStatuses
           /\ to \in {"ORPHANED", "SUSPENDED", "CREDITED"} =>
                  from \notin {"CREDITED", "REVIEW_REQUIRED"}
  BY DEF DepositMoveLegal, DepositStatuses, depositTransitions

(* What UpdateStatus writes.                                               *)
LEMMA MovedRecord ==
    ASSUME NEW r \in Records, NEW to \in Statuses
    PROVE  /\ Moved(r, to) \in Records
           /\ Moved(r, to).status = to
           /\ Moved(r, to).prior = IF to = "SUSPENDED" THEN r.status ELSE "NONE"
  BY DEF Moved, Records, Statuses

(* UpdateStatus to a status that is neither CREDITED nor REVIEW_REQUIRED   *)
(* from one that is neither keeps the record good.                         *)
LEMMA MovedGood ==
    ASSUME NEW r, NEW i, NEW c, NEW to \in Statuses, Good(r, i, c),
           r.status \notin {"CREDITED", "REVIEW_REQUIRED"},
           to \notin {"CREDITED", "REVIEW_REQUIRED"}
    PROVE  Good(Moved(r, to), i, c)
  BY DEF Good, Moved, Records, Statuses, DepositStatuses

(* recordDeposit never sends a record to CREDITED, and leaves the ones     *)
(* that are not new or ORPHANED alone; the item of RecordBlock goes with   *)
(* the move into review.                                                   *)
LEMMA recordDepositGood ==
    ASSUME NEW d \in Deposits, NEW h \in Nat, NEW i, NEW c, Good(dep[d], i, c)
    PROVE  LET r == recordDeposit(d, h) IN
           Good(r, IF r.status = "REVIEW_REQUIRED" /\ dep[d].status # "REVIEW_REQUIRED"
                   THEN i + 1 ELSE i, c)
  <1>1. Routed(d) \in {"REJECTED", "REVIEW_REQUIRED", "BELOW_MINIMUM", "AWAITING_CONFIRMATIONS"}
    BY DEF Routed
  <1>2. CASE dep[d].status = "NONE"
    BY <1>1, <1>2 DEF recordDeposit, Good, Records, Statuses, DepositStatuses
  <1>3. CASE dep[d].status = "ORPHANED"
    BY <1>1, <1>3 DEF recordDeposit, Good, Records, Statuses, DepositStatuses
  <1>4. CASE dep[d].status \notin {"NONE", "ORPHANED"}
    <2>1. recordDeposit(d, h) = dep[d]
      BY <1>4 DEF recordDeposit
    <2> QED BY <2>1
  <1> QED BY <1>2, <1>3, <1>4

(* processPending resumes, measures again and promotes; it neither credits *)
(* nor touches what is CREDITED or in review.                              *)
LEMMA PromotedGood ==
    ASSUME NEW d \in Deposits, NEW r, NEW i, NEW c, Good(r, i, c)
    PROVE  Good(Promoted(r, d), i, c)
  <1> DEFINE resumed == IF r.status = "SUSPENDED" /\ ~controls.scanOnly /\ ~controls.paused
                        THEN Moved(r, r.prior) ELSE r
             revived == IF resumed.status = "BELOW_MINIMUM" /\ ~(minimum > 0 /\ AmountOf[d] < minimum)
                        THEN Moved(resumed, "AWAITING_CONFIRMATIONS") ELSE resumed
  <1>1. Good(resumed, i, c)
    <2>1. r.prior \in Statuses /\ r.prior \notin {"CREDITED", "REVIEW_REQUIRED"}
      BY DEF Good, Records
    <2> QED BY <2>1, MovedGood
  <1> HIDE DEF resumed
  <1>2. {"AWAITING_CONFIRMATIONS", "CREDITABLE"} \subseteq Statuses
    BY DEF Statuses, DepositStatuses
  <1>3. Good(revived, i, c)
    BY <1>1, <1>2, MovedGood
  <1> HIDE DEF revived
  <1>4. Promoted(r, d) = IF revived.status = "AWAITING_CONFIRMATIONS" /\ Deep(scan.latest, revived)
                         THEN Moved(revived, "CREDITABLE") ELSE revived
    BY DEF Promoted, revived, resumed
  <1> QED BY <1>2, <1>3, <1>4, MovedGood

(* Between cycles the scanner's locals are well typed.                     *)
LEMMA RestingScan == ASSUME NEW b \in Nat PROVE Resting(b) \in Scans
  BY DEF Resting, Scans

(* The node answers with a natural number, 0 where it has no block.        *)
LEMMA HashAtNat == ASSUME chain \in Seq(Blocks), NEW h PROVE HashAt(h) \in Nat
  <1>1. CASE h \in DOMAIN chain
    <2>1. chain[h] \in Blocks
      BY <1>1, LenProperties, ElementOfSeq
    <2> QED BY <1>1, <2>1 DEF HashAt, Blocks
  <1> QED BY <1>1 DEF HashAt
-----------------------------------------------------------------------------
(* The initial state.                                                      *)
LEMMA InitIInv == Init => IInv
  <1> SUFFICES ASSUME Init PROVE IInv OBVIOUS
  <1> USE DepositsAssumption DEF Init
  <1>1. scan \in Scans
    BY RestingScan
  <1>2. TypeOK
    BY <1>1 DEF TypeOK, NoCheckpoint, Scans
  <1>3. AllGood
    BY DEF AllGood, Good, Records, Statuses
  <1> QED BY <1>2, <1>3 DEF IInv
-----------------------------------------------------------------------------
(* The parts of the type invariant that steps share.                       *)
NodeOK == chain \in Seq(Blocks) /\ hashes \in Nat /\ rewrites \in Nat

StoreOK ==
    /\ checkpoint \in [height : Nat \cup {-1}, hash : Nat]
    /\ controls \in [paused : BOOLEAN, scanOnly : BOOLEAN, resume : Nat]
    /\ conditions \subseteq {"BLOCK_HASH_MISMATCH", "WRONG_CHAIN_ID"}
    /\ minimum \in Nat
    /\ recorded \subseteq Nat
    /\ crashes \in Nat

RecordsOK ==
    /\ dep \in [Deposits -> Records]
    /\ items \in [Deposits -> Nat]
    /\ credited \in [Deposits -> Nat]

(* The type invariant is these parts.                                      *)
LEMMA TypeParts == TypeOK <=> NodeOK /\ StoreOK /\ RecordsOK /\ scan \in Scans
  BY DEF TypeOK, NodeOK, StoreOK, RecordsOK, Scans, Blocks, Records, Statuses

(* ... also in the next state.                                             *)
LEMMA TypePartsNext == TypeOK' <=> NodeOK' /\ StoreOK' /\ RecordsOK' /\ (scan \in Scans)'
  BY DEF TypeOK, NodeOK, StoreOK, RecordsOK, Scans, Blocks, Records, Statuses

(* A step that leaves the records alone keeps them good.                   *)
LEMMA RecordsStay ==
    ASSUME IInv, UNCHANGED recordVars
    PROVE  RecordsOK' /\ AllGood'
  BY TypeParts DEF IInv, RecordsOK, AllGood, recordVars

(* The node's own steps give another chain of blocks.                      *)
LEMMA NodeSteps == ASSUME IInv, Produce \/ Rewrite PROVE NodeOK'
  <1>0. NodeOK
    BY TypeParts DEF IInv
  <1>1. CASE Produce
    <2>1. PICK ds \in SUBSET (Deposits \ Included(chain)) :
             chain' = Append(chain, [hash |-> hashes + 1, deps |-> ds])
      BY <1>1 DEF Produce
    <2>2. [hash |-> hashes + 1, deps |-> ds] \in Blocks
      BY <1>0 DEF NodeOK, Blocks
    <2>3. chain' \in Seq(Blocks)
      BY <1>0, <2>1, <2>2 DEF NodeOK
    <2> QED BY <1>0, <1>1, <2>3 DEF NodeOK, Produce
  <1>2. CASE Rewrite
    <2>1. PICK k \in 1 .. RewriteDepth :
             /\ k <= Len(chain)
             /\ hashes' = hashes + k
             /\ \E ds \in [1 .. k -> SUBSET (Deposits \ Included(SubSeq(chain, 1, Len(chain) - k)))] :
                  chain' = SubSeq(chain, 1, Len(chain) - k)
                             \o [i \in 1 .. k |-> [hash |-> hashes + i, deps |-> ds[i]]]
      BY <1>2 DEF Rewrite
    <2> DEFINE kept == SubSeq(chain, 1, Len(chain) - k)
    <2>2. PICK ds \in [1 .. k -> SUBSET (Deposits \ Included(kept))] :
             chain' = kept \o [i \in 1 .. k |-> [hash |-> hashes + i, deps |-> ds[i]]]
      BY <2>1
    <2> DEFINE new == [i \in 1 .. k |-> [hash |-> hashes + i, deps |-> ds[i]]]
    <2>3. k \in Nat /\ Len(chain) \in Nat
      BY <1>0, DepositsAssumption, LenProperties DEF NodeOK
    <2>4. kept \in Seq(Blocks)
      <3>1. \A i \in 1 .. Len(chain) - k : chain[i] \in Blocks
        BY <1>0, <2>3, ElementOfSeq DEF NodeOK
      <3> QED BY <2>3, <3>1, SubSeqProperties
    <2>5. new \in Seq(Blocks)
      <3>1. \A i \in 1 .. k : [hash |-> hashes + i, deps |-> ds[i]] \in Blocks
        BY <1>0, <2>3 DEF NodeOK, Blocks
      <3>2. new \in [1 .. k -> Blocks]
        BY <3>1
      <3> QED BY <2>3, <3>2
    <2>6. chain' \in Seq(Blocks)
      BY <2>2, <2>4, <2>5, ConcatProperties
    <2> QED BY <1>0, <1>2, <2>1, <2>3, <2>6 DEF NodeOK, Rewrite
  <1> QED BY <1>1, <1>2
-----------------------------------------------------------------------------
(* The record of one deposit is written, the others stay.                  *)
LEMMA OneRecord ==
    ASSUME IInv, NEW d \in Deposits, NEW r, NEW i \in Nat, NEW c \in Nat,
           Good(r, i, c),
           dep' = [dep EXCEPT ![d] = r],
           items' = [items EXCEPT ![d] = i],
           credited' = [credited EXCEPT ![d] = c]
    PROVE  RecordsOK' /\ AllGood'
  <1>1. RecordsOK /\ r \in Records
    BY TypeParts DEF IInv, Good
  <1>2. \A e \in Deposits \ {d} :
           dep'[e] = dep[e] /\ items'[e] = items[e] /\ credited'[e] = credited[e]
    BY <1>1 DEF RecordsOK
  <1>3. dep'[d] = r /\ items'[d] = i /\ credited'[d] = c
    BY <1>1 DEF RecordsOK
  <1>4. AllGood'
    <2> SUFFICES ASSUME NEW e \in Deposits PROVE Good(dep'[e], items'[e], credited'[e])
      BY DEF AllGood
    <2> QED BY <1>2, <1>3 DEF IInv, AllGood
  <1> QED BY <1>1, <1>4 DEF RecordsOK

(* WalkBlock: recordDeposit on every deposit of the block.                 *)
LEMMA WalkRecords == ASSUME IInv, WalkBlock PROVE RecordsOK' /\ AllGood'
  <1> DEFINE h == scan.next
  <1>1. RecordBlock(h) /\ h \in Nat
    BY TypeParts DEF WalkBlock, IInv, Scans
  <1>2. RecordsOK
    BY TypeParts DEF IInv
  <1> HIDE DEF h
  <1>3. ASSUME NEW d \in Deposits PROVE Good(dep'[d], items'[d], credited'[d])
    <2>1. /\ dep'[d] = IF d \in chain[h].deps THEN recordDeposit(d, h) ELSE dep[d]
          /\ items'[d] = IF dep'[d].status = "REVIEW_REQUIRED" /\ dep[d].status # "REVIEW_REQUIRED"
                         THEN items[d] + 1 ELSE items[d]
          /\ credited'[d] = credited[d]
      BY <1>1, <1>3 DEF RecordBlock
    <2>2. Good(dep[d], items[d], credited[d])
      BY <1>3 DEF IInv, AllGood
    <2>3. CASE d \in chain[h].deps
      BY <1>1, <1>3, <2>1, <2>2, <2>3, recordDepositGood
    <2>4. CASE d \notin chain[h].deps
      BY <2>1, <2>2, <2>4
    <2> QED BY <2>3, <2>4
  <1>4. dep' \in [Deposits -> Records]
    <2>1. dep' = [d \in Deposits |-> dep'[d]]
      BY <1>1 DEF RecordBlock
    <2> QED BY <1>3, <2>1 DEF Good
  <1>5. items' \in [Deposits -> Nat]
    <2>1. items' = [d \in Deposits |-> items'[d]]
      BY <1>1 DEF RecordBlock
    <2> QED BY <1>3, <2>1 DEF Good
  <1>6. credited' \in [Deposits -> Nat]
    BY <1>1, <1>2 DEF RecordBlock, RecordsOK
  <1> QED BY <1>3, <1>4, <1>5, <1>6 DEF RecordsOK, AllGood

(* ProcessPending: Promoted on every record.                               *)
LEMMA PendingRecords == ASSUME IInv, ProcessPending PROVE RecordsOK' /\ AllGood'
  <1>1. RecordsOK
    BY TypeParts DEF IInv
  <1>2. dep' = [d \in Deposits |-> Promoted(dep[d], d)] /\ items' = items /\ credited' = credited
    BY DEF ProcessPending
  <1>3. ASSUME NEW d \in Deposits PROVE Good(dep'[d], items'[d], credited'[d])
    <2>1. Good(dep[d], items[d], credited[d])
      BY <1>3 DEF IInv, AllGood
    <2> QED BY <1>2, <1>3, <2>1, PromotedGood
  <1>4. dep' \in [Deposits -> Records]
    <2>1. dep' = [d \in Deposits |-> dep'[d]]
      BY <1>2
    <2> QED BY <1>3, <2>1 DEF Good
  <1> QED BY <1>1, <1>2, <1>3, <1>4 DEF RecordsOK, AllGood

(* OrphanMark: a legal move to ORPHANED.                                   *)
LEMMA OrphanRecords == ASSUME IInv, OrphanMark PROVE RecordsOK' /\ AllGood'
  <1>0. RecordsOK /\ scan.todo \subseteq Deposits
    BY TypeParts DEF IInv, Scans
  <1>1. PICK d \in scan.todo : /\ CanMove(dep[d], "ORPHANED")
                               /\ dep' = [dep EXCEPT ![d] = Moved(dep[d], "ORPHANED")]
    BY DEF OrphanMark
  <1>2. d \in Deposits /\ Good(dep[d], items[d], credited[d])
    BY <1>0, <1>1 DEF IInv, AllGood
  <1>3. dep[d].status \notin {"CREDITED", "REVIEW_REQUIRED"}
    BY <1>1, TableClosed DEF CanMove
  <1>4. Good(Moved(dep[d], "ORPHANED"), items[d], credited[d])
    BY <1>2, <1>3, MovedGood DEF Statuses, DepositStatuses
  <1>5. items' = [items EXCEPT ![d] = items[d]] /\ credited' = [credited EXCEPT ![d] = credited[d]]
    BY <1>0, <1>2 DEF OrphanMark, RecordsOK
  <1>6. items[d] \in Nat /\ credited[d] \in Nat
    BY <1>0, <1>2 DEF RecordsOK
  <1> QED BY <1>1, <1>2, <1>4, <1>5, <1>6, OneRecord

(* EvaluateCredit: nothing, a legal move to SUSPENDED, or a legal move to  *)
(* CREDITED with its event.                                                *)
LEMMA CreditRecords == ASSUME IInv, EvaluateCredit PROVE RecordsOK' /\ AllGood'
  <1>0. RecordsOK /\ scan.todo \subseteq Deposits
    BY TypeParts DEF IInv, Scans
  <1>1. PICK d \in scan.todo :
          \/ UNCHANGED <<dep, credited>>
          \/ /\ CanMove(dep[d], "SUSPENDED")
             /\ dep' = [dep EXCEPT ![d] = Moved(dep[d], "SUSPENDED")]
             /\ UNCHANGED credited
          \/ /\ CanMove(dep[d], "CREDITED") /\ credited[d] = 0
             /\ dep' = [dep EXCEPT ![d] = Moved(dep[d], "CREDITED")]
             /\ credited' = [credited EXCEPT ![d] = credited[d] + 1]
    BY DEF EvaluateCredit, CreditDeposit
  <1>2. d \in Deposits /\ Good(dep[d], items[d], credited[d])
    BY <1>0 DEF IInv, AllGood
  <1>3. /\ items' = items /\ items' = [items EXCEPT ![d] = items[d]]
        /\ items[d] \in Nat /\ credited[d] \in Nat
    BY <1>0, <1>2 DEF EvaluateCredit, RecordsOK
  <1>4. CASE UNCHANGED <<dep, credited>>
    BY <1>3, <1>4, RecordsStay DEF recordVars
  <1>5. CASE /\ CanMove(dep[d], "SUSPENDED")
             /\ dep' = [dep EXCEPT ![d] = Moved(dep[d], "SUSPENDED")]
             /\ UNCHANGED credited
    <2>1. dep[d].status \notin {"CREDITED", "REVIEW_REQUIRED"}
      BY <1>5, TableClosed DEF CanMove
    <2>2. Good(Moved(dep[d], "SUSPENDED"), items[d], credited[d])
      BY <1>2, <2>1, MovedGood DEF Statuses, DepositStatuses
    <2>3. credited' = [credited EXCEPT ![d] = credited[d]]
      BY <1>0, <1>2, <1>5 DEF RecordsOK
    <2>4. dep' = [dep EXCEPT ![d] = Moved(dep[d], "SUSPENDED")]
      BY <1>5
    <2>5. items' = [items EXCEPT ![d] = items[d]] /\ items[d] \in Nat /\ credited[d] \in Nat
      BY <1>3
    <2>6. d \in Deposits
      BY <1>2
    <2> QED BY <2>2, <2>3, <2>4, <2>5, <2>6, OneRecord
  <1>6. CASE /\ CanMove(dep[d], "CREDITED") /\ credited[d] = 0
             /\ dep' = [dep EXCEPT ![d] = Moved(dep[d], "CREDITED")]
             /\ credited' = [credited EXCEPT ![d] = credited[d] + 1]
    <2>1. dep[d].status \notin {"CREDITED", "REVIEW_REQUIRED"}
      BY <1>6, TableClosed DEF CanMove
    <2>2. Good(Moved(dep[d], "CREDITED"), items[d], 1)
      BY <1>2, <2>1, MovedRecord DEF Good, Statuses, DepositStatuses
    <2>3. credited' = [credited EXCEPT ![d] = 1]
      BY <1>6
    <2> QED BY <1>2, <1>3, <1>6, <2>2, <2>3, OneRecord
  <1> QED BY <1>1, <1>4, <1>5, <1>6

(* ResolveDepositReview: out of review, with its item.                     *)
LEMMA ResolveRecords ==
    ASSUME IInv, NEW d \in Deposits, ResolveDepositReview(d)
    PROVE  RecordsOK' /\ AllGood'
  <1>0. RecordsOK
    BY TypeParts DEF IInv
  <1>1. PICK to \in {"AWAITING_CONFIRMATIONS", "REJECTED"} :
          dep' = [dep EXCEPT ![d] = Moved(dep[d], to)]
    BY DEF ResolveDepositReview
  <1>2. /\ Good(dep[d], items[d], credited[d]) /\ dep[d].status = "REVIEW_REQUIRED"
        /\ items' = [items EXCEPT ![d] = items[d] - 1] /\ credited' = credited
    BY DEF IInv, AllGood, ResolveDepositReview
  <1>3. /\ items' = [items EXCEPT ![d] = 0]
        /\ credited' = [credited EXCEPT ![d] = 0]
    BY <1>0, <1>2 DEF Good, RecordsOK
  <1>4. Good(Moved(dep[d], to), 0, 0)
    BY <1>2, MovedRecord DEF Good, Statuses, DepositStatuses
  <1>5. dep' = [dep EXCEPT ![d] = Moved(dep[d], to)]
    BY <1>1
  <1>6. \E r : Good(r, 0, 0) /\ dep' = [dep EXCEPT ![d] = r]
    BY <1>4, <1>5
  <1>7. 0 \in Nat
    OBVIOUS
  <1> QED BY <1>3, <1>6, <1>7, OneRecord
-----------------------------------------------------------------------------
(* The steps of a cycle that write no record keep the checkpoint, the      *)
(* controls, the conditions and the scanner's locals well typed.           *)
LEMMA CursorTypes ==
    ASSUME IInv, CycleStart \/ ResolveControls \/ ClearResume \/ ResolveCursor
    PROVE  StoreOK' /\ (scan \in Scans)'
  <1>0. NodeOK /\ StoreOK /\ scan \in Scans /\ Resting(0) \in Scans /\ Resting(scan.forcedBase) \in Scans
    <2>1. NodeOK /\ StoreOK /\ scan \in Scans
      BY TypeParts DEF IInv
    <2>2. scan.forcedBase \in Nat /\ 0 \in Nat
      BY <2>1 DEF Scans
    <2> QED BY <2>1, <2>2, RestingScan
  <1>1. CASE CycleStart
    <2>1. Len(chain) \in Nat
      BY <1>0, LenProperties DEF NodeOK
    <2>2. scan' = [scan EXCEPT !.pc = "controls", !.latest = Len(chain)] \/ scan' = Resting(scan.forcedBase)
      BY <1>1 DEF CycleStart, Rest
    <2>3. [scan EXCEPT !.pc = "controls", !.latest = Len(chain)] \in Scans
      BY <1>0, <2>1 DEF Scans
    <2>4. StoreOK'
      BY <1>0, <1>1 DEF CycleStart, StoreOK
    <2> QED BY <1>0, <2>2, <2>3, <2>4
  <1>2. CASE ResolveControls
    <2>1. scan' \in Scans
      BY <1>0, <1>2 DEF ResolveControls, StoreOK, Scans
    <2> QED BY <1>0, <1>2, <2>1 DEF ResolveControls, StoreOK
  <1>3. CASE ClearResume
    <2>1. scan' \in Scans
      BY <1>0, <1>3 DEF ClearResume, Scans
    <2>2. controls' \in [paused : BOOLEAN, scanOnly : BOOLEAN, resume : Nat]
      BY <1>0, <1>3 DEF ClearResume, StoreOK
    <2> QED BY <1>0, <1>3, <2>1, <2>2 DEF ClearResume, StoreOK
  <1>4. CASE ResolveCursor
    <2> DEFINE n == IF checkpoint = NoCheckpoint THEN scan.latest ELSE checkpoint.height + 1
               e == IF checkpoint = NoCheckpoint THEN 0 ELSE checkpoint.hash
               b == HashAt(scan.base - 1)
    <2>1. n \in Nat /\ e \in Nat /\ scan.base \in Nat
      BY <1>0 DEF StoreOK, Scans
    <2>2. b \in Nat
      BY <1>0, HashAtNat DEF NodeOK
    <2>3. \/ scan' = [scan EXCEPT !.pc = "walk", !.forcedBase = 0, !.next = scan.base, !.expected = b]
          \/ scan' = Resting(0)
          \/ scan' = [scan EXCEPT !.pc = "walk", !.next = n, !.expected = e]
      BY <1>4 DEF ResolveCursor
    <2> HIDE DEF n, e, b
    <2>4. scan' \in Scans
      <3>1. [scan EXCEPT !.pc = "walk", !.forcedBase = 0, !.next = scan.base, !.expected = b] \in Scans
        BY <1>0, <2>1, <2>2 DEF Scans
      <3>2. [scan EXCEPT !.pc = "walk", !.next = n, !.expected = e] \in Scans
        BY <1>0, <2>1 DEF Scans
      <3> QED BY <1>0, <2>3, <3>1, <3>2
    <2> QED BY <1>0, <1>4, <2>4 DEF ResolveCursor, StoreOK
  <1> QED BY <1>1, <1>2, <1>3, <1>4

(* The same for the walk over the blocks and the orphan flow.              *)
LEMMA WalkTypes ==
    ASSUME IInv, WalkUnavailable \/ WalkBlock \/ OrphanOpen \/ OrphanMark \/ OrphanRollback
    PROVE  StoreOK' /\ (scan \in Scans)'
  <1>0. NodeOK /\ StoreOK /\ scan \in Scans /\ Resting(scan.forcedBase) \in Scans /\ scan.next \in Nat
    <2>1. NodeOK /\ StoreOK /\ scan \in Scans
      BY TypeParts DEF IInv
    <2>2. scan.forcedBase \in Nat /\ scan.next \in Nat
      BY <2>1 DEF Scans
    <2> QED BY <2>1, <2>2, RestingScan
  <1>1. CASE WalkUnavailable
    BY <1>0, <1>1 DEF WalkUnavailable, Rest, StoreOK
  <1>2. CASE WalkBlock
    <2> DEFINE e == HashAt(scan.next)
    <2>0. e = chain[scan.next].hash
      BY <1>2 DEF WalkBlock, Fetchable, HashAt
    <2>1. e \in Nat
      BY <1>0, HashAtNat DEF NodeOK
    <2>2. scan' = [scan EXCEPT !.next = scan.next + 1, !.expected = e]
      BY <1>2 DEF WalkBlock
    <2>3. checkpoint' = [height |-> scan.next, hash |-> e] /\ recorded' = recorded \cup {scan.next}
      BY <1>2, <2>0 DEF WalkBlock, RecordBlock
    <2> HIDE DEF e
    <2>4. scan' \in Scans
      <3>1. scan.next + 1 \in Nat
        BY <1>0
      <3> QED BY <1>0, <2>1, <2>2, <3>1 DEF Scans
    <2>5. UNCHANGED <<controls, conditions, minimum, crashes>>
      BY <1>2 DEF WalkBlock
    <2> QED BY <1>0, <2>1, <2>3, <2>4, <2>5 DEF StoreOK
  <1>3. CASE OrphanOpen
    <2> DEFINE marked == {d \in Deposits : /\ dep[d].status \in Orphanable
                                           /\ dep[d].height >= scan.next - 1}
    <2>1. scan' = [scan EXCEPT !.pc = "orphan", !.todo = marked] /\ marked \subseteq Deposits
      BY <1>3 DEF OrphanOpen
    <2> HIDE DEF marked
    <2>2. scan' \in Scans
      BY <1>0, <2>1 DEF Scans
    <2> QED BY <1>0, <1>3, <2>2 DEF OrphanOpen, StoreOK
  <1>4. CASE OrphanMark
    <2>1. PICK d \in scan.todo : scan' = [scan EXCEPT !.todo = scan.todo \ {d}]
      BY <1>4 DEF OrphanMark
    <2>2. scan' \in Scans
      BY <1>0, <2>1 DEF Scans
    <2> QED BY <1>0, <1>4, <2>2 DEF OrphanMark, StoreOK
  <1>5. CASE OrphanRollback
    <2> DEFINE height == IF scan.next - 1 > 1 THEN scan.next - 1 - 1 ELSE 0
               e == HashAt(height)
    <2>1. height \in Nat
      BY <1>0
    <2>2. e \in Nat
      BY <1>0, HashAtNat DEF NodeOK
    <2>3. checkpoint' = [height |-> height, hash |-> e] \/ checkpoint' = checkpoint
      BY <1>5 DEF OrphanRollback
    <2>4. /\ scan' = Resting(scan.forcedBase)
          /\ UNCHANGED <<controls, conditions, minimum, recorded, crashes>>
      BY <1>5 DEF OrphanRollback, Rest
    <2> HIDE DEF height, e
    <2> QED BY <1>0, <2>1, <2>2, <2>3, <2>4 DEF StoreOK
  <1> QED BY <1>1, <1>2, <1>3, <1>4, <1>5

(* The same for the pass over the pending deposits.                        *)
LEMMA PendingTypes ==
    ASSUME IInv, ProcessPending \/ EvaluateCredit \/ CycleEnd
    PROVE  StoreOK' /\ (scan \in Scans)'
  <1>0. NodeOK /\ StoreOK /\ scan \in Scans /\ Resting(scan.forcedBase) \in Scans
    <2>1. NodeOK /\ StoreOK /\ scan \in Scans
      BY TypeParts DEF IInv
    <2>2. scan.forcedBase \in Nat
      BY <2>1 DEF Scans
    <2> QED BY <2>1, <2>2, RestingScan
  <1>1. CASE ProcessPending
    <2> DEFINE creditable == {d \in Deposits : dep'[d].status = "CREDITABLE"}
    <2>1. /\ scan' = [scan EXCEPT !.pc = "credit", !.gate = LoadCreditGate, !.todo = creditable]
          /\ creditable \subseteq Deposits
      BY <1>1 DEF ProcessPending
    <2>2. LoadCreditGate \in {"open", "hold", "suspend"}
      BY DEF LoadCreditGate
    <2> HIDE DEF creditable
    <2>3. scan' \in Scans
      BY <1>0, <2>1, <2>2 DEF Scans
    <2> QED BY <1>0, <1>1, <2>3 DEF ProcessPending, StoreOK
  <1>2. CASE EvaluateCredit
    <2>1. PICK d \in scan.todo : \/ scan' = [scan EXCEPT !.todo = scan.todo \ {d}]
                                 \/ scan' = Resting(scan.forcedBase)
      BY <1>2 DEF EvaluateCredit, CreditDeposit, Rest
    <2>2. [scan EXCEPT !.todo = scan.todo \ {d}] \in Scans
      BY <1>0 DEF Scans
    <2> QED BY <1>0, <1>2, <2>1, <2>2 DEF EvaluateCredit, StoreOK
  <1>3. CASE CycleEnd
    BY <1>0, <1>3 DEF CycleEnd, Rest, StoreOK
  <1> QED BY <1>1, <1>2, <1>3

(* The same for the operator and a restart.                                *)
LEMMA OperatorTypes ==
    ASSUME IInv, Operator \/ Restart
    PROVE  StoreOK' /\ (scan \in Scans)'
  <1>0. StoreOK /\ scan \in Scans
    BY TypeParts DEF IInv
  <1>1. CASE ApplyControls
    <2>1. controls' \in [paused : BOOLEAN, scanOnly : BOOLEAN, resume : Nat]
      BY <1>0, <1>1, DepositsAssumption DEF ApplyControls, StoreOK
    <2> QED BY <1>0, <1>1, <2>1 DEF ApplyControls, StoreOK
  <1>2. CASE ResolveChainReview
    BY <1>0, <1>2 DEF ResolveChainReview, StoreOK
  <1>3. ASSUME NEW d \in Deposits, ResolveDepositReview(d) PROVE StoreOK' /\ (scan \in Scans)'
    BY <1>0, <1>3 DEF ResolveDepositReview, StoreOK
  <1>4. CASE Restart
    <2>1. scan' \in Scans
      BY <1>4, DepositsAssumption, RestingScan DEF Restart
    <2> QED BY <1>0, <1>4, <2>1, DepositsAssumption DEF Restart, StoreOK
  <1> QED BY <1>1, <1>2, <1>3, <1>4 DEF Operator
-----------------------------------------------------------------------------
(* Every step keeps the invariant.                                         *)
LEMMA NextIInv == IInv /\ [Next]_vars => IInv'
  <1> SUFFICES ASSUME IInv, [Next]_vars PROVE IInv'
    OBVIOUS
  <1> USE TypePartsNext DEF IInv
  <1>0. NodeOK /\ StoreOK /\ RecordsOK /\ scan \in Scans
    BY TypeParts
  <1>1. CASE UNCHANGED vars
    BY <1>0, <1>1, RecordsStay
      DEF vars, nodeVars, recordVars, NodeOK, StoreOK
  <1>2. CASE Produce \/ Rewrite
    <2>1. UNCHANGED recordVars /\ StoreOK' /\ (scan \in Scans)'
      BY <1>0, <1>2 DEF Produce, Rewrite, StoreOK
    <2> QED BY <1>2, <2>1, NodeSteps, RecordsStay
  <1>3. CASE CycleStart \/ ResolveControls \/ ClearResume \/ ResolveCursor
    <2>1. UNCHANGED <<nodeVars, recordVars>>
      BY <1>3 DEF CycleStart, ResolveControls, ClearResume, ResolveCursor
    <2>2. NodeOK'
      BY <1>0, <2>1 DEF nodeVars, NodeOK
    <2> QED BY <1>3, <2>1, <2>2, CursorTypes, RecordsStay
  <1>4. CASE WalkUnavailable \/ OrphanOpen \/ OrphanRollback \/ CycleEnd
    <2>1. UNCHANGED <<nodeVars, recordVars>>
      BY <1>4 DEF WalkUnavailable, OrphanOpen, OrphanRollback, CycleEnd
    <2>2. NodeOK'
      BY <1>0, <2>1 DEF nodeVars, NodeOK
    <2> QED BY <1>4, <2>1, <2>2, WalkTypes, PendingTypes, RecordsStay
  <1>5. CASE WalkBlock \/ OrphanMark \/ ProcessPending \/ EvaluateCredit
    <2>1. NodeOK'
      BY <1>0, <1>5 DEF nodeVars, NodeOK, WalkBlock, OrphanMark, ProcessPending, EvaluateCredit
    <2> QED BY <1>5, <2>1, WalkTypes, PendingTypes, WalkRecords, OrphanRecords, PendingRecords, CreditRecords
  <1>6. CASE ApplyControls \/ ResolveChainReview \/ Restart
    <2>1. UNCHANGED <<nodeVars, recordVars>>
      BY <1>6 DEF ApplyControls, ResolveChainReview, Restart
    <2>2. NodeOK'
      BY <1>0, <2>1 DEF nodeVars, NodeOK
    <2> QED BY <1>6, <2>1, <2>2, OperatorTypes, RecordsStay DEF Operator
  <1>7. ASSUME NEW d \in Deposits, ResolveDepositReview(d) PROVE IInv'
    <2>1. NodeOK'
      BY <1>0, <1>7 DEF nodeVars, NodeOK, ResolveDepositReview
    <2> QED BY <1>7, <2>1, OperatorTypes, ResolveRecords DEF Operator
  <1> QED BY <1>1, <1>2, <1>3, <1>4, <1>5, <1>6, <1>7 DEF Next, Cycle, Operator

(* IInv holds in every state of every behaviour.                           *)
THEOREM InductiveInvariant == Spec => []IInv
  BY InitIInv, NextIInv, PTL DEF Spec

(* Type correctness of the scanner, its records and the node.              *)
THEOREM TypeCorrect == Spec => []TypeOK
  <1>1. IInv => TypeOK
    BY DEF IInv
  <1> QED BY <1>1, InductiveInvariant, PTL

(* A deposit's credited event is in the outbox once when the deposit is    *)
(* CREDITED and not at all otherwise, through any replays, rescans, orphan *)
(* flows, revivals, suspensions and restarts of the scanner.               *)
THEOREM CreditedOnce == Spec => []CreditedExactlyOnce
  <1>1. IInv => CreditedExactlyOnce
    BY DEF IInv, AllGood, Good, CreditedExactlyOnce
  <1> QED BY <1>1, InductiveInvariant, PTL

(* A deposit is in review exactly as long as an open review item points at *)
(* it: none is stuck without an item, none leaves review without one.      *)
THEOREM ReviewQueueMatches == Spec => []ReviewItemsMatch
  <1>1. IInv => ReviewItemsMatch
    BY DEF IInv, AllGood, Good, ReviewItemsMatch
  <1> QED BY <1>1, InductiveInvariant, PTL

(* A credited event appears only in EvaluateCredit.                        *)
LEMMA OnlyEvaluateCredits ==
    ASSUME [Next]_vars, credited' # credited
    PROVE  EvaluateCredit
  <1>1. CASE UNCHANGED vars
    BY <1>1 DEF vars, recordVars
  <1>2. CASE Produce \/ Rewrite \/ Restart
    BY <1>2 DEF Produce, Rewrite, Restart, recordVars
  <1>3. CASE CycleStart \/ ResolveControls \/ ClearResume \/ ResolveCursor \/ WalkUnavailable
    BY <1>3 DEF CycleStart, ResolveControls, ClearResume, ResolveCursor, WalkUnavailable, recordVars
  <1>4. CASE WalkBlock \/ OrphanOpen \/ OrphanMark \/ OrphanRollback \/ ProcessPending \/ CycleEnd
    BY <1>4 DEF WalkBlock, RecordBlock, OrphanOpen, OrphanMark, OrphanRollback, ProcessPending,
                CycleEnd, recordVars
  <1>5. CASE Operator
    BY <1>5 DEF Operator, ApplyControls, ResolveChainReview, ResolveDepositReview, recordVars
  <1> QED BY <1>1, <1>2, <1>3, <1>4, <1>5 DEF Next, Cycle

(* No deposit is credited while the gate is closed, whatever the gate was  *)
(* when the pass loaded it.                                                *)
THEOREM GateHolds == Spec => GateRespected
  <1>1. [Next]_vars => [credited' # credited => ~CreditGateClosed]_vars
    <2> SUFFICES ASSUME [Next]_vars, credited' # credited PROVE ~CreditGateClosed
      OBVIOUS
    <2>1. EvaluateCredit
      BY OnlyEvaluateCredits
    <2> QED BY <2>1 DEF EvaluateCredit, CreditDeposit
  <1> QED BY <1>1, PTL DEF Spec, GateRespected
=============================================================================

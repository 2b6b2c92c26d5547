------------------------------- MODULE Chain -------------------------------
(***************************************************************************)
(* The Cosmos chain as the kit sees it through go/client: one source       *)
(* account with its sequence and balance, a mempool, and the transactions  *)
(* that were included.  The chain is not part of the repository: it is     *)
(* modelled from how sequences/manager.go, withdrawals/broadcast.go and    *)
(* withdrawals/workflow.go use Account, Balance, Tx and Broadcast.         *)
(*                                                                         *)
(* A transaction is the work item it pays for together with the account    *)
(* sequence in its signed bytes; those are all the fields on which the     *)
(* chain decides whether it can be included.                               *)
(***************************************************************************)
EXTENDS Integers, FiniteSets

CONSTANTS Work,        \* work items (withdrawals) paid from the account
          MaxSlot,     \* bound: largest account sequence that is handed out
          MaxOutside,  \* bound: transactions from outside the kit
          Amount,      \* Amount[w]: base units a work item pays
          Fee,         \* fee a transaction of this account is charged
          InitialBalance

ASSUME ChainAssumption ==
    /\ MaxSlot \in Nat
    /\ MaxOutside \in Nat
    /\ Amount \in [Work -> Nat]
    /\ Fee \in Nat
    /\ InitialBalance \in Nat

VARIABLES chainSeq,  \* account sequence: the only one the next tx may carry
          balance,   \* spendable balance of the account
          mempool,   \* transactions accepted by CheckTx, not yet in a block
          paid,      \* included with code 0
          reverted,  \* included with code # 0: fee charged, nothing paid
          outside    \* number of outside transactions so far

chainVars == <<chainSeq, balance, mempool, paid, reverted, outside>>

Slots == 0 .. MaxSlot

Txs == [w : Work, seq : Slots]

ChainTypeOK ==
    /\ chainSeq \in Nat
    /\ balance \in Nat
    /\ mempool \subseteq Txs
    /\ paid \subseteq Txs
    /\ reverted \subseteq Txs
    /\ outside \in 0 .. MaxOutside

ChainInit ==
    /\ chainSeq = 0
    /\ balance = InitialBalance
    /\ mempool = {}
    /\ paid = {}
    /\ reverted = {}
    /\ outside = 0

(* The transaction is in a block: the Tx lookup of an up-to-date node      *)
(* answers with a height.  A lagging node may still answer not-found.      *)
Included(t) == t \in paid \cup reverted

(* CheckTx: the sequence must follow the ones already in the mempool.      *)
CheckTxAccepts(t) ==
    /\ t.seq >= chainSeq
    /\ \A s \in chainSeq .. (t.seq - 1) : \E m \in mempool : m.seq = s
    /\ \A m \in mempool : m.seq # t.seq

(* What Broadcast in sync mode may answer for bytes t.  A rejection is     *)
(* always possible (a lagging or differently configured node); a transport *)
(* error leaves open whether the transaction reached the mempool.          *)
BroadcastAnswer(t, answer) ==
    \/ /\ answer = "accepted"
       /\ CheckTxAccepts(t)
       /\ mempool' = mempool \cup {t}
    \/ /\ answer = "rejected"
       /\ mempool' = mempool
    \/ /\ answer = "error"
       /\ \/ mempool' = mempool
          \/ CheckTxAccepts(t) /\ mempool' = mempool \cup {t}

(* A block includes the mempool transaction that carries the account       *)
(* sequence.  It pays when the balance covers it, else only the fee goes;  *)
(* execution may fail for other reasons too.                               *)
IncludeTx(t) ==
    /\ t \in mempool
    /\ t.seq = chainSeq
    /\ balance >= Fee
    /\ chainSeq' = chainSeq + 1
    /\ mempool' = {m \in mempool : m.seq # chainSeq}
    /\ \/ /\ balance >= Amount[t.w] + Fee
          /\ balance' = balance - Amount[t.w] - Fee
          /\ paid' = paid \cup {t}
          /\ UNCHANGED reverted
       \/ /\ balance' = balance - Fee
          /\ reverted' = reverted \cup {t}
          /\ UNCHANGED paid
    /\ UNCHANGED outside

(* The mempool of a node may lose a transaction (eviction, restart).       *)
EvictTx(t) ==
    /\ t \in mempool
    /\ mempool' = mempool \ {t}
    /\ UNCHANGED <<chainSeq, balance, paid, reverted, outside>>

(* A transaction of this account that the kit did not produce uses up the  *)
(* current sequence (a signature redeemed by another system).              *)
OutsideTx ==
    /\ outside < MaxOutside
    /\ chainSeq <= MaxSlot
    /\ outside' = outside + 1
    /\ chainSeq' = chainSeq + 1
    /\ mempool' = {m \in mempool : m.seq # chainSeq}
    /\ UNCHANGED <<balance, paid, reverted>>

ChainNext ==
    \/ \E t \in mempool : IncludeTx(t) \/ EvictTx(t)
    \/ OutsideTx
=============================================================================

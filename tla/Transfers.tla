------------------------------ MODULE Transfers ------------------------------
(***************************************************************************)
(* deposits.ParseBlockTransfers: what the scanner and the reconciler       *)
(* derive from one block.  The module has operators only; Books applies    *)
(* them to the blocks of a chain.                                          *)
(*                                                                         *)
(* A transaction is [hash, bodyOK, authOK, memo, payer, msgs]: whether its *)
(* body and its auth info decode, the memo, the explicit Fee.payer and the *)
(* messages.  A bank message is [type, ok, inputs, outputs] with parties   *)
(* [addr, coins] and coins [denom, amt]; a MsgSend has one input and one   *)
(* output of the same coins.  Every other message has type "other".        *)
(* An event is [type, in, out, amount, msg, fee, payer]: the receiving and *)
(* the spending address, the amount attribute as a sequence of coins, the  *)
(* message index (or NoIndex) and, on a "tx" event, whether it has a fee   *)
(* attribute and its payer (the granter, on "use_feegrant").  Absent       *)
(* addresses are NoAddr.  Indexes count from 0, as in the code.            *)
(* watch maps each active watched address to [kind, memoRequired].         *)
(***************************************************************************)
EXTENDS Integers, Sequences, FiniteSets, SequencesExt

CONSTANTS NoAddr, NoIndex,
          RecognizedMemos     \* the memos of the omnibus scheme

BaseDenom == "usovr"
ReviewOpIndexBase == 65536

(* NewWatchSet: the active rows; Get and Contains are application and      *)
(* membership in its domain.                                               *)
NewWatchSet(rows) ==
    [a \in {a \in DOMAIN rows : rows[a].active} |->
        [kind |-> rows[a].kind, memoRequired |-> rows[a].memoRequired]]

anyWatched(watch, addrs) == addrs \cap DOMAIN watch # {}
allWatched(watch, addrs) == addrs # {} /\ addrs \subseteq DOMAIN watch

(* The empty memo is not in RecognizedMemos.                               *)
memoRecognized(memo) == memo \in RecognizedMemos

-----------------------------------------------------------------------------
(* Classification.                                                         *)

Kinds(watch, addrs) == {watch[a].kind : a \in addrs \cap DOMAIN watch}
Custody == {"HOT_WALLET", "COLD_WALLET"}

internalInSubtype(watch, recipient, inputs) ==
    IF "FEE_WALLET" \in Kinds(watch, inputs) THEN "FEE_FUNDING"
    ELSE IF watch[recipient].kind \in Custody THEN "SWEEP"
    ELSE "INTERNAL_TRANSFER"

classifyIn(watch, recipient, inputs) ==
    IF ~anyWatched(watch, inputs) THEN "EXTERNAL_DEPOSIT"
    ELSE IF allWatched(watch, inputs)
         THEN internalInSubtype(watch, recipient, inputs)
         ELSE "UNATTRIBUTED_REVIEW"

classifyOut(watch, sender, outputs) ==
    IF ~allWatched(watch, outputs) THEN "WITHDRAWAL"
    ELSE IF watch[sender].kind = "FEE_WALLET" THEN "FEE_FUNDING"
    ELSE IF Kinds(watch, outputs) \cap Custody # {} THEN "SWEEP"
    ELSE "INTERNAL_TRANSFER"

(* The ReviewReason of an incoming row: a mixed input set, or an omnibus   *)
(* deposit whose memo is not recognized.                                   *)
NeedsReview(watch, recipient, class, memo) ==
    \/ class = "UNATTRIBUTED_REVIEW"
    \/ /\ class = "EXTERNAL_DEPOSIT"
       /\ watch[recipient].memoRequired
       /\ ~memoRecognized(memo)

-----------------------------------------------------------------------------
(* Body-decoded transfers.                                                 *)

Addrs(parties) == {parties[i].addr : i \in DOMAIN parties}

(* The coins of the parties in wire order, coins of other denominations    *)
(* included, so that an index does not depend on what is filtered out.     *)
Flattened(parties) ==
    FlattenSeq([i \in DOMAIN parties |->
        [j \in DOMAIN parties[i].coins |->
            [addr |-> parties[i].addr, denom |-> parties[i].coins[j].denom,
             amt |-> parties[i].coins[j].amt]]])

Moves(watch, c) == c.denom = BaseDenom /\ c.amt > 0 /\ c.addr \in DOMAIN watch

InRow(watch, tx, mi, k, c, inputs, code) ==
    LET class == classifyIn(watch, c.addr, Addrs(inputs))
    IN  [tx |-> tx.hash, msg |-> mi, op |-> k, coin |-> k, dir |-> "IN",
         addr |-> c.addr, peers |-> Addrs(inputs),
         sender |-> IF Len(inputs) = 1 THEN inputs[1].addr ELSE NoAddr,
         amt |-> c.amt, code |-> code, class |-> class,
         review |-> NeedsReview(watch, c.addr, class, tx.memo)]

OutRow(watch, tx, mi, op, k, c, outputs, code) ==
    [tx |-> tx.hash, msg |-> mi, op |-> op, coin |-> k, dir |-> "OUT",
     addr |-> c.addr, peers |-> Addrs(outputs), sender |-> NoAddr,
     amt |-> c.amt, code |-> code,
     class |-> classifyOut(watch, c.addr, Addrs(outputs)), review |-> FALSE]

(* MsgSend: for every coin a row of the recipient and a row of the sender; *)
(* the senders' rows are numbered after all the coins.                     *)
send(watch, tx, mi, m, code) ==
    LET coins == Flattened(m.outputs)
        nOut == Len(coins)
        from == [k \in DOMAIN coins |-> [coins[k] EXCEPT !.addr = m.inputs[1].addr]]
    IN  {InRow(watch, tx, mi, k - 1, coins[k], m.inputs, code) :
            k \in {k \in DOMAIN coins : Moves(watch, coins[k])}}
        \cup
        {OutRow(watch, tx, mi, nOut + k - 1, k - 1, from[k], m.outputs, code) :
            k \in {k \in DOMAIN coins : Moves(watch, from[k])}}

multiSend(watch, tx, mi, m, code) ==
    LET outs == Flattened(m.outputs)
        ins == Flattened(m.inputs)
        nOut == Len(outs)
    IN  {InRow(watch, tx, mi, k - 1, outs[k], m.inputs, code) :
            k \in {k \in DOMAIN outs : Moves(watch, outs[k])}}
        \cup
        {OutRow(watch, tx, mi, nOut + j - 1, j - 1, ins[j], m.outputs, code) :
            j \in {j \in DOMAIN ins : Moves(watch, ins[j])}}

(* The messages the body decode turns into rows.                           *)
attributed(tx) ==
    IF ~tx.bodyOK THEN {}
    ELSE {mi - 1 : mi \in {i \in DOMAIN tx.msgs :
                            tx.msgs[i].type \in {"send", "multi"} /\ tx.msgs[i].ok}}

fullyAttributed(tx) == tx.bodyOK /\ Cardinality(attributed(tx)) = Len(tx.msgs)

transfers(watch, tx, code) ==
    UNION {LET m == tx.msgs[mi + 1]
           IN  IF m.type = "send" THEN send(watch, tx, mi, m, code)
               ELSE multiSend(watch, tx, mi, m, code) : mi \in attributed(tx)}

-----------------------------------------------------------------------------
(* The amount of a Coins string: a string that names a denomination twice  *)
(* does not parse, and counts as zero.                                     *)
usovrAmount(coins) ==
    LET of == {i \in DOMAIN coins : coins[i].denom = BaseDenom}
        repeated == \E i, j \in DOMAIN coins :
                        i # j /\ coins[i].denom = coins[j].denom
    IN  IF of = {} \/ repeated THEN 0 ELSE coins[CHOOSE i \in of : TRUE].amt

(* findFeeEvent and findFeeGrantUse: the first event of the kind.          *)
FirstOf(events, is(_)) ==
    IF \E i \in DOMAIN events : is(events[i])
    THEN LET i == CHOOSE i \in DOMAIN events :
                    is(events[i]) /\ \A j \in 1..i - 1 : ~is(events[j])
         IN  <<events[i]>>
    ELSE <<>>

findFeeEvent(events) == FirstOf(events, LAMBDA e : e.type = "tx" /\ e.fee)
findFeeGrantUse(events) == FirstOf(events, LAMBDA e : e.type = "use_feegrant")

(* The fee a watched address paid: by the granter when a grant was used,   *)
(* else by the explicit Fee.payer, else by the account the event names.    *)
feeDeduction(watch, tx, res) ==
    LET fee == findFeeEvent(res.events)
        grant == findFeeGrantUse(res.events)
        payer == IF grant # <<>> /\ grant[1].payer # NoAddr THEN grant[1].payer
                 ELSE IF tx.authOK /\ tx.payer # NoAddr THEN tx.payer
                 ELSE fee[1].payer
        amount == usovrAmount(fee[1].amount)
    IN  IF fee = <<>> \/ payer \notin DOMAIN watch \/ amount = 0 THEN {}
        ELSE {[tx |-> tx.hash, payer |-> payer, fee |-> amount,
               code |-> res.code, granted |-> grant # <<>>]}

-----------------------------------------------------------------------------
(* Secondary detection: events of a transaction the body decode could not  *)
(* attribute, and events of the block.                                     *)

(* transferEventParties.                                                   *)
inAddr(e) == IF e.type \in {"transfer", "coin_received"} THEN e.in ELSE NoAddr
outAddr(e) == IF e.type \in {"transfer", "coin_spent"} THEN e.out ELSE NoAddr
counterparty(e) ==
    CASE e.type # "transfer" -> {}
      [] e.out # NoAddr -> {e.out}
      [] OTHER -> {e.in} \ {NoAddr}

(* The two views an event can give of a movement.                          *)
Views(e) ==
    {v \in {[dir |-> "IN", addr |-> inAddr(e)], [dir |-> "OUT", addr |-> outAddr(e)]} :
        v.addr # NoAddr}

(* reviewKey and blockKey, where msg is NoIndex.                           *)
Key(e, v) == <<e.msg, v.dir, v.addr, usovrAmount(e.amount)>>

transferKeys(events, eligible) ==
    UNION {{Key(events[i], v) : v \in Views(events[i])} :
              i \in {i \in eligible : events[i].type = "transfer"}}

(* Transfer events are kept; a coin_received or coin_spent event with the  *)
(* key of a transfer event is taken for its alias and dropped.             *)
selectEventFamily(e, keys, key) == e.type = "transfer" \/ key \notin keys

EventRows(watch, events, eligible, base) ==
    LET counted == {i \in eligible : usovrAmount(events[i].amount) > 0}
        keys == transferKeys(events, counted)
        kept(i) == {v \in Views(events[i]) :
                      /\ v.addr \in DOMAIN watch
                      /\ selectEventFamily(events[i], keys, Key(events[i], v))}
    IN  UNION {{[msg |-> events[i].msg, dir |-> v.dir, addr |-> v.addr,
                 op |-> base + 2 * (i - 1) + IF v.dir = "OUT" THEN 1 ELSE 0,
                 peers |-> counterparty(events[i]),
                 amt |-> usovrAmount(events[i].amount)] : v \in kept(i)} :
                   i \in counted}

(* Only events of message execution carry a message index; those of an     *)
(* attributed message would count its transfers twice.                     *)
eventReview(watch, tx, res) ==
    LET eligible == {i \in DOMAIN res.events :
                        res.events[i].msg \notin attributed(tx) \cup {NoIndex}}
    IN  IF fullyAttributed(tx) \/ res.code # 0 THEN {}
        ELSE {[tx |-> tx.hash, msg |-> r.msg, op |-> r.op, dir |-> r.dir,
               addr |-> r.addr, peers |-> r.peers, amt |-> r.amt,
               code |-> res.code] :
                 r \in EventRows(watch, res.events, eligible, ReviewOpIndexBase)}

blockEvents(watch, events) ==
    LET scoped == [i \in DOMAIN events |-> [events[i] EXCEPT !.msg = NoIndex]]
    IN  {[op |-> r.op, dir |-> r.dir, addr |-> r.addr, peers |-> r.peers,
          amt |-> r.amt] : r \in EventRows(watch, scoped, DOMAIN events, 0)}

-----------------------------------------------------------------------------
(* One block [height, txs] with its results [height, txs, events].  A      *)
(* block and results that do not belong together are refused.              *)
Belongs(block, results) ==
    block.height = results.height /\ Len(block.txs) = Len(results.txs)

ParseBlockTransfers(block, results, watch) ==
    LET each(f(_, _)) == UNION {f(block.txs[i], results.txs[i]) : i \in DOMAIN block.txs}
    IN  [transfers |-> each(LAMBDA tx, res : transfers(watch, tx, res.code)),
         feeDeductions |-> each(LAMBDA tx, res : feeDeduction(watch, tx, res)),
         reviewCandidates |-> each(LAMBDA tx, res : eventReview(watch, tx, res)),
         blockEvents |-> blockEvents(watch, results.events)]
=============================================================================

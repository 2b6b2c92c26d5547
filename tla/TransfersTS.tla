----------------------------- MODULE TransfersTS -----------------------------
(***************************************************************************)
(* parseBlockTransfers of the TypeScript library: the mirror of the Go     *)
(* parser, translated from typescript/src/deposits/index.ts on its own so  *)
(* that Books can compare the two.  The inputs are those of Transfers.     *)
(* Amounts stand for canonical decimal strings: CANONICAL_INT_RE rejects   *)
(* every other form, which a node does not produce.                        *)
(***************************************************************************)
EXTENDS Integers, Sequences, FiniteSets, SequencesExt, FiniteSetsExt

CONSTANTS NoAddr, NoIndex, RecognizedMemos

DEPOSIT_BASE_DENOM == "usovr"
REVIEW_OP_INDEX_BASE == 65536

(* The WatchSet class: entries not marked inactive.                        *)
WatchSet(rows) ==
    LET kept == {a \in DOMAIN rows : rows[a].active # FALSE}
    IN  [a \in kept |-> [kind |-> rows[a].kind, memoRequired |-> rows[a].memoRequired]]

Watched(watch, a) == a \in DOMAIN watch
stats(watch, addrs) ==
    [anyWatched |-> \E i \in DOMAIN addrs : Watched(watch, addrs[i]),
     allWatched |-> Len(addrs) > 0 /\ \A i \in DOMAIN addrs : Watched(watch, addrs[i])]

(* usovrAmount adds the segments of the denomination up.                   *)
usovrAmount(coins) ==
    MapThenSumSet(LAMBDA i : IF coins[i].denom = DEPOSIT_BASE_DENOM
                             THEN coins[i].amt ELSE 0, DOMAIN coins)

coinAmountPositive(coin) == coin.amt > 0

-----------------------------------------------------------------------------
KindOf(watch, a) == IF Watched(watch, a) THEN watch[a].kind ELSE "none"

internalInSubtype(watch, recipient, inputs) ==
    CASE \E i \in DOMAIN inputs : KindOf(watch, inputs[i]) = "FEE_WALLET" -> "FEE_FUNDING"
      [] watch[recipient].kind \in {"HOT_WALLET", "COLD_WALLET"} -> "SWEEP"
      [] OTHER -> "INTERNAL_TRANSFER"

classifyIn(watch, recipient, inputs) ==
    LET s == stats(watch, inputs)
    IN  CASE ~s.anyWatched -> "EXTERNAL_DEPOSIT"
          [] s.allWatched -> internalInSubtype(watch, recipient, inputs)
          [] OTHER -> "UNATTRIBUTED_REVIEW"

classifyOut(watch, sender, outputs) ==
    CASE ~stats(watch, outputs).allWatched -> "WITHDRAWAL"
      [] watch[sender].kind = "FEE_WALLET" -> "FEE_FUNDING"
      [] \E i \in DOMAIN outputs :
            KindOf(watch, outputs[i]) \in {"HOT_WALLET", "COLD_WALLET"} -> "SWEEP"
      [] OTHER -> "INTERNAL_TRANSFER"


(* memoReviewReason || reason: whether the row has a review reason.        *)
memoReviewReason(watch, recipient, classification, memo) ==
    /\ classification = "EXTERNAL_DEPOSIT"
    /\ watch[recipient].memoRequired = TRUE
    /\ memo \notin RecognizedMemos

-----------------------------------------------------------------------------
(* Rows are pushed in order; a candidate is the record of its fields.      *)

AddrSeq(parties) == [i \in DOMAIN parties |-> parties[i].addr]

pushIn(watch, tx, mi, k, addr, coin, inputSet, sender, code) ==
    LET class == classifyIn(watch, addr, inputSet)
    IN  [tx |-> tx.hash, msg |-> mi, op |-> k, coin |-> k, dir |-> "IN",
         addr |-> addr, peers |-> ToSet(inputSet), sender |-> sender,
         amt |-> coin.amt, code |-> code, class |-> class,
         review |-> \/ memoReviewReason(watch, addr, class, tx.memo)
                    \/ class = "UNATTRIBUTED_REVIEW"]

pushOut(watch, tx, mi, op, k, addr, coin, outputSet, code) ==
    [tx |-> tx.hash, msg |-> mi, op |-> op, coin |-> k, dir |-> "OUT",
     addr |-> addr, peers |-> ToSet(outputSet), sender |-> NoAddr,
     amt |-> coin.amt, code |-> code,
     class |-> classifyOut(watch, addr, outputSet), review |-> FALSE]

Counts(coin) == coin.denom = DEPOSIT_BASE_DENOM /\ coinAmountPositive(coin)

handleSend(watch, tx, mi, msg, res) ==
    LET from == msg.inputs[1].addr
        to == msg.outputs[1].addr
        amount == msg.outputs[1].coins
        in(k) == IF Watched(watch, to)
                 THEN {pushIn(watch, tx, mi, k - 1, to, amount[k], <<from>>, from, res.code)}
                 ELSE {}
        out(k) == IF Watched(watch, from)
                  THEN {pushOut(watch, tx, mi, Len(amount) + k - 1, k - 1, from,
                                amount[k], <<to>>, res.code)}
                  ELSE {}
    IN  UNION {in(k) \cup out(k) : k \in {k \in DOMAIN amount : Counts(amount[k])}}

(* The number of coins before those of party i.                            *)
Before(parties, i) == MapThenSumSet(LAMBDA j : Len(parties[j].coins), 1..i - 1)

(* The positions (party, coin) with a coin that counts, of watched parties.*)
Positions(watch, parties) ==
    UNION {{<<i, j>> : j \in {j \in DOMAIN parties[i].coins : Counts(parties[i].coins[j])}} :
              i \in {i \in DOMAIN parties : Watched(watch, parties[i].addr)}}

handleMultiSend(watch, tx, mi, msg, res) ==
    LET inputSet == AddrSeq(msg.inputs)
        outputSet == AddrSeq(msg.outputs)
        nOut == Before(msg.outputs, Len(msg.outputs) + 1)
        singleSender == IF Len(inputSet) = 1 THEN inputSet[1] ELSE NoAddr
        ci(parties, p) == Before(parties, p[1]) + p[2] - 1
        coin(parties, p) == parties[p[1]].coins[p[2]]
    IN  {pushIn(watch, tx, mi, ci(msg.outputs, p), outputSet[p[1]],
                coin(msg.outputs, p), inputSet, singleSender, res.code) :
            p \in Positions(watch, msg.outputs)}
        \cup
        {pushOut(watch, tx, mi, nOut + ci(msg.inputs, p), ci(msg.inputs, p),
                 inputSet[p[1]], coin(msg.inputs, p), outputSet, res.code) :
            p \in Positions(watch, msg.inputs)}

-----------------------------------------------------------------------------
(* auth is decoded only once the body decodes.                             *)
captureFeeDeduction(watch, tx, res) ==
    LET fees == SelectSeq(res.events, LAMBDA e : e.type = "tx" /\ e.fee)
        grants == SelectSeq(res.events, LAMBDA e : e.type = "use_feegrant")
        payer == CASE grants # <<>> /\ Head(grants).payer # NoAddr -> Head(grants).payer
                   [] tx.bodyOK /\ tx.authOK /\ tx.payer # NoAddr -> tx.payer
                   [] OTHER -> Head(fees).payer
        amount == usovrAmount(Head(fees).amount)
    IN  IF fees # <<>> /\ Watched(watch, payer) /\ amount > 0
        THEN {[tx |-> tx.hash, payer |-> payer, fee |-> amount, code |-> res.code,
               granted |-> grants # <<>>]}
        ELSE {}

transferEventParties(ev) ==
    CASE ev.type = "transfer" ->
            [in |-> ev.in, out |-> ev.out,
             peers |-> IF ev.out # NoAddr THEN {ev.out} ELSE {ev.in} \ {NoAddr}]
      [] ev.type = "coin_received" -> [in |-> ev.in, out |-> NoAddr, peers |-> {}]
      [] ev.type = "coin_spent" -> [in |-> NoAddr, out |-> ev.out, peers |-> {}]
      [] OTHER -> [in |-> NoAddr, out |-> NoAddr, peers |-> {}]

(* reviewKey of a transfer event; blockKey leaves the message index out.   *)
keysOf(ev, msg) ==
    LET p == transferEventParties(ev)
        amount == usovrAmount(ev.amount)
    IN  {<<msg, k[1], k[2], amount>> : k \in {<<"IN", p.in>>, <<"OUT", p.out>>}}

(* The rows pushed for event evIdx, given the keys of the transfer events. *)
pushEvent(watch, events, i, msg, base, keys) ==
    LET ev == events[i]
        p == transferEventParties(ev)
        amount == usovrAmount(ev.amount)
        select(dir, a) == ev.type = "transfer" \/ <<msg, dir, a, amount>> \notin keys
        row(dir, a, op) == [msg |-> msg, op |-> op, dir |-> dir, addr |-> a,
                            peers |-> p.peers, amt |-> amount]
    IN  (IF Watched(watch, p.in) /\ select("IN", p.in)
         THEN {row("IN", p.in, base + 2 * (i - 1))} ELSE {})
        \cup
        (IF Watched(watch, p.out) /\ select("OUT", p.out)
         THEN {row("OUT", p.out, base + 2 * (i - 1) + 1)} ELSE {})

eventReview(watch, tx, res, attributed) ==
    LET skipped == attributed \cup {NoIndex}
        scanned == {i \in DOMAIN res.events :
                      /\ res.events[i].msg \notin skipped
                      /\ usovrAmount(res.events[i].amount) > 0}
        keys == UNION {keysOf(res.events[i], res.events[i].msg) :
                          i \in {i \in scanned : res.events[i].type = "transfer"}}
        rows == UNION {pushEvent(watch, res.events, i, res.events[i].msg,
                                 REVIEW_OP_INDEX_BASE, keys) : i \in scanned}
    IN  {[tx |-> tx.hash, msg |-> r.msg, op |-> r.op, dir |-> r.dir,
          addr |-> r.addr, peers |-> r.peers, amt |-> r.amt, code |-> res.code] :
            r \in rows}

parseFinalizeEvents(watch, events) ==
    LET scanned == {i \in DOMAIN events : usovrAmount(events[i].amount) > 0}
        keys == UNION {keysOf(events[i], NoIndex) :
                          i \in {i \in scanned : events[i].type = "transfer"}}
        rows == UNION {pushEvent(watch, events, i, NoIndex, 0, keys) : i \in scanned}
    IN  {[op |-> r.op, dir |-> r.dir, addr |-> r.addr, peers |-> r.peers,
          amt |-> r.amt] : r \in rows}

-----------------------------------------------------------------------------
parseTx(watch, tx, res) ==
    LET bank == {i \in DOMAIN tx.msgs : /\ tx.msgs[i].type \in {"send", "multi"}
                                        /\ tx.msgs[i].ok}
        decoded == IF tx.bodyOK THEN bank ELSE {}
        fullyAttributed == tx.bodyOK /\ bank = DOMAIN tx.msgs
        handle(i) == IF tx.msgs[i].type = "send"
                     THEN handleSend(watch, tx, i - 1, tx.msgs[i], res)
                     ELSE handleMultiSend(watch, tx, i - 1, tx.msgs[i], res)
    IN  [transfers |-> UNION {handle(i) : i \in decoded},
         fees |-> captureFeeDeduction(watch, tx, res),
         reviews |-> IF ~fullyAttributed /\ res.code = 0
                     THEN eventReview(watch, tx, res, {i - 1 : i \in decoded})
                     ELSE {}]

parseBlockTransfers(block, results, watch) ==
    LET parsed == [i \in DOMAIN block.txs |-> parseTx(watch, block.txs[i], results.txs[i])]
    IN  [transfers |-> UNION {parsed[i].transfers : i \in DOMAIN parsed},
         feeDeductions |-> UNION {parsed[i].fees : i \in DOMAIN parsed},
         reviewCandidates |-> UNION {parsed[i].reviews : i \in DOMAIN parsed},
         blockEvents |-> parseFinalizeEvents(watch, results.events)]
=============================================================================

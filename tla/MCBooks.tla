------------------------------- MODULE MCBooks -------------------------------
(* Instances of Books for TLC. *)
EXTENDS Books

CONSTANTS hot, cust, late, feew, ext, pool, memo

Everyone == {hot, cust, late, feew, ext, pool}
Coin(d, n) == [denom |-> d, amt |-> n]
U(n) == <<Coin("usovr", n)>>
Party(a, coins) == [addr |-> a, coins |-> coins]

SendMsg(f, t, coins) ==
    [type |-> "send", ok |-> TRUE, inputs |-> <<Party(f, coins)>>,
     outputs |-> <<Party(t, coins)>>, moves |-> <<>>]
MultiMsg(ins, outs) ==
    [type |-> "multi", ok |-> TRUE, inputs |-> ins, outputs |-> outs, moves |-> <<>>]
OtherMsg(moves) ==
    [type |-> "other", ok |-> TRUE, inputs |-> <<>>, outputs |-> <<>>, moves |-> moves]
Mv(kind, f, t, n) == [kind |-> kind, from |-> f, to |-> t, amt |-> n]

Tx(hash, signer, msgs) ==
    [hash |-> hash, bodyOK |-> TRUE, authOK |-> TRUE, memo |-> NoAddr,
     payer |-> NoAddr, granter |-> NoAddr, signer |-> signer, fee |-> U(1),
     msgs |-> msgs]

Row(kind, needsMemo) == [kind |-> kind, memoRequired |-> needsMemo, active |-> TRUE]

AtStart == [a \in {hot, cust, feew} |->
    CASE a = hot -> Row("HOT_WALLET", FALSE)
      [] a = cust -> Row("CUSTOMER_DEPOSIT", TRUE)
      [] a = feew -> Row("FEE_WALLET", FALSE)]
Later == [a \in {late} |-> Row("OMNIBUS", TRUE)]

StartBalances == [a \in Everyone |-> IF a \in {ext, pool} THEN 20 ELSE 0]

FundingTx == [Tx("t0", ext,
    <<MultiMsg(<<Party(ext, U(10))>>,
               <<Party(hot, U(3)), Party(cust, <<Coin("foo", 1), Coin("usovr", 2)>>),
                 Party(feew, U(3)), Party(late, U(2))>>)>>)
                EXCEPT !.memo = memo]

(* Two coins, one of them foreign; the memo is not recognized.             *)
Foreign == Tx("t1", ext, <<SendMsg(ext, cust, <<Coin("foo", 5), Coin("usovr", 2)>>)>>)
(* The address enrolled later sends (a deposit, until then) and shares the *)
(* inputs of a multi send with a watched address; the fee is granted.      *)
FromLate == [Tx("t2", late, <<SendMsg(late, hot, U(1)),
                              MultiMsg(<<Party(feew, U(1)), Party(late, U(1))>>,
                                       <<Party(cust, U(2))>>)>>)
                EXCEPT !.granter = feew]
(* A message known by its events, next to one that decodes.                *)
Wrapped == [Tx("t3", ext, <<SendMsg(ext, hot, U(1)),
                            OtherMsg(<<Mv("send", ext, cust, 2), Mv("mint", NoAddr, cust, 1),
                                       Mv("payout", hot, late, 1), Mv("delegate", hot, pool, 1)>>)>>)
                EXCEPT !.payer = feew]
(* Fails after its fee was taken.                                          *)
Overspent == Tx("t4", cust, <<SendMsg(cust, ext, U(9))>>)
Garbled == [Tx("t5", cust, <<>>) EXCEPT !.bodyOK = FALSE, !.payer = feew]
Withdrawal == Tx("t6", hot, <<SendMsg(hot, ext, U(1))>>)
Sweep == Tx("t7", cust, <<SendMsg(cust, hot, U(1))>>)

Catalogue == {Foreign, FromLate, Wrapped, Overspent, Garbled,
              Withdrawal, Sweep}

Workflows == [t \in {"t6", "t7"} |->
    IF t = "t6" THEN [kind |-> "withdrawal", source |-> hot, hot |-> NoAddr, amt |-> 1, fee |-> 1]
    ELSE [kind |-> "sweep", source |-> cust, hot |-> hot, amt |-> 1, fee |-> 1]]

(* A payout of the block: to the customer and, minted, to the hot wallet.  *)
Payouts == {B!MoveEvents("send", pool, cust, U(1), NoIndex)
            \o B!MoveEvents("delegate", pool, hot, U(2), NoIndex)}

Order == <<cust, feew, hot, late>>
=============================================================================

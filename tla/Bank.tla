-------------------------------- MODULE Bank --------------------------------
(***************************************************************************)
(* The chain's bank, fee and feegrant modules, which are not part of the   *)
(* repository: what executing a transaction does to the balances and which *)
(* events it leaves for the parsers.  Only the base denomination has       *)
(* balances.  Besides the fields of Transfers, a transaction has a signer, *)
(* a fee (coins) and a granter (or NoAddr); a message of type "other" has  *)
(* moves [kind, from, to, amt].                                            *)
(***************************************************************************)
EXTENDS Integers, Sequences, SequencesExt

CONSTANTS NoAddr, NoIndex

LOCAL INSTANCE Transfers WITH RecognizedMemos <- {}

Usovr(n) == <<[denom |-> BaseDenom, amt |-> n]>>

Event(type, in, out, coins, msg) ==
    [type |-> type, in |-> in, out |-> out, amount |-> coins, msg |-> msg,
     fee |-> FALSE, payer |-> NoAddr]

(* Moving coins between two accounts.  Delegating reports no transfer      *)
(* event; a payout names its recipient only; minting has no spender.       *)
Shapes ==
    [send     |-> {"coin_spent", "coin_received", "transfer"},
     payout   |-> {"coin_spent", "coin_received", "paid"},
     delegate |-> {"coin_spent", "coin_received"},
     mint     |-> {"coin_received"}]

MoveEvents(kind, from, to, coins, msg) ==
    LET has(e) == e \in Shapes[kind]
    IN  (IF has("coin_spent") THEN <<Event("coin_spent", NoAddr, from, coins, msg)>> ELSE <<>>)
        \o <<Event("coin_received", to, NoAddr, coins, msg)>>
        \o (IF has("transfer") THEN <<Event("transfer", to, from, coins, msg)>> ELSE <<>>)
        \o (IF has("paid") THEN <<Event("transfer", to, NoAddr, coins, msg)>> ELSE <<>>)

(* st is [ok, bal, events].                                                *)
Spend(st, from, n) ==
    [st EXCEPT !.ok = @ /\ st.bal[from] >= n, !.bal[from] = @ - n]

Move(st, kind, from, to, coins, msg) ==
    LET n == usovrAmount(coins)
        paid == IF kind = "mint" THEN st ELSE Spend(st, from, n)
    IN  [paid EXCEPT !.bal[to] = @ + n,
                     !.events = @ \o MoveEvents(kind, from, to, coins, msg)]

(* InputOutputCoins: every input is spent, then every output is received.  *)
Multi(st, m, msg) ==
    LET spent == FoldLeft(LAMBDA s, p :
                    [Spend(s, p.addr, usovrAmount(p.coins)) EXCEPT !.events =
                        Append(@, Event("coin_spent", NoAddr, p.addr, p.coins, msg))],
                    st, m.inputs)
    IN  FoldLeft(LAMBDA s, p :
            [s EXCEPT !.bal[p.addr] = @ + usovrAmount(p.coins),
                      !.events = @ \o MoveEvents("mint", NoAddr, p.addr, p.coins, msg)
                                   \o <<Event("transfer", p.addr, NoAddr, p.coins, msg)>>],
            spent, m.outputs)

RunMsg(st, m, msg) ==
    IF ~m.ok THEN [st EXCEPT !.ok = FALSE]
    ELSE CASE m.type = "send" ->
                Move(st, "send", m.inputs[1].addr, m.outputs[1].addr,
                     m.outputs[1].coins, msg)
           [] m.type = "multi" -> Multi(st, m, msg)
           [] OTHER -> FoldLeft(LAMBDA s, v :
                            Move(s, v.kind, v.from, v.to, Usovr(v.amt), msg),
                            st, m.moves)

(* The account the fee is taken from.                                      *)
Payer(tx) ==
    IF tx.granter # NoAddr THEN tx.granter
    ELSE IF tx.payer # NoAddr THEN tx.payer ELSE tx.signer

(* A transaction that cannot pay its fee, or does not decode, leaves       *)
(* nothing; one that fails after that keeps its fee and its fee events.    *)
Execute(tx, bal) ==
    LET fee == usovrAmount(tx.fee)
        payer == Payer(tx)
        refused == ~tx.bodyOK \/ bal[payer] < fee
        grant == IF tx.granter = NoAddr THEN <<>>
                 ELSE <<[Event("use_feegrant", NoAddr, NoAddr, <<>>, NoIndex)
                            EXCEPT !.payer = tx.granter]>>
        ante == grant
                \o <<Event("coin_spent", NoAddr, payer, tx.fee, NoIndex),
                     [Event("tx", NoAddr, NoAddr, tx.fee, NoIndex)
                        EXCEPT !.fee = TRUE, !.payer = payer]>>
        start == [ok |-> TRUE, bal |-> [bal EXCEPT ![payer] = @ - fee], events |-> ante]
        end == FoldLeft(LAMBDA s, i : RunMsg(s, tx.msgs[i], i - 1), start,
                        [i \in DOMAIN tx.msgs |-> i])
    IN  IF refused THEN [bal |-> bal, res |-> [code |-> 1, events |-> <<>>]]
        ELSE IF end.ok THEN [bal |-> end.bal, res |-> [code |-> 0, events |-> end.events]]
        ELSE [bal |-> start.bal, res |-> [code |-> 1, events |-> ante]]
=============================================================================

--------------------------- MODULE TransactionsTS ---------------------------
(***************************************************************************)
(* The TypeScript library's transaction and signer modules (tx/index.ts    *)
(* and signer/index.ts), translated on their own from the Go package they  *)
(* are the counterpart of.  Documents, keys and signatures are the records *)
(* of Transactions.                                                        *)
(***************************************************************************)
EXTENDS Naturals, Sequences

CONSTANTS
    Keys,
    AddressOf,
    MaxSafeInteger  \* Number.MAX_SAFE_INTEGER, the largest gas limit

BASE_DENOM == "usovr"
MSG_SEND_TYPE_URL == "MsgSend"

Thrown == [refused |-> TRUE]

(* The body is fixed here; fee and gas wait for the sign document.         *)
buildMsgSend(args) ==
    IF args.amount = 0 \/ args.gas = 0 \/ args.gas > MaxSafeInteger
    THEN Thrown
    ELSE [from |-> args.from, to |-> args.to, amount |-> args.amount, fee |-> args.fee,
          gas |-> args.gas, memo |-> args.memo]

makeSignDocForTx(unsigned, signerData) ==
    IF signerData.chain = "" \/ signerData.key \notin Keys THEN Thrown
    ELSE IF AddressOf[signerData.key] # unsigned.from THEN Thrown
    ELSE [chain |-> signerData.chain, account |-> signerData.account, memo |-> unsigned.memo,
          options |-> {},
          msgs |-> <<[type |-> MSG_SEND_TYPE_URL, from |-> unsigned.from, to |-> unsigned.to,
                      coins |-> <<[denom |-> BASE_DENOM, amount |-> unsigned.amount]>>]>>,
          fee |-> [coins |-> IF unsigned.fee = 0 THEN <<>>
                             ELSE <<[denom |-> BASE_DENOM, amount |-> unsigned.fee]>>,
                   gas |-> unsigned.gas, payer |-> ""],
          infos |-> <<[key |-> signerData.key, mode |-> "DIRECT",
                       sequence |-> signerData.sequence]>>]

(* Mutant: a document without a fee coin is taken for a malformed one.     *)
deriveSummaryFeeRequired(doc) ==
    IF doc.fee.coins = <<>> THEN Thrown
    ELSE [chain |-> doc.chain, account |-> doc.account, sequence |-> doc.infos[1].sequence,
          type |-> MSG_SEND_TYPE_URL, from |-> doc.msgs[1].from, to |-> doc.msgs[1].to,
          amount |-> doc.msgs[1].coins[1].amount, denom |-> BASE_DENOM,
          fee |-> doc.fee.coins[1].amount, gas |-> doc.fee.gas, memo |-> doc.memo]

(* Options, unknown fields, fee payers and sign modes are not looked at.   *)
deriveSummaryFromSignDoc(doc) ==
    LET send == doc.msgs[1]
        coin == send.coins[1]
        feeCoins == doc.fee.coins
    IN
    IF \/ doc.chain = ""
       \/ Len(doc.msgs) # 1 \/ send.type # MSG_SEND_TYPE_URL
       \/ Len(send.coins) # 1 \/ coin.denom # BASE_DENOM \/ coin.amount = 0
       \/ Len(doc.infos) # 1 \/ doc.infos[1].key \notin Keys
       \/ Len(feeCoins) > 1 \/ (feeCoins # <<>> /\ feeCoins[1].denom # BASE_DENOM)
    THEN Thrown
    ELSE IF AddressOf[doc.infos[1].key] # send.from THEN Thrown
    ELSE [chain |-> doc.chain, account |-> doc.account, sequence |-> doc.infos[1].sequence,
          type |-> MSG_SEND_TYPE_URL, from |-> send.from, to |-> send.to,
          amount |-> coin.amount, denom |-> BASE_DENOM,
          fee |-> IF feeCoins = <<>> THEN 0 ELSE feeCoins[1].amount,
          gas |-> doc.fee.gas, memo |-> doc.memo]

(* verifySigningRequest and the sender check of the library's signers      *)
SignerAccepts(doc, summary, account) ==
    LET derived == deriveSummaryFromSignDoc(doc) IN
    /\ derived # Thrown
    /\ derived = summary
    /\ derived.from = account

(* The signature's length is looked at, its validity is left to the node.  *)
assembleTx(doc, sig) == IF sig.form # "short" THEN [doc |-> doc, sig |-> sig] ELSE Thrown
=============================================================================

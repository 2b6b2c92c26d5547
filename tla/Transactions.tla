---------------------------- MODULE Transactions ----------------------------
(***************************************************************************)
(* The Go package tx and its callers' checks: building a single-MsgSend    *)
(* transaction, the sign document and the summary derived from it, the     *)
(* verification of a signer's answer, assembly, and the gas and fee        *)
(* arithmetic of withdrawals/fees.go.                                      *)
(*                                                                         *)
(* A sign document is the record its bytes decode to, so that two          *)
(* documents are equal exactly when their bytes are.  A signature is the   *)
(* record [by, over, form] of the key that made it, the document it was    *)
(* made over, and its form: "lowS" and "highS" are 64 bytes, "short" is    *)
(* not.                                                                    *)
(***************************************************************************)
EXTENDS Naturals, Sequences

CONSTANTS
    Keys,        \* compressed secp256k1 public keys
    AddressOf,   \* the address a key derives: [Keys -> addresses]
    MaxUint64    \* the largest gas limit the integer type holds

Denom == "usovr"
MsgSendTypeURL == "MsgSend"

Refused == [refused |-> TRUE]

(* secp256k1 verification (external): low-S, over the exact bytes, by key  *)
VerifySignature(key, doc, sig) == sig.form = "lowS" /\ sig.by = key /\ sig.over = doc
-----------------------------------------------------------------------------
(* Fees: a decimal is num / den with den a power of ten *)

(* ceil(n * d), in unbounded integers                                      *)
ceilMulBig(d, n) == (n * d.num + (d.den - 1)) \div d.den

(* gasLimitFor: zero gas, an overflow and the type's maximum are errors    *)
gasLimitFor(gasUsed, adjustment) ==
    LET limit == ceilMulBig(adjustment, gasUsed) IN
    IF gasUsed = 0 \/ limit = 0 \/ limit >= MaxUint64 THEN 0 ELSE limit

feeFor(gasLimit, gasPrice) == ceilMulBig(gasPrice, gasLimit)
-----------------------------------------------------------------------------
(* Building and decoding *)

BuildMsgSend(from, to, amount, memo) ==
    IF amount = 0 THEN Refused ELSE [from |-> from, to |-> to, amount |-> amount, memo |-> memo]

Coins(amount) == IF amount = 0 THEN <<>> ELSE <<[denom |-> Denom, amount |-> amount]>>

(* UnsignedTx.SignDoc: the key is embedded and must derive the sender      *)
SignDoc(u, chain, account, sequence, fee, key) ==
    IF chain = "" \/ fee.gas = 0 \/ key \notin Keys THEN Refused
    ELSE IF AddressOf[key] # u.from THEN Refused
    ELSE [chain |-> chain, account |-> account, memo |-> u.memo, options |-> {},
          msgs |-> <<[type |-> MsgSendTypeURL, from |-> u.from, to |-> u.to,
                      coins |-> Coins(u.amount)]>>,
          fee |-> [coins |-> Coins(fee.amount), gas |-> fee.gas, payer |-> ""],
          infos |-> <<[key |-> key, mode |-> "DIRECT", sequence |-> sequence]>>]

SummaryOf(doc) ==
    LET m == doc.msgs[1]
        c == doc.fee.coins
    IN  [chain |-> doc.chain, account |-> doc.account, sequence |-> doc.infos[1].sequence,
         type |-> m.type, from |-> m.from, to |-> m.to, amount |-> m.coins[1].amount,
         denom |-> m.coins[1].denom, fee |-> IF c = <<>> THEN 0 ELSE c[1].amount,
         gas |-> doc.fee.gas, memo |-> doc.memo]

(* DeriveSummary refuses every shape its summary cannot describe: options  *)
(* and unknown fields, other messages or coins, a fee payer or granter, a  *)
(* missing or foreign key, another sign mode.                              *)
DeriveSummary(doc) ==
    IF /\ doc.options = {}
       /\ Len(doc.msgs) = 1
       /\ doc.msgs[1].type = MsgSendTypeURL
       /\ Len(doc.msgs[1].coins) = 1
       /\ doc.msgs[1].coins[1].denom = Denom
       /\ doc.msgs[1].coins[1].amount > 0
       /\ doc.fee.payer = ""
       /\ Len(doc.fee.coins) <= 1
       /\ \A i \in 1..Len(doc.fee.coins) : doc.fee.coins[i].denom = Denom
       /\ Len(doc.infos) = 1
       /\ doc.infos[1].key \in Keys
       /\ AddressOf[doc.infos[1].key] = doc.msgs[1].from
       /\ doc.infos[1].mode = "DIRECT"
    THEN SummaryOf(doc)
    ELSE Refused

(* Workflow.summaryMismatch: the summary against the approved record       *)
summaryMismatch(rec, s, chain) ==
    \/ s.chain # chain \/ s.chain # rec.chain
    \/ s.from # rec.from \/ s.to # rec.to \/ s.amount # rec.amount
    \/ s.denom # Denom \/ s.memo # rec.memo \/ s.fee # rec.fee
    \/ s.sequence # rec.sequence \/ s.account # rec.account \/ s.type # MsgSendTypeURL

(* The local signer's own check of a request                               *)
verifySummary(doc, s) ==
    /\ Len(doc.msgs) = 1 /\ Len(doc.msgs[1].coins) = 1
    /\ Len(doc.fee.coins) <= 1 /\ Len(doc.infos) = 1
    /\ \A i \in 1..Len(doc.fee.coins) : doc.fee.coins[i].denom = s.denom
    /\ s.type = MsgSendTypeURL /\ s = SummaryOf(doc)
-----------------------------------------------------------------------------
(* The signer's answer *)

(* VerifySignedResponse: the signature is valid over the document for the  *)
(* key the answer names, and that key derives the sender.                  *)
VerifySignedResponse(doc, resp, sender) ==
    /\ resp.key \in Keys
    /\ VerifySignature(resp.key, doc, resp.sig)
    /\ AddressOf[resp.key] = sender

(* Assemble: the answer's key is the embedded one and the signature holds  *)
Assemble(u, doc, resp) ==
    IF /\ resp.key \in Keys
       /\ resp.key = doc.infos[1].key
       /\ VerifySignature(resp.key, doc, resp.sig)
       /\ AddressOf[resp.key] = u.from
    THEN [doc |-> doc, sig |-> resp.sig]
    ELSE Refused
=============================================================================

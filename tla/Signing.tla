------------------------------ MODULE Signing ------------------------------
(***************************************************************************)
(* Two clients of one account and one signing system: the Go withdrawal    *)
(* workflow, from a built withdrawal to its broadcast, and programs of the *)
(* TypeScript library that send through a SequenceGate, as                 *)
(* examples/sequence-safe-withdrawals.ts does.  To each, the other is the  *)
(* account's traffic from outside.                                         *)
(*                                                                         *)
(* Go: a job simulates, fetches the public key, builds the sign document,  *)
(* calls the signer over the configured transport and verifies what comes  *)
(* back.  TypeScript: run queues on the gate's tail; the head of the queue *)
(* takes the cached sequence or queries the chain, builds, signs, sends.   *)
(***************************************************************************)
EXTENDS Transactions, SignerTransports

CONSTANTS
    Jobs,          \* withdrawals of the Go workflow
    Users,         \* callers of SequenceGate.run
    MaxRuns,       \* bound on the runs of one user
    MaxRotations,  \* bound on the changes of the key behind the key handle
    Hot, Dest,     \* the account and a destination address
    ChainID,       \* the chain of the configuration
    GasUsed,       \* the gas a simulation may report
    StaticGas,     \* the gas limit without simulation, or 0 to queue
    Adjustment, GasPrice, MaxFee,
    MaxSafeInteger,
    None           \* no cached sequence

VARIABLES
    transport,     \* the configured signer kind
    key,           \* the key the signing system holds under the key handle
    rotations,
    rec,           \* the withdrawal records
    call,          \* per job: the Sign call under way
    asked,         \* per job: the documents given to the signer
    queue,         \* the gate's tail: users in the order of their calls
    next,          \* the gate's cached sequence, None after invalidation
    numbered,      \* whether the gate has the account number too
    run,           \* per user: the run under way
    runs,          \* per user: runs so far
    chainSeq,      \* the account's committed sequence
    mempool,       \* accepted transactions, one per sequence from chainSeq
    misses         \* sequence rejections of runs since the chain last moved

signVars == <<transport, key, rotations>>
goVars == <<rec, call, asked>>
gateVars == <<queue, next, numbered, run, runs, misses>>
chainVars == <<chainSeq, mempool>>
vars == <<signVars, goVars, gateVars, chainVars>>

TS == INSTANCE TransactionsTS

NoDoc == [none |-> TRUE]
NoReply == Happening("", "")

IdleCall == [pc |-> "idle", doc |-> NoDoc, happened |-> NoReply, resp |-> NoDoc]
IdleRun == [pc |-> "idle", sequence |-> 0, doc |-> NoDoc, sig |-> NoDoc]

(* The document a record stands for                                        *)
ApprovedDoc(r, k) ==
    SignDoc(BuildMsgSend(r.from, r.to, r.amount, r.memo), r.chain, r.account, r.sequence,
            [amount |-> r.fee, gas |-> r.gas], k)

Init ==
    /\ transport \in Transports /\ key \in Keys /\ rotations = 0
    /\ rec = [j \in Jobs |-> [status |-> "APPROVED", chain |-> ChainID, from |-> Hot, to |-> Dest,
                              amount |-> 1, memo |-> "", account |-> 0, sequence |-> 0,
                              used |-> 0, gas |-> 0, fee |-> 0, tx |-> NoDoc,
                              slot |-> "RESERVED"]]
    /\ call = [j \in Jobs |-> IdleCall] /\ asked = [j \in Jobs |-> {}]
    /\ queue = <<>> /\ next = None /\ numbered = FALSE
    /\ run = [u \in Users |-> IdleRun] /\ runs = [u \in Users |-> 0]
    /\ chainSeq = 0 /\ mempool = <<>> /\ misses = 0
-----------------------------------------------------------------------------
(* The node (external) *)

(* The sequence CheckTx expects next                                       *)
CheckSeq == chainSeq + Len(mempool)

CheckTxAccepts(tx) ==
    LET info == tx.doc.infos[1] IN
    /\ info.sequence = CheckSeq
    /\ tx.doc.chain = ChainID
    /\ AddressOf[info.key] = tx.doc.msgs[1].from
    /\ VerifySignature(info.key, tx.doc, tx.sig)

Accept(tx) == mempool' = Append(mempool, tx) /\ misses' = 0 /\ UNCHANGED chainSeq

IncludeTx ==
    /\ mempool # <<>>
    /\ chainSeq' = chainSeq + 1 /\ mempool' = Tail(mempool) /\ misses' = 0
    /\ UNCHANGED <<signVars, goVars, queue, next, numbered, run, runs>>

(* An evicted transaction takes the later ones with it.                    *)
EvictTx ==
    /\ \E n \in 0..Len(mempool) - 1 : mempool' = SubSeq(mempool, 1, n)
    /\ misses' = 0
    /\ UNCHANGED <<signVars, goVars, queue, next, numbered, run, runs, chainSeq>>

Rotate ==
    /\ rotations < MaxRotations /\ rotations' = rotations + 1
    /\ \E k \in Keys \ {key} : key' = k
    /\ UNCHANGED <<transport, goVars, gateVars, chainVars>>
-----------------------------------------------------------------------------
(* The Go workflow *)

(* quarantine; quarantinePostSignature takes the slot along.               *)
ReviewSlot(j, h, slot) ==
    /\ rec' = [rec EXCEPT ![j].status = "REVIEW_REQUIRED", ![j].slot = slot]
    /\ call' = [call EXCEPT ![j] = [IdleCall EXCEPT !.happened = h]]

Review(j, h) == ReviewSlot(j, h, rec[j].slot)

Hold(j) == call' = [call EXCEPT ![j] = IdleCall] /\ UNCHANGED rec

(* A signer error holds the withdrawal or quarantines it.                  *)
SignerFails(j, h) ==
    /\ h.kind # "reply"
    /\ IF SignerCode(transport, h) = "SIGNER_UNAVAILABLE" THEN Hold(j) ELSE Review(j, h)

(* The record is bound to a sequence and the message is built.             *)
ReserveAndBuild(j) ==
    /\ rec[j].status = "APPROVED"
    /\ \E chain \in {ChainID, "other"} :
         rec' = [rec EXCEPT ![j].status = "TRANSACTION_BUILT", ![j].sequence = chainSeq,
                            ![j].chain = chain]
    /\ UNCHANGED <<signVars, call, asked, gateVars, chainVars>>

(* Simulate: the key for the simulated bytes, the node's answer or the     *)
(* policy for none, the gas limit and the fee.                             *)
SetGas(j, used, limit) ==
    LET fee == feeFor(limit, GasPrice) IN
    IF limit = 0 \/ fee > MaxFee THEN Review(j, Happening("reply", ""))
    ELSE /\ rec' = [rec EXCEPT ![j].status = "TRANSACTION_SIMULATED", ![j].used = used,
                               ![j].gas = limit, ![j].fee = fee]
         /\ call' = [call EXCEPT ![j] = IdleCall]

Simulate(j) ==
    /\ rec[j].status = "TRANSACTION_BUILT"
    /\ \/ \E h \in Happenings(transport) : SignerFails(j, h)
       \/ AddressOf[key] # rec[j].from /\ Review(j, Happening("reply", ""))
       \/ /\ AddressOf[key] = rec[j].from
          /\ \/ \E used \in GasUsed : SetGas(j, used, gasLimitFor(used, Adjustment))
             \/ StaticGas = 0 /\ Hold(j)
             \/ StaticGas # 0 /\ SetGas(j, StaticGas, StaticGas)
    /\ UNCHANGED <<signVars, asked, gateVars, chainVars>>

(* Mutant: the gas limit of the simulated bytes is signed.                 *)
SignDocOfProvisionalGas(r) ==
    SignDoc(BuildMsgSend(r.from, r.to, r.amount, r.memo), r.chain, r.account, r.sequence,
            [amount |-> r.fee, gas |-> r.gas + 1], key)

SignDocOf(r) ==
    SignDoc(BuildMsgSend(r.from, r.to, r.amount, r.memo), r.chain, r.account, r.sequence,
            [amount |-> r.fee, gas |-> r.gas], key)

(* Sign, up to the signer: the public key, the document, its summary       *)
SignStart(j) ==
    /\ rec[j].status = "TRANSACTION_SIMULATED" /\ call[j].pc = "idle"
    /\ \/ \E h \in Happenings(transport) : SignerFails(j, h) /\ UNCHANGED asked
       \/ LET doc == SignDocOf(rec[j])
              reply == Happening("reply", "")
          IN  \/ doc = Refused /\ Review(j, reply) /\ UNCHANGED asked
              \/ /\ doc # Refused /\ summaryMismatch(rec[j], DeriveSummary(doc), ChainID)
                 /\ Review(j, reply) /\ UNCHANGED asked
              \/ /\ doc # Refused /\ ~summaryMismatch(rec[j], DeriveSummary(doc), ChainID)
                 /\ call' = [call EXCEPT ![j] = [IdleCall EXCEPT !.pc = "asked", !.doc = doc]]
                 /\ asked' = [asked EXCEPT ![j] = @ \cup {doc}]
                 /\ UNCHANGED rec
    /\ UNCHANGED <<signVars, gateVars, chainVars>>

(* The signing system and the way back (external but for the local signer, *)
(* which checks the summary first): a signature by the key it holds now,   *)
(* in any form, over the document or over something else.                  *)
Replies(doc) ==
    [key : {key}, sig : [by : {key}, over : {doc, NoDoc}, form : {"lowS", "highS"}]]

SignerAnswers(j) ==
    LET doc == call[j].doc IN
    /\ call[j].pc = "asked"
    /\ \E h \in Happenings(transport) :
         \/ /\ h.kind # "reply"
            /\ call' = [call EXCEPT ![j].pc = "answered", ![j].happened = h]
         \/ /\ h.kind = "reply"
            /\ transport = "local" => verifySummary(doc, DeriveSummary(doc))
            /\ \E resp \in Replies(doc) :
                 /\ transport = "local" => resp.sig.over = doc /\ resp.sig.form = "lowS"
                 /\ call' = [call EXCEPT ![j].pc = "answered", ![j].happened = h,
                                         ![j].resp = resp]
    /\ UNCHANGED <<signVars, rec, asked, gateVars, chainVars>>

(* Sign, after the signer: hold, quarantine, or verify, assemble, persist  *)
SignFinish(j) ==
    LET r == rec[j]
        c == call[j]
        tx == Assemble(BuildMsgSend(r.from, r.to, r.amount, r.memo), c.doc, c.resp)
    IN
    /\ c.pc = "answered"
    /\ \/ SignerFails(j, c.happened)
       \/ /\ c.happened.kind = "reply"
          /\ IF VerifySignedResponse(c.doc, c.resp, r.from) /\ tx # Refused
             THEN /\ rec' = [rec EXCEPT ![j].status = "SIGNED", ![j].tx = tx, ![j].slot = "SIGNED"]
                  /\ call' = [call EXCEPT ![j] = IdleCall]
             ELSE ReviewSlot(j, c.happened, "RECONCILIATION_REQUIRED")
    /\ UNCHANGED <<signVars, asked, gateVars, chainVars>>

Broadcast(j) ==
    /\ rec[j].status = "SIGNED"
    /\ \/ /\ CheckTxAccepts(rec[j].tx) /\ Accept(rec[j].tx)
          /\ rec' = [rec EXCEPT ![j].status = "BROADCAST", ![j].slot = "BROADCAST"]
          /\ UNCHANGED call
       \/ /\ ~CheckTxAccepts(rec[j].tx) /\ ReviewSlot(j, NoReply, "RECONCILIATION_REQUIRED")
          /\ UNCHANGED <<chainVars, misses>>
    /\ UNCHANGED <<signVars, asked, queue, next, numbered, run, runs>>
-----------------------------------------------------------------------------
(* The TypeScript library *)

(* SequenceGate.run: the task is chained to the tail.                      *)
Run(u) ==
    /\ run[u].pc = "idle" /\ runs[u] < MaxRuns
    /\ queue' = Append(queue, u)
    /\ run' = [run EXCEPT ![u] = [IdleRun EXCEPT !.pc = "queued"]]
    /\ runs' = [runs EXCEPT ![u] = @ + 1]
    /\ UNCHANGED <<signVars, goVars, next, numbered, misses, chainVars>>

Handed(u, seq) == run' = [run EXCEPT ![u].pc = "fn", ![u].sequence = seq]

(* The head of the queue: the cached sequence, or a query of the chain     *)
StartRun(u) ==
    /\ run[u].pc = "queued" /\ Head(queue) = u
    /\ IF next = None \/ ~numbered THEN run' = [run EXCEPT ![u].pc = "query"] ELSE Handed(u, next)
    /\ UNCHANGED <<signVars, goVars, queue, next, numbered, runs, misses, chainVars>>

(* The task ends; the tail goes on whatever its outcome.                   *)
EndRun(u) ==
    /\ queue' = Tail(queue)
    /\ run' = [run EXCEPT ![u] = IdleRun]
    /\ UNCHANGED runs

(* Mutant: the cached sequence survives a failed run.                      *)
RejectKeepingCache(u) == EndRun(u) /\ UNCHANGED <<next, numbered>>

(* fn rejects: the cache is dropped.                                       *)
Reject(u) == EndRun(u) /\ next' = None /\ numbered' = FALSE

(* fn resolves: the cache is the sequence after the one fn was given; an   *)
(* invalidation in the meantime shows in the missing account number.       *)
Resolve(u) == EndRun(u) /\ next' = run[u].sequence + 1 /\ UNCHANGED numbered

(* The account query answers with the committed sequence, or fails outside *)
(* the try block, with the cache still empty.                              *)
QueryAnswered(u) ==
    /\ run[u].pc = "query"
    /\ \/ next' = chainSeq /\ numbered' = TRUE /\ Handed(u, chainSeq) /\ UNCHANGED <<queue, runs>>
       \/ EndRun(u) /\ UNCHANGED <<next, numbered>>
    /\ UNCHANGED <<signVars, goVars, misses, chainVars>>

Invalidate ==
    /\ next # None /\ next' = None /\ numbered' = FALSE
    /\ UNCHANGED <<signVars, goVars, queue, run, runs, misses, chainVars>>

Args == [from |-> Hot, to |-> Dest, amount |-> 1, fee |-> 0, gas |-> 1, memo |-> ""]

(* fn: buildMsgSend, getPublicKey, makeSignDocForTx                        *)
FnBuild(u) ==
    LET doc == TS!makeSignDocForTx(TS!buildMsgSend(Args),
                 [chain |-> ChainID, account |-> 0, sequence |-> run[u].sequence, key |-> key])
    IN
    /\ run[u].pc = "fn"
    /\ \/ Reject(u)
       \/ /\ doc # Refused
          /\ run' = [run EXCEPT ![u].pc = "sign", ![u].doc = doc]
          /\ UNCHANGED <<queue, next, numbered, runs>>
    /\ UNCHANGED <<signVars, goVars, misses, chainVars>>

(* fn: signer.sign, which finds the account by its address                 *)
FnSign(u) ==
    LET doc == run[u].doc
        sig == [by |-> key, over |-> doc, form |-> "lowS"]
    IN
    /\ run[u].pc = "sign"
    /\ \/ Reject(u)
       \/ /\ AddressOf[key] = Hot
          /\ TS!SignerAccepts(doc, TS!deriveSummaryFromSignDoc(doc), Hot)
          /\ run' = [run EXCEPT ![u].pc = "send", ![u].sig = sig]
          /\ UNCHANGED <<queue, next, numbered, runs>>
    /\ UNCHANGED <<signVars, goVars, misses, chainVars>>

(* fn: assembleTx and broadcast; a transport error may hide an acceptance  *)
FnSend(u) ==
    LET tx == TS!assembleTx(run[u].doc, run[u].sig) IN
    /\ run[u].pc = "send"
    /\ \/ CheckTxAccepts(tx) /\ Accept(tx) /\ (Resolve(u) \/ Reject(u))
       \/ ~CheckTxAccepts(tx) /\ misses' = misses + 1 /\ Reject(u) /\ UNCHANGED chainVars
       \/ Reject(u) /\ UNCHANGED <<chainVars, misses>>
    /\ UNCHANGED <<signVars, goVars>>
-----------------------------------------------------------------------------
Next ==
    \/ \E j \in Jobs :
         \/ ReserveAndBuild(j) \/ Simulate(j) \/ SignStart(j)
         \/ SignerAnswers(j) \/ SignFinish(j) \/ Broadcast(j)
    \/ \E u \in Users :
         \/ Run(u) \/ StartRun(u) \/ QueryAnswered(u)
         \/ FnBuild(u) \/ FnSign(u) \/ FnSend(u)
    \/ Invalidate
    \/ IncludeTx \/ EvictTx \/ Rotate

Spec == Init /\ [][Next]_vars
-----------------------------------------------------------------------------
(* Properties *)

(* Every document a withdrawal gives to the signer, in this attempt or in  *)
(* one whose answer was lost, is the document of its record: there is one, *)
(* on the configured chain, and it pays for its gas at the configured      *)
(* price.  A persisted transaction is that document, signed by a key that  *)
(* derives the sender.                                                     *)
SignedIsApproved ==
    \A j \in Jobs :
        LET r == rec[j] IN
        /\ \A doc \in asked[j] :
             /\ doc = ApprovedDoc(r, doc.infos[1].key)
             /\ doc.chain = ChainID
             /\ r.fee * GasPrice.den >= r.gas * GasPrice.num
             /\ r.gas * Adjustment.den >= r.used * Adjustment.num \/ r.used = StaticGas
        /\ r.tx # NoDoc =>
             /\ r.tx.doc \in asked[j]
             /\ \E k \in Keys : AddressOf[k] = r.from /\ VerifySignature(k, r.tx.doc, r.tx.sig)


(* A stale cached sequence costs the gate one rejected run: as long as the *)
(* chain does not move, the run after it is not rejected again, unless     *)
(* transactions of the account are still waiting for a block.              *)
StaleOnlyOnce == misses <= 1 \/ mempool # <<>>

(* The two libraries read every document either of them has built alike:   *)
(* a TypeScript signer accepts what the Go adapter sends it with the       *)
(* summary the adapter derived, and the other way round.                   *)
SummariesAgree ==
    \A doc \in (UNION {asked[j] : j \in Jobs} \cup {run[u].doc : u \in Users}) \ {NoDoc} :
        /\ DeriveSummary(doc) # Refused
        /\ TS!deriveSummaryFromSignDoc(doc) = DeriveSummary(doc)
        /\ verifySummary(doc, TS!deriveSummaryFromSignDoc(doc))
=============================================================================

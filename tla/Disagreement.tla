---------------------------- MODULE Disagreement ----------------------------
(***************************************************************************)
(* The node-disagreement monitor (go/reconcile/disagreement.go) beside the *)
(* other two writers of chain-review conditions: the deposit scanner       *)
(* (go/deposits/scanner.go) and the operator (admin_controls.go).  While a *)
(* condition is open the crediting gate is closed.                         *)
(*                                                                         *)
(* A check asks the primary and the secondary one after the other, item by *)
(* item, and then lists, opens or resolves conditions one store call at a  *)
(* time: the nodes move, the scanner opens and the operator resolves       *)
(* between any two of these calls.  Conditions of one trigger are counted  *)
(* rather than named by id: the scanner may add a second hash condition,   *)
(* while only the monitor, which is one process, opens transient ones.     *)
(***************************************************************************)
EXTENDS ChainClient, Sequences, FiniteSets, FiniteSetsExt, TLC

CONSTANTS HeightTolerance,
          ForkHeight,      \* first height at which the two branches differ
          ChangeHeights,   \* heights whose block changes the watched account
          Unstable,        \* bound: nodes that fork or stop answering
          InitialTip,      \* InitialTip[n]: heights of the nodes when the adapter starts
          MaxHeight,       \* bound: tip of a node
          MaxInterventions \* bound: resolutions by the operator and restarts

autoResolveCleanChecks == 3

Primary == 0
Secondary == 1
Nodes == {Primary, Secondary}

ASSUME DisagreementAssumption ==
    /\ HeightTolerance \in Nat \ {0}
    /\ ForkHeight \in Nat \ {0} /\ MaxHeight \in Nat \ {0}
    /\ InitialTip \in [Nodes -> 1 .. MaxHeight]
    /\ ChangeHeights \subseteq Nat /\ Unstable \subseteq Nodes
    /\ MaxInterventions \in Nat

VARIABLES tip, branch, silent,  \* the nodes: height, history followed, not answering
          checkpoint,           \* the scanner's last processed height and its hash
          conditions,           \* conditions[t]: open conditions with trigger t
          mon,                  \* the monitor: its fields and the locals of a check
          scan,                 \* the scanner: hash mismatch found, not yet opened
          interventions,
          clean                 \* clean[t]: clean checks in a row since t was opened (history)

vars == <<tip, branch, silent, checkpoint, conditions, mon, scan, interventions, clean>>
nodeVars == <<tip, branch, silent>>

HashTrigger == "BLOCK_HASH_MISMATCH"
Transient == {"HEIGHT_DIVERGENCE", "QUERY_RESULT_MISMATCH"}
Triggers == Transient \cup {HashTrigger}
Kinds == {"height", "block_hash", "balance"}

MonPCs == {"idle", "ask", "answer", "decide", "listed", "insert", "resolve"}

NoCheck == [pc |-> "idle", todo |-> <<>>, at |-> 0, primary |-> NoAnswer,
            bad |-> {}, listed |-> {}]

(* Type correctness.                                                       *)
TypeOK ==
    /\ tip \in [Nodes -> 1 .. MaxHeight]
    /\ branch \in [Nodes -> {0, 1}]
    /\ silent \subseteq Nodes
    /\ checkpoint \in [height : 0 .. MaxHeight, hash : -MaxHeight .. MaxHeight]
    /\ conditions \in [Triggers -> 0 .. 2]
    /\ \A t \in Transient : conditions[t] <= 1
    /\ mon.pc \in MonPCs /\ mon.streak \in 0 .. autoResolveCleanChecks
    /\ mon.bad \subseteq Kinds /\ mon.listed \subseteq Transient
    /\ scan \in {"scan", "list", "open"}
    /\ interventions \in 0 .. MaxInterventions
    /\ clean \in [Triggers -> 0 .. autoResolveCleanChecks]

Init ==
    /\ tip = InitialTip /\ branch = [n \in Nodes |-> 0] /\ silent = {}
    /\ checkpoint = [height |-> 0, hash |-> 0]
    /\ conditions = [t \in Triggers |-> 0]
    /\ mon = NoCheck @@ [streak |-> 0]
    /\ scan = "scan"
    /\ interventions = 0
    /\ clean = [t \in Triggers |-> 0]

-----------------------------------------------------------------------------
(* What a node answers: its height, the hash at a height it has, and the   *)
(* balance (or sequence) of the watched account at its height.             *)
HashAt(n, h) == IF branch[n] = 1 /\ h >= ForkHeight THEN -h ELSE h

NodeView(n, kind, at) ==
    CASE n \in silent -> NoAnswer
      [] kind = "height" -> Answered(tip[n])
      [] kind = "block_hash" -> IF at <= tip[n] THEN Answered(HashAt(n, at)) ELSE NoAnswer
      [] kind = "balance" -> Answered(Cardinality({h \in ChangeHeights : h <= tip[n]}))

(* Mutant: a hash mismatch is filed as a query mismatch.                   *)
triggerForQuery(kind) ==
    IF kind = "height" THEN "HEIGHT_DIVERGENCE" ELSE "QUERY_RESULT_MISMATCH"

triggerFor(kind) ==
    CASE kind = "height" -> "HEIGHT_DIVERGENCE"
      [] kind = "block_hash" -> HashTrigger
      [] OTHER -> "QUERY_RESULT_MISMATCH"

Open(trigger) == conditions[trigger] > 0

(* Open and Resolve of chainReviewRepo: a row is inserted; an open row is  *)
(* resolved.                                                               *)
Inserted(trigger) == [conditions EXCEPT ![trigger] = @ + 1]
Resolved(trigger) == [conditions EXCEPT ![trigger] = @ - 1]

-----------------------------------------------------------------------------
(* Check: the request is built from the checkpoint; the block hash is      *)
(* compared only when a block was processed.                               *)
StartCheck ==
    /\ mon.pc = "idle"
    /\ mon' = [mon EXCEPT !.pc = "ask", !.at = checkpoint.height, !.bad = {},
                          !.todo = IF checkpoint.height > 0
                                     THEN <<"height", "block_hash", "balance">>
                                     ELSE <<"height", "balance">>]
    /\ UNCHANGED <<nodeVars, checkpoint, conditions, scan, interventions, clean>>

AskPrimary ==
    /\ mon.pc = "ask"
    /\ mon' = [mon EXCEPT !.pc = "answer", !.primary = NodeView(Primary, Head(mon.todo), mon.at)]
    /\ UNCHANGED <<nodeVars, checkpoint, conditions, scan, interventions, clean>>

(* The secondary is asked for the same item, and the two sides compared.   *)
AskSecondary ==
    /\ mon.pc = "answer"
    /\ LET kind == Head(mon.todo)
           bad == mon.bad \cup Mismatches({kind}, kind :> mon.primary,
                                          kind :> NodeView(Secondary, kind, mon.at), HeightTolerance)
       IN mon' = [mon EXCEPT !.pc = IF Len(mon.todo) = 1 THEN "decide" ELSE "ask",
                             !.todo = Tail(@), !.primary = NoAnswer, !.bad = bad]
    /\ UNCHANGED <<nodeVars, checkpoint, conditions, scan, interventions, clean>>

(* Mutant: a mismatch does not break the streak.                           *)
StreaksKept(agree) == IF agree THEN Min({mon.streak + 1, autoResolveCleanChecks}) ELSE mon.streak

(* The verdict of the check.  Full agreement advances the streak, and from *)
(* the third on lists the conditions to resolve; a mismatch resets it.     *)
Streaks(agree) == IF agree THEN Min({mon.streak + 1, autoResolveCleanChecks}) ELSE 0

Decide ==
    LET agree == mon.bad = {} IN
    /\ mon.pc = "decide"
    /\ clean' = [t \in Triggers |->
          IF agree /\ Open(t) THEN Min({clean[t] + 1, autoResolveCleanChecks}) ELSE 0]
    /\ mon' = IF ~ agree THEN [mon EXCEPT !.pc = "listed", !.streak = Streaks(FALSE)]
              ELSE IF Streaks(TRUE) >= autoResolveCleanChecks
                THEN [mon EXCEPT !.pc = "resolve", !.streak = Streaks(TRUE),
                                 !.listed = {t \in Transient : Open(t)}]
                ELSE NoCheck @@ [streak |-> Streaks(TRUE)]
    /\ UNCHANGED <<nodeVars, checkpoint, conditions, scan, interventions>>

(* The mismatching items are handled in the order of the comparison.       *)
NextBad ==
    CASE "height" \in mon.bad -> "height"
      [] "height" \notin mon.bad /\ "block_hash" \in mon.bad -> "block_hash"
      [] OTHER -> "balance"

ItemDone == IF Cardinality(mon.bad) = 1
              THEN NoCheck @@ [streak |-> mon.streak]
              ELSE [mon EXCEPT !.pc = "listed", !.bad = @ \ {NextBad}]

(* openCondition for the next mismatching item: list the open conditions,  *)
(* and insert one in a second store call if none has the trigger.          *)
ListOpen ==
    /\ mon.pc = "listed"
    /\ mon' = IF Open(triggerFor(NextBad)) THEN ItemDone ELSE [mon EXCEPT !.pc = "insert"]
    /\ UNCHANGED <<nodeVars, checkpoint, conditions, scan, interventions, clean>>

InsertCondition ==
    /\ mon.pc = "insert"
    /\ conditions' = Inserted(triggerFor(NextBad))
    /\ clean' = [clean EXCEPT ![triggerFor(NextBad)] = 0]
    /\ mon' = ItemDone
    /\ UNCHANGED <<nodeVars, checkpoint, scan, interventions>>

(* Mutant: only the height condition is ever resolved.                     *)
AutoResolveHeight ==
    /\ mon.pc = "resolve"
    /\ mon' = NoCheck @@ [streak |-> 0]
    /\ conditions' = IF Open("HEIGHT_DIVERGENCE") THEN Resolved("HEIGHT_DIVERGENCE") ELSE conditions
    /\ UNCHANGED <<nodeVars, checkpoint, scan, interventions, clean>>

(* autoResolveTransient: one Resolve per listed condition; one that was    *)
(* resolved meanwhile is a status conflict, which ends the pass.           *)
AutoResolve ==
    /\ mon.pc = "resolve"
    /\ \/ /\ mon.listed = {}
          /\ mon' = NoCheck @@ [streak |-> mon.streak]
          /\ UNCHANGED conditions
       \/ \E t \in mon.listed :
             IF Open(t)
               THEN conditions' = Resolved(t) /\ mon' = [mon EXCEPT !.listed = @ \ {t}]
               ELSE mon' = NoCheck @@ [streak |-> mon.streak] /\ UNCHANGED conditions
    /\ UNCHANGED <<nodeVars, checkpoint, scan, interventions, clean>>

(* The adapter restarts: the streak is not persisted.                      *)
Restart ==
    /\ interventions < MaxInterventions
    /\ interventions' = interventions + 1
    /\ mon' = NoCheck @@ [streak |-> 0]
    /\ scan' = "scan"
    /\ UNCHANGED <<nodeVars, checkpoint, conditions, clean>>

-----------------------------------------------------------------------------
(* The scanner processes the block after its checkpoint, from the node the *)
(* failover client asks.  When the parent hash is not the recorded one     *)
(* (orphanFlow), it opens a condition once per trigger, again with a list  *)
(* and an insert, and rolls the checkpoint back one block.                 *)
ScanBlock ==
    /\ scan = "scan"
    /\ \E n \in Nodes \ silent :
          LET h == checkpoint.height IN
          /\ h < tip[n]
          /\ IF h = 0 \/ HashAt(n, h) = checkpoint.hash
               THEN /\ checkpoint' = [height |-> h + 1, hash |-> HashAt(n, h + 1)]
                    /\ UNCHANGED scan
               ELSE scan' = "list" /\ UNCHANGED checkpoint
    /\ UNCHANGED <<nodeVars, conditions, mon, interventions, clean>>

(* Without an answer the rollback is left to the next cycle.               *)
RolledBack ==
    LET h == checkpoint.height - 1 IN
    \/ h = 0 /\ checkpoint' = [height |-> 0, hash |-> 0]
    \/ \E n \in Nodes \ silent :
          /\ 0 < h /\ h <= tip[n]
          /\ checkpoint' = [height |-> h, hash |-> HashAt(n, h)]
    \/ h > 0 /\ silent # {} /\ UNCHANGED checkpoint

ScannerList ==
    /\ scan = "list"
    /\ IF Open(HashTrigger) THEN scan' = "scan" /\ RolledBack
                            ELSE scan' = "open" /\ UNCHANGED checkpoint
    /\ UNCHANGED <<nodeVars, conditions, mon, interventions, clean>>

ScannerOpen ==
    /\ scan = "open"
    /\ conditions' = Inserted(HashTrigger)
    /\ clean' = [clean EXCEPT ![HashTrigger] = 0]
    /\ scan' = "scan" /\ RolledBack
    /\ UNCHANGED <<nodeVars, mon, interventions>>

(* The operator resolves a condition (handleChainReviewResolve).           *)
OperatorResolves(t) ==
    /\ Open(t)
    /\ interventions < MaxInterventions
    /\ interventions' = interventions + 1
    /\ conditions' = Resolved(t)
    /\ UNCHANGED <<nodeVars, checkpoint, mon, scan, clean>>

-----------------------------------------------------------------------------
(* External: the nodes grow, stop and resume answering, and switch to the  *)
(* other branch.                                                           *)
Grow(n) ==
    /\ tip[n] < MaxHeight
    /\ tip' = [tip EXCEPT ![n] = @ + 1]
    /\ UNCHANGED <<branch, silent, checkpoint, conditions, mon, scan, interventions, clean>>

Switch(n) ==
    /\ branch' = [branch EXCEPT ![n] = 1 - @]
    /\ UNCHANGED <<tip, silent, checkpoint, conditions, mon, scan, interventions, clean>>

Toggle(n) ==
    /\ silent' = IF n \in silent THEN silent \ {n} ELSE silent \cup {n}
    /\ UNCHANGED <<tip, branch, checkpoint, conditions, mon, scan, interventions, clean>>

MonitorStep ==
    StartCheck \/ AskPrimary \/ AskSecondary \/ Decide \/ ListOpen \/ InsertCondition \/ AutoResolve

ScannerStep == ScanBlock \/ ScannerList \/ ScannerOpen

Next ==
    \/ MonitorStep \/ ScannerStep \/ Restart
    \/ \E t \in Triggers : OperatorResolves(t)
    \/ \E n \in Nodes : Grow(n)
    \/ \E n \in Unstable : Switch(n) \/ Toggle(n)

(* The monitor runs on a ticker.                                           *)
Spec == Init /\ [][Next]_vars /\ WF_vars(MonitorStep)
-----------------------------------------------------------------------------
(* A condition the monitor closes was opened for a passing disagreement,   *)
(* and every one of the last three checks, all made since it opened, found *)
(* the nodes in full agreement (disagreement.go 35).  Whatever the scanner *)
(* and the operator do meanwhile, a hash condition is left to the operator.*)
AutoResolveEarned ==
    [][mon' # mon => \A t \in Triggers : conditions'[t] < conditions[t] =>
                        t \in Transient /\ clean[t] >= autoResolveCleanChecks]_vars

(* The two nodes keep different histories below the checkpoint.            *)
ForkedHistory ==
    /\ checkpoint.height > 0
    /\ HashAt(Primary, checkpoint.height) # HashAt(Secondary, checkpoint.height)

(* While the nodes disagree about processed history the crediting gate     *)
(* does not stay open: the hash condition is opened, and opened again      *)
(* after every resolution.                                                 *)
ForkClosesGate == <>[]ForkedHistory => []<>Open(HashTrigger)

(* Both nodes answer, follow one history and have its end.                 *)
InAgreement ==
    /\ silent = {} /\ branch[Primary] = branch[Secondary]
    /\ tip[Primary] = tip[Secondary] /\ checkpoint.height <= tip[Primary]

(* Passing disagreements heal without an operator: once the nodes agree    *)
(* for good, no transient condition stays open, also when the operator     *)
(* resolves one of them under the monitor's hands.                         *)
TransientHeals == <>[]InAgreement => <>[](\A t \in Transient : ~ Open(t))
=============================================================================

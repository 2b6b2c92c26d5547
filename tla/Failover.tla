------------------------------ MODULE Failover ------------------------------
(***************************************************************************)
(* client.Failover (go/client/failover.go): every call of the adapter goes *)
(* to the active one of two nodes, a transport failure is tried again on   *)
(* the standby if that one answers a health check, and the active role     *)
(* moves over after FailureThreshold failures in a row.                    *)
(*                                                                         *)
(* Several services share one Failover.  The mutex covers only the reads   *)
(* and writes of active and consecFails, so a call works with a pair of    *)
(* nodes that may have swapped roles meanwhile.  Nodes come and go at any  *)
(* moment.                                                                 *)
(***************************************************************************)
EXTENDS ChainClient, FiniteSets

CONSTANTS Callers,
          Poller,            \* the caller that polls a node for ever (the scanner)
          FailureThreshold,
          Transport,         \* Transport[n]: how node n is reached
          Routable,          \* nodes with a route to the transaction service
          Offered            \* bound: Offered[c], the methods a caller uses

Nodes == {0, 1}  \* 0: primary, 1: secondary

ASSUME FailoverAssumption ==
    /\ Poller \in Callers
    /\ FailureThreshold \in Nat \ {0}
    /\ Transport \in [Nodes -> Transports]
    /\ Routable \subseteq Nodes
    /\ Offered \in [Callers -> SUBSET Methods]
    /\ "LatestBlock" \in Offered[Poller]

VARIABLES active, consecFails,
          blocked,     \* blocked[n]: simulateBlocked() of the client of node n
          condition,   \* condition[n]
          call         \* call[c]: the call a caller is in

vars == <<active, consecFails, blocked, condition, call>>

Standby(n) == 1 - n

(* node: the active node of the pair that was read; asked: nodes that got  *)
(* the request; steady: nodes that served since the call began (history).  *)
Calls == [pc : {"ask", "judge", "fail", "promote", "retry", "done"},
          method : Methods, node : Nodes, answer : Answers, cancelled : BOOLEAN,
          asked : SUBSET Nodes, steady : SUBSET Nodes]

(* Type correctness of the shared fields and of the calls under way.       *)
TypeOK ==
    /\ active \in Nodes
    /\ consecFails \in 0 .. (FailureThreshold - 1)
    /\ blocked \in [Nodes -> BOOLEAN]
    /\ condition \in [Nodes -> Conditions]
    /\ call \in [Callers -> Calls]

Idle == [pc |-> "done", method |-> "LatestBlock", node |-> 0, answer |-> "ok",
         cancelled |-> FALSE, asked |-> {}, steady |-> {}]

(* A call that returned; only one that failed is remembered, for the       *)
(* properties.                                                             *)
Returned(cl) == IF cl.answer = "error" THEN [cl EXCEPT !.pc = "done", !.node = 0] ELSE Idle

Init ==
    /\ active = 0
    /\ consecFails = 0
    /\ blocked = [n \in Nodes |-> FALSE]
    /\ condition = [n \in Nodes |-> "serving"]
    /\ call = [c \in Callers |-> Idle]

-----------------------------------------------------------------------------
recordSuccess == consecFails' = 0 /\ UNCHANGED active

(* Mutant: the standby is always the secondary.                            *)
recordFailureOneWay ==
    IF consecFails + 1 >= FailureThreshold
        THEN active' = 1 /\ consecFails' = 0
        ELSE consecFails' = consecFails + 1 /\ UNCHANGED active

recordFailure ==
    IF consecFails + 1 >= FailureThreshold
        THEN active' = Standby(active) /\ consecFails' = 0
        ELSE consecFails' = consecFails + 1 /\ UNCHANGED active

failoverEligible(cl) ==
    ~ cl.cancelled /\ cl.answer \notin {"unsupported", "simulateUnavailable", "notFound"}

-----------------------------------------------------------------------------
(* A caller enters the client; pair() is read under the mutex.             *)
Begin(c, m) ==
    /\ call[c].pc = "done"
    /\ call' = [call EXCEPT ![c] =
          [pc |-> "ask", method |-> m, node |-> active, answer |-> "ok", cancelled |-> FALSE,
           asked |-> {}, steady |-> {n \in Nodes : condition[n] = "serving"}]]
    /\ UNCHANGED <<active, consecFails, blocked, condition>>

(* The request to node n, with what it leaves in the probe state.  A       *)
(* blocked Simulate, and BlockResults over gRPC, never leave the process.  *)
Request(c, n, pc) ==
    LET cl == call[c]
        local == \/ cl.method = "Simulate" /\ blocked[n]
                 \/ cl.method = "BlockResults" /\ Transport[n] = "grpc"
        says == IF cl.cancelled THEN {"timeout"} ELSE NodeSays(condition[n], n \in Routable, cl.method)
    IN /\ \E raw \in says :
             LET answer == IF cl.method = "Simulate" /\ blocked[n]
                             THEN "simulateUnavailable"
                             ELSE ClientAnswer(Transport[n], cl.method, raw)
                 after == [cl EXCEPT !.pc = pc, !.answer = answer,
                                     !.asked = IF local THEN @ ELSE @ \cup {n}]
             IN /\ call' = [call EXCEPT ![c] = IF pc = "done" THEN Returned(after) ELSE after]
                /\ blocked' = IF cl.method = "Simulate"
                                THEN [blocked EXCEPT ![n] = SimulateBlocks(@, answer)] ELSE blocked
       /\ UNCHANGED <<active, consecFails, condition>>

Ask(c) == call[c].pc = "ask" /\ Request(c, call[c].node, "judge")

(* do, after op(active) returned; a Broadcast is judged by JudgeBroadcast. *)
Judge(c) ==
    LET cl == call[c] IN
    /\ cl.pc = "judge" /\ cl.method # "Broadcast"
    /\ \/ /\ cl.answer = "ok"
          /\ recordSuccess
          /\ call' = [call EXCEPT ![c] = Returned(@)]
       \/ /\ cl.answer # "ok" /\ ~ failoverEligible(cl)
          /\ call' = [call EXCEPT ![c] = Returned(@)]
          /\ UNCHANGED <<active, consecFails>>
       \/ /\ cl.answer # "ok" /\ failoverEligible(cl)   \* standbyHealthy
          /\ call' = [call EXCEPT ![c].pc =
                IF condition[Standby(cl.node)] = "silent" THEN "fail" ELSE "promote"]
          /\ UNCHANGED <<active, consecFails>>
    /\ UNCHANGED <<blocked, condition>>

(* Mutant: Broadcast is retried like a read.                               *)
JudgeBroadcastRetried(c) ==
    LET cl == call[c] IN
    /\ cl.pc = "judge" /\ cl.method = "Broadcast"
    /\ call' = [call EXCEPT ![c] = IF cl.answer = "ok" THEN Returned(cl) ELSE [cl EXCEPT !.pc = "promote"]]
    /\ UNCHANGED <<active, consecFails, blocked, condition>>

(* Broadcast never goes to the standby: the bytes may be in the mempool of *)
(* the node that did not answer.                                           *)
JudgeBroadcast(c) ==
    LET cl == call[c] IN
    /\ cl.pc = "judge" /\ cl.method = "Broadcast"
    /\ call' = [call EXCEPT ![c] = Returned(@)]
    /\ CASE cl.answer = "ok" -> recordSuccess
         [] cl.answer # "ok" /\ failoverEligible(cl) -> recordFailure
         [] OTHER -> UNCHANGED <<active, consecFails>>
    /\ UNCHANGED <<blocked, condition>>

(* The failure is counted after the health check, whatever it said; with   *)
(* an unhealthy standby the error of the active node is returned.          *)
CountFailure(c) ==
    /\ call[c].pc \in {"fail", "promote"}
    /\ recordFailure
    /\ call' = [call EXCEPT ![c] = IF @.pc = "fail" THEN Returned(@) ELSE [@ EXCEPT !.pc = "retry"]]
    /\ UNCHANGED <<blocked, condition>>

(* Mutant: the standby is taken from the pair as it is after the failure   *)
(* was recorded.                                                           *)
RetryCurrentPair(c) == call[c].pc = "retry" /\ Request(c, Standby(active), "done")

(* op(standby), the standby of the pair read when the call began.          *)
Retry(c) == call[c].pc = "retry" /\ Request(c, Standby(call[c].node), "done")

(* Probe of the active node.                                               *)
Probe ==
    /\ blocked' = [blocked EXCEPT ![active] = ProbeBlocks(condition[active], active \in Routable)]
    /\ UNCHANGED <<active, consecFails, condition, call>>

-----------------------------------------------------------------------------
(* Environment: the context of a caller other than the polling service is  *)
(* cancelled; nodes fail, fall behind and recover.                         *)
Cancel(c) ==
    /\ c # Poller /\ call[c].pc # "done" /\ ~ call[c].cancelled
    /\ call' = [call EXCEPT ![c].cancelled = TRUE]
    /\ UNCHANGED <<active, consecFails, blocked, condition>>

NodeChanges(n, s) ==
    /\ condition[n] # s
    /\ condition' = [condition EXCEPT ![n] = s]
    /\ call' = [c \in Callers |->
          [call[c] EXCEPT !.steady = IF s = "serving" THEN @ ELSE @ \ {n}]]
    /\ UNCHANGED <<active, consecFails, blocked>>

CallStep(c) == Ask(c) \/ Judge(c) \/ JudgeBroadcast(c) \/ CountFailure(c) \/ Retry(c)

Next ==
    \/ \E c \in Callers :
          \/ \E m \in Offered[c] : Begin(c, m)
          \/ CallStep(c)
          \/ Cancel(c)
    \/ Probe
    \/ \E n \in Nodes, s \in Conditions : NodeChanges(n, s)

(* Every request ends (each call has a timeout), and the scanner polls the *)
(* node on every tick.                                                     *)
Fairness ==
    /\ \A c \in Callers : WF_vars(CallStep(c))
    /\ SF_vars(Begin(Poller, "LatestBlock"))

Spec == Init /\ [][Next]_vars /\ Fairness
-----------------------------------------------------------------------------
(* A signed transaction leaves the process once: the bytes of a Broadcast  *)
(* reach at most one node in a call, whatever that node answers and        *)
(* however the roles move meanwhile (failover.go 234: a resend can only be *)
(* judged by the sequence machinery).                                      *)
SentOnce == \A c \in Callers : call[c].method = "Broadcast" => Cardinality(call[c].asked) <= 1

(* A read that comes back with an error found no node that served during   *)
(* the whole call: concurrent failures that move the active role never     *)
(* make it ask the dead node twice and skip the live one.  Simulations may *)
(* be refused by a live node, and a cancelled caller gets its own error.   *)
ServedWhileOneUp ==
    \A c \in Callers :
        ( /\ call[c].pc = "done" /\ call[c].answer = "error"
          /\ call[c].method \in Reads \ {"Simulate"} /\ ~ call[c].cancelled )
        => call[c].steady = {}

(* When in the end only one node serves, it is made active again and       *)
(* again: stale failures of calls that still hold the old pair may move    *)
(* the role away, but never for good.                                      *)
StandbyTakesOver ==
    \A n \in Nodes :
        <>[](condition[n] = "serving" /\ condition[Standby(n)] = "silent") => []<>(active = n)
=============================================================================

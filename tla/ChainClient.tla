---------------------------- MODULE ChainClient ----------------------------
(***************************************************************************)
(* What one call of client.Client comes back with, over each of the two    *)
(* transports (go/client/grpc.go, go/client/cometrpc.go), and the two-node *)
(* comparison of go/client/failover.go.                                    *)
(*                                                                         *)
(* The payload of an answer is left out: what the callers tell apart is    *)
(* success, the typed errors (ErrNotFound, ErrUnsupported,                 *)
(* ErrSimulateUnavailable) and every other error.                          *)
(***************************************************************************)
EXTENDS Integers

Transports == {"grpc", "comet"}

(* The calls of the interface that only read, and the ones the CometBFT    *)
(* transport tunnels through abci_query; the others are RPCs of their own. *)
AbciQueries == {"Account", "Balance", "AllBalances", "DenomMetadata",
                "GlobalFeeParams", "TxsByAddress", "Simulate"}

NodeQueries == {"Tx", "BlockByHeight", "LatestBlock", "BlockResults", "NodeStatus"}

Reads == AbciQueries \cup NodeQueries

Methods == Reads \cup {"Broadcast"}

(* Condition of a node: "behind" serves an old height, "silent" never      *)
(* answers in time.                                                        *)
Conditions == {"serving", "behind", "silent"}

(* Account payloads of the Account query: absent, a flavour of account the *)
(* client knows (base, module and the vesting ones), one it knows with the *)
(* embedded base account missing, and one it does not know.                *)
AccountPayloads == {"absent", "flavour", "hollow", "foreign"}

(* What reaches the client from a node: a reply, no reply in time, a       *)
(* missing route, a not-found answer, or any other refusal.                *)
RawAnswers == {"reply", "timeout", "noRoute", "absent", "refused"}
                \cup {"flavour", "hollow", "foreign"}

(* External: what a node in this condition may say to a method.  A node    *)
(* that is behind lacks the newest transactions and heights; a simulation  *)
(* is refused when the transaction could not run; the reply to a Broadcast *)
(* may be lost although the bytes arrived.                                 *)
NodeSays(condition, routable, method) ==
    CASE condition = "silent" -> {"timeout"}
      [] method = "Account" -> {"absent", "flavour", "foreign"}
      [] method = "Tx" -> IF condition = "behind" THEN {"absent"} ELSE {"reply", "absent"}
      [] method \in {"BlockByHeight", "BlockResults"} ->
            IF condition = "behind" THEN {"refused"} ELSE {"reply"}
      [] method = "Simulate" -> IF routable THEN {"reply", "refused"} ELSE {"noRoute"}
      [] method = "Broadcast" -> {"reply", "timeout"}
      [] OTHER -> {"reply"}

Answers == {"ok", "notFound", "unsupported", "simulateUnavailable", "error"}

(* accountFromAny: unpack an account payload by its message name.          *)
accountFromAny(payload) ==
    CASE payload = "absent" -> "notFound"
      [] payload = "flavour" -> "ok"
      [] payload = "hollow" -> "error"
      [] payload = "foreign" -> "unsupported"

(* mapErr: the gRPC status codes with a typed error.                       *)
mapErr(raw) ==
    CASE raw = "noRoute" -> "unsupported"
      [] raw = "absent" -> "notFound"
      [] OTHER -> "error"

(* One call over gRPC; BlockResults has no gRPC service.                   *)
grpcAnswer(method, raw) ==
    CASE method = "BlockResults" -> "unsupported"
      [] method = "Account" /\ raw \in AccountPayloads -> accountFromAny(raw)
      [] raw = "reply" -> "ok"
      [] method = "Simulate" /\ raw = "noRoute" -> "simulateUnavailable"
      [] OTHER -> mapErr(raw)

(* abciQueryRaw: the answers of the query router.                          *)
abciQueryRaw(raw) ==
    CASE raw = "reply" -> "ok"
      [] raw = "noRoute" -> "unsupported"
      [] raw = "absent" -> "notFound"
      [] OTHER -> "error"

(* rpcCall: no error of an RPC of its own is typed, except that the tx     *)
(* call recognises "not found".                                            *)
rpcCall(method, raw) ==
    CASE raw = "reply" -> "ok"
      [] method = "Tx" /\ raw = "absent" -> "notFound"
      [] OTHER -> "error"

(* One call over CometBFT RPC.                                             *)
cometAnswer(method, raw) ==
    CASE method = "Account" /\ raw \in AccountPayloads -> accountFromAny(raw)
      [] method = "Simulate" /\ raw = "noRoute" -> "simulateUnavailable"
      [] method \in AbciQueries -> abciQueryRaw(raw)
      [] OTHER -> rpcCall(method, raw)

ClientAnswer(transport, method, raw) ==
    IF transport = "grpc" THEN grpcAnswer(method, raw) ELSE cometAnswer(method, raw)

-----------------------------------------------------------------------------
(* probeState: what matters of the last probe is whether it blocks         *)
(* Simulate: it ran, and found the transaction service without a route.  A *)
(* node that does not answer the probe counts as one without the route.    *)
ProbeBlocks(condition, routable) == condition = "silent" \/ ~ routable

(* A simulation that finds no route blocks the later ones.                 *)
SimulateBlocks(blocked, answer) == blocked \/ answer = "simulateUnavailable"

-----------------------------------------------------------------------------
(* Compare: one item per selected check, each asked of both nodes.  A side *)
(* is the value a node answered, or NoAnswer for an error; an error on     *)
(* either side is a mismatch.  Only the transaction check accepts two      *)
(* absent answers as agreement, and only the height check has a tolerance. *)
NoAnswer == [ok |-> FALSE, value |-> 0]
Answered(v) == [ok |-> TRUE, value |-> v]

SameAnswer(p, s) == p.ok /\ s.ok /\ p.value = s.value

WithinTolerance(p, s, tolerance) ==
    /\ p.ok /\ s.ok
    /\ p.value - s.value <= tolerance
    /\ s.value - p.value <= tolerance

SideOf(view, kind) == IF kind \in DOMAIN view THEN view[kind] ELSE NoAnswer

Mismatches(kinds, primary, secondary, tolerance) ==
    {k \in kinds :
        ~ IF k = "height"
            THEN WithinTolerance(SideOf(primary, k), SideOf(secondary, k), tolerance)
            ELSE SameAnswer(SideOf(primary, k), SideOf(secondary, k))}
=============================================================================

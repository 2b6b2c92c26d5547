----------------------------- MODULE MCFailover -----------------------------
(* Two callers, one of them the scanner; a gRPC primary whose transaction  *)
(* service has no route and a CometBFT secondary.                          *)
EXTENDS Failover

MCTransport == [n \in Nodes |-> IF n = 0 THEN "grpc" ELSE "comet"]

MCOffered == [c \in Callers |->
    IF c = Poller THEN {"LatestBlock"} ELSE {"Tx", "Account", "BlockResults", "Simulate", "Broadcast"}]
=============================================================================

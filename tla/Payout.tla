------------------------------- MODULE Payout -------------------------------
(***************************************************************************)
(* What the withdrawals of the kit are to the exchange that uses them.  A  *)
(* request under an idempotency key is open until the exchange is told its *)
(* outcome.  The chain pays it at most once and only while it is open, and *)
(* the outcome says whether it was paid.  A request that was set aside for *)
(* review before anything was signed is never paid; a cancelled one may    *)
(* still be set aside, every other outcome is final.                       *)
(***************************************************************************)
EXTENDS Naturals

CONSTANT Keys        \* idempotency keys

VARIABLES told,      \* told[k]: "none", "open", "review" or the outcome
          payments   \* payments[k]: how often the chain has paid k

Init ==
    /\ told = [k \in Keys |-> "none"]
    /\ payments = [k \in Keys |-> 0]

Tell(k, news) == told' = [told EXCEPT ![k] = news] /\ UNCHANGED payments

Request(k) == told[k] = "none" /\ Tell(k, "open")

Pay(k) ==
    /\ told[k] = "open" /\ payments[k] = 0
    /\ payments' = [payments EXCEPT ![k] = 1]
    /\ UNCHANGED told

SetAside(k) ==
    /\ told[k] \in {"open", "CANCELLED"} /\ payments[k] = 0
    /\ Tell(k, "review")

Report(k) ==
    /\ told[k] \in {"open", "review"}
    /\ \E outcome \in IF payments[k] = 1 THEN {"CONFIRMED"} ELSE {"FAILED", "CANCELLED"} :
          Tell(k, outcome)

Next == \E k \in Keys : Request(k) \/ Pay(k) \/ SetAside(k) \/ Report(k)

Spec == Init /\ [][Next]_<<told, payments>>
=============================================================================

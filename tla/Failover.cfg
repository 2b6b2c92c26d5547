SPECIFICATION Spec
CONSTANTS
    Callers = {scanner, other}
    Poller = scanner
    FailureThreshold = 2
    Transport <- MCTransport
    Routable = {1}
    Offered <- MCOffered
INVARIANTS SentOnce ServedWhileOneUp
PROPERTY StandbyTakesOver

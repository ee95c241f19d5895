SPECIFICATION Spec
CONSTANTS
    k1 = k1
    x1 = x1
    Calls <- OneCall
    Streams <- OneStream
    Connections = 1
    Retries = 1
    Queue = 1
    Window = 1
    Records = 2
    MaxDials = 2
CHECK_DEADLOCK FALSE
INVARIANTS
    ExchangesMatch
    CreditIsConserved
PROPERTIES
    CallsReturn
    StreamsFlow
    DroppedIsCancelled

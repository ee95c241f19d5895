SPECIFICATION Spec
CONSTANTS
    Stranger = "stranger"
    jobs = jobs
    feed = feed
    Conns = {"talker"}
    Logs = {jobs, feed}
    Mortal = {jobs}
    Programs <- Mix
    Credit = 1
    Up = 1
    Down = 1
    Inbox = 2
    Pending = 2
    Outbox = 1
    MaxStrange = 1
CHECK_DEADLOCK FALSE
INVARIANTS
    OrderedExchange
PROPERTIES
    Answered
    ConnectionsEnd

SPECIFICATION Spec
CONSTANTS
    p1 = p1
    p2 = p2
    mine = mine
    guest = guest
    jobs = jobs
    stray = stray
    Nobody = Nobody
    Daemons = {p1, p2}
    Clients = {mine, guest}
    Logs = {jobs, stray}
    BadNames = {stray}
    Wishes <- JobsBothWays
    Owner = {mine}
    Allow = {guest}
    AclOf <- NoLists
    Connections = 1
    MaxRecords = 1
    Mishaps = {"failure", "full", "kill", "cut"}
    MaxMishaps = 1
    MaxAsks = 3
SYMMETRY Symmetry
CHECK_DEADLOCK FALSE
INVARIANTS
    OneHistory
    LogsOutliveRestart
    StopCovers
    NeverWedged

\* Two processes: every command returns.
CONSTANTS
    Procs = {p1, p2}
    NoProc = NoProc
    ip1 = ip1
    ip2 = ip2
    Ips = {ip1, ip2}
    Absent = Absent
    NoSum = NoSum
    MaxCluster = 1
    PadSlots = 0
    MaxPass = 2
    IOErrors = TRUE
    MaxCommands = 3
    Commands <- LiveCommands
    InitialDisks <- TwoDisks
SPECIFICATION FairSpec
PROPERTIES CommandsReturn
CHECK_DEADLOCK FALSE

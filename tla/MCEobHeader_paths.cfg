\* Two processes, every command, every device, every error path.
CONSTANTS
    Procs = {p1, p2}
    NoProc = NoProc
    ip1 = ip1
    ip2 = ip2
    Ips = {ip1, ip2}
    Absent = Absent
    NoSum = NoSum
    MaxCluster = 1
    PadSlots = 1
    MaxPass = 2
    IOErrors = TRUE
    MaxCommands = 3
    Commands <- AllCommands
    InitialDisks <- AllDisks
SPECIFICATION Spec
INVARIANTS TypeOK QuiescentHeaderIntact
PROPERTIES CommandsAdvance 
SYMMETRY Symmetry
CHECK_DEADLOCK FALSE

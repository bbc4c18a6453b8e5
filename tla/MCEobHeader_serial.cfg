\* One process: commands run one after the other.
CONSTANTS
    Procs = {p1}
    NoProc = NoProc
    ip1 = ip1
    ip2 = ip2
    Ips = {ip1, ip2}
    Absent = Absent
    NoSum = NoSum
    MaxCluster = 2
    PadSlots = 0
    MaxPass = 2
    IOErrors = TRUE
    MaxCommands = 6
    Commands <- SerialCommands
    InitialDisks <- TwoDisks
SPECIFICATION Spec
INVARIANTS AcknowledgedAddsHold
 
CHECK_DEADLOCK FALSE

\* Two adds at once: the first one is lost although both report OK.
CONSTANTS
    Procs = {p1, p2}
    NoProc = NoProc
    ip1 = ip1
    ip2 = ip2
    Ips = {ip1, ip2}
    Absent = Absent
    NoSum = NoSum
    MaxCluster = 2
    PadSlots = 0
    MaxPass = 2
    IOErrors = FALSE
    MaxCommands = 2
    Commands <- AddsOnly
    InitialDisks <- FormattedDisk
SPECIFICATION Spec
INVARIANTS AcknowledgedAddsHold
CHECK_DEADLOCK FALSE

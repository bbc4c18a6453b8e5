\* Three processes race on the header of a formatted device.
CONSTANTS
    Procs = {p1, p2, p3}
    NoProc = NoProc
    ip1 = ip1
    ip2 = ip2
    Ips = {ip1, ip2}
    Absent = Absent
    NoSum = NoSum
    MaxCluster = 2
    PadSlots = 0
    MaxPass = 2
    IOErrors = FALSE
    MaxCommands = 4
    Commands <- RacingCommands
    InitialDisks <- FormattedDisk
SPECIFICATION Spec
INVARIANTS AcceptedWasCurrent CalmPassAccepts NoPhantomNodes
PROPERTIES UndisturbedOpenKeepsHeader
SYMMETRY Symmetry
CHECK_DEADLOCK FALSE

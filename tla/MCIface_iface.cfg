\* Two processes, every subcommand, every error path.
CONSTANTS
    Procs = {p1, p2}
    ip1 = ip1
    Ips = {ip1}
    Absent = Absent
    NoSum = NoSum
    None = None
    MaxCluster = 2
    PadSlots = 0
    Commands = {}
    InitialDisks <- Disks
    Texts <- SomeTexts
    TextLen <- TextLengths
    IfaceCommands <- AllLines
    MaxCommands = 3
    Sectors = 16
    Faults = TRUE
SPECIFICATION Spec
INVARIANTS TypeOK    
SYMMETRY Symmetry
CHECK_DEADLOCK FALSE

\* A message is received into a file.
CONSTANTS
    Procs = {p1, p2}
    ip1 = ip1
    Ips = {ip1}
    Absent = Absent
    NoSum = NoSum
    None = None
    MaxCluster = 2
    PadSlots = 0
    Commands = {}
    InitialDisks <- GoodDisk
    Texts <- SomeTexts
    TextLen <- TextLengths
    IfaceCommands <- FileLines
    MaxCommands = 3
    Sectors = 16
    Faults = FALSE
SPECIFICATION Spec
INVARIANTS RecvIntoFileSucceeds
CHECK_DEADLOCK FALSE

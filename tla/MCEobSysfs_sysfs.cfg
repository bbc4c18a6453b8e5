\* Two descriptors of mgmt, every request, every error path.
CONSTANTS
    Writers = {w1, w2}
    Ifaces = {i1, i2, i3}
    ListHead = ListHead
    Poison = Poison
    NameLen <- NameLengths
    DevLen <- DevLengths
    Requests <- AllRequests
    MaxWrites = 4
    MaxLoads = 2
    Faults = TRUE
SPECIFICATION Spec
INVARIANTS TypeOK DirectoryIsLive FreedUseNeedsCause CalmListIsSound
SYMMETRY Symmetry
CHECK_DEADLOCK FALSE

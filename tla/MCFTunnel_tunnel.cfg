\* One node sends three packets, the other one.
CONSTANTS
    MAX_PKT_LEN = 3
    Sizes <- ThreeAndOne
SPECIFICATION FairSpec
INVARIANTS TypeOK
PROPERTIES ImplementsLossyLink FreshReaderDelivers
CHECK_DEADLOCK FALSE

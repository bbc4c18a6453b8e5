\* Head and data in different pieces: the source of another packet.
CONSTANTS
    a = a
    b = b
    s1 = s1
    s2 = s2
    r = r
    Nodes = {1, 2}
    Senders = {s1, s2}
    Receivers = {r}
    NodeOf <- ThreeProcs
    Units = {a, b}
    Zero = Zero
    Junk = Junk
    NoPacket = NoPacket
    Messages <- SameLength
    Cap = 2
    PieceOf <- HeadApart
    LastPiece = 1
    Faults = FALSE
SPECIFICATION Spec
INVARIANTS RecvAuthentic

\* Blocks transferred in one piece: two senders, one receiver.
CONSTANTS
    a = a
    b = b
    s1 = s1
    s2 = s2
    r = r
    Nodes = {1, 2}
    Senders = {s1, s2}
    Receivers = {r}
    NodeOf <- ThreeProcs
    Units = {a, b}
    Zero = Zero
    Junk = Junk
    NoPacket = NoPacket
    Messages <- FittingMessages
    Cap = 2
    PieceOf <- OnePiece
    LastPiece = 0
    Faults = TRUE
SPECIFICATION Spec
INVARIANTS TypeOK RecvAuthentic 
PROPERTIES ImplementsPostbox

\* Blocks transferred in three pieces, every length, faults.
CONSTANTS
    a = a
    b = b
    s1 = s1
    s2 = s2
    r = r
    Nodes = {1}
    Senders = {s1, s2}
    Receivers = {r}
    NodeOf <- OneNode
    Units = {a, b}
    Zero = Zero
    Junk = Junk
    NoPacket = NoPacket
    Messages <- AllMessages
    Cap = 2
    PieceOf <- ThreePieces
    LastPiece = 2
    Faults = TRUE
SPECIFICATION Spec
INVARIANTS RecvIntegrity
SYMMETRY Symmetry

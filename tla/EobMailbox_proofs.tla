-------------------------- MODULE EobMailbox_proofs --------------------------
(***************************************************************************)
(* Proofs about EobMailbox, for any nodes and processes, any messages, any *)
(* packet size and, unless said otherwise, any way to cut a block into     *)
(* pieces.                                                                 *)
(***************************************************************************)
EXTENDS EobMailbox, TLAPS

-----------------------------------------------------------------------------
(* What the packet operators return *)

(* Cells, and where they end. *)
LEMMA CellFacts ==
    /\ VirtCells \in Nat /\ TailCell \in Nat /\ TailCell = Cap + 1
    /\ VirtCells = Cap + 2 /\ Cap \in Nat /\ Cap > 0
    /\ \A c \in 1 .. Cap : c \in Cells
    /\ TailCell \in Cells /\ HeadCell \in Cells
  BY MailboxConstants DEF VirtCells, TailCell, Cells, HeadCell

(* The packet of a message that eob_device_send accepts fills a block. *)
LEMMA PacketType ==
    ASSUME NEW src \in Nodes, NEW m \in Messages, Len(m) <= VirtCells
    PROVE  Packet(src, m) \in Block
<1>1. m \in Seq(Units) /\ Len(m) \in Nat
  BY MailboxConstants
<1>2. \A c \in 1 .. Len(m) : m[c] \in Units
  BY <1>1
<1>3. Len(m) \in 0 .. VirtCells
  BY <1>1, CellFacts
<1>4. [c \in 1 .. Cap |-> IF c <= Len(m) THEN m[c] ELSE Zero] \in [1 .. Cap -> DataUnits]
  BY <1>1, <1>2, CellFacts DEF DataUnits
<1>5. (IF Len(m) > Cap THEN m[TailCell] ELSE m) \in CellValues
  BY <1>1, <1>2, CellFacts DEF CellValues, DataUnits
<1> QED
  BY <1>3, <1>4, <1>5 DEF Packet, Block

(* A block of zeros is a block. *)
LEMMA EmptyBlockType ==
    ASSUME NEW n \in Nodes
    PROVE  EmptyBlock(n) \in Block /\ EmptyBlock(n).tail = <<>>
  BY CellFacts DEF EmptyBlock, Block, DataUnits, CellValues

(* Transferring a piece between blocks gives a block, and its tail is the
   tail of one of them. *)
LEMMA TransferType ==
    ASSUME NEW k, NEW from \in Block, NEW to \in Block
    PROVE  /\ Transfer(k, from, to) \in Block
           /\ Transfer(k, from, to).tail \in {from.tail, to.tail}
<1>1. [c \in 1 .. Cap |-> IF PieceOf[c] = k THEN from.data[c] ELSE to.data[c]]
        \in [1 .. Cap -> DataUnits]
  BY DEF Block
<1> QED
  BY <1>1 DEF Transfer, Block

(* A block cut short is a block, its tail the old one or no checksum. *)
LEMMA CutShortType ==
    ASSUME NEW k, NEW b \in Block
    PROVE  /\ CutShort(k, b) \in Block
           /\ CutShort(k, b).tail \in {b.tail, Junk}
<1>1. [c \in 1 .. Cap |-> IF PieceOf[c] < k THEN b.data[c] ELSE Junk]
        \in [1 .. Cap -> DataUnits]
  BY DEF Block, DataUnits
<1> QED
  BY <1>1 DEF CutShort, Block, CellValues, DataUnits

(* The data that the head's length marks is a sequence of that length. *)
LEMMA DataType ==
    ASSUME NEW b \in Block
    PROVE  Data(b) \in Seq(CellValues) /\ Len(Data(b)) = b.head.len
<1>1. b.head.len \in Nat
  BY CellFacts DEF Block
<1>2. \A c \in 1 .. b.head.len :
         (IF c <= Cap THEN b.data[c] ELSE IF c = TailCell THEN b.tail ELSE Junk)
            \in CellValues
  BY <1>1, CellFacts DEF Block, CellValues, DataUnits
<1>3. Data(b) \in [1 .. b.head.len -> CellValues]
  BY <1>2 DEF Data
<1> QED
  BY <1>1, <1>3

(* A block that decodes holds data under its own checksum, and the checksum
   is that of a message: no data cell and no empty block passes for one. *)
LEMMA DecodeOk ==
    ASSUME NEW b \in Block, DecodeResult(b) = "OK"
    PROVE  /\ Data(b) = b.tail
           /\ b.tail \notin DataUnits
           /\ b.tail # <<>>
<1>1. b.head.len # 0 /\ Data(b) = b.tail
  BY DEF DecodeResult
<1>2. Data(b) \in Seq(CellValues) /\ Len(Data(b)) = b.head.len
  BY DataType
<1>3. b.tail \notin DataUnits
  BY <1>1, <1>2, MailboxConstants
<1>4. Len(<<>>) = 0
  OBVIOUS
<1> QED
  BY <1>1, <1>2, <1>3, <1>4

-----------------------------------------------------------------------------
(* Types *)

(* The nodes of processes are nodes; a receiver reads a mailbox. *)
LEMMA NodeFacts ==
    /\ \A p \in Procs : NodeOf[p] \in Nodes
    /\ \A p \in Receivers : p \in Procs /\ NodeOf[p] \in Dsts
    /\ \A p \in Senders : p \in Procs
    /\ Dsts \subseteq Nodes
  BY MailboxConstants DEF Procs, Dsts

(* A process that writes, writes to a mailbox. *)
TypeInv ==
    /\ TypeOK
    /\ \A p \in Procs : pc[p] = "write" => dst[p] \in Dsts
    /\ \A p \in Receivers : pc[p] # "write"

(* The results of calls are results. *)
LEMMA ResultType ==
    /\ NoResult \in Results
    /\ \A res \in {"OK", "2BIG", "IO", "CHKSUM", "abort"} :
          SendResult(res) \in Results /\ RecvResult(res) \in Results
    /\ \A src \in Nodes, d \in Seq(CellValues) : Received(src, d) \in Results
  BY DEF NoResult, SendResult, RecvResult, Received, Results

(* Returning from a call keeps the types. *)
LEMMA ReturnType ==
    ASSUME TypeInv, NEW p \in Procs, NEW r \in Results, Return(p, r),
           block' \in [Dsts -> Block], UNCHANGED sent,
           last' \in [Dsts -> Block \cup {NoPacket}]
    PROVE  TypeInv'
<1>1. NodeOf[p] \in Nodes /\ EmptyBlock(NodeOf[p]) \in Block
  BY NodeFacts, EmptyBlockType
<1>2. 0 \in Pieces
  BY MailboxConstants DEF Pieces
<1>3. TypeOK'
  BY <1>1, <1>2 DEF TypeInv, TypeOK, Return
<1> QED
  BY <1>3, NodeFacts DEF TypeInv, TypeOK, Return

(* Every step keeps the types. *)
LEMMA TypeStep == TypeInv /\ [Next]_vars => TypeInv'
<1> SUFFICES ASSUME TypeInv, [Next]_vars
             PROVE  TypeInv'
  OBVIOUS
<1>0. CASE UNCHANGED vars
  BY <1>0 DEF TypeInv, TypeOK, vars
<1>t. /\ block \in [Dsts -> Block]
      /\ last \in [Dsts -> Block \cup {NoPacket}]
      /\ \A p \in Procs : pkt[p] \in Block
  BY DEF TypeInv, TypeOK
<1>r. \A res \in {"OK", "2BIG", "IO", "CHKSUM", "abort"} :
          SendResult(res) \in Results /\ RecvResult(res) \in Results
  BY ResultType
<1>1. ASSUME NEW p \in Senders, Send(p)
      PROVE  TypeInv'
  <2>p. p \in Procs /\ NodeOf[p] \in Nodes /\ p \notin Receivers
    BY NodeFacts, MailboxConstants
  <2>1. CASE eob_device_send(p)
    <3>1. PICK n \in Dsts, m \in Messages :
             /\ Len(m) <= VirtCells
             /\ pc' = [pc EXCEPT ![p] = "write"]
             /\ dst' = [dst EXCEPT ![p] = n]
             /\ pkt' = [pkt EXCEPT ![p] = Packet(NodeOf[p], m)]
             /\ sent' = sent \cup {<<NodeOf[p], n, m>>}
             /\ out' = [out EXCEPT ![p] = NoResult]
             /\ UNCHANGED <<block, piece, last>>
      BY <2>1 DEF eob_device_send
    <3>2. Packet(NodeOf[p], m) \in Block
      BY <2>p, <3>1, PacketType
    <3>3. TypeOK'
      BY <2>p, <3>1, <3>2, NodeFacts, ResultType DEF TypeInv, TypeOK
    <3> QED
      BY <2>p, <3>1, <3>3 DEF TypeInv, TypeOK
  <2>2. CASE eob_device_send_2big(p)
    BY <2>2, <2>p, <1>t, <1>r, ReturnType DEF eob_device_send_2big
  <2>3. CASE eob_device_send_overrun(p)
    BY <2>3, <2>p, <1>t, <1>r, ReturnType DEF eob_device_send_overrun
  <2>4. CASE WritePiece(p)
    <3>1. dst[p] \in Dsts
      BY <2>4, <2>p DEF WritePiece, TypeInv
    <3>2. Transfer(piece[p], pkt[p], block[dst[p]]) \in Block
      BY <2>p, <3>1, <1>t, TransferType
    <3>3. block' \in [Dsts -> Block]
      BY <2>4, <3>2, <1>t DEF WritePiece
    <3>4. CASE piece[p] < LastPiece /\ piece' = [piece EXCEPT ![p] = @ + 1]
               /\ last' = [last EXCEPT ![dst[p]] = NoPacket]
               /\ UNCHANGED <<pc, dst, pkt, out>>
      <4>1. piece' \in [Procs -> Pieces]
        BY <2>p, <3>4, MailboxConstants DEF TypeInv, TypeOK, Pieces
      <4> QED
        BY <2>4, <3>3, <3>4, <4>1 DEF WritePiece, TypeInv, TypeOK
    <3>5. CASE Return(p, SendResult("OK")) /\ last' = [last EXCEPT ![dst[p]] = pkt[p]]
      BY <2>4, <2>p, <3>3, <3>5, <1>t, <1>r, ReturnType DEF WritePiece
    <3> QED
      BY <2>4, <3>4, <3>5 DEF WritePiece
  <2>5. CASE WriteStops(p)
    <3>1. last' \in [Dsts -> Block \cup {NoPacket}]
      BY <2>5, <1>t DEF WriteStops
    <3> QED
      BY <2>5, <2>p, <3>1, <1>t, <1>r, ReturnType DEF WriteStops
  <2> QED
    BY <1>1, <2>1, <2>2, <2>3, <2>4, <2>5 DEF Send
<1>2. ASSUME NEW p \in Receivers, Recv(p)
      PROVE  TypeInv'
  <2>p. p \in Procs /\ NodeOf[p] \in Dsts
    BY NodeFacts
  <2>1. CASE eob_device_recv(p)
    BY <2>1, <2>p, ResultType DEF eob_device_recv, TypeInv, TypeOK
  <2>2. CASE ReadPiece(p)
    <3>1. Transfer(piece[p], block[NodeOf[p]], pkt[p]) \in Block
      BY <2>p, <1>t, TransferType
    <3>2. pkt' \in [Procs -> Block]
      BY <2>2, <3>1 DEF ReadPiece, TypeInv, TypeOK
    <3>3. piece' \in [Procs -> Pieces]
      BY <2>2, <2>p, MailboxConstants DEF ReadPiece, TypeInv, TypeOK, Pieces
    <3>4. /\ pc' \in [Procs -> {"idle", "write", "read", "decode"}]
          /\ \A q \in Procs : pc'[q] = "write" => pc[q] = "write"
      BY <2>2, <2>p DEF ReadPiece, TypeInv, TypeOK
    <3> QED
      BY <2>2, <3>2, <3>3, <3>4, NodeFacts DEF ReadPiece, TypeInv, TypeOK
  <2>3. CASE ReadFails(p)
    BY <2>3, <2>p, <1>t, <1>r, ReturnType DEF ReadFails
  <2>4. CASE Decode(p)
    <3> DEFINE r == IF DecodeResult(pkt[p]) = "OK"
                    THEN Received(pkt[p].head.src, Data(pkt[p]))
                    ELSE RecvResult(DecodeResult(pkt[p]))
    <3>1. pkt[p].head.src \in Nodes /\ Data(pkt[p]) \in Seq(CellValues)
      BY <2>p, <1>t, DataType DEF Block
    <3>2. DecodeResult(pkt[p]) \in {"OK", "CHKSUM", "abort"}
      BY DEF DecodeResult
    <3>3. r \in Results
      BY <3>1, <3>2, ResultType
    <3>4. Return(p, r)
      BY <2>4 DEF Decode
    <3> HIDE DEF r
    <3> QED
      BY <2>4, <2>p, <3>3, <3>4, <1>t, ReturnType DEF Decode
  <2>5. CASE ReadShort(p)
    <3>1. CutShort(piece[p], pkt[p]) \in Block
      BY <2>p, <1>t, CutShortType
    <3>2. pkt' \in [Procs -> Block]
      BY <2>5, <3>1 DEF ReadShort, TypeInv, TypeOK
    <3>3. /\ pc' \in [Procs -> {"idle", "write", "read", "decode"}]
          /\ \A q \in Procs : pc'[q] = "write" => pc[q] = "write"
      BY <2>5, <2>p DEF ReadShort, TypeInv, TypeOK
    <3> QED
      BY <2>5, <3>2, <3>3, NodeFacts DEF ReadShort, TypeInv, TypeOK
  <2> QED
    BY <1>2, <2>1, <2>2, <2>3, <2>4, <2>5 DEF Recv
<1> QED
  BY <1>0, <1>1, <1>2 DEF Next

(* The initial state has the types. *)
LEMMA TypeInit == Init => TypeInv
<1> SUFFICES ASSUME Init
             PROVE  TypeInv
  OBVIOUS
<1>1. \A n \in Nodes : EmptyBlock(n) \in Block
  BY EmptyBlockType
<1>2. 0 \in Pieces
  BY MailboxConstants DEF Pieces
<1> QED
  BY <1>1, <1>2, NodeFacts, ResultType, MailboxConstants DEF Init, TypeInv, TypeOK

(* Every reachable state is well typed. *)
THEOREM TypeCorrect == Spec => []TypeOK
<1>1. Spec => []TypeInv
  BY TypeInit, TypeStep, PTL DEF Spec
<1>2. TypeInv => TypeOK
  BY DEF TypeInv
<1> QED
  BY <1>1, <1>2, PTL

-----------------------------------------------------------------------------
(* Integrity: the checksum on its way from a sender to a receiver *)

(* What may stand in the place of the checksum of a packet for node n: a data
   cell of an overlong message, the zero of an empty block, or the checksum
   of data sent to n. *)
TailOk(n, t) ==
    \/ t \in DataUnits
    \/ t = <<>>
    \/ \E s \in sent : s[2] = n /\ s[3] = t

IntegrityInv ==
    /\ \A n \in Dsts : TailOk(n, block[n].tail)
    /\ \A p \in Senders : pc[p] = "write" => TailOk(dst[p], pkt[p].tail)
    /\ \A p \in Receivers : TailOk(NodeOf[p], pkt[p].tail)
    /\ RecvIntegrity

(* The checksum that eob_device_send puts into a packet is accounted for. *)
LEMMA PacketTail ==
    ASSUME NEW src \in Nodes, NEW m \in Messages, Len(m) <= VirtCells
    PROVE  Packet(src, m).tail \in Units \cup {m}
<1>1. m \in Seq(Units) /\ Len(m) \in Nat
  BY MailboxConstants
<1>2. Len(m) > Cap => m[TailCell] \in Units
  BY <1>1, CellFacts
<1> QED
  BY <1>2 DEF Packet

(* Returning from a call after which nothing new is delivered. *)
LEMMA ReturnIntegrity ==
    ASSUME TypeInv, IntegrityInv, NEW p \in Procs, NEW r, Return(p, r),
           UNCHANGED sent,
           \A n \in Dsts : TailOk(n, block'[n].tail),
           r.call = "recv" /\ r.res = "OK"
               => \E s \in sent : s[2] = NodeOf[p] /\ s[3] = r.data
    PROVE  IntegrityInv'
<1>1. EmptyBlock(NodeOf[p]).tail = <<>>
  BY NodeFacts, EmptyBlockType
<1>2. \A n \in Dsts : TailOk(n, block[n].tail)'
  BY DEF TailOk
<1>3. \A q \in Senders : (pc[q] = "write" => TailOk(dst[q], pkt[q].tail))'
  <2> SUFFICES ASSUME NEW q \in Senders, pc'[q] = "write"
               PROVE  TailOk(dst[q], pkt[q].tail)'
    OBVIOUS
  <2>1. q # p /\ q \in Procs
    BY NodeFacts DEF Return, TypeInv, TypeOK
  <2>2. pc[q] = "write" /\ dst'[q] = dst[q] /\ pkt'[q] = pkt[q]
    BY <2>1 DEF Return, TypeInv, TypeOK
  <2> QED
    BY <2>2 DEF IntegrityInv, TailOk
<1>4. \A q \in Receivers : TailOk(NodeOf[q], pkt[q].tail)'
  <2> SUFFICES ASSUME NEW q \in Receivers
               PROVE  TailOk(NodeOf[q], pkt[q].tail)'
    OBVIOUS
  <2>1. CASE q = p
    <3>1. pkt'[q].tail = <<>>
      BY <1>1, <2>1 DEF Return, TypeInv, TypeOK
    <3> QED
      BY <3>1 DEF TailOk
  <2>2. CASE q # p
    <3>1. pkt'[q] = pkt[q]
      BY <2>2, NodeFacts DEF Return, TypeInv, TypeOK
    <3> QED
      BY <3>1 DEF IntegrityInv, TailOk
  <2> QED
    BY <2>1, <2>2
<1>5. RecvIntegrity'
  <2> SUFFICES ASSUME NEW q \in Procs, Delivered(q)'
               PROVE  \E s \in sent : s[2] = NodeOf[q] /\ s[3] = out'[q].data
    BY DEF RecvIntegrity
  <2>1. CASE q = p
    BY <2>1 DEF Return, Delivered, TypeInv, TypeOK
  <2>2. CASE q # p
    BY <2>2 DEF Return, Delivered, TypeInv, TypeOK, IntegrityInv, RecvIntegrity
  <2> QED
    BY <2>1, <2>2
<1> QED
  BY <1>2, <1>3, <1>4, <1>5 DEF IntegrityInv

(* The tail of a block after a piece of another was transferred to it is
   accounted for if the tails of both are. *)
LEMMA TransferTail ==
    ASSUME NEW k, NEW from \in Block, NEW to \in Block, NEW n,
           TailOk(n, from.tail), TailOk(n, to.tail)
    PROVE  TailOk(n, Transfer(k, from, to).tail)
<1>1. Transfer(k, from, to).tail \in {from.tail, to.tail}
  BY TransferType
<1> QED
  BY <1>1

(* Every step keeps the checksums accounted for. *)
LEMMA IntegrityStep == TypeInv /\ IntegrityInv /\ [Next]_vars => IntegrityInv'
<1> SUFFICES ASSUME TypeInv, IntegrityInv, [Next]_vars
             PROVE  IntegrityInv'
  OBVIOUS
<1>0. CASE UNCHANGED vars
  BY <1>0 DEF IntegrityInv, TailOk, RecvIntegrity, Delivered, vars
<1>t. /\ \A n \in Dsts : block[n] \in Block
      /\ \A p \in Procs : pkt[p] \in Block
  BY DEF TypeInv, TypeOK
<1>b. \A n \in Dsts : TailOk(n, block[n].tail)
  BY DEF IntegrityInv
<1>s. \A res : /\ SendResult(res).call # "recv"
               /\ RecvResult(res).res = res
  BY DEF SendResult, RecvResult
<1>1. ASSUME NEW p \in Senders, Send(p)
      PROVE  IntegrityInv'
  <2>p. p \in Procs /\ NodeOf[p] \in Nodes /\ p \notin Receivers
    BY NodeFacts, MailboxConstants
  <2>1. CASE eob_device_send(p)
    <3>1. PICK n \in Dsts, m \in Messages :
             /\ Len(m) <= VirtCells
             /\ pc' = [pc EXCEPT ![p] = "write"]
             /\ dst' = [dst EXCEPT ![p] = n]
             /\ pkt' = [pkt EXCEPT ![p] = Packet(NodeOf[p], m)]
             /\ sent' = sent \cup {<<NodeOf[p], n, m>>}
             /\ out' = [out EXCEPT ![p] = NoResult]
             /\ UNCHANGED <<block, piece, last>>
      BY <2>1 DEF eob_device_send
    <3>2. \A k, t : TailOk(k, t) => TailOk(k, t)'
      BY <3>1 DEF TailOk
    <3>3. TailOk(n, Packet(NodeOf[p], m).tail)'
      <4>1. Packet(NodeOf[p], m).tail \in Units \cup {m}
        BY <2>p, <3>1, PacketTail
      <4>2. <<NodeOf[p], n, m>> \in sent'
        BY <3>1
      <4> QED
        BY <4>1, <4>2 DEF TailOk, DataUnits
    <3>4. \A k \in Dsts : TailOk(k, block[k].tail)'
      BY <3>1, <3>2, <1>b
    <3>5. \A q \in Senders : (pc[q] = "write" => TailOk(dst[q], pkt[q].tail))'
      <4> SUFFICES ASSUME NEW q \in Senders, pc'[q] = "write"
                   PROVE  TailOk(dst[q], pkt[q].tail)'
        OBVIOUS
      <4>1. CASE q = p
        <5>1. dst'[q] = n /\ pkt'[q] = Packet(NodeOf[p], m)
          BY <2>p, <3>1, <4>1 DEF TypeInv, TypeOK
        <5> QED
          BY <3>3, <5>1
      <4>2. CASE q # p
        <5>1. pc[q] = "write" /\ dst'[q] = dst[q] /\ pkt'[q] = pkt[q]
          BY <2>p, <3>1, <4>2, NodeFacts DEF TypeInv, TypeOK
        <5> QED
          BY <3>2, <5>1 DEF IntegrityInv
      <4> QED
        BY <4>1, <4>2
    <3>6. \A q \in Receivers : TailOk(NodeOf[q], pkt[q].tail)'
      <4> SUFFICES ASSUME NEW q \in Receivers
                   PROVE  TailOk(NodeOf[q], pkt[q].tail)'
        OBVIOUS
      <4>1. pkt'[q] = pkt[q]
        BY <2>p, <3>1, NodeFacts DEF TypeInv, TypeOK
      <4> QED
        BY <3>2, <4>1 DEF IntegrityInv
    <3>7. RecvIntegrity'
      <4> SUFFICES ASSUME NEW q \in Procs, Delivered(q)'
                   PROVE  \E s \in sent' : s[2] = NodeOf[q] /\ s[3] = out'[q].data
        BY DEF RecvIntegrity
      <4>1. q # p
        BY <2>p, <3>1 DEF Delivered, NoResult, TypeInv, TypeOK
      <4>2. out'[q] = out[q]
        BY <3>1, <4>1 DEF TypeInv, TypeOK
      <4> QED
        BY <3>1, <4>2 DEF Delivered, IntegrityInv, RecvIntegrity
    <3> QED
      BY <3>4, <3>5, <3>6, <3>7 DEF IntegrityInv
  <2>2. CASE eob_device_send_2big(p)
    BY <2>2, <2>p, <1>b, <1>s, ReturnIntegrity DEF eob_device_send_2big
  <2>3. CASE eob_device_send_overrun(p)
    BY <2>3, <2>p, <1>b, <1>s, ReturnIntegrity DEF eob_device_send_overrun
  <2>4. CASE WritePiece(p)
    <3>1. pc[p] = "write" /\ dst[p] \in Dsts
      BY <2>4, <2>p DEF WritePiece, TypeInv
    <3>2. TailOk(dst[p], Transfer(piece[p], pkt[p], block[dst[p]]).tail)
      BY <2>p, <3>1, <1>t, <1>b, TransferTail DEF IntegrityInv
    <3>3. \A n \in Dsts : TailOk(n, block'[n].tail)
      <4> SUFFICES ASSUME NEW n \in Dsts
                   PROVE  TailOk(n, block'[n].tail)
        OBVIOUS
      <4>1. block'[n] = IF n = dst[p] THEN Transfer(piece[p], pkt[p], block[n])
                                      ELSE block[n]
        BY <2>4, <3>1 DEF WritePiece, TypeInv, TypeOK
      <4> QED
        BY <3>2, <4>1, <1>b
    <3>4. CASE UNCHANGED <<pc, dst, pkt, out, sent>>
      BY <3>3, <3>4 DEF IntegrityInv, TailOk, RecvIntegrity, Delivered
    <3>5. CASE Return(p, SendResult("OK")) /\ UNCHANGED sent
      BY <2>p, <3>3, <3>5, <1>s, ReturnIntegrity
    <3> QED
      BY <2>4, <3>4, <3>5 DEF WritePiece
  <2>5. CASE WriteStops(p)
    BY <2>5, <2>p, <1>b, <1>s, ReturnIntegrity DEF WriteStops
  <2> QED
    BY <1>1, <2>1, <2>2, <2>3, <2>4, <2>5 DEF Send
<1>2. ASSUME NEW p \in Receivers, Recv(p)
      PROVE  IntegrityInv'
  <2>p. p \in Procs /\ NodeOf[p] \in Dsts /\ p \notin Senders
    BY NodeFacts, MailboxConstants
  <2>1. CASE eob_device_recv(p)
    <3>1. RecvIntegrity'
      BY <2>1, <2>p DEF eob_device_recv, IntegrityInv, RecvIntegrity, Delivered,
                        NoResult, TypeInv, TypeOK
    <3>2. \A q \in Senders : pc'[q] = pc[q]
      BY <2>1, <2>p, NodeFacts DEF eob_device_recv, TypeInv, TypeOK
    <3> QED
      BY <2>1, <3>1, <3>2 DEF eob_device_recv, IntegrityInv, TailOk
  <2>2. CASE ReadPiece(p)
    <3>1. TailOk(NodeOf[p], Transfer(piece[p], block[NodeOf[p]], pkt[p]).tail)
      BY <2>p, <1>t, <1>b, TransferTail DEF IntegrityInv
    <3>2. \A q \in Procs : q # p => pkt'[q] = pkt[q] /\ pc'[q] = pc[q]
      BY <2>2, <2>p DEF ReadPiece, TypeInv, TypeOK
    <3>3. pkt'[p] = Transfer(piece[p], block[NodeOf[p]], pkt[p])
      BY <2>2, <2>p DEF ReadPiece, TypeInv, TypeOK
    <3>4. UNCHANGED <<block, dst, out, sent>>
      BY <2>2 DEF ReadPiece
    <3>5. \A q \in Senders : (pc[q] = "write" => TailOk(dst[q], pkt[q].tail))'
      BY <2>p, <3>2, <3>4, NodeFacts DEF IntegrityInv, TailOk
    <3>6. \A q \in Receivers : TailOk(NodeOf[q], pkt[q].tail)'
      BY <2>p, <3>1, <3>2, <3>3, <3>4, NodeFacts DEF IntegrityInv, TailOk
    <3> QED
      BY <3>4, <3>5, <3>6 DEF IntegrityInv, TailOk, RecvIntegrity, Delivered
  <2>3. CASE ReadFails(p)
    BY <2>3, <2>p, <1>b, <1>s, ReturnIntegrity DEF ReadFails
  <2>4. CASE Decode(p)
    <3> DEFINE r == IF DecodeResult(pkt[p]) = "OK"
                    THEN Received(pkt[p].head.src, Data(pkt[p]))
                    ELSE RecvResult(DecodeResult(pkt[p]))
    <3>1. ASSUME r.res = "OK"
          PROVE  \E s \in sent : s[2] = NodeOf[p] /\ s[3] = r.data
      <4>1. DecodeResult(pkt[p]) = "OK"
        BY <3>1, <1>s
      <4>2. r.data = pkt[p].tail
        BY <4>1, <2>p, <1>t, DecodeOk DEF Received
      <4>3. pkt[p].tail \notin DataUnits /\ pkt[p].tail # <<>>
        BY <4>1, <2>p, <1>t, DecodeOk
      <4> QED
        BY <4>2, <4>3 DEF IntegrityInv, TailOk
    <3>2. Return(p, r) /\ UNCHANGED <<block, sent>>
      BY <2>4 DEF Decode
    <3> HIDE DEF r
    <3> QED
      BY <2>p, <3>1, <3>2, <1>b, ReturnIntegrity
  <2>5. CASE ReadShort(p)
    <3>1. TailOk(NodeOf[p], CutShort(piece[p], pkt[p]).tail)
      <4>1. CutShort(piece[p], pkt[p]).tail \in {pkt[p].tail, Junk}
        BY <2>p, <1>t, CutShortType
      <4> QED
        BY <4>1 DEF IntegrityInv, TailOk, DataUnits
    <3>2. \A q \in Procs : q # p => pkt'[q] = pkt[q] /\ pc'[q] = pc[q]
      BY <2>5, <2>p DEF ReadShort, TypeInv, TypeOK
    <3>3. pkt'[p] = CutShort(piece[p], pkt[p])
      BY <2>5, <2>p DEF ReadShort, TypeInv, TypeOK
    <3>4. UNCHANGED <<block, dst, out, sent>>
      BY <2>5 DEF ReadShort
    <3>5. \A q \in Senders : (pc[q] = "write" => TailOk(dst[q], pkt[q].tail))'
      BY <2>p, <3>2, <3>4, NodeFacts DEF IntegrityInv, TailOk
    <3>6. \A q \in Receivers : TailOk(NodeOf[q], pkt[q].tail)'
      BY <2>p, <3>1, <3>2, <3>3, <3>4, NodeFacts DEF IntegrityInv, TailOk
    <3> QED
      BY <3>4, <3>5, <3>6 DEF IntegrityInv, TailOk, RecvIntegrity, Delivered
  <2> QED
    BY <1>2, <2>1, <2>2, <2>3, <2>4, <2>5 DEF Recv
<1> QED
  BY <1>0, <1>1, <1>2 DEF Next

(* Nothing is delivered at the start, and the blocks are empty. *)
LEMMA IntegrityInit == Init => IntegrityInv
<1>1. \A n \in Nodes : EmptyBlock(n).tail = <<>>
  BY EmptyBlockType
<1> QED
  BY <1>1, NodeFacts
  DEF Init, IntegrityInv, TailOk, RecvIntegrity, Delivered, NoResult

(* Whatever pieces a block is made of, and whatever is torn, mixed, cut short
   or overlong: what eob_device_recv returns is data sent to this node. *)
THEOREM DataIntegrity == Spec => []RecvIntegrity
<1>1. Spec => [](TypeInv /\ IntegrityInv)
  BY TypeInit, TypeStep, IntegrityInit, IntegrityStep, PTL DEF Spec
<1>2. IntegrityInv => RecvIntegrity
  BY DEF IntegrityInv
<1> QED
  BY <1>1, <1>2, PTL

-----------------------------------------------------------------------------
(* Blocks transferred in one piece: whole packets only *)

(* What a block of node n, or a buffer it was read to, may hold. *)
Whole(n, b) ==
    \/ b = EmptyBlock(n)
    \/ \E s \in sent : s[2] = n /\ b = Packet(s[1], s[3])

WholeInv ==
    /\ \A n \in Dsts : Whole(n, block[n])
    /\ \A p \in Senders : pc[p] = "write" => Whole(dst[p], pkt[p])
    /\ \A p \in Receivers : Whole(NodeOf[p], pkt[p])
    /\ RecvAuthentic

(* The only piece is the whole block. *)
LEMMA TransferAll ==
    ASSUME LastPiece = 0, NEW k \in Pieces, NEW from \in Block, NEW to
    PROVE  Transfer(k, from, to) = from
<1>1. k = 0 /\ \A c \in Cells : PieceOf[c] = k
  BY MailboxConstants DEF Pieces
<1>2. [c \in 1 .. Cap |-> IF PieceOf[c] = k THEN from.data[c] ELSE to.data[c]] = from.data
  BY <1>1, CellFacts DEF Block
<1> QED
  BY <1>1, <1>2, CellFacts DEF Transfer, Block

(* A whole packet that decodes gives its source and the data sent with it. *)
LEMMA DecodeWhole ==
    ASSUME TypeInv, NEW n \in Nodes, NEW b \in Block, Whole(n, b), DecodeResult(b) = "OK"
    PROVE  <<b.head.src, n, Data(b)>> \in sent
<1>1. Data(b) = b.tail /\ b.tail \notin DataUnits /\ b.tail # <<>>
  BY DecodeOk
<1>2. b # EmptyBlock(n)
  BY <1>1, EmptyBlockType
<1>3. PICK s \in sent : s[2] = n /\ b = Packet(s[1], s[3])
  BY <1>2 DEF Whole
<1>4. s \in Nodes \X Dsts \X Messages /\ s = <<s[1], s[2], s[3]>>
  BY <1>3 DEF TypeInv, TypeOK
<1>5. s[3] \in Seq(Units)
  BY <1>4, MailboxConstants
<1>6. Len(s[3]) > Cap => s[3][TailCell] \in Units
  BY <1>5, CellFacts
<1>7. b.tail = s[3] /\ b.head.src = s[1]
  BY <1>1, <1>3, <1>6 DEF Packet, DataUnits
<1> QED
  BY <1>1, <1>3, <1>4, <1>7

(* Returning from a call keeps packets whole. *)
LEMMA ReturnWhole ==
    ASSUME TypeInv, WholeInv, NEW p \in Procs, NEW r, Return(p, r),
           UNCHANGED sent,
           \A n \in Dsts : Whole(n, block'[n]),
           r.call = "recv" /\ r.res = "OK" => <<r.src, NodeOf[p], r.data>> \in sent
    PROVE  WholeInv'
<1>1. \A n \in Dsts : Whole(n, block[n])'
  BY DEF Whole
<1>2. \A q \in Procs : q # p =>
         pc'[q] = pc[q] /\ dst'[q] = dst[q] /\ pkt'[q] = pkt[q] /\ out'[q] = out[q]
  BY DEF Return, TypeInv, TypeOK
<1>3. pc'[p] = "idle" /\ pkt'[p] = EmptyBlock(NodeOf[p]) /\ out'[p] = r
  BY DEF Return, TypeInv, TypeOK
<1>4. \A q \in Senders : (pc[q] = "write" => Whole(dst[q], pkt[q]))'
  BY <1>2, <1>3, NodeFacts DEF WholeInv, Whole
<1>5. \A q \in Receivers : Whole(NodeOf[q], pkt[q])'
  BY <1>2, <1>3, NodeFacts DEF WholeInv, Whole
<1>6. RecvAuthentic'
  BY <1>2, <1>3 DEF WholeInv, RecvAuthentic, Delivered
<1> QED
  BY <1>1, <1>4, <1>5, <1>6 DEF WholeInv

(* Every step keeps packets whole. *)
LEMMA WholeStep ==
    ASSUME LastPiece = 0
    PROVE  TypeInv /\ WholeInv /\ [Next]_vars => WholeInv'
<1> SUFFICES ASSUME TypeInv, WholeInv, [Next]_vars
             PROVE  WholeInv'
  OBVIOUS
<1>0. CASE UNCHANGED vars
  BY <1>0 DEF WholeInv, Whole, RecvAuthentic, Delivered, vars
<1>t. /\ \A n \in Dsts : block[n] \in Block
      /\ \A p \in Procs : pkt[p] \in Block /\ piece[p] \in Pieces
  BY DEF TypeInv, TypeOK
<1>b. \A n \in Dsts : Whole(n, block[n])
  BY DEF WholeInv
<1>s. \A res : /\ SendResult(res).call # "recv"
               /\ RecvResult(res).res = res
  BY DEF SendResult, RecvResult
<1>1. ASSUME NEW p \in Senders, Send(p)
      PROVE  WholeInv'
  <2>p. p \in Procs /\ p \notin Receivers
    BY NodeFacts, MailboxConstants
  <2>1. CASE eob_device_send(p)
    <3>1. PICK n \in Dsts, m \in Messages :
             /\ pc' = [pc EXCEPT ![p] = "write"]
             /\ dst' = [dst EXCEPT ![p] = n]
             /\ pkt' = [pkt EXCEPT ![p] = Packet(NodeOf[p], m)]
             /\ sent' = sent \cup {<<NodeOf[p], n, m>>}
             /\ out' = [out EXCEPT ![p] = NoResult]
             /\ UNCHANGED <<block, piece, last>>
      BY <2>1 DEF eob_device_send
    <3>2. \A k, c : Whole(k, c) => Whole(k, c)'
      BY <3>1 DEF Whole
    <3>3. Whole(n, Packet(NodeOf[p], m))'
      <4>1. <<NodeOf[p], n, m>> \in sent'
        BY <3>1
      <4> QED
        BY <4>1 DEF Whole
    <3>4. \A q \in Procs : q # p =>
             pc'[q] = pc[q] /\ dst'[q] = dst[q] /\ pkt'[q] = pkt[q] /\ out'[q] = out[q]
      BY <3>1 DEF TypeInv, TypeOK
    <3>5. dst'[p] = n /\ pkt'[p] = Packet(NodeOf[p], m) /\ out'[p] = NoResult
      BY <2>p, <3>1 DEF TypeInv, TypeOK
    <3>6. \A k \in Dsts : Whole(k, block[k])'
      BY <3>1, <3>2, <1>b
    <3>7. \A q \in Senders : (pc[q] = "write" => Whole(dst[q], pkt[q]))'
      <4> SUFFICES ASSUME NEW q \in Senders, pc'[q] = "write"
                   PROVE  Whole(dst[q], pkt[q])'
        OBVIOUS
      <4>1. CASE q = p
        BY <3>3, <3>5, <4>1
      <4>2. CASE q # p
        BY <3>2, <3>4, <4>2, NodeFacts DEF WholeInv
      <4> QED
        BY <4>1, <4>2
    <3>8. \A q \in Receivers : Whole(NodeOf[q], pkt[q])'
      BY <2>p, <3>2, <3>4, NodeFacts DEF WholeInv
    <3>9. RecvAuthentic'
      BY <3>1, <3>4, <3>5 DEF WholeInv, RecvAuthentic, Delivered, NoResult
    <3> QED
      BY <3>6, <3>7, <3>8, <3>9 DEF WholeInv
  <2>2. CASE eob_device_send_2big(p)
    BY <2>2, <2>p, <1>b, <1>s, ReturnWhole DEF eob_device_send_2big
  <2>3. CASE eob_device_send_overrun(p)
    BY <2>3, <2>p, <1>b, <1>s, ReturnWhole DEF eob_device_send_overrun
  <2>4. CASE WritePiece(p)
    <3>1. pc[p] = "write" /\ dst[p] \in Dsts
      BY <2>4, <2>p DEF WritePiece, TypeInv
    <3>2. Transfer(piece[p], pkt[p], block[dst[p]]) = pkt[p]
      BY <2>p, <1>t, TransferAll
    <3>3. \A n \in Dsts : Whole(n, block'[n])
      <4> SUFFICES ASSUME NEW n \in Dsts
                   PROVE  Whole(n, block'[n])
        OBVIOUS
      <4>1. block'[n] = IF n = dst[p] THEN pkt[p] ELSE block[n]
        BY <2>4, <3>1, <3>2 DEF WritePiece, TypeInv, TypeOK
      <4> QED
        BY <3>1, <4>1, <1>b DEF WholeInv
    <3>4. CASE UNCHANGED <<pc, dst, pkt, out, sent>>
      BY <3>3, <3>4 DEF WholeInv, Whole, RecvAuthentic, Delivered
    <3>5. CASE Return(p, SendResult("OK")) /\ UNCHANGED sent
      BY <2>p, <3>3, <3>5, <1>s, ReturnWhole
    <3> QED
      BY <2>4, <3>4, <3>5 DEF WritePiece
  <2>5. CASE WriteStops(p)
    BY <2>5, <2>p, <1>b, <1>s, ReturnWhole DEF WriteStops
  <2> QED
    BY <1>1, <2>1, <2>2, <2>3, <2>4, <2>5 DEF Send
<1>2. ASSUME NEW p \in Receivers, Recv(p)
      PROVE  WholeInv'
  <2>p. p \in Procs /\ NodeOf[p] \in Dsts /\ NodeOf[p] \in Nodes /\ p \notin Senders
    BY NodeFacts, MailboxConstants
  <2>1. CASE eob_device_recv(p)
    <3>1. RecvAuthentic'
      BY <2>1, <2>p DEF eob_device_recv, WholeInv, RecvAuthentic, Delivered,
                        NoResult, TypeInv, TypeOK
    <3>2. \A q \in Senders : pc'[q] = pc[q]
      BY <2>1, <2>p, NodeFacts DEF eob_device_recv, TypeInv, TypeOK
    <3> QED
      BY <2>1, <3>1, <3>2 DEF eob_device_recv, WholeInv, Whole
  <2>2. CASE ReadPiece(p)
    <3>1. Transfer(piece[p], block[NodeOf[p]], pkt[p]) = block[NodeOf[p]]
      BY <2>p, <1>t, TransferAll
    <3>2. \A q \in Procs : q # p => pkt'[q] = pkt[q] /\ pc'[q] = pc[q]
      BY <2>2, <2>p DEF ReadPiece, TypeInv, TypeOK
    <3>3. pkt'[p] = block[NodeOf[p]]
      BY <2>2, <2>p, <3>1 DEF ReadPiece, TypeInv, TypeOK
    <3>4. UNCHANGED <<block, dst, out, sent>>
      BY <2>2 DEF ReadPiece
    <3>5. \A q \in Senders : (pc[q] = "write" => Whole(dst[q], pkt[q]))'
      BY <2>p, <3>2, <3>4, NodeFacts DEF WholeInv, Whole
    <3>6. \A q \in Receivers : Whole(NodeOf[q], pkt[q])'
      BY <2>p, <3>2, <3>3, <3>4, <1>b, NodeFacts DEF WholeInv, Whole
    <3> QED
      BY <3>4, <3>5, <3>6 DEF WholeInv, Whole, RecvAuthentic, Delivered
  <2>3. CASE ReadFails(p)
    BY <2>3, <2>p, <1>b, <1>s, ReturnWhole DEF ReadFails
  <2>4. CASE Decode(p)
    <3> DEFINE r == IF DecodeResult(pkt[p]) = "OK"
                    THEN Received(pkt[p].head.src, Data(pkt[p]))
                    ELSE RecvResult(DecodeResult(pkt[p]))
    <3>1. ASSUME r.res = "OK"
          PROVE  <<r.src, NodeOf[p], r.data>> \in sent
      <4>1. DecodeResult(pkt[p]) = "OK"
        BY <3>1, <1>s
      <4>2. <<pkt[p].head.src, NodeOf[p], Data(pkt[p])>> \in sent
        BY <4>1, <2>p, <1>t, DecodeWhole DEF WholeInv
      <4> QED
        BY <4>1, <4>2 DEF Received
    <3>2. Return(p, r) /\ UNCHANGED <<block, sent>>
      BY <2>4 DEF Decode
    <3> HIDE DEF r
    <3> QED
      BY <2>p, <3>1, <3>2, <1>b, ReturnWhole
  <2>5. CASE ReadShort(p)
    <3>1. PieceOf[HeadCell] \in Pieces /\ piece[p] \in Pieces
      BY <2>p, <1>t, CellFacts, MailboxConstants
    <3> QED
      BY <2>5, <3>1 DEF ReadShort, Pieces
  <2> QED
    BY <1>2, <2>1, <2>2, <2>3, <2>4, <2>5 DEF Recv
<1> QED
  BY <1>0, <1>1, <1>2 DEF Next

(* The blocks and buffers are empty at the start. *)
LEMMA WholeInit == Init => WholeInv
  BY NodeFacts DEF Init, WholeInv, Whole, RecvAuthentic, Delivered, NoResult

(* If a block is transferred in one piece, the source that eob_device_recv
   reports is that of a process that sent this data to this node, although
   the head is outside the checksum. *)
THEOREM SourceAuthenticity ==
    ASSUME LastPiece = 0
    PROVE  Spec => []RecvAuthentic
<1>1. TypeInv /\ WholeInv /\ [Next]_vars => WholeInv'
  BY WholeStep
<1>2. Spec => [](TypeInv /\ WholeInv)
  BY <1>1, TypeInit, TypeStep, WholeInit, PTL DEF Spec
<1>3. WholeInv => RecvAuthentic
  BY DEF WholeInv
<1> QED
  BY <1>2, <1>3, PTL

-----------------------------------------------------------------------------
(* What was sent last is there to be received *)

(* The packet known to be in a block is there and decodes, and so do the
   packets that are about to be written. *)
LastInv ==
    /\ \A n \in Dsts : last[n] # NoPacket =>
          block[n] = last[n] /\ DecodeResult(block[n]) = "OK"
    /\ \A p \in Senders : pc[p] = "write" => DecodeResult(pkt[p]) = "OK"

(* A message that leaves the tail alone, and is not empty, can be decoded. *)
LEMMA DecodePacket ==
    ASSUME NEW src \in Nodes, NEW m \in Messages, Len(m) \in 1 .. Cap
    PROVE  DecodeResult(Packet(src, m)) = "OK"
<1> DEFINE b == Packet(src, m)
<1>1. m \in Seq(Units) /\ Len(m) \in Nat /\ Len(m) <= Cap
  BY MailboxConstants, CellFacts
<1>2. b.head.len = Len(m) /\ b.tail = m
  BY <1>1, CellFacts DEF Packet
<1>3. \A c \in 1 .. Len(m) : c <= Cap /\ b.data[c] = m[c]
  BY <1>1, CellFacts DEF Packet
<1>4. m = [c \in 1 .. Len(m) |-> m[c]]
  BY <1>1
<1>5. Data(b) = [c \in 1 .. Len(m) |-> m[c]]
  BY <1>2, <1>3 DEF Data
<1> QED
  BY <1>2, <1>4, <1>5, CellFacts DEF DecodeResult

(* Every step of senders whose messages fit keeps the last packet in place. *)
LEMMA LastStep ==
    ASSUME LastPiece = 0, \A m \in Messages : Len(m) \in 1 .. Cap
    PROVE  TypeInv /\ LastInv /\ [Next]_vars => LastInv'
<1> SUFFICES ASSUME TypeInv, LastInv, [Next]_vars
             PROVE  LastInv'
  OBVIOUS
<1>0. CASE UNCHANGED vars
  BY <1>0 DEF LastInv, vars
<1>r. ASSUME NEW p \in Procs, NEW r, Return(p, r)
      PROVE  \A q \in Senders : (pc[q] = "write" => DecodeResult(pkt[q]) = "OK")'
  BY <1>r, NodeFacts DEF Return, LastInv, TypeInv, TypeOK
<1>1. ASSUME NEW p \in Senders, Send(p)
      PROVE  LastInv'
  <2>p. p \in Procs /\ NodeOf[p] \in Nodes
    BY NodeFacts
  <2>1. CASE eob_device_send(p)
    <3>1. PICK n \in Dsts, m \in Messages :
             /\ pc' = [pc EXCEPT ![p] = "write"]
             /\ pkt' = [pkt EXCEPT ![p] = Packet(NodeOf[p], m)]
             /\ UNCHANGED <<block, piece, last>>
      BY <2>1 DEF eob_device_send
    <3>2. DecodeResult(Packet(NodeOf[p], m)) = "OK"
      BY <2>p, DecodePacket
    <3>3. \A q \in Senders : (pc[q] = "write" => DecodeResult(pkt[q]) = "OK")'
      BY <2>p, <3>1, <3>2, NodeFacts DEF LastInv, TypeInv, TypeOK
    <3> QED
      BY <3>1, <3>3 DEF LastInv
  <2>2. CASE eob_device_send_2big(p)
    BY <2>2, <2>p, <1>r DEF eob_device_send_2big, LastInv
  <2>3. CASE eob_device_send_overrun(p)
    BY <2>3, <2>p, <1>r DEF eob_device_send_overrun, LastInv
  <2>4. CASE WritePiece(p)
    <3>1. pc[p] = "write" /\ dst[p] \in Dsts
          /\ pkt[p] \in Block /\ piece[p] \in Pieces
      BY <2>4, <2>p DEF WritePiece, TypeInv, TypeOK
    <3>2. Transfer(piece[p], pkt[p], block[dst[p]]) = pkt[p]
      BY <3>1, TransferAll
    <3>3. /\ block' = [block EXCEPT ![dst[p]] = pkt[p]]
          /\ last' = [last EXCEPT ![dst[p]] = pkt[p]]
          /\ Return(p, SendResult("OK"))
      <4>1. ~(piece[p] < LastPiece)
        BY <3>1 DEF Pieces
      <4>2. block' = [block EXCEPT ![dst[p]] = pkt[p]]
        BY <2>4, <3>2 DEF WritePiece
      <4> QED
        BY <2>4, <4>1, <4>2 DEF WritePiece
    <3>4. \A n \in Dsts : last'[n] # NoPacket =>
             block'[n] = last'[n] /\ DecodeResult(block'[n]) = "OK"
      BY <3>1, <3>3 DEF LastInv, TypeInv, TypeOK
    <3> QED
      BY <2>p, <3>3, <3>4, <1>r DEF LastInv
  <2>5. CASE WriteStops(p)
    <3>1. \A n \in Dsts : last'[n] # NoPacket => last'[n] = last[n]
      BY <2>5 DEF WriteStops, TypeInv, TypeOK
    <3> QED
      BY <2>5, <2>p, <3>1, <1>r DEF WriteStops, LastInv
  <2> QED
    BY <1>1, <2>1, <2>2, <2>3, <2>4, <2>5 DEF Send
<1>2. ASSUME NEW p \in Receivers, Recv(p)
      PROVE  LastInv'
  <2>p. p \in Procs /\ p \notin Senders
    BY NodeFacts, MailboxConstants
  <2>1. CASE eob_device_recv(p)
    BY <2>1, <2>p, NodeFacts DEF eob_device_recv, LastInv, TypeInv, TypeOK
  <2>2. CASE ReadPiece(p)
    <3>1. \A q \in Senders : pkt'[q] = pkt[q] /\ pc'[q] = pc[q]
      BY <2>2, <2>p, NodeFacts DEF ReadPiece, TypeInv, TypeOK
    <3> QED
      BY <2>2, <3>1 DEF ReadPiece, LastInv
  <2>3. CASE ReadFails(p)
    BY <2>3, <2>p, <1>r DEF ReadFails, LastInv
  <2>4. CASE Decode(p)
    BY <2>4, <2>p, <1>r DEF Decode, LastInv
  <2>5. CASE ReadShort(p)
    <3>1. \A q \in Senders : pkt'[q] = pkt[q] /\ pc'[q] = pc[q]
      BY <2>5, <2>p, NodeFacts DEF ReadShort, TypeInv, TypeOK
    <3> QED
      BY <2>5, <3>1 DEF ReadShort, LastInv
  <2> QED
    BY <1>2, <2>1, <2>2, <2>3, <2>4, <2>5 DEF Recv
<1> QED
  BY <1>0, <1>1, <1>2 DEF Next

(* If blocks are transferred in one piece, and all messages fit into a packet
   and are not empty, the last packet whose send returned 0 stays in the block
   until the next write, and can be received. *)
THEOREM LastPacketStays ==
    ASSUME LastPiece = 0, \A m \in Messages : Len(m) \in 1 .. Cap
    PROVE  Spec => []QuietMailboxHoldsLast
<1>1. TypeInv /\ LastInv /\ [Next]_vars => LastInv'
  BY LastStep
<1>2. Init => LastInv
  BY NodeFacts DEF Init, LastInv
<1>3. Spec => [](TypeInv /\ LastInv)
  BY <1>1, <1>2, TypeInit, TypeStep, PTL DEF Spec
<1>4. LastInv => QuietMailboxHoldsLast
  BY DEF LastInv, QuietMailboxHoldsLast
<1> QED
  BY <1>3, <1>4, PTL

-----------------------------------------------------------------------------
(* A mailbox is a register *)

(* The variables of EobPostbox. *)
Slot == [n \in Dsts |-> Contents(block[n])]
Got == [p \in Receivers |-> IF pc[p] = "decode" THEN {Contents(pkt[p])} ELSE {}]
Reply == [p \in Receivers |-> out[p]]

(* What is about to be written is the packet of a message. *)
PostInv ==
    \A p \in Senders : pc[p] = "write" =>
        \E m \in Messages : pkt[p] = Packet(NodeOf[p], m)

(* A message that fits is what a reader finds in its packet. *)
LEMMA PacketContents ==
    ASSUME NEW src \in Nodes, NEW m \in Messages, Len(m) <= Cap
    PROVE  Contents(Packet(src, m)) = IF m = <<>> THEN <<>> ELSE <<src, m>>
<1>1. m \in Seq(Units) /\ Len(m) \in Nat
  BY MailboxConstants
<1>2. /\ Packet(src, m).head.len = Len(m) /\ Packet(src, m).head.src = src
      /\ Packet(src, m).tail = m
  BY <1>1, CellFacts DEF Packet
<1>3. m = <<>> <=> Len(m) = 0
  BY <1>1
<1>4. CASE Len(m) = 0
  BY <1>2, <1>3, <1>4 DEF Contents
<1>5. CASE Len(m) # 0
  <2>1. Len(m) \in 1 .. Cap
    BY <1>1, <1>5, CellFacts
  <2>2. DecodeResult(Packet(src, m)) = "OK"
    BY <2>1, DecodePacket
  <2>3. Data(Packet(src, m)) = m
    BY <1>2, <1>5, <2>2 DEF DecodeResult
  <2> QED
    BY <1>2, <1>3, <1>5, <2>3 DEF Contents
<1> QED
  BY <1>4, <1>5

(* A whole packet whose message fits is answered by what it holds. *)
LEMMA WholeAnswer ==
    ASSUME TypeInv, \A m \in Messages : Len(m) <= Cap,
           NEW n \in Nodes, NEW b \in Block, Whole(n, b)
    PROVE  /\ Contents(b) = <<>> => DecodeResult(b) = "abort"
           /\ Contents(b) # <<>> => /\ DecodeResult(b) = "OK"
                                   /\ Contents(b) = <<b.head.src, Data(b)>>
<1>1. CASE b.head.len = 0
  BY <1>1 DEF Contents, DecodeResult
<1>2. CASE b.head.len # 0
  <2>1. Contents(b) = <<b.head.src, Data(b)>> /\ Contents(b) # <<>>
    BY <1>2 DEF Contents
  <2>2. b # EmptyBlock(n)
    BY <1>2 DEF EmptyBlock
  <2>3. PICK s \in sent : s[2] = n /\ b = Packet(s[1], s[3])
    BY <2>2 DEF Whole
  <2>4. s[1] \in Nodes /\ s[3] \in Messages
    BY <2>3 DEF TypeInv, TypeOK
  <2>5. s[3] \in Seq(Units) /\ Len(s[3]) \in Nat /\ Len(s[3]) <= Cap
    BY <2>4, MailboxConstants
  <2>6. b.head.len = Len(s[3])
    BY <2>3 DEF Packet
  <2>7. Len(s[3]) \in 1 .. Cap
    BY <1>2, <2>5, <2>6, CellFacts
  <2>8. DecodeResult(b) = "OK"
    BY <2>3, <2>4, <2>7, DecodePacket
  <2> QED
    BY <2>1, <2>8
<1> QED
  BY <1>1, <1>2

LEMMA PostStep == TypeInv /\ PostInv /\ [Next]_vars => PostInv'
<1> SUFFICES ASSUME TypeInv, PostInv, [Next]_vars
             PROVE  PostInv'
  OBVIOUS
<1>0. CASE UNCHANGED vars
  BY <1>0 DEF PostInv, vars
<1>r. ASSUME NEW p \in Procs, NEW r, Return(p, r)
      PROVE  PostInv'
  BY <1>r, NodeFacts DEF Return, PostInv, TypeInv, TypeOK
<1>1. ASSUME NEW p \in Senders, Send(p)
      PROVE  PostInv'
  <2>p. p \in Procs
    BY NodeFacts
  <2>1. CASE eob_device_send(p)
    <3>1. PICK m \in Messages : /\ pc' = [pc EXCEPT ![p] = "write"]
                                /\ pkt' = [pkt EXCEPT ![p] = Packet(NodeOf[p], m)]
      BY <2>1 DEF eob_device_send
    <3>2. pkt'[p] = Packet(NodeOf[p], m)
      BY <2>p, <3>1 DEF TypeInv, TypeOK
    <3>3. \A q \in Senders : q # p => pc'[q] = pc[q] /\ pkt'[q] = pkt[q]
      BY <3>1, NodeFacts DEF TypeInv, TypeOK
    <3> QED
      BY <3>2, <3>3 DEF PostInv
  <2>2. CASE UNCHANGED <<pc, pkt>>
    BY <2>2 DEF PostInv
  <2> QED
    BY <1>1, <1>r, <2>p, <2>1, <2>2
       DEF Send, eob_device_send_2big, eob_device_send_overrun, WritePiece, WriteStops
<1>2. ASSUME NEW p \in Receivers, Recv(p)
      PROVE  PostInv'
  <2>1. \A q \in Senders : pc'[q] = pc[q] /\ pkt'[q] = pkt[q]
    BY <1>2, NodeFacts, MailboxConstants
       DEF Recv, eob_device_recv, ReadPiece, ReadShort, ReadFails, Decode, Return,
           TypeInv, TypeOK
  <2> QED
    BY <2>1 DEF PostInv
<1> QED
  BY <1>0, <1>1, <1>2 DEF Next

(* The steps of a sender: only the write of the block is seen. *)
LEMMA SendPosts ==
    ASSUME LastPiece = 0, \A m \in Messages : Len(m) <= Cap,
           TypeInv, PostInv, NEW p \in Senders, Send(p)
    PROVE  UNCHANGED <<Got, Reply>> /\ (Slot' = Slot \/ \E n \in Dsts : Postbox!Post(n))
<1>p. p \in Procs /\ p \notin Receivers /\ NodeOf[p] \in Nodes
  BY NodeFacts, MailboxConstants
<1>1. \A q \in Receivers : pc'[q] = pc[q] /\ pkt'[q] = pkt[q] /\ out'[q] = out[q]
  BY <1>p, NodeFacts
     DEF Send, eob_device_send, eob_device_send_2big, eob_device_send_overrun,
         WritePiece, WriteStops, Return, TypeInv, TypeOK
<1>2. UNCHANGED <<Got, Reply>>
  BY <1>1 DEF Got, Reply
<1>3. CASE ~WritePiece(p)
  <2>1. block' = block
    BY <1>3 DEF Send, eob_device_send, eob_device_send_2big,
                eob_device_send_overrun, WriteStops
  <2> QED
    BY <1>2, <2>1 DEF Slot
<1>4. CASE WritePiece(p)
  <2>1. pc[p] = "write" /\ dst[p] \in Dsts /\ pkt[p] \in Block /\ piece[p] \in Pieces
    BY <1>4, <1>p DEF WritePiece, TypeInv, TypeOK
  <2>2. Transfer(piece[p], pkt[p], block[dst[p]]) = pkt[p]
    BY <2>1, TransferAll
  <2>3. block' = [block EXCEPT ![dst[p]] = pkt[p]]
    BY <1>4, <2>2 DEF WritePiece
  <2>4. PICK m \in Messages : pkt[p] = Packet(NodeOf[p], m)
    BY <2>1 DEF PostInv
  <2>5. Contents(pkt[p]) = IF m = <<>> THEN <<>> ELSE <<NodeOf[p], m>>
    BY <1>p, <2>4, PacketContents
  <2>6. Slot' = [Slot EXCEPT ![dst[p]] = Contents(pkt[p])]
    BY <2>1, <2>3 DEF Slot, TypeInv, TypeOK
  <2>7. Slot' = [Slot EXCEPT ![dst[p]] = IF m = <<>> THEN <<>> ELSE <<NodeOf[p], m>>]
    BY <2>5, <2>6
  <2>8. Postbox!Post(dst[p])
    BY <1>2, <1>p, <2>7 DEF Postbox!Post, Slot, Got, Reply
  <2> QED
    BY <1>2, <2>1, <2>8
<1> QED
  BY <1>3, <1>4

(* The steps of a receiver: it asks, takes a copy, and answers or fails. *)
LEMMA RecvAnswers ==
    ASSUME LastPiece = 0, \A m \in Messages : Len(m) <= Cap,
           TypeInv, WholeInv, NEW p \in Receivers, Recv(p)
    PROVE  Postbox!Ask(p) \/ Postbox!Fetch(p) \/ Postbox!Answer(p) \/ Postbox!Fail(p)
<1>p. p \in Procs /\ NodeOf[p] \in Dsts /\ NodeOf[p] \in Nodes
  BY NodeFacts
<1>t. /\ pkt[p] \in Block /\ block[NodeOf[p]] \in Block /\ piece[p] = 0
      /\ Got[p] = IF pc[p] = "decode" THEN {Contents(pkt[p])} ELSE {}
  BY <1>p DEF TypeInv, TypeOK, Pieces, Got
<1>b. Recv(p) => block' = block
  BY DEF Recv, eob_device_recv, ReadPiece, ReadShort, ReadFails, Decode
<1>s. Slot' = Slot
  BY <1>b DEF Slot
<1>r. ASSUME NEW r, Return(p, r)
      PROVE  Got' = [Got EXCEPT ![p] = {}] /\ Reply' = [Reply EXCEPT ![p] = r]
  <2>1. pc'[p] = "idle" /\ out'[p] = r
    BY <1>r, <1>p DEF Return, TypeInv, TypeOK
  <2>2. \A q \in Receivers : q # p =>
           pc'[q] = pc[q] /\ pkt'[q] = pkt[q] /\ out'[q] = out[q]
    BY <1>r, NodeFacts DEF Return, TypeInv, TypeOK
  <2> QED
    BY <2>1, <2>2 DEF Got, Reply
<1>1. CASE eob_device_recv(p)
  <2>1. /\ pc[p] = "idle" /\ pc' = [pc EXCEPT ![p] = "read"]
        /\ out' = [out EXCEPT ![p] = NoResult] /\ pkt' = pkt
    BY <1>1 DEF eob_device_recv
  <2>2. Got' = Got
    BY <1>p, <2>1, NodeFacts DEF Got, TypeInv, TypeOK
  <2>3. Reply' = [Reply EXCEPT ![p] = NoResult]
    BY <1>p, <2>1, NodeFacts DEF Reply, TypeInv, TypeOK
  <2>4. Got[p] = {}
    BY <1>t, <2>1
  <2>5. Postbox!Unanswered = NoResult
    BY DEF Postbox!Unanswered, NoResult
  <2> QED
    BY <1>s, <2>2, <2>3, <2>4, <2>5 DEF Postbox!Ask, Slot, Got, Reply
<1>2. CASE ReadPiece(p)
  <2>1. /\ pc[p] = "read" /\ pc' = [pc EXCEPT ![p] = "decode"] /\ out' = out
        /\ pkt' = [pkt EXCEPT ![p] = Transfer(piece[p], block[NodeOf[p]], @)]
    BY <1>2, <1>t DEF ReadPiece
  <2>2. Transfer(piece[p], block[NodeOf[p]], pkt[p]) = block[NodeOf[p]]
    BY <1>t, TransferAll DEF Pieces, TypeInv, TypeOK
  <2>3. pkt'[p] = block[NodeOf[p]] /\ pc'[p] = "decode"
    BY <1>p, <2>1, <2>2 DEF TypeInv, TypeOK
  <2>4. \A q \in Receivers : q # p => pc'[q] = pc[q] /\ pkt'[q] = pkt[q]
    BY <2>1, NodeFacts DEF TypeInv, TypeOK
  <2>5. Got' = [Got EXCEPT ![p] = {Contents(block[NodeOf[p]])}]
    BY <2>3, <2>4 DEF Got
  <2>6. Slot[NodeOf[p]] = Contents(block[NodeOf[p]])
    BY <1>p DEF Slot
  <2>7. Got[p] = {} /\ Reply' = Reply
    BY <1>t, <2>1 DEF Reply
  <2>8. Got' = [Got EXCEPT ![p] = {Slot[NodeOf[p]]}]
    BY <2>5, <2>6
  <2> QED
    BY <1>s, <2>7, <2>8 DEF Postbox!Fetch, Slot, Got, Reply
<1>3. CASE ReadFails(p)
  <2>1. PICK res \in {"IO", "abort"} : Return(p, RecvResult(res))
    BY <1>3 DEF ReadFails
  <2>2. Faults /\ Got[p] = {}
    BY <1>3, <1>t DEF ReadFails
  <2>3. Got' = [Got EXCEPT ![p] = {}]
    BY <1>r, <2>1
  <2>4. Got' = Got
    BY <2>2, <2>3 DEF Got
  <2>5. Reply' = [Reply EXCEPT ![p] = [call |-> "recv", res |-> res]]
    BY <1>r, <2>1 DEF RecvResult
  <2> QED
    BY <1>s, <2>2, <2>4, <2>5 DEF Postbox!Fail, Slot, Got, Reply
<1>4. CASE Decode(p)
  <2> DEFINE r == IF DecodeResult(pkt[p]) = "OK"
                  THEN Received(pkt[p].head.src, Data(pkt[p]))
                  ELSE RecvResult(DecodeResult(pkt[p]))
             copy == Contents(pkt[p])
  <2>1. pc[p] = "decode" /\ Return(p, r)
    BY <1>4 DEF Decode
  <2>2. Whole(NodeOf[p], pkt[p])
    BY DEF WholeInv
  <2>3. r = IF copy = <<>> THEN [call |-> "recv", res |-> "abort"]
            ELSE [call |-> "recv", res |-> "OK", src |-> copy[1], data |-> copy[2]]
    <3>1. CASE copy = <<>>
      BY <1>p, <1>t, <2>2, <3>1, WholeAnswer DEF RecvResult
    <3>2. CASE copy # <<>>
      BY <1>p, <1>t, <2>2, <3>2, WholeAnswer DEF Received
    <3> QED
      BY <3>1, <3>2
  <2>4. copy \in Got[p]
    BY <1>t, <2>1
  <2> HIDE DEF r, copy
  <2>5. Got' = [Got EXCEPT ![p] = {}] /\ Reply' = [Reply EXCEPT ![p] = r]
    BY <1>r, <2>1
  <2>6. Reply' = [Reply EXCEPT ![p] =
                    IF copy = <<>> THEN [call |-> "recv", res |-> "abort"]
                    ELSE [call |-> "recv", res |-> "OK",
                          src |-> copy[1], data |-> copy[2]]]
    BY <2>3, <2>5
  <2>7. Postbox!Answer(p)
    BY <1>s, <2>4, <2>5, <2>6 DEF Postbox!Answer, Slot, Got, Reply
  <2> QED
    BY <2>7
<1>5. CASE ReadShort(p)
  <2>1. PieceOf[HeadCell] \in Pieces
    BY CellFacts, MailboxConstants
  <2> QED
    BY <1>5, <1>t, <2>1 DEF ReadShort, Pieces
<1> QED
  BY <1>1, <1>2, <1>3, <1>4, <1>5 DEF Recv

(* If blocks are transferred in one piece and no message is longer than the
   room for data, eob_device_send and eob_device_recv make each mailbox a
   register, for any number of senders and receivers and with transfers that
   fail: a receive is answered with what the block held at one moment of it,
   and never with a checksum error. *)
THEOREM MailboxIsRegister ==
    ASSUME LastPiece = 0, \A m \in Messages : Len(m) <= Cap
    PROVE  Spec => ImplementsPostbox
<1>1. Init => PostInv
  BY NodeFacts DEF Init, PostInv
<1>2. Init => Postbox!PInit
  <2> SUFFICES ASSUME Init PROVE Postbox!PInit
    OBVIOUS
  <2>1. \A n \in Dsts : Contents(block[n]) = <<>>
    BY DEF Init, Contents, EmptyBlock
  <2>2. \A p \in Receivers : pc[p] = "idle" /\ out[p] = NoResult
    BY NodeFacts DEF Init
  <2> QED
    BY <2>1, <2>2 DEF Postbox!PInit, Postbox!Unanswered, NoResult
<1>3. TypeInv /\ PostInv /\ WholeInv /\ [Next]_vars
        => [Postbox!PNext]_(Postbox!pvars)
  <2> SUFFICES ASSUME TypeInv, PostInv, WholeInv, [Next]_vars
               PROVE  [Postbox!PNext]_(Postbox!pvars)
    OBVIOUS
  <2>1. CASE UNCHANGED vars
    BY <2>1 DEF vars, Postbox!pvars
  <2>2. ASSUME NEW p \in Senders, Send(p)
        PROVE  [Postbox!PNext]_(Postbox!pvars)
    BY <2>2, SendPosts DEF Postbox!PNext, Postbox!pvars, Slot, Got, Reply
  <2>3. ASSUME NEW p \in Receivers, Recv(p)
        PROVE  Postbox!PNext
    BY <2>3, RecvAnswers DEF Postbox!PNext
  <2> QED
    BY <2>1, <2>2, <2>3 DEF Next
<1>4. TypeInv /\ WholeInv /\ [Next]_vars => WholeInv'
  BY WholeStep
<1>5. Spec => [](TypeInv /\ WholeInv /\ PostInv)
  BY <1>1, <1>4, TypeInit, TypeStep, WholeInit, PostStep, PTL DEF Spec
<1> QED
  BY <1>2, <1>3, <1>5, PTL DEF Spec, ImplementsPostbox, Postbox!PSpec
=============================================================================

----------------------------- MODULE EobMailbox -----------------------------
(***************************************************************************)
(* Sending and receiving through the node blocks.  A packet is a head (the *)
(* sender's address and the data length), the data, padded with zeros, and *)
(* a tail (the checksum of the data); it fills the block of the node it is *)
(* for.  Sending overwrites the block, receiving reads the block of the    *)
(* receiver's own node; nothing says whether a packet was taken.           *)
(*                                                                         *)
(* A block is transferred piece by piece (PieceOf), a piece at a time: one *)
(* piece if transfers of the block are atomic for the others (a block in   *)
(* one sector, on hosts that share a disk), several if not (a block of     *)
(* several sectors or pages, or a reader that copies from the page cache   *)
(* while a writer copies to it).  Transfers of different processes         *)
(* interleave between pieces.  Blocks of different nodes share no byte     *)
(* (EobLayout), so each is a variable of its own.                          *)
(*                                                                         *)
(* Lengths count cells: one for the head, Cap for the data, one for the    *)
(* tail.  The checksum is ideal: it is the data it was computed from, and  *)
(* that of no data is the zero of an empty block, as crc32 is.             *)
(***************************************************************************)
EXTENDS Integers, Sequences

CONSTANTS
    Nodes,      \* node ids
    Senders,    \* processes that run iface send
    Receivers,  \* processes that run iface recv
    NodeOf,     \* the node of each one, dev->addr.idx.node_id
    Units,      \* what a data cell holds
    Zero,       \* a zeroed data cell
    Junk,       \* what is past the end of the received buffer: no checksum
    Messages,   \* the data that may be sent
    Cap,        \* data cells of a packet
    PieceOf,    \* the piece each cell of a block is transferred with
    LastPiece,  \* the last piece
    Faults,     \* whether transfers may fail or end early
    NoPacket    \* no packet is known to be in a mailbox

Procs == Senders \cup Receivers

(* The mailboxes somebody reads: packets for other nodes are not seen. *)
Dsts == {NodeOf[p] : p \in Receivers}

VirtCells == Cap + 2            \* virt_blk_size
HeadCell == 0
TailCell == Cap + 1
Cells == 0 .. (VirtCells - 1)
Pieces == 0 .. LastPiece

DataUnits == Units \cup {Zero, Junk}

(* What may be found where data or a checksum is expected. *)
CellValues == DataUnits \cup Messages \cup {<<>>}

ASSUME MailboxConstants ==
    /\ Senders \cap Receivers = {}
    /\ NodeOf \in [Procs -> Nodes]
    /\ Cap \in Nat \ {0}
    /\ LastPiece \in Nat
    /\ PieceOf \in [Cells -> Pieces]
    /\ Messages \subseteq Seq(Units)
    /\ \A u \in DataUnits : u \notin Seq(CellValues)
    /\ Faults \in BOOLEAN

-----------------------------------------------------------------------------
(* Packets *)

(* Mutant: data_len also counts the tail. *)
Packet_longer(src, m) ==
    [head |-> [src |-> src, len |-> Len(m) + 1],
     data |-> [c \in 1 .. Cap |-> IF c <= Len(m) THEN m[c] ELSE Zero],
     tail |-> m]

(* struct eob_packet_512 / _4k as eob_device_send fills it: head and tail
   first, then the data is copied in, over the tail if it is too long. *)
Packet(src, m) ==
    [head |-> [src |-> src, len |-> Len(m)],
     data |-> [c \in 1 .. Cap |-> IF c <= Len(m) THEN m[c] ELSE Zero],
     tail |-> IF Len(m) > Cap THEN m[TailCell] ELSE m]

(* A block of zeros, its source address that of some node. *)
EmptyBlock(node) ==
    [head |-> [src |-> node, len |-> 0],
     data |-> [c \in 1 .. Cap |-> Zero],
     tail |-> <<>>]

(* The data_len cells after the head, past the packet's end if need be. *)
Data(b) ==
    [c \in 1 .. b.head.len |->
        IF c <= Cap THEN b.data[c] ELSE IF c = TailCell THEN b.tail ELSE Junk]

(* Mutant: the checksum is not compared. *)
DecodeResult_unchecked(b) == IF b.head.len = 0 THEN "abort" ELSE "OK"

(* What eob_device_recv makes of the block it read. *)
DecodeResult(b) ==
    IF b.head.len = 0 THEN "abort"
    ELSE IF Data(b) = b.tail THEN "OK" ELSE "CHKSUM"

(* One piece of `from', the other cells of `to'. *)
Transfer(k, from, to) ==
    [head |-> IF PieceOf[HeadCell] = k THEN from.head ELSE to.head,
     data |-> [c \in 1 .. Cap |-> IF PieceOf[c] = k THEN from.data[c] ELSE to.data[c]],
     tail |-> IF PieceOf[TailCell] = k THEN from.tail ELSE to.tail]

(* The pieces before k of b, and what is in memory after them. *)
CutShort(k, b) ==
    [head |-> b.head,
     data |-> [c \in 1 .. Cap |-> IF PieceOf[c] < k THEN b.data[c] ELSE Junk],
     tail |-> IF PieceOf[TailCell] < k THEN b.tail ELSE Junk]

-----------------------------------------------------------------------------
VARIABLES
    block,   \* the node blocks on the device
    pc,      \* where each process is
    dst,     \* the node it sends to
    pkt,     \* the packet it writes, or the block it has read so far
    piece,   \* the piece it transfers next
    out,     \* the result of its last call
    sent,    \* history: <<src, dst, data>> of the sends begun
    last     \* history: the packet of the last send to a node, if it returned
             \* 0 after writing all and no other write was cut short since

vars == <<block, pc, dst, pkt, piece, out, sent, last>>

NoResult == [call |-> "none", res |-> "OK"]

Init ==
    /\ block = [n \in Dsts |-> EmptyBlock(n)]
    /\ pc = [p \in Procs |-> "idle"]
    /\ dst = NodeOf
    /\ pkt = [p \in Procs |-> EmptyBlock(NodeOf[p])]
    /\ piece = [p \in Procs |-> 0]
    /\ out = [p \in Procs |-> NoResult]
    /\ sent = {}
    /\ last = [n \in Dsts |-> NoPacket]

(* The call of p returns r; its buffers are freed. *)
Return(p, r) ==
    /\ pc' = [pc EXCEPT ![p] = "idle"]
    /\ dst' = [dst EXCEPT ![p] = NodeOf[p]]
    /\ pkt' = [pkt EXCEPT ![p] = EmptyBlock(NodeOf[p])]
    /\ piece' = [piece EXCEPT ![p] = 0]
    /\ out' = [out EXCEPT ![p] = r]

SendResult(res) == [call |-> "send", res |-> res]
RecvResult(res) == [call |-> "recv", res |-> res]
Received(src, data) == [call |-> "recv", res |-> "OK", src |-> src, data |-> data]

-----------------------------------------------------------------------------
(* eob_device_send *)

(* Mutant: the packet carries the address of its destination. *)
eob_device_send_dst(p) ==
    \E n \in Dsts, m \in Messages :
        /\ pc[p] = "idle"
        /\ Len(m) <= VirtCells
        /\ pc' = [pc EXCEPT ![p] = "write"]
        /\ dst' = [dst EXCEPT ![p] = n]
        /\ pkt' = [pkt EXCEPT ![p] = Packet(n, m)]
        /\ sent' = sent \cup {<<NodeOf[p], n, m>>}
        /\ out' = [out EXCEPT ![p] = NoResult]
        /\ UNCHANGED <<block, piece, last>>

(* The length is held against the block, not against the room for data. *)
eob_device_send(p) ==
    \E n \in Dsts, m \in Messages :
        /\ pc[p] = "idle"
        /\ Len(m) <= VirtCells
        /\ pc' = [pc EXCEPT ![p] = "write"]
        /\ dst' = [dst EXCEPT ![p] = n]
        /\ pkt' = [pkt EXCEPT ![p] = Packet(NodeOf[p], m)]
        /\ sent' = sent \cup {<<NodeOf[p], n, m>>}
        /\ out' = [out EXCEPT ![p] = NoResult]
        /\ UNCHANGED <<block, piece, last>>

eob_device_send_2big(p) ==
    \E m \in Messages :
        /\ pc[p] = "idle"
        /\ Len(m) > VirtCells
        /\ Return(p, SendResult("2BIG"))
        /\ UNCHANGED <<block, sent, last>>

(* Data that runs past the tail runs past the packet on the stack, which may
   end the process instead. *)
eob_device_send_overrun(p) ==
    \E m \in Messages :
        /\ pc[p] = "idle"
        /\ Len(m) > TailCell
        /\ Len(m) <= VirtCells
        /\ Return(p, SendResult("abort"))
        /\ UNCHANGED <<block, sent, last>>

(* eob_buff_write_impl: one piece of pwritev. *)
WritePiece(p) ==
    /\ pc[p] = "write"
    /\ block' = [block EXCEPT ![dst[p]] = Transfer(piece[p], pkt[p], @)]
    /\ \/ /\ piece[p] < LastPiece
          /\ piece' = [piece EXCEPT ![p] = @ + 1]
          /\ last' = [last EXCEPT ![dst[p]] = NoPacket]
          /\ UNCHANGED <<pc, dst, pkt, out>>
       \/ /\ piece[p] = LastPiece
          /\ Return(p, SendResult("OK"))
          /\ last' = [last EXCEPT ![dst[p]] = pkt[p]]
    /\ UNCHANGED sent

(* pwritev stops before the end: an error, or a short write, which
   eob_buff_write_impl does not tell from a complete one. *)
WriteStops(p) ==
    /\ Faults
    /\ pc[p] = "write"
    /\ \E res \in {"IO", "OK"} : Return(p, SendResult(res))
    /\ last' = [last EXCEPT ![dst[p]] = NoPacket]
    /\ UNCHANGED <<block, sent>>

-----------------------------------------------------------------------------
(* eob_device_recv *)

eob_device_recv(p) ==
    /\ pc[p] = "idle"
    /\ pc' = [pc EXCEPT ![p] = "read"]
    /\ out' = [out EXCEPT ![p] = NoResult]
    /\ UNCHANGED <<block, dst, pkt, piece, sent, last>>

(* Mutant: one piece too many. *)
ReadPiece_past(p) ==
    /\ pc[p] = "read"
    /\ pkt' = [pkt EXCEPT ![p] = Transfer(piece[p], block[NodeOf[p]], @)]
    /\ piece' = [piece EXCEPT ![p] = @ + 1]
    /\ pc' = [pc EXCEPT ![p] = IF piece[p] = LastPiece THEN "decode" ELSE "read"]
    /\ UNCHANGED <<block, dst, out, sent, last>>

(* eob_buff_read_impl: one piece of preadv, from the block of the own node. *)
ReadPiece(p) ==
    /\ pc[p] = "read"
    /\ pkt' = [pkt EXCEPT ![p] = Transfer(piece[p], block[NodeOf[p]], @)]
    /\ \/ /\ piece[p] < LastPiece
          /\ piece' = [piece EXCEPT ![p] = @ + 1]
          /\ UNCHANGED pc
       \/ /\ piece[p] = LastPiece
          /\ pc' = [pc EXCEPT ![p] = "decode"]
          /\ UNCHANGED piece
    /\ UNCHANGED <<block, dst, out, sent, last>>

(* preadv ends early, the end of the device is inside the block.  The buffer
   is as long as what was read; eob_device_recv looks past its end. *)
ReadShort(p) ==
    /\ Faults
    /\ pc[p] = "read"
    /\ PieceOf[HeadCell] < piece[p]
    /\ pc' = [pc EXCEPT ![p] = "decode"]
    /\ pkt' = [pkt EXCEPT ![p] = CutShort(piece[p], @)]
    /\ UNCHANGED <<block, dst, piece, out, sent, last>>

(* preadv fails, the block is past the end of the device (a read of no bytes
   ends in the VERIFY of eob_iovec_alloc_wait), or the device ends inside a
   physical block (the VERIFY of eob_buff_map_phys_to_data). *)
ReadFails(p) ==
    /\ Faults
    /\ pc[p] = "read"
    /\ \E res \in {"IO", "abort"} : Return(p, RecvResult(res))
    /\ UNCHANGED <<block, sent, last>>

(* Mutant: the source address is that of the device itself. *)
Decode_own(p) ==
    /\ pc[p] = "decode"
    /\ Return(p, IF DecodeResult(pkt[p]) = "OK"
                 THEN Received(NodeOf[p], Data(pkt[p]))
                 ELSE RecvResult(DecodeResult(pkt[p])))
    /\ UNCHANGED <<block, sent, last>>

(* The head's length says where the data ends; only the data is under the
   checksum. *)
Decode(p) ==
    /\ pc[p] = "decode"
    /\ Return(p, IF DecodeResult(pkt[p]) = "OK"
                 THEN Received(pkt[p].head.src, Data(pkt[p]))
                 ELSE RecvResult(DecodeResult(pkt[p])))
    /\ UNCHANGED <<block, sent, last>>

-----------------------------------------------------------------------------
Send(p) == eob_device_send(p) \/ eob_device_send_2big(p)
           \/ eob_device_send_overrun(p) \/ WritePiece(p) \/ WriteStops(p)

Recv(p) == eob_device_recv(p) \/ ReadPiece(p) \/ ReadShort(p) \/ ReadFails(p)
           \/ Decode(p)

Next == (\E p \in Senders : Send(p)) \/ (\E p \in Receivers : Recv(p))

Spec == Init /\ [][Next]_vars

-----------------------------------------------------------------------------
(* Properties *)

(* What a block holds for its reader. *)
Contents(b) == IF b.head.len = 0 THEN <<>> ELSE <<b.head.src, Data(b)>>

Block == [head : [src : Nodes, len : 0 .. VirtCells],
          data : [1 .. Cap -> DataUnits],
          tail : CellValues]

Results ==
    [call : {"none", "send", "recv"}, res : {"OK", "2BIG", "IO", "CHKSUM", "abort"}]
    \cup [call : {"recv"}, res : {"OK"}, src : Nodes, data : Seq(CellValues)]

(* Every variable has the type of what it models. *)
TypeOK ==
    /\ block \in [Dsts -> Block]
    /\ pc \in [Procs -> {"idle", "write", "read", "decode"}]
    /\ dst \in [Procs -> Nodes]
    /\ pkt \in [Procs -> Block]
    /\ piece \in [Procs -> Pieces]
    /\ out \in [Procs -> Results]
    /\ sent \subseteq Nodes \X Dsts \X Messages
    /\ last \in [Dsts -> Block \cup {NoPacket}]

Delivered(p) == out[p].call = "recv" /\ out[p].res = "OK"

(* Data that eob_device_recv returns is, to the last cell, data that some
   process sent to this node: the checksum keeps torn, mixed, cut short and
   overlong packets from being delivered, whatever the block is made of. *)
RecvIntegrity ==
    \A p \in Procs :
        Delivered(p) =>
            \E s \in sent : s[2] = NodeOf[p] /\ s[3] = out[p].data

(* The source address that eob_device_recv reports is that of a process that
   sent this very data to this node.  Holds if a block is transferred in one
   piece; the head is outside the checksum. *)
RecvAuthentic ==
    \A p \in Procs :
        Delivered(p) => <<out[p].src, NodeOf[p], out[p].data>> \in sent

(* When nobody writes to a node, the last packet whose send returned 0 (and
   was not a short write) is in its block and can be received. *)
QuietMailboxHoldsLast ==
    \A n \in Dsts :
        /\ last[n] # NoPacket
        /\ \A p \in Procs : pc[p] = "write" => dst[p] # n
        => block[n] = last[n] /\ DecodeResult(block[n]) = "OK"

(* With blocks transferred in one piece, a mailbox is a register: receiving
   returns the packet written last, and never a checksum error. *)
Postbox == INSTANCE EobPostbox
    WITH slot <- [n \in Dsts |-> Contents(block[n])],
         got <- [p \in Receivers |->
                    IF pc[p] = "decode" THEN {Contents(pkt[p])} ELSE {}],
         reply <- [p \in Receivers |-> out[p]]

ImplementsPostbox == Postbox!PSpec
=============================================================================

------------------------------ MODULE FTunnel ------------------------------
(***************************************************************************)
(* eoblock.py: two nodes tunnel packets through one shared file.  Each     *)
(* node runs three processes: loop_gen_disk_events polls the node's region *)
(* of the file, loop_gen_iface_events reads the tun interface, main_loop   *)
(* takes the events of both from a queue.                                  *)
(*                                                                         *)
(* The file is a sequence of 512-byte cells, what one os.read returns.  A  *)
(* cell is the i-th of a packet, or zeros.  Opening with mode "w+b"        *)
(* truncates the file; a write past the end fills the gap with zeros.  A   *)
(* read and a write are atomic, an open and the write after it are two     *)
(* steps.  The crc is ideal: it fits a packet whose cells are all its own. *)
(***************************************************************************)
EXTENDS Naturals, Sequences

CONSTANTS
    MAX_PKT_LEN,  \* cells of a node's region
    Sizes         \* Sizes[n][k]: cells of the k-th packet of node n's interface

Nodes == {1, 2}
Peer(n) == 3 - n

ASSUME TunnelSizes ==
    /\ MAX_PKT_LEN \in Nat \ {0}
    /\ \A n \in Nodes : Sizes[n] \in Seq(1 .. MAX_PKT_LEN)

VARIABLES
    file,        \* the shared file
    read_count,  \* packets the iface loop of each node has read from tun
    iface_q,     \* events 'iface' of each node's queue
    disk_q,      \* events 'disk' of each node's queue: one process puts each
                 \* kind, and the queue keeps the order of one process only
    disk,        \* the disk loop: where it is, and d or the packet found
    main,        \* the main loop: where it is, and the packet in hand
    tun          \* what was written to the interface of each node

vars == <<file, read_count, iface_q, disk_q, disk, main, tun>>

my_offset(n) == IF n = 1 THEN 0 ELSE MAX_PKT_LEN
f_offset(n) == my_offset(Peer(n))

Zero == <<0, 0>>

empty_pkt == [i \in 1 .. MAX_PKT_LEN |-> Zero]

(* The k-th packet of node n, as epkt.build makes it. *)
build(n, k) == [i \in 1 .. Sizes[n][k] |-> <<k, i>>]

(* Mutant: the crc is not looked at. *)
parse_raw_trusting(n, d) ==
    IF /\ d # <<>> /\ Head(d)[2] = 1
       /\ Len(d) >= Sizes[Peer(n)][Head(d)[1]]
    THEN SubSeq(d, 1, Sizes[Peer(n)][Head(d)[1]])
    ELSE <<>>

(* The packet d starts with, or nothing: its length is in the first cell. *)
parse_raw(n, d) ==
    IF /\ d # <<>> /\ Head(d)[2] = 1
       /\ Len(d) >= Sizes[Peer(n)][Head(d)[1]]
       /\ SubSeq(d, 1, Sizes[Peer(n)][Head(d)[1]]) = build(Peer(n), Head(d)[1])
    THEN build(Peer(n), Head(d)[1])
    ELSE <<>>

(* fd.seek(offset); fd.write(data) *)
Overlay(f, offset, data) ==
    LET end == offset + Len(data) IN
    [i \in 1 .. (IF Len(f) > end THEN Len(f) ELSE end) |->
        IF i > offset /\ i <= end THEN data[i - offset]
        ELSE IF i <= Len(f) THEN f[i] ELSE Zero]

Init ==
    /\ file \in {<<>>, empty_pkt \o empty_pkt}
    /\ read_count = [n \in Nodes |-> 0]
    /\ iface_q = [n \in Nodes |-> <<>>]
    /\ disk_q = [n \in Nodes |-> <<>>]
    /\ disk = [n \in Nodes |-> [at |-> "open", d |-> <<>>]]
    /\ main = [n \in Nodes |-> [at |-> "get", packet |-> <<>>]]
    /\ tun = [n \in Nodes |-> <<>>]

-----------------------------------------------------------------------------
(* loop_gen_iface_events *)

IfaceEvent(n) ==
    /\ read_count[n] < Len(Sizes[n])
    /\ read_count' = [read_count EXCEPT ![n] = @ + 1]
    /\ iface_q' = [iface_q EXCEPT ![n] = Append(@, build(n, read_count[n] + 1))]
    /\ UNCHANGED <<file, disk_q, disk, main, tun>>

-----------------------------------------------------------------------------
(* loop_gen_disk_events, and __write_ack at its end *)

DiskOnly == UNCHANGED <<read_count, iface_q, main, tun>>

DiskOpen(n) ==
    /\ disk[n].at = "open"
    /\ disk' = [disk EXCEPT ![n] = [at |-> "read", d |-> <<>>]]
    /\ DiskOnly /\ UNCHANGED <<file, disk_q>>

(* Mutant: the packet is looked for when the whole region was read. *)
DiskRead_whole(n) ==
    LET d == Append(disk[n].d, file[my_offset(n) + Len(disk[n].d) + 1]) IN
    /\ disk[n].at = "read"
    /\ my_offset(n) + Len(disk[n].d) < Len(file)
    /\ disk' = [disk EXCEPT ![n] =
          IF Len(d) < MAX_PKT_LEN THEN [@ EXCEPT !.d = d]
          ELSE IF parse_raw(n, d) # <<>> THEN [at |-> "put", d |-> parse_raw(n, d)]
          ELSE [at |-> "open", d |-> <<>>]]
    /\ DiskOnly /\ UNCHANGED <<file, disk_q>>

(* One os.read and parse_raw.  At the end of the file os.read returns nothing
   and the loop turns without a change. *)
DiskRead(n) ==
    LET d == Append(disk[n].d, file[my_offset(n) + Len(disk[n].d) + 1]) IN
    /\ disk[n].at = "read"
    /\ my_offset(n) + Len(disk[n].d) < Len(file)
    /\ disk' = [disk EXCEPT ![n] =
          IF parse_raw(n, d) # <<>> THEN [at |-> "put", d |-> parse_raw(n, d)]
          ELSE IF Len(d) < MAX_PKT_LEN THEN [@ EXCEPT !.d = d]
          ELSE [at |-> "open", d |-> <<>>]]
    /\ DiskOnly /\ UNCHANGED <<file, disk_q>>

(* Mutant: the packet is not acknowledged. *)
DiskPut_unacked(n) ==
    /\ disk[n].at = "put"
    /\ disk_q' = [disk_q EXCEPT ![n] = Append(@, disk[n].d)]
    /\ disk' = [disk EXCEPT ![n] = [at |-> "open", d |-> <<>>]]
    /\ DiskOnly /\ UNCHANGED file

DiskPut(n) ==
    /\ disk[n].at = "put"
    /\ disk_q' = [disk_q EXCEPT ![n] = Append(@, disk[n].d)]
    /\ disk' = [disk EXCEPT ![n] = [at |-> "ack_open", d |-> <<>>]]
    /\ DiskOnly /\ UNCHANGED file

AckOpen(n) ==
    /\ disk[n].at = "ack_open"
    /\ file' = <<>>
    /\ disk' = [disk EXCEPT ![n].at = "ack_write"]
    /\ DiskOnly /\ UNCHANGED disk_q

AckWrite(n) ==
    /\ disk[n].at = "ack_write"
    /\ file' = Overlay(file, my_offset(n), empty_pkt)
    /\ disk' = [disk EXCEPT ![n].at = "open"]
    /\ DiskOnly /\ UNCHANGED disk_q

-----------------------------------------------------------------------------
(* main_loop *)

MainOnly == UNCHANGED <<read_count, disk>>

(* An event 'disk': the packet goes to the interface. *)
MainDisk(n) ==
    /\ main[n].at = "get" /\ disk_q[n] # <<>>
    /\ tun' = [tun EXCEPT ![n] = Append(@, Head(disk_q[n]))]
    /\ disk_q' = [disk_q EXCEPT ![n] = Tail(@)]
    /\ MainOnly /\ UNCHANGED <<file, iface_q, main>>

(* An event 'iface': the packet goes to the peer's region of the file. *)
MainIface(n) ==
    /\ main[n].at = "get" /\ iface_q[n] # <<>>
    /\ main' = [main EXCEPT ![n] = [at |-> "write", packet |-> Head(iface_q[n])]]
    /\ iface_q' = [iface_q EXCEPT ![n] = Tail(@)]
    /\ file' = <<>>
    /\ MainOnly /\ UNCHANGED <<disk_q, tun>>

MainWrite(n) ==
    /\ main[n].at = "write"
    /\ file' = Overlay(file, f_offset(n), main[n].packet)
    /\ main' = [main EXCEPT ![n] = [at |-> "get", packet |-> <<>>]]
    /\ MainOnly /\ UNCHANGED <<iface_q, disk_q, tun>>

-----------------------------------------------------------------------------

DiskStep(n) ==
    DiskOpen(n) \/ DiskRead(n) \/ DiskPut(n) \/ AckOpen(n) \/ AckWrite(n)

MainStep(n) == MainDisk(n) \/ MainIface(n) \/ MainWrite(n)

Next == \E n \in Nodes : IfaceEvent(n) \/ DiskStep(n) \/ MainStep(n)

Spec == Init /\ [][Next]_vars

(* The operating system runs the processes of both nodes, and the queue of a
   node is served in the order the events arrive: no kind waits for ever. *)
FairSpec ==
    /\ Spec
    /\ \A n \in Nodes :
          /\ WF_vars(DiskStep(n)) /\ WF_vars(MainWrite(n))
          /\ SF_vars(MainDisk(n)) /\ SF_vars(MainIface(n))

-----------------------------------------------------------------------------
(* Types.  The disk loop never holds more than a region. *)
Cells == {Zero} \cup ((Nat \ {0}) \X (1 .. MAX_PKT_LEN))

Packets(n) == {build(n, k) : k \in 1 .. Len(Sizes[n])}

TypeOK ==
    /\ file \in Seq(Cells) /\ Len(file) <= 2 * MAX_PKT_LEN
    /\ read_count \in [Nodes -> Nat]
    /\ iface_q \in [Nodes -> Seq(Seq(Cells))]
    /\ disk_q \in [Nodes -> Seq(Seq(Cells))]
    /\ disk \in [Nodes -> [at : {"open", "read", "put", "ack_open", "ack_write"},
                           d : Seq(Cells)]]
    /\ main \in [Nodes -> [at : {"get", "write"}, packet : Seq(Cells)]]
    /\ tun \in [Nodes -> Seq(Seq(Cells))]
    /\ \A n \in Nodes :
          /\ read_count[n] <= Len(Sizes[n]) /\ Len(disk[n].d) <= MAX_PKT_LEN
          /\ iface_q[n] \in Seq(Packets(n)) /\ disk_q[n] \in Seq(Packets(Peer(n)))
          /\ main[n].packet \in Packets(n) \cup {<<>>}
          /\ tun[n] \in Seq(Packets(Peer(n)))

(* The tunnel implements the lossy link: whatever the loops of both nodes do
   to the file, a node's interface is given packets of the peer only, whole,
   each at most once and in the order the peer's interface had them. *)
Link == INSTANCE LossyLink WITH sent <- read_count, got <- tun, Message <- build

ImplementsLossyLink == Link!LinkSpec

(* The k-th packet of the peer is complete in the region of node n. *)
InRegion(n, k) ==
    LET p == build(Peer(n), k) IN
    /\ my_offset(n) + Len(p) <= Len(file)
    /\ SubSeq(file, my_offset(n) + 1, my_offset(n) + Len(p)) = p

Delivered(n, k) == \E j \in 1 .. Len(tun[n]) : tun[n][j] = build(Peer(n), k)

(* Neither in the file nor on its way to the interface. *)
Gone(n, k) ==
    LET p == build(Peer(n), k) IN
    /\ ~InRegion(n, k)
    /\ disk[n].d # p
    /\ \A j \in 1 .. Len(disk_q[n]) : disk_q[n][j] # p
    /\ ~Delivered(n, k)

(* A packet that is in the region when the disk loop starts to read it is
   written to the interface, unless one of the truncating opens takes it out
   of the file first.  A loop that has read past the start may wait at the end
   of the file for ever (loop_gen_disk_events ends on a packet or on
   MAX_PKT_LEN bytes only), so this is all that can be promised. *)
FreshReaderDelivers ==
    \A n \in Nodes : \A k \in 1 .. Len(Sizes[Peer(n)]) :
        (InRegion(n, k) /\ disk[n].at = "read" /\ disk[n].d = <<>>)
            ~> (Delivered(n, k) \/ Gone(n, k))
=============================================================================

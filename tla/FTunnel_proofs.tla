--------------------------- MODULE FTunnel_proofs ---------------------------
(***************************************************************************)
(* Proofs about FTunnel, for any region size and any packets.              *)
(***************************************************************************)
EXTENDS FTunnel, SequenceTheorems, TLAPS

-----------------------------------------------------------------------------
(* The inductive invariant *)

(* How many packets of its interface the main loop of node n has taken, and how
   many it has written to the file. *)
Taken(n) == read_count[n] - Len(iface_q[n])
Done(n) == IF main[n].at = "write" THEN Taken(n) - 1 ELSE Taken(n)

(* The queue between the interface and the main loop keeps the packets in
   order; the one in hand was taken last. *)
QueueInv(n) ==
    /\ Len(iface_q[n]) <= read_count[n]
    /\ \A j \in 1 .. Len(iface_q[n]) : iface_q[n][j] = build(n, Taken(n) + j)
    /\ main[n].at = "write" => Taken(n) >= 1 /\ main[n].packet = build(n, Taken(n))
    /\ main[n].at = "get" => main[n].packet = <<>>

(* The number of a packet, in its first cell. *)
Number(p) == p[1][1]

(* Later than everything the disk loop of node n has found so far. *)
Fresh(n, k) ==
    /\ \A j \in 1 .. Len(tun[n]) : Number(tun[n][j]) < k
    /\ \A j \in 1 .. Len(disk_q[n]) : Number(disk_q[n][j]) < k

(* A packet the peer of node n has written to the file. *)
Written(n, p) ==
    Number(p) \in 1 .. Done(Peer(n)) /\ p = build(Peer(n), Number(p))

(* A cell of the region of node n is zero or was written by the peer, *)
Known(n, c) == c = Zero \/ c[1] \in 1 .. Done(Peer(n))

(* and a cell the disk loop may still make a packet of is not of an old one. *)
New(n, c) == c = Zero \/ Fresh(n, c[1])

Region(n) == {i \in 1 .. Len(file) : i > my_offset(n) /\ i <= my_offset(n) + MAX_PKT_LEN}

RegionInv(n) ==
    /\ \A i \in Region(n) : Known(n, file[i])
    /\ disk[n].at \in {"open", "read"} => \A i \in Region(n) : New(n, file[i])

LoopInv(n) ==
    /\ \A i \in 1 .. Len(disk[n].d) : Known(n, disk[n].d[i])
    /\ disk[n].at = "read" =>
          /\ Len(disk[n].d) < MAX_PKT_LEN
          /\ \A i \in 1 .. Len(disk[n].d) : New(n, disk[n].d[i])
    /\ disk[n].at = "put" =>
          Written(n, disk[n].d) /\ Fresh(n, Number(disk[n].d))
    /\ disk[n].at \notin {"read", "put"} => disk[n].d = <<>>

(* What was found is what the peer wrote, in its order. *)
FoundInv(n) ==
    /\ \A j \in 1 .. Len(tun[n]) : Written(n, tun[n][j])
    /\ \A j \in 1 .. Len(disk_q[n]) : Written(n, disk_q[n][j])
    /\ \A i \in 1 .. Len(tun[n]), j \in 1 .. Len(disk_q[n]) :
          Number(tun[n][i]) < Number(disk_q[n][j])
    /\ \A i, j \in 1 .. Len(disk_q[n]) :
          i < j => Number(disk_q[n][i]) < Number(disk_q[n][j])

(* The variables are functions of the nodes, of the right kind. *)
Shape ==
    /\ file \in Seq(Cells) /\ Len(file) <= 2 * MAX_PKT_LEN
    /\ read_count \in [Nodes -> Nat]
    /\ iface_q \in [Nodes -> Seq(Seq(Cells))]
    /\ disk_q \in [Nodes -> Seq(Seq(Cells))]
    /\ disk \in [Nodes -> [at : {"open", "read", "put", "ack_open", "ack_write"},
                           d : Seq(Cells)]]
    /\ main \in [Nodes -> [at : {"get", "write"}, packet : Seq(Cells)]]
    /\ tun \in [Nodes -> Seq(Seq(Cells))]
    /\ \A n \in Nodes : read_count[n] <= Len(Sizes[n])

TunnelInv ==
    /\ Shape
    /\ \A n \in Nodes : QueueInv(n) /\ RegionInv(n) /\ LoopInv(n) /\ FoundInv(n)

-----------------------------------------------------------------------------
(* Nodes, sizes, packets and the file *)

LEMMA NodeFacts ==
    /\ MAX_PKT_LEN \in Nat /\ MAX_PKT_LEN >= 1
    /\ \A n \in Nodes :
          /\ Peer(n) \in Nodes /\ Peer(Peer(n)) = n /\ Peer(n) # n
          /\ \A m \in Nodes : m = n \/ m = Peer(n)
          /\ my_offset(n) \in {0, MAX_PKT_LEN}
          /\ my_offset(Peer(n)) = MAX_PKT_LEN - my_offset(n)
          /\ f_offset(n) = my_offset(Peer(n))
  BY TunnelSizes DEF Nodes, Peer, my_offset, f_offset

LEMMA SizeFacts ==
    ASSUME NEW n \in Nodes
    PROVE  /\ Len(Sizes[n]) \in Nat
           /\ \A k \in 1 .. Len(Sizes[n]) : Sizes[n][k] \in 1 .. MAX_PKT_LEN
  BY TunnelSizes

LEMMA BuildFacts ==
    ASSUME NEW n \in Nodes, NEW k \in 1 .. Len(Sizes[n])
    PROVE  /\ build(n, k) \in Seq(Cells) /\ Len(build(n, k)) = Sizes[n][k]
           /\ Len(build(n, k)) \in 1 .. MAX_PKT_LEN
           /\ \A i \in 1 .. Len(build(n, k)) : build(n, k)[i] = <<k, i>>
           /\ Number(build(n, k)) = k /\ build(n, k) # <<>>
           /\ build(n, k) \in Packets(n)
<1>1. Sizes[n][k] \in 1 .. MAX_PKT_LEN /\ MAX_PKT_LEN \in Nat
  BY SizeFacts, NodeFacts
<1>4. \A i \in 1 .. Sizes[n][k] : <<k, i>> \in Cells
  <2> TAKE i \in 1 .. Sizes[n][k]
  <2>1. i \in 1 .. MAX_PKT_LEN
    BY <1>1
  <2>2. k \in Nat \ {0}
    OBVIOUS
  <2> QED
    BY <2>1, <2>2 DEF Cells
<1>5. build(n, k) \in [1 .. Sizes[n][k] -> Cells]
  BY <1>4 DEF build
<1>6. build(n, k) \in Seq(Cells) /\ Len(build(n, k)) = Sizes[n][k]
  BY <1>1, <1>5, LenProperties
<1>7. \A i \in 1 .. Sizes[n][k] : build(n, k)[i] = <<k, i>>
  BY DEF build
<1>8. build(n, k)[1] = <<k, 1>>
  BY <1>1, <1>7
<1> QED
  BY <1>1, <1>6, <1>7, <1>8 DEF Number, Packets

(* A sequence is one of whatever its elements are. *)
LEMMA SeqOfElements ==
    ASSUME NEW S, NEW T, NEW s \in Seq(S), \A j \in 1 .. Len(s) : s[j] \in T
    PROVE  s \in Seq(T)
<1>1. Len(s) \in Nat /\ s \in [1 .. Len(s) -> S]
  BY LenProperties
<1>2. s \in [1 .. Len(s) -> T]
  BY <1>1
<1> QED
  BY <1>1, <1>2, SeqDef

LEMMA CellFacts ==
    /\ Zero \in Cells /\ Zero[1] = 0 /\ Zero[2] = 0
    /\ \A c \in Cells : c # Zero => c[1] \in Nat \ {0}
    /\ empty_pkt \in Seq(Cells) /\ Len(empty_pkt) = MAX_PKT_LEN
    /\ \A i \in 1 .. MAX_PKT_LEN : empty_pkt[i] = Zero
<1>1. Zero \in Cells /\ Zero[1] = 0 /\ Zero[2] = 0
  BY DEF Zero, Cells
<1>2. \A c \in Cells : c # Zero => c[1] \in Nat \ {0}
  BY DEF Cells
<1>3. empty_pkt \in [1 .. MAX_PKT_LEN -> Cells]
  BY <1>1 DEF empty_pkt
<1>4. empty_pkt \in Seq(Cells) /\ Len(empty_pkt) = MAX_PKT_LEN
  BY <1>3, NodeFacts, LenProperties
<1> QED
  BY <1>1, <1>2, <1>4 DEF empty_pkt

(* The file g after data was written at off: the data, or what was there. *)
Overlaid(f, off, data, g) ==
    /\ g \in Seq(Cells) /\ Len(g) \in Nat /\ Len(g) <= 2 * MAX_PKT_LEN
    /\ \A i \in 1 .. Len(g) :
          \/ i > off /\ i <= off + Len(data) /\ g[i] = data[i - off]
          \/ /\ ~(i > off /\ i <= off + Len(data))
             /\ g[i] = Zero \/ (i \in 1 .. Len(f) /\ g[i] = f[i])

(* A write at the start of a region. *)
LEMMA OverlayFacts ==
    ASSUME NEW f \in Seq(Cells), Len(f) <= 2 * MAX_PKT_LEN,
           NEW data \in Seq(Cells), Len(data) <= MAX_PKT_LEN,
           NEW off \in {0, MAX_PKT_LEN}
    PROVE  Overlaid(f, off, data, Overlay(f, off, data))
<1>g. PICK g : g = Overlay(f, off, data)
  OBVIOUS
<1> DEFINE end == off + Len(data)
           n == IF Len(f) > end THEN Len(f) ELSE end
<1>1. /\ Len(f) \in Nat /\ Len(data) \in Nat /\ off \in Nat /\ MAX_PKT_LEN \in Nat
      /\ end \in Nat /\ n \in Nat /\ n <= 2 * MAX_PKT_LEN
  BY NodeFacts, LenProperties
<1>2. g = [i \in 1 .. n |-> IF i > off /\ i <= end THEN data[i - off]
                           ELSE IF i <= Len(f) THEN f[i] ELSE Zero]
  BY <1>g DEF Overlay
<1>3. ASSUME NEW i \in 1 .. n
      PROVE  /\ g[i] \in Cells
             /\ \/ i > off /\ i <= end /\ g[i] = data[i - off]
                \/ /\ ~(i > off /\ i <= end)
                   /\ g[i] = Zero \/ (i \in 1 .. Len(f) /\ g[i] = f[i])
  <2>1. i > off /\ i <= end => i - off \in 1 .. Len(data)
    BY <1>1, <1>3
  <2>2. i <= Len(f) => i \in 1 .. Len(f)
    BY <1>1, <1>3
  <2>3. /\ \A j \in 1 .. Len(data) : data[j] \in Cells
        /\ \A j \in 1 .. Len(f) : f[j] \in Cells
    BY ElementOfSeq
  <2>4. g[i] = IF i > off /\ i <= end THEN data[i - off]
               ELSE IF i <= Len(f) THEN f[i] ELSE Zero
    BY <1>2, <1>3
  <2> HIDE DEF end, n
  <2> QED
    BY <2>1, <2>2, <2>3, <2>4, CellFacts
<1> HIDE DEF n, end
<1>4. g \in [1 .. n -> Cells]
  BY <1>2, <1>3
<1>5. g \in Seq(Cells) /\ Len(g) = n
  BY <1>1, <1>4, LenProperties
<1>6. \A i \in 1 .. Len(g) :
         \/ i > off /\ i <= end /\ g[i] = data[i - off]
         \/ /\ ~(i > off /\ i <= end)
            /\ g[i] = Zero \/ (i \in 1 .. Len(f) /\ g[i] = f[i])
  BY <1>3, <1>5
<1> QED
  BY <1>g, <1>1, <1>5, <1>6 DEF n, end, Overlaid

-----------------------------------------------------------------------------
(* Counts *)

LEMMA Counts ==
    ASSUME TunnelInv, NEW n \in Nodes
    PROVE  /\ Taken(n) \in Nat /\ Done(n) \in Nat /\ Done(n) <= Taken(n)
           /\ Taken(n) <= read_count[n] /\ read_count[n] \in 0 .. Len(Sizes[n])
           /\ Len(Sizes[n]) \in Nat /\ Len(iface_q[n]) \in Nat
           /\ main[n].at = "write" => Taken(n) \in 1 .. Len(Sizes[n]) /\ Done(n) = Taken(n) - 1
           /\ main[n].at = "get" => Done(n) = Taken(n)
<1>1. /\ Len(iface_q[n]) \in Nat /\ read_count[n] \in Nat /\ Len(Sizes[n]) \in Nat
      /\ read_count[n] <= Len(Sizes[n]) /\ Len(iface_q[n]) <= read_count[n]
      /\ main[n].at \in {"get", "write"}
  BY SizeFacts DEF TunnelInv, Shape, QueueInv
<1>2. main[n].at = "write" => Taken(n) >= 1
  BY DEF TunnelInv, QueueInv
<1> QED
  BY <1>1, <1>2 DEF Taken, Done

(* A packet that was written is a packet of the peer. *)
LEMMA WrittenFacts ==
    ASSUME TunnelInv, NEW n \in Nodes, NEW p, Written(n, p)
    PROVE  /\ Number(p) \in 1 .. Len(Sizes[Peer(n)]) /\ p \in Packets(Peer(n))
           /\ p \in Seq(Cells) /\ Len(p) \in 1 .. MAX_PKT_LEN
           /\ Number(p) \in 1 .. read_count[Peer(n)]
           /\ \A i \in 1 .. Len(p) : p[i][1] = Number(p)
<1>1. Peer(n) \in Nodes
  BY NodeFacts
<1>2. Number(p) \in 1 .. Done(Peer(n)) /\ p = build(Peer(n), Number(p))
  BY DEF Written
<1>3. Number(p) \in 1 .. Len(Sizes[Peer(n)]) /\ Number(p) \in 1 .. read_count[Peer(n)]
  BY <1>1, <1>2, Counts
<1> QED
  BY <1>1, <1>2, <1>3, BuildFacts

(* The invariant gives the types. *)
LEMMA TunnelTypes == TunnelInv => TypeOK
<1> SUFFICES ASSUME TunnelInv PROVE TypeOK
  OBVIOUS
<1>1. ASSUME NEW n \in Nodes
      PROVE  /\ read_count[n] <= Len(Sizes[n]) /\ Len(disk[n].d) <= MAX_PKT_LEN
             /\ iface_q[n] \in Seq(Packets(n)) /\ disk_q[n] \in Seq(Packets(Peer(n)))
             /\ main[n].packet \in Packets(n) \cup {<<>>}
             /\ tun[n] \in Seq(Packets(Peer(n)))
  <2>1. iface_q[n] \in Seq(Packets(n))
    <3>1. \A j \in 1 .. Len(iface_q[n]) : iface_q[n][j] \in Packets(n)
      <4> TAKE j \in 1 .. Len(iface_q[n])
      <4>1. Taken(n) + j \in 1 .. Len(Sizes[n])
        BY Counts DEF Taken
      <4> QED
        BY <4>1, BuildFacts DEF TunnelInv, QueueInv
    <3>2. iface_q[n] \in Seq(Seq(Cells))
      BY DEF TunnelInv, Shape
    <3> QED
      BY <3>1, <3>2, SeqOfElements
  <2>2. disk_q[n] \in Seq(Packets(Peer(n)))
    <3>1. \A j \in 1 .. Len(disk_q[n]) : disk_q[n][j] \in Packets(Peer(n))
      BY WrittenFacts DEF TunnelInv, FoundInv
    <3>2. disk_q[n] \in Seq(Seq(Cells))
      BY DEF TunnelInv, Shape
    <3> QED
      BY <3>1, <3>2, SeqOfElements
  <2>3. tun[n] \in Seq(Packets(Peer(n)))
    <3>1. \A j \in 1 .. Len(tun[n]) : tun[n][j] \in Packets(Peer(n))
      BY WrittenFacts DEF TunnelInv, FoundInv
    <3>2. tun[n] \in Seq(Seq(Cells))
      BY DEF TunnelInv, Shape
    <3> QED
      BY <3>1, <3>2, SeqOfElements
  <2>4. main[n].packet \in Packets(n) \cup {<<>>}
    <3>1. main[n].at \in {"get", "write"}
      BY DEF TunnelInv, Shape
    <3> QED
      BY <3>1, Counts, BuildFacts DEF TunnelInv, QueueInv
  <2>5. Len(disk[n].d) <= MAX_PKT_LEN
    <3>1. CASE disk[n].at = "read"
      BY <3>1, NodeFacts DEF TunnelInv, Shape, LoopInv
    <3>2. CASE disk[n].at = "put"
      BY <3>2, NodeFacts, WrittenFacts DEF TunnelInv, LoopInv
    <3>3. CASE disk[n].at \notin {"read", "put"}
      BY <3>3, NodeFacts DEF TunnelInv, LoopInv
    <3> QED
      BY <3>1, <3>2, <3>3
  <2> QED
    BY <2>1, <2>2, <2>3, <2>4, <2>5 DEF TunnelInv, Shape
<1> QED
  BY <1>1 DEF TunnelInv, Shape, TypeOK

-----------------------------------------------------------------------------
(* What a step leaves alone *)

LEMMA QueueFrame ==
    ASSUME NEW n \in Nodes, QueueInv(n), read_count'[n] = read_count[n],
           iface_q'[n] = iface_q[n], main'[n] = main[n]
    PROVE  QueueInv(n)' /\ Taken(n)' = Taken(n) /\ Done(n)' = Done(n)
  BY DEF QueueInv, Taken, Done

(* What was found stays found, and fresh stays fresh, while nothing is found. *)
LEMMA FoundFrame ==
    ASSUME TunnelInv, NEW n \in Nodes, tun'[n] = tun[n], disk_q'[n] = disk_q[n],
           Done(Peer(n))' \in Nat, Done(Peer(n)) <= Done(Peer(n))'
    PROVE  /\ FoundInv(n)'
           /\ \A p : Written(n, p) => Written(n, p)'
           /\ \A c : Known(n, c) => Known(n, c)'
           /\ \A k : Fresh(n, k) => Fresh(n, k)'
           /\ \A c : New(n, c) => New(n, c)'
<1>1. \A k \in 1 .. Done(Peer(n)) : k \in 1 .. Done(Peer(n))'
  BY NodeFacts, Counts
<1>2. \A p : Written(n, p) => Written(n, p)'
  BY <1>1 DEF Written
<1>3. \A c : Known(n, c) => Known(n, c)'
  BY <1>1 DEF Known
<1>4. \A k : Fresh(n, k) => Fresh(n, k)'
  BY DEF Fresh
<1>5. \A c : New(n, c) => New(n, c)'
  BY <1>4 DEF New
<1>6. FoundInv(n)'
  BY <1>2 DEF TunnelInv, FoundInv
<1> QED
  BY <1>2, <1>3, <1>4, <1>5, <1>6

LEMMA LoopFrame ==
    ASSUME TunnelInv, NEW n \in Nodes, tun'[n] = tun[n], disk_q'[n] = disk_q[n],
           Done(Peer(n))' \in Nat, Done(Peer(n)) <= Done(Peer(n))', disk'[n] = disk[n]
    PROVE  LoopInv(n)'
<1>1. LoopInv(n)
  BY DEF TunnelInv
<1> QED
  BY <1>1, FoundFrame DEF LoopInv

(* The region of n has the cells it had, zeros, or new ones. *)
LEMMA RegionFrame ==
    ASSUME TunnelInv, NEW n \in Nodes, tun'[n] = tun[n], disk_q'[n] = disk_q[n],
           Done(Peer(n))' \in Nat, Done(Peer(n)) <= Done(Peer(n))',
           disk'[n].at \in {"open", "read"} => disk[n].at \in {"open", "read"},
           \A i \in Region(n)' :
              \/ file'[i] = Zero
              \/ i \in Region(n) /\ file'[i] = file[i]
              \/ Known(n, file[i])' /\ New(n, file[i])'
    PROVE  RegionInv(n)'
<1>1. RegionInv(n)
  BY DEF TunnelInv
<1>2. \A i \in Region(n)' : Known(n, file[i])'
  BY <1>1, FoundFrame DEF RegionInv, Known
<1>3. ASSUME disk'[n].at \in {"open", "read"}
      PROVE  \A i \in Region(n)' : New(n, file[i])'
  BY <1>1, <1>3, FoundFrame DEF RegionInv, New
<1> QED
  BY <1>2, <1>3 DEF RegionInv

LEMMA NoRegion ==
    ASSUME file' = <<>>
    PROVE  \A n \in Nodes : Region(n)' = {} /\ RegionInv(n)'
  BY DEF Region, RegionInv

LEMMA TunnelInit == Init => TunnelInv
<1> SUFFICES ASSUME Init PROVE TunnelInv
  OBVIOUS
<1>1. file \in Seq(Cells) /\ Len(file) \in Nat /\ Len(file) <= 2 * MAX_PKT_LEN
  <2>1. CASE file = <<>>
    BY <2>1, NodeFacts
  <2>2. CASE file = empty_pkt \o empty_pkt
    BY <2>2, NodeFacts, CellFacts, ConcatProperties
  <2> QED
    BY <2>1, <2>2 DEF Init
<1>2. \A i \in 1 .. Len(file) : file[i] = Zero
  <2>1. CASE file = <<>>
    BY <2>1
  <2>2. CASE file = empty_pkt \o empty_pkt
    BY <2>2, NodeFacts, CellFacts, ConcatProperties
  <2> QED
    BY <2>1, <2>2 DEF Init
<1>3. Shape
  BY <1>1, SizeFacts DEF Init, Shape
<1>4. \A n \in Nodes : QueueInv(n)
  BY DEF Init, QueueInv, Taken
<1>5. \A n \in Nodes : RegionInv(n)
  BY <1>2 DEF RegionInv, Region, Known, New
<1>6. \A n \in Nodes : LoopInv(n) /\ FoundInv(n)
  BY DEF Init, LoopInv, FoundInv
<1> QED
  BY <1>3, <1>4, <1>5, <1>6 DEF TunnelInv

-----------------------------------------------------------------------------
(* The steps *)

(* The interface loop and the main loop do not disturb the counts of the other
   node, the disk loops none at all. *)
LEMMA CountsStay ==
    ASSUME TunnelInv, UNCHANGED <<read_count, iface_q, main>>
    PROVE  \A n \in Nodes : /\ QueueInv(n)' /\ Done(n)' = Done(n) /\ Taken(n)' = Taken(n)
                            /\ Done(n)' \in Nat /\ Done(n) <= Done(n)'
  BY QueueFrame, Counts DEF TunnelInv

LEMMA IfaceEventStep ==
    ASSUME TunnelInv, NEW a \in Nodes, IfaceEvent(a)
    PROVE  TunnelInv'
<1>1. /\ read_count[a] < Len(Sizes[a]) /\ read_count'[a] = read_count[a] + 1
      /\ iface_q'[a] = Append(iface_q[a], build(a, read_count[a] + 1))
      /\ UNCHANGED <<file, disk_q, disk, main, tun>>
      /\ \A n \in Nodes : n # a => read_count'[n] = read_count[n] /\ iface_q'[n] = iface_q[n]
  BY DEF IfaceEvent, TunnelInv, Shape
<1>2. read_count[a] + 1 \in 1 .. Len(Sizes[a]) /\ iface_q[a] \in Seq(Seq(Cells))
  BY <1>1, Counts DEF TunnelInv, Shape
<1>3. build(a, read_count[a] + 1) \in Seq(Cells)
  BY <1>2, BuildFacts
<1>4. /\ Len(iface_q'[a]) = Len(iface_q[a]) + 1
      /\ iface_q'[a][Len(iface_q[a]) + 1] = build(a, read_count[a] + 1)
      /\ \A j \in 1 .. Len(iface_q[a]) : iface_q'[a][j] = iface_q[a][j]
  BY <1>1, <1>2, <1>3, AppendProperties
<1>5. Taken(a)' = Taken(a) /\ Done(a)' = Done(a)
  BY <1>1, <1>4, Counts DEF Taken, Done
<1>6. QueueInv(a)'
  <2>1. \A j \in 1 .. Len(iface_q'[a]) : iface_q'[a][j] = build(a, Taken(a) + j)
    <3> TAKE j \in 1 .. Len(iface_q'[a])
    <3>1. CASE j \in 1 .. Len(iface_q[a])
      BY <1>4, <3>1 DEF TunnelInv, QueueInv
    <3>2. CASE j = Len(iface_q[a]) + 1
      <4>1. Taken(a) + j = read_count[a] + 1
        BY <3>2, Counts DEF Taken
      <4> QED
        BY <1>4, <3>2, <4>1
    <3> QED
      BY <1>4, <3>1, <3>2, Counts
  <2>2. Len(iface_q'[a]) <= read_count'[a]
    BY <1>1, <1>4, Counts DEF TunnelInv, QueueInv
  <2> QED
    BY <1>1, <1>5, <2>1, <2>2 DEF TunnelInv, QueueInv
<1>7. \A n \in Nodes : QueueInv(n)' /\ Done(n)' = Done(n)
  BY <1>1, <1>5, <1>6, QueueFrame DEF TunnelInv
<1>8. ASSUME NEW n \in Nodes
      PROVE  RegionInv(n)' /\ LoopInv(n)' /\ FoundInv(n)'
  <2>1. Done(Peer(n))' \in Nat /\ Done(Peer(n)) <= Done(Peer(n))'
    BY <1>7, NodeFacts, Counts
  <2>2. Region(n)' = Region(n)
    BY <1>1 DEF Region
  <2> QED
    BY <1>1, <2>1, <2>2, FoundFrame, LoopFrame, RegionFrame
<1>9. Shape'
  <2>1. read_count' \in [Nodes -> Nat] /\ iface_q' \in [Nodes -> Seq(Seq(Cells))]
    BY <1>2, <1>3, AppendProperties DEF IfaceEvent, TunnelInv, Shape
  <2>2. \A n \in Nodes : read_count'[n] <= Len(Sizes[n])
    <3> TAKE n \in Nodes
    <3>1. CASE n = a
      BY <1>1, <1>2, <3>1, Counts
    <3>2. CASE n # a
      BY <1>1, <3>2 DEF TunnelInv, Shape
    <3> QED
      BY <3>1, <3>2
  <2> QED
    BY <1>1, <2>1, <2>2 DEF TunnelInv, Shape
<1> QED
  BY <1>7, <1>8, <1>9 DEF TunnelInv

LEMMA DiskOpenStep ==
    ASSUME TunnelInv, NEW a \in Nodes, DiskOpen(a)
    PROVE  TunnelInv'
<1>1. /\ disk[a].at = "open" /\ disk'[a] = [at |-> "read", d |-> <<>>]
      /\ \A n \in Nodes : n # a => disk'[n] = disk[n]
      /\ UNCHANGED <<file, read_count, iface_q, disk_q, main, tun>>
  BY DEF DiskOpen, DiskOnly, TunnelInv, Shape
<1>2. \A n \in Nodes : QueueInv(n)' /\ Done(Peer(n))' \in Nat /\ Done(Peer(n)) <= Done(Peer(n))'
  BY <1>1, CountsStay, NodeFacts
<1>3. ASSUME NEW n \in Nodes
      PROVE  RegionInv(n)' /\ FoundInv(n)'
  <2>1. Region(n)' = Region(n)
    BY <1>1 DEF Region
  <2> QED
    BY <1>1, <1>2, <2>1, FoundFrame, RegionFrame
<1>4. LoopInv(a)'
  BY <1>1, NodeFacts DEF LoopInv
<1>5. \A n \in Nodes : LoopInv(n)'
  BY <1>1, <1>2, <1>4, LoopFrame
<1>6. Shape'
  <2>1. disk' \in [Nodes -> [at : {"open", "read", "put", "ack_open", "ack_write"}, d : Seq(Cells)]]
    BY DEF DiskOpen, TunnelInv, Shape
  <2> QED
    BY <1>1, <2>1 DEF TunnelInv, Shape
<1> QED
  BY <1>2, <1>3, <1>5, <1>6 DEF TunnelInv

(* A packet parse_raw finds among new cells is one the peer wrote, and later
   than all before. *)
LEMMA ParseFacts ==
    ASSUME TunnelInv, NEW n \in Nodes, NEW d \in Seq(Cells), d # <<>>,
           \A i \in 1 .. Len(d) : Known(n, d[i]) /\ New(n, d[i]),
           parse_raw(n, d) # <<>>
    PROVE  /\ Written(n, parse_raw(n, d)) /\ Fresh(n, Number(parse_raw(n, d)))
           /\ parse_raw(n, d) \in Seq(Cells)
           /\ \A i \in 1 .. Len(parse_raw(n, d)) : Known(n, parse_raw(n, d)[i])
<1> DEFINE k == Head(d)[1]
           p == build(Peer(n), k)
<1>1. Head(d)[2] = 1 /\ parse_raw(n, d) = p
  BY DEF parse_raw
<1>2. Len(d) \in Nat /\ Len(d) >= 1 /\ Head(d) = d[1]
  BY EmptySeq, HeadTailProperties
<1>3. Head(d) # Zero /\ Known(n, Head(d)) /\ New(n, Head(d))
  BY <1>1, <1>2, CellFacts
<1>4. k \in 1 .. Done(Peer(n)) /\ Fresh(n, k)
  BY <1>3 DEF Known, New
<1>5. k \in 1 .. Len(Sizes[Peer(n)]) /\ Peer(n) \in Nodes
  BY <1>4, NodeFacts, Counts
<1> HIDE DEF k
<1>6. /\ Number(p) = k /\ p \in Seq(Cells)
      /\ \A i \in 1 .. Len(p) : p[i] = <<k, i>>
  BY <1>5, BuildFacts
<1>7. \A i \in 1 .. Len(p) : Known(n, p[i])
  BY <1>4, <1>6 DEF Known
<1> QED
  BY <1>1, <1>4, <1>6, <1>7 DEF Written

LEMMA DiskReadStep ==
    ASSUME TunnelInv, NEW a \in Nodes, DiskRead(a)
    PROVE  TunnelInv'
<1> DEFINE c == file[my_offset(a) + Len(disk[a].d) + 1]
           d == Append(disk[a].d, c)
           r == IF parse_raw(a, d) # <<>> THEN [at |-> "put", d |-> parse_raw(a, d)]
                ELSE IF Len(d) < MAX_PKT_LEN THEN [at |-> "read", d |-> d]
                ELSE [at |-> "open", d |-> <<>>]
<1>1. /\ disk[a].at = "read" /\ my_offset(a) + Len(disk[a].d) < Len(file)
      /\ UNCHANGED <<file, read_count, iface_q, disk_q, main, tun>>
  BY DEF DiskRead, DiskOnly
<1>2. /\ disk' = [disk EXCEPT ![a] = r]
      /\ disk'[a] = r /\ \A n \in Nodes : n # a => disk'[n] = disk[n]
  <2>1. disk \in [Nodes -> [at : {"open", "read", "put", "ack_open", "ack_write"}, d : Seq(Cells)]]
    BY DEF TunnelInv, Shape
  <2>2. [disk[a] EXCEPT !.d = d] = [at |-> "read", d |-> d]
    <3>1. disk[a] = [at |-> disk[a].at, d |-> disk[a].d]
      BY <2>1
    <3> HIDE DEF d
    <3> QED
      BY <1>1, <3>1
  <2>3. disk' = [disk EXCEPT ![a] =
          IF parse_raw(a, d) # <<>> THEN [at |-> "put", d |-> parse_raw(a, d)]
          ELSE IF Len(d) < MAX_PKT_LEN THEN [disk[a] EXCEPT !.d = d]
          ELSE [at |-> "open", d |-> <<>>]]
    BY DEF DiskRead
  <2> HIDE DEF d
  <2> QED
    BY <2>1, <2>2, <2>3
<1>3. /\ disk[a].d \in Seq(Cells) /\ Len(disk[a].d) \in Nat /\ Len(disk[a].d) < MAX_PKT_LEN
      /\ file \in Seq(Cells) /\ Len(file) \in Nat
  BY <1>1 DEF TunnelInv, Shape, LoopInv
<1>4. my_offset(a) + Len(disk[a].d) + 1 \in Region(a)
  <2>1. my_offset(a) \in Nat /\ MAX_PKT_LEN \in Nat
    BY NodeFacts
  <2> DEFINE i == my_offset(a) + Len(disk[a].d) + 1
  <2>2. i \in 1 .. Len(file) /\ i > my_offset(a) /\ i <= my_offset(a) + MAX_PKT_LEN
    <3>1. PICK x \in Nat, y \in Nat, z \in Nat :
             x = my_offset(a) /\ y = Len(disk[a].d) /\ z = Len(file)
      BY <1>3, <2>1
    <3>2. x + y < z /\ y < MAX_PKT_LEN
      BY <1>1, <1>3, <3>1
    <3>3. x + y + 1 \in 1 .. z /\ x + y + 1 > x /\ x + y + 1 <= x + MAX_PKT_LEN
      BY <2>1, <3>2
    <3> QED
      BY <3>1, <3>3
  <2> HIDE DEF i
  <2>3. i \in Region(a)
    BY <2>2 DEF Region
  <2> QED
    BY <2>3 DEF i
<1>5. Known(a, c) /\ New(a, c) /\ c \in Cells
  <2>1. Known(a, c) /\ New(a, c)
    BY <1>1, <1>4 DEF TunnelInv, RegionInv
  <2>2. c \in Cells
    BY <1>3, <1>4, ElementOfSeq DEF Region
  <2> QED
    BY <2>1, <2>2
<1> HIDE DEF c
<1>6. /\ d \in Seq(Cells) /\ d # <<>> /\ Len(d) = Len(disk[a].d) + 1
      /\ \A i \in 1 .. Len(d) : Known(a, d[i]) /\ New(a, d[i])
  <2>1. /\ d \in Seq(Cells) /\ d # <<>> /\ Len(d) = Len(disk[a].d) + 1
        /\ d[Len(d)] = c /\ \A i \in 1 .. Len(disk[a].d) : d[i] = disk[a].d[i]
    BY <1>3, <1>5, AppendProperties
  <2>2. \A i \in 1 .. Len(disk[a].d) : Known(a, disk[a].d[i]) /\ New(a, disk[a].d[i])
    BY <1>1 DEF TunnelInv, LoopInv
  <2> HIDE DEF d
  <2> QED
    BY <1>3, <1>5, <2>1, <2>2
<1> HIDE DEF d
<1>7. \A n \in Nodes : QueueInv(n)' /\ Done(Peer(n))' \in Nat /\ Done(Peer(n)) <= Done(Peer(n))'
  BY <1>1, CountsStay, NodeFacts
<1>8. ASSUME NEW n \in Nodes
      PROVE  RegionInv(n)' /\ FoundInv(n)'
  <2>1. Region(n)' = Region(n)
    BY <1>1 DEF Region
  <2> QED
    BY <1>1, <1>2, <1>7, <2>1, FoundFrame, RegionFrame
<1>9. r.at \in {"open", "read", "put"} /\ r.d \in Seq(Cells) /\ LoopInv(a)'
  <2>0. /\ \A p : Written(a, p) => Written(a, p)'
        /\ \A x : Known(a, x) => Known(a, x)'
        /\ \A k : Fresh(a, k) => Fresh(a, k)'
        /\ \A x : New(a, x) => New(a, x)'
    BY <1>1, <1>7, FoundFrame
  <2>1. CASE parse_raw(a, d) # <<>>
    <3> DEFINE p == parse_raw(a, d)
    <3>1. /\ Written(a, p) /\ Fresh(a, Number(p)) /\ p \in Seq(Cells)
          /\ \A i \in 1 .. Len(p) : Known(a, p[i])
      BY <1>6, <2>1, ParseFacts
    <3> HIDE DEF p
    <3>2. r.at = "put" /\ r.d = p
      BY <2>1 DEF p
    <3> QED
      BY <1>2, <2>0, <3>1, <3>2 DEF LoopInv
  <2>2. CASE parse_raw(a, d) = <<>> /\ Len(d) < MAX_PKT_LEN
    <3>1. r.at = "read" /\ r.d = d
      BY <2>2
    <3> QED
      BY <1>2, <1>6, <2>0, <2>2, <3>1 DEF LoopInv
  <2>3. CASE parse_raw(a, d) = <<>> /\ ~(Len(d) < MAX_PKT_LEN)
    <3>1. r.at = "open" /\ r.d = <<>>
      BY <2>3
    <3> QED
      BY <1>2, <3>1 DEF LoopInv
  <2> QED
    BY <2>1, <2>2, <2>3
<1>10. \A n \in Nodes : LoopInv(n)'
  BY <1>1, <1>2, <1>7, <1>9, LoopFrame
<1>11. Shape'
  <2>1. r \in [at : {"open", "read", "put", "ack_open", "ack_write"}, d : Seq(Cells)]
    BY <1>9
  <2> HIDE DEF r
  <2>2. disk' \in [Nodes -> [at : {"open", "read", "put", "ack_open", "ack_write"}, d : Seq(Cells)]]
    BY <1>2, <2>1 DEF TunnelInv, Shape
  <2> QED
    BY <1>1, <2>2 DEF TunnelInv, Shape
<1> QED
  BY <1>7, <1>8, <1>10, <1>11 DEF TunnelInv

LEMMA DiskPutStep ==
    ASSUME TunnelInv, NEW a \in Nodes, DiskPut(a)
    PROVE  TunnelInv'
<1> DEFINE p == disk[a].d
           q == disk_q[a]
<1>1. /\ disk[a].at = "put" /\ UNCHANGED <<file, read_count, iface_q, main, tun>>
      /\ disk'[a] = [at |-> "ack_open", d |-> <<>>] /\ disk_q'[a] = Append(q, p)
      /\ \A n \in Nodes : n # a => disk'[n] = disk[n] /\ disk_q'[n] = disk_q[n]
  BY DEF DiskPut, DiskOnly, TunnelInv, Shape
<1>2. /\ Written(a, p) /\ Fresh(a, Number(p)) /\ p \in Seq(Cells) /\ q \in Seq(Seq(Cells))
  BY <1>1 DEF TunnelInv, LoopInv, Shape
<1> HIDE DEF p, q
<1>3. /\ Append(q, p) \in Seq(Seq(Cells)) /\ Len(Append(q, p)) = Len(q) + 1 /\ Len(q) \in Nat
      /\ Append(q, p)[Len(q) + 1] = p /\ \A i \in 1 .. Len(q) : Append(q, p)[i] = q[i]
  BY <1>2, AppendProperties, LenProperties
<1>4. \A n \in Nodes : /\ QueueInv(n)' /\ Done(Peer(n))' \in Nat /\ Done(Peer(n)) <= Done(Peer(n))'
                       /\ Done(Peer(n))' = Done(Peer(n))
  BY <1>1, CountsStay, NodeFacts
<1>5. FoundInv(a)'
  <2> DEFINE Q == Append(q, p)
  <2>1. FoundInv(a) /\ Fresh(a, Number(p)) /\ \A x : Written(a, x)' = Written(a, x)
    BY <1>2, <1>4 DEF TunnelInv, Written
  <2>2. \A i \in 1 .. Len(Q) : i \in 1 .. Len(q) \/ i = Len(q) + 1
    BY <1>3
  <2>3. \A i \in 1 .. Len(q) : Q[i] = q[i] /\ Written(a, q[i]) /\ Number(q[i]) < Number(p)
    BY <1>3, <2>1 DEF FoundInv, Fresh, q
  <2> HIDE DEF Q
  <2>4. Q[Len(q) + 1] = p
    BY <1>3 DEF Q
  <2>5. \A i \in 1 .. Len(Q) : Written(a, Q[i])
    BY <1>2, <2>2, <2>3, <2>4
  <2>6. \A i, j \in 1 .. Len(Q) : i < j => Number(Q[i]) < Number(Q[j])
    <3> SUFFICES ASSUME NEW i \in 1 .. Len(Q), NEW j \in 1 .. Len(Q), i < j
                 PROVE  Number(Q[i]) < Number(Q[j])
      OBVIOUS
    <3>1. i \in 1 .. Len(q)
      BY <1>3, <2>2
    <3>2. CASE j \in 1 .. Len(q)
      BY <2>1, <2>3, <3>1, <3>2 DEF FoundInv, q
    <3>3. CASE j = Len(q) + 1
      BY <2>3, <2>4, <3>1, <3>3
    <3> QED
      BY <2>2, <3>2, <3>3
  <2>7. \A i \in 1 .. Len(tun[a]), j \in 1 .. Len(Q) : Number(tun[a][i]) < Number(Q[j])
    <3> TAKE i \in 1 .. Len(tun[a]), j \in 1 .. Len(Q)
    <3>1. CASE j \in 1 .. Len(q)
      BY <2>1, <2>3, <3>1 DEF FoundInv, q
    <3>2. CASE j = Len(q) + 1
      BY <2>1, <2>4, <3>2 DEF Fresh
    <3> QED
      BY <2>2, <3>1, <3>2
  <2>8. disk_q'[a] = Q /\ tun'[a] = tun[a]
    BY <1>1 DEF Q
  <2> QED
    BY <2>1, <2>5, <2>6, <2>7, <2>8 DEF FoundInv
<1>6. \A n \in Nodes : n # a => FoundInv(n)' /\ LoopInv(n)' /\ RegionInv(n)'
  <2>1. \A n \in Nodes : Region(n)' = Region(n)
    BY <1>1 DEF Region
  <2> QED
    BY <1>1, <1>4, <2>1, FoundFrame, LoopFrame, RegionFrame
<1>7. LoopInv(a)'
  BY <1>1 DEF LoopInv
<1>8. RegionInv(a)'
  <2>1. Region(a)' = Region(a) /\ \A c : Known(a, c)' = Known(a, c)
    BY <1>1, <1>4 DEF Region, Known
  <2> QED
    BY <1>1, <2>1 DEF RegionInv, TunnelInv
<1>9. Shape'
  <2>1. disk' \in [Nodes -> [at : {"open", "read", "put", "ack_open", "ack_write"}, d : Seq(Cells)]]
    BY DEF DiskPut, TunnelInv, Shape
  <2>2. disk_q' \in [Nodes -> Seq(Seq(Cells))]
    BY <1>1, <1>3 DEF DiskPut, TunnelInv, Shape, p, q
  <2> QED
    BY <1>1, <2>1, <2>2 DEF TunnelInv, Shape
<1> QED
  BY <1>4, <1>5, <1>6, <1>7, <1>8, <1>9 DEF TunnelInv

LEMMA AckOpenStep ==
    ASSUME TunnelInv, NEW a \in Nodes, AckOpen(a)
    PROVE  TunnelInv'
<1>1. /\ disk[a].at = "ack_open" /\ file' = <<>>
      /\ disk'[a].at = "ack_write" /\ disk'[a].d = disk[a].d
      /\ \A n \in Nodes : n # a => disk'[n] = disk[n]
      /\ UNCHANGED <<disk_q, read_count, iface_q, main, tun>>
  BY DEF AckOpen, DiskOnly, TunnelInv, Shape
<1>2. \A n \in Nodes : QueueInv(n)' /\ Done(Peer(n))' \in Nat /\ Done(Peer(n)) <= Done(Peer(n))'
  BY <1>1, CountsStay, NodeFacts
<1>3. \A n \in Nodes : RegionInv(n)' /\ FoundInv(n)'
  BY <1>1, <1>2, NoRegion, FoundFrame
<1>4. LoopInv(a)'
  BY <1>1 DEF TunnelInv, LoopInv
<1>5. \A n \in Nodes : LoopInv(n)'
  BY <1>1, <1>2, <1>4, LoopFrame
<1>6. Shape'
  <2>1. disk' \in [Nodes -> [at : {"open", "read", "put", "ack_open", "ack_write"}, d : Seq(Cells)]]
    BY DEF AckOpen, TunnelInv, Shape
  <2>2. file' \in Seq(Cells) /\ Len(file') <= 2 * MAX_PKT_LEN
    BY <1>1, NodeFacts
  <2> QED
    BY <1>1, <2>1, <2>2 DEF TunnelInv, Shape
<1> QED
  BY <1>2, <1>3, <1>5, <1>6 DEF TunnelInv

LEMMA AckWriteStep ==
    ASSUME TunnelInv, NEW a \in Nodes, AckWrite(a)
    PROVE  TunnelInv'
<1>1. /\ disk[a].at = "ack_write" /\ disk'[a].at = "open" /\ disk'[a].d = disk[a].d
      /\ \A n \in Nodes : n # a => disk'[n] = disk[n]
      /\ UNCHANGED <<disk_q, read_count, iface_q, main, tun>>
  BY DEF AckWrite, DiskOnly, TunnelInv, Shape
<1>2. \A n \in Nodes : QueueInv(n)' /\ Done(Peer(n))' \in Nat /\ Done(Peer(n)) <= Done(Peer(n))'
  BY <1>1, CountsStay, NodeFacts
<1>3. /\ file' \in Seq(Cells) /\ Len(file') \in Nat /\ Len(file') <= 2 * MAX_PKT_LEN
      /\ \A i \in 1 .. Len(file') :
            \/ /\ i > my_offset(a) /\ i <= my_offset(a) + MAX_PKT_LEN
               /\ file'[i] = empty_pkt[i - my_offset(a)]
            \/ /\ ~(i > my_offset(a) /\ i <= my_offset(a) + MAX_PKT_LEN)
               /\ file'[i] = Zero \/ (i \in 1 .. Len(file) /\ file'[i] = file[i])
  <2>1. /\ file \in Seq(Cells) /\ Len(file) <= 2 * MAX_PKT_LEN
        /\ my_offset(a) \in {0, MAX_PKT_LEN}
        /\ Len(empty_pkt) = MAX_PKT_LEN /\ Len(empty_pkt) <= MAX_PKT_LEN
    BY NodeFacts, CellFacts DEF TunnelInv, Shape
  <2>2. file' = Overlay(file, my_offset(a), empty_pkt)
    BY DEF AckWrite
  <2>3. Overlaid(file, my_offset(a), empty_pkt, file')
    BY <2>1, <2>2, CellFacts, OverlayFacts
  <2> QED
    BY <2>1, <2>3 DEF Overlaid
<1>4. \A i \in 1 .. Len(file') :
         /\ i > my_offset(a) /\ i <= my_offset(a) + MAX_PKT_LEN => file'[i] = Zero
         /\ file'[i] = Zero \/ (i \in 1 .. Len(file) /\ file'[i] = file[i])
  <2> TAKE i \in 1 .. Len(file')
  <2>1. i > my_offset(a) /\ i <= my_offset(a) + MAX_PKT_LEN => i - my_offset(a) \in 1 .. MAX_PKT_LEN
    <3>1. PICK x \in Nat : x = my_offset(a)
      BY NodeFacts
    <3>2. i \in Nat
      BY <1>3
    <3>3. i > x /\ i <= x + MAX_PKT_LEN => i - x \in 1 .. MAX_PKT_LEN
      BY <3>2, NodeFacts
    <3> QED
      BY <3>1, <3>3
  <2> QED
    BY <1>3, <2>1, CellFacts
<1>5. RegionInv(a)'
  BY <1>4 DEF RegionInv, Region, Known, New
<1>6. ASSUME NEW n \in Nodes, n # a
      PROVE  RegionInv(n)'
  <2>1. \A i \in Region(n)' : file'[i] = Zero \/ (i \in Region(n) /\ file'[i] = file[i])
    BY <1>4 DEF Region
  <2> QED
    BY <1>1, <1>2, <1>6, <2>1, RegionFrame
<1>7. LoopInv(a)'
  BY <1>1 DEF TunnelInv, LoopInv
<1>8. \A n \in Nodes : LoopInv(n)' /\ FoundInv(n)'
  BY <1>1, <1>2, <1>7, LoopFrame, FoundFrame
<1>9. Shape'
  <2>1. disk' \in [Nodes -> [at : {"open", "read", "put", "ack_open", "ack_write"}, d : Seq(Cells)]]
    BY DEF AckWrite, TunnelInv, Shape
  <2> QED
    BY <1>1, <1>3, <2>1 DEF TunnelInv, Shape
<1> QED
  BY <1>2, <1>5, <1>6, <1>8, <1>9 DEF TunnelInv

LEMMA MainDiskStep ==
    ASSUME TunnelInv, NEW a \in Nodes, MainDisk(a)
    PROVE  TunnelInv'
<1> DEFINE q == disk_q[a]
           t == tun[a]
<1>1. /\ q # <<>> /\ UNCHANGED <<file, read_count, iface_q, main, disk>>
      /\ tun'[a] = Append(t, Head(q)) /\ disk_q'[a] = Tail(q)
      /\ \A n \in Nodes : n # a => tun'[n] = tun[n] /\ disk_q'[n] = disk_q[n]
      /\ q \in Seq(Seq(Cells)) /\ t \in Seq(Seq(Cells))
  BY DEF MainDisk, MainOnly, TunnelInv, Shape
<1>0. FoundInv(a) /\ LoopInv(a) /\ RegionInv(a)
  BY DEF TunnelInv
<1> DEFINE T == Append(t, Head(q))
           R == Tail(q)
<1>2. /\ Len(q) \in Nat \ {0} /\ Len(t) \in Nat
      /\ Head(q) = q[1] /\ Head(q) \in Seq(Cells)
      /\ R \in Seq(Seq(Cells)) /\ Len(R) = Len(q) - 1
      /\ \A i \in 1 .. Len(R) : R[i] = q[i + 1]
  BY <1>1, EmptySeq, HeadTailProperties, LenProperties
<1>3. /\ T \in Seq(Seq(Cells)) /\ Len(T) = Len(t) + 1
      /\ T[Len(t) + 1] = q[1] /\ \A i \in 1 .. Len(t) : T[i] = t[i]
  BY <1>1, <1>2, AppendProperties
<1>f. /\ \A j \in 1 .. Len(t) : Written(a, t[j])
      /\ \A j \in 1 .. Len(q) : Written(a, q[j])
      /\ \A i \in 1 .. Len(t), j \in 1 .. Len(q) : Number(t[i]) < Number(q[j])
      /\ \A i, j \in 1 .. Len(q) : i < j => Number(q[i]) < Number(q[j])
  BY <1>0 DEF FoundInv
<1>n. tun'[a] = T /\ disk_q'[a] = R
  BY <1>1
<1>h. \A k : Fresh(a, k) <=> /\ \A j \in 1 .. Len(t) : Number(t[j]) < k
                            /\ \A j \in 1 .. Len(q) : Number(q[j]) < k
  BY DEF Fresh
<1> HIDE DEF q, t, T, R
<1>4. \A i \in 1 .. Len(R) : i + 1 \in 1 .. Len(q) /\ R[i] = q[i + 1] /\ 1 < i + 1 /\ 1 \in 1 .. Len(q)
  BY <1>2
<1>5. \A i \in 1 .. Len(T) : (i \in 1 .. Len(t) /\ T[i] = t[i]) \/ T[i] = q[1]
  <2> TAKE i \in 1 .. Len(T)
  <2>1. i \in 1 .. Len(t) \/ i = Len(t) + 1
    BY <1>2, <1>3
  <2> QED
    BY <1>3, <2>1
<1>q. 1 \in 1 .. Len(q)
  BY <1>2
<1>w. \A n \in Nodes : /\ QueueInv(n)' /\ Done(Peer(n))' \in Nat /\ Done(Peer(n)) <= Done(Peer(n))'
                       /\ Done(Peer(n))' = Done(Peer(n))
  BY <1>1, CountsStay, NodeFacts
<1>6. FoundInv(a)'
  <2>1. \A x : Written(a, x)' = Written(a, x)
    BY <1>w DEF Written
  <2>2. \A j \in 1 .. Len(T) : Written(a, T[j])
    BY <1>5, <1>q, <1>f
  <2>3. \A j \in 1 .. Len(R) : Written(a, R[j])
    BY <1>4, <1>f
  <2>4. \A i \in 1 .. Len(T), j \in 1 .. Len(R) : Number(T[i]) < Number(R[j])
    BY <1>4, <1>5, <1>f
  <2>5. \A i, j \in 1 .. Len(R) : i < j => Number(R[i]) < Number(R[j])
    <3> TAKE i, j \in 1 .. Len(R)
    <3>1. i < j => i + 1 < j + 1
      BY <1>2
    <3>2. i + 1 \in 1 .. Len(q) /\ j + 1 \in 1 .. Len(q) /\ R[i] = q[i + 1] /\ R[j] = q[j + 1]
      BY <1>4
    <3> QED
      BY <1>f, <3>1, <3>2
  <2> QED
    BY <1>n, <2>1, <2>2, <2>3, <2>4, <2>5 DEF FoundInv
<1>7. \A k : Fresh(a, k) => Fresh(a, k)'
  <2>1. \A k : Fresh(a, k) => /\ \A j \in 1 .. Len(T) : Number(T[j]) < k
                             /\ \A j \in 1 .. Len(R) : Number(R[j]) < k
    BY <1>4, <1>5, <1>q, <1>h
  <2> QED
    BY <1>n, <2>1 DEF Fresh
<1>8. LoopInv(a)' /\ RegionInv(a)'
  <2>1. Region(a)' = Region(a) /\ disk'[a] = disk[a] /\ file' = file
    BY <1>1 DEF Region
  <2>2. /\ \A c : New(a, c) => New(a, c)'
        /\ \A c : Known(a, c)' = Known(a, c)
        /\ \A p : Written(a, p)' = Written(a, p)
    BY <1>7, <1>w DEF New, Known, Written
  <2>3. LoopInv(a)'
    BY <1>0, <1>7, <2>1, <2>2 DEF LoopInv
  <2>4. RegionInv(a)'
    BY <1>0, <2>1, <2>2 DEF RegionInv
  <2> QED
    BY <2>3, <2>4
<1>9. \A n \in Nodes : n # a => FoundInv(n)' /\ LoopInv(n)' /\ RegionInv(n)'
  <2>1. \A n \in Nodes : Region(n)' = Region(n)
    BY <1>1 DEF Region
  <2> QED
    BY <1>1, <1>w, <2>1, FoundFrame, LoopFrame, RegionFrame
<1>10. Shape'
  <2>1. tun' \in [Nodes -> Seq(Seq(Cells))]
    BY <1>3 DEF MainDisk, TunnelInv, Shape, T, t, q
  <2>2. disk_q' \in [Nodes -> Seq(Seq(Cells))]
    BY <1>2 DEF MainDisk, TunnelInv, Shape, R, q
  <2> QED
    BY <1>1, <2>1, <2>2 DEF TunnelInv, Shape
<1> QED
  BY <1>w, <1>6, <1>8, <1>9, <1>10 DEF TunnelInv

LEMMA MainIfaceStep ==
    ASSUME TunnelInv, NEW a \in Nodes, MainIface(a)
    PROVE  TunnelInv'
<1> DEFINE q == iface_q[a]
<1>1. /\ main[a].at = "get" /\ q # <<>> /\ file' = <<>> /\ UNCHANGED <<read_count, disk, disk_q, tun>>
      /\ main'[a] = [at |-> "write", packet |-> Head(q)] /\ iface_q'[a] = Tail(q)
      /\ \A n \in Nodes : n # a => main'[n] = main[n] /\ iface_q'[n] = iface_q[n]
      /\ q \in Seq(Seq(Cells))
  BY DEF MainIface, MainOnly, TunnelInv, Shape
<1>2. /\ Len(q) \in Nat \ {0} /\ Head(q) = q[1] /\ Head(q) \in Seq(Cells)
      /\ Tail(q) \in Seq(Seq(Cells)) /\ Len(Tail(q)) = Len(q) - 1
      /\ \A i \in 1 .. Len(Tail(q)) : Tail(q)[i] = q[i + 1]
  BY <1>1, EmptySeq, HeadTailProperties
<1>3. /\ Taken(a) = read_count[a] - Len(q) /\ Len(q) <= read_count[a] /\ read_count[a] \in Nat
      /\ \A j \in 1 .. Len(q) : q[j] = build(a, Taken(a) + j)
      /\ Done(a) = Taken(a) /\ Taken(a) \in Nat
  BY <1>1, Counts DEF TunnelInv, QueueInv, Taken, Shape
<1> HIDE DEF q
<1>4. Taken(a)' = Taken(a) + 1 /\ Done(a)' = Done(a)
  <2>1. Taken(a)' = Taken(a) + 1
    BY <1>1, <1>2, <1>3 DEF Taken
  <2> QED
    BY <1>1, <1>3, <2>1 DEF Done
<1>5. QueueInv(a)'
  <2>1. \A j \in 1 .. Len(Tail(q)) : Tail(q)[j] = build(a, Taken(a) + 1 + j)
    <3> TAKE j \in 1 .. Len(Tail(q))
    <3>1. j \in Nat /\ j + 1 \in 1 .. Len(q)
      BY <1>2
    <3>2. PICK k \in Nat : k = Taken(a)
      BY <1>3
    <3>3. k + (j + 1) = k + 1 + j
      BY <3>1
    <3> QED
      BY <1>2, <1>3, <3>1, <3>2, <3>3
  <2>2. Head(q) = build(a, Taken(a) + 1)
    BY <1>2, <1>3
  <2>3. Len(Tail(q)) <= read_count[a] /\ Taken(a) + 1 >= 1
    BY <1>2, <1>3
  <2> QED
    BY <1>1, <1>4, <2>1, <2>2, <2>3 DEF QueueInv
<1>6. \A n \in Nodes : QueueInv(n)' /\ Done(n)' = Done(n)
  BY <1>1, <1>4, <1>5, QueueFrame DEF TunnelInv
<1>7. \A n \in Nodes : Done(Peer(n))' \in Nat /\ Done(Peer(n)) <= Done(Peer(n))'
  BY <1>6, Counts, NodeFacts
<1>8. \A n \in Nodes : RegionInv(n)' /\ LoopInv(n)' /\ FoundInv(n)'
  BY <1>1, <1>7, NoRegion, LoopFrame, FoundFrame
<1>9. Shape'
  <2>1. main' \in [Nodes -> [at : {"get", "write"}, packet : Seq(Cells)]]
    BY <1>2 DEF MainIface, TunnelInv, Shape, q
  <2>2. iface_q' \in [Nodes -> Seq(Seq(Cells))]
    BY <1>2 DEF MainIface, TunnelInv, Shape, q
  <2>3. file' \in Seq(Cells) /\ Len(file') <= 2 * MAX_PKT_LEN
    BY <1>1, NodeFacts
  <2> QED
    BY <1>1, <2>1, <2>2, <2>3 DEF TunnelInv, Shape
<1> QED
  BY <1>6, <1>8, <1>9 DEF TunnelInv

LEMMA MainWriteStep ==
    ASSUME TunnelInv, NEW a \in Nodes, MainWrite(a)
    PROVE  TunnelInv'
<1>k. PICK k : k = Taken(a)
  OBVIOUS
<1> DEFINE b == Peer(a)
           p == build(a, k)
           off == my_offset(b)
<1>0. /\ b \in Nodes /\ Peer(b) = a /\ b # a /\ off \in {0, MAX_PKT_LEN}
      /\ my_offset(a) \in {0, MAX_PKT_LEN} /\ my_offset(a) = MAX_PKT_LEN - off
      /\ MAX_PKT_LEN \in Nat /\ \A n \in Nodes : n = a \/ n = b
  BY NodeFacts
<1>1. /\ main[a].at = "write" /\ UNCHANGED <<read_count, disk, iface_q, disk_q, tun>>
      /\ main'[a] = [at |-> "get", packet |-> <<>>]
      /\ \A n \in Nodes : n # a => main'[n] = main[n]
  BY DEF MainWrite, MainOnly, TunnelInv, Shape
<1>2. /\ k \in 1 .. Len(Sizes[a]) /\ Done(a) = k - 1 /\ main[a].packet = p
  BY <1>1, <1>k, Counts DEF TunnelInv, QueueInv
<1>3. p \in Seq(Cells) /\ Len(p) \in 1 .. MAX_PKT_LEN /\ \A i \in 1 .. Len(p) : p[i] = <<k, i>>
  BY <1>2, BuildFacts
<1>4. Done(a)' = k /\ QueueInv(a)'
  <2>1. Taken(a)' = Taken(a)
    BY <1>1 DEF Taken
  <2> QED
    BY <1>1, <1>k, <2>1 DEF Done, QueueInv, TunnelInv
<1>5. \A n \in Nodes : QueueInv(n)' /\ Done(Peer(n))' \in Nat /\ Done(Peer(n)) <= Done(Peer(n))'
  <2>1. QueueInv(b)' /\ Done(b)' = Done(b) /\ Done(b) \in Nat
    BY <1>0, <1>1, QueueFrame, Counts DEF TunnelInv
  <2>2. Done(a)' \in Nat /\ Done(a) <= Done(a)'
    BY <1>2, <1>4
  <2>3. Done(Peer(a))' \in Nat /\ Done(Peer(a)) <= Done(Peer(a))'
    BY <2>1
  <2>4. Done(Peer(b))' \in Nat /\ Done(Peer(b)) <= Done(Peer(b))'
    BY <1>0, <2>2
  <2> HIDE DEF b
  <2> QED
    BY <1>0, <1>4, <2>1, <2>3, <2>4
<1>6. /\ file' \in Seq(Cells) /\ Len(file') \in Nat /\ Len(file') <= 2 * MAX_PKT_LEN
      /\ \A i \in 1 .. Len(file') :
            \/ i > off /\ i <= off + Len(p) /\ file'[i] = p[i - off]
            \/ /\ ~(i > off /\ i <= off + Len(p))
               /\ file'[i] = Zero \/ (i \in 1 .. Len(file) /\ file'[i] = file[i])
  <2>1. file \in Seq(Cells) /\ Len(file) <= 2 * MAX_PKT_LEN /\ Len(p) <= MAX_PKT_LEN
    BY <1>0, <1>3 DEF TunnelInv, Shape
  <2>2. file' = Overlay(file, off, p)
    BY <1>2, NodeFacts DEF MainWrite
  <2> HIDE DEF p, off
  <2>3. Overlaid(file, off, p, file')
    BY <1>0, <1>3, <2>1, <2>2, OverlayFacts
  <2> QED
    BY <2>3 DEF Overlaid
<1> HIDE DEF p, off
<1>7. ASSUME NEW i \in 1 .. Len(file'), i > off, i <= off + Len(p)
      PROVE  /\ file'[i] = <<k, i - off>>
             /\ ~(i > my_offset(a) /\ i <= my_offset(a) + MAX_PKT_LEN)
  <2>1. i - off \in 1 .. Len(p)
    BY <1>0, <1>3, <1>6, <1>7
  <2>2. file'[i] = p[i - off]
    BY <1>6, <1>7
  <2>3. ~(i > my_offset(a) /\ i <= my_offset(a) + MAX_PKT_LEN)
    BY <1>0, <1>3, <1>6, <1>7
  <2> QED
    BY <1>3, <2>1, <2>2, <2>3
<1>8. Fresh(b, k)'
  <2>1. Done(Peer(b)) = k - 1 /\ k \in Nat
    BY <1>0, <1>2
  <2>2. FoundInv(b)
    BY <1>0 DEF TunnelInv
  <2>3. Fresh(b, k)
    BY <2>1, <2>2 DEF FoundInv, Written, Fresh
  <2> QED
    BY <1>1, <2>3 DEF Fresh
<1>9. RegionInv(b)'
  <2>1. ASSUME NEW i \in Region(b)'
        PROVE  \/ file'[i] = Zero
               \/ i \in Region(b) /\ file'[i] = file[i]
               \/ Known(b, file[i])' /\ New(b, file[i])'
    <3>1. i \in 1 .. Len(file')
      BY <2>1 DEF Region
    <3>2. CASE i > off /\ i <= off + Len(p)
      <4>1. file'[i][1] = k
        BY <1>7, <3>1, <3>2
      <4>2. k \in 1 .. Done(Peer(b))'
        BY <1>0, <1>2, <1>4
      <4> QED
        BY <1>8, <4>1, <4>2 DEF Known, New
    <3>3. CASE ~(i > off /\ i <= off + Len(p))
      BY <1>6, <2>1, <3>1, <3>3 DEF Region
    <3> QED
      BY <3>2, <3>3
  <2> HIDE DEF b
  <2> QED
    BY <1>0, <1>1, <1>5, <2>1, RegionFrame
<1>10. RegionInv(a)'
  <2>1. \A i \in Region(a)' : file'[i] = Zero \/ (i \in Region(a) /\ file'[i] = file[i])
    BY <1>6, <1>7 DEF Region
  <2> QED
    BY <1>1, <1>5, <2>1, RegionFrame
<1>11. \A n \in Nodes : LoopInv(n)' /\ FoundInv(n)'
  BY <1>1, <1>5, LoopFrame, FoundFrame
<1>12. Shape'
  <2>1. main' \in [Nodes -> [at : {"get", "write"}, packet : Seq(Cells)]]
    BY DEF MainWrite, TunnelInv, Shape
  <2> QED
    BY <1>1, <1>6, <2>1 DEF TunnelInv, Shape
<1> QED
  BY <1>0, <1>5, <1>9, <1>10, <1>11, <1>12 DEF TunnelInv

LEMMA TunnelStep == TunnelInv /\ [Next]_vars => TunnelInv'
<1> SUFFICES ASSUME TunnelInv, [Next]_vars PROVE TunnelInv'
  OBVIOUS
<1>1. CASE UNCHANGED vars
  <2>1. Shape'
    BY <1>1 DEF vars, TunnelInv, Shape
  <2>2. ASSUME NEW n \in Nodes
        PROVE  QueueInv(n)' /\ RegionInv(n)' /\ LoopInv(n)' /\ FoundInv(n)'
    <3>1. QueueInv(n)' /\ Done(Peer(n))' \in Nat /\ Done(Peer(n)) <= Done(Peer(n))'
      BY <1>1, CountsStay, NodeFacts DEF vars
    <3>2. Region(n)' = Region(n)
      BY <1>1 DEF Region, vars
    <3> QED
      BY <1>1, <3>1, <3>2, FoundFrame, LoopFrame, RegionFrame DEF vars
  <2> QED
    BY <2>1, <2>2 DEF TunnelInv
<1>2. ASSUME NEW n \in Nodes, IfaceEvent(n) \/ DiskStep(n) \/ MainStep(n)
      PROVE  TunnelInv'
  BY <1>2, IfaceEventStep, DiskOpenStep, DiskReadStep, DiskPutStep, AckOpenStep, AckWriteStep,
     MainDiskStep, MainIfaceStep, MainWriteStep DEF DiskStep, MainStep
<1> QED
  BY <1>1, <1>2 DEF Next

LEMMA TunnelInvariant == Spec => []TunnelInv
  BY TunnelInit, TunnelStep, PTL DEF Spec

(* The file, the queues and the loops of both nodes are well formed: the disk
   loop never holds more than a region, and what a queue or an interface holds
   is a whole packet of the right node. *)
THEOREM TypeCorrect == Spec => []TypeOK
  BY TunnelInvariant, TunnelTypes, PTL

-----------------------------------------------------------------------------
(* The refinement *)

(* A packet the interface loop reads is one the link accepts. *)
LEMMA IfaceEventAccepts ==
    ASSUME NEW n \in Nodes, IfaceEvent(n)
    PROVE  Link!Accept(n)
  BY DEF Link!Accept, IfaceEvent

(* A packet the main loop writes to the interface is one the link hands over:
   the peer has accepted it, and neither it nor a later one was handed over. *)
LEMMA MainDiskHandsOver ==
    ASSUME TunnelInv, NEW n \in Nodes, MainDisk(n)
    PROVE  Link!HandOver(n)
<1> DEFINE p == Head(disk_q[n])
           k == Number(p)
<1>1. /\ disk_q[n] # <<>> /\ UNCHANGED read_count
      /\ tun' = [tun EXCEPT ![n] = Append(@, p)]
  BY DEF MainDisk, MainOnly
<1>2. disk_q[n] \in Seq(Seq(Cells)) /\ Peer(n) \in Nodes
  BY NodeFacts DEF TunnelInv, Shape
<1>3. p = disk_q[n][1] /\ 1 \in 1 .. Len(disk_q[n])
  BY <1>1, <1>2, EmptySeq, HeadTailProperties
<1>4. Written(n, p) /\ \A j \in 1 .. Len(tun[n]) : Written(n, tun[n][j]) /\ Number(tun[n][j]) < k
  BY <1>3 DEF TunnelInv, FoundInv
<1>5. k \in 1 .. read_count[Peer(n)] /\ p = build(Peer(n), k)
  BY <1>4, WrittenFacts DEF Written
<1> HIDE DEF k, p
<1>6. ASSUME NEW i \in k .. read_count[Peer(n)], NEW j \in 1 .. Len(tun[n])
      PROVE  tun[n][j] # build(Peer(n), i)
  <2>1. /\ i \in 1 .. Len(Sizes[Peer(n)]) /\ k \in Nat /\ k <= i
        /\ Number(tun[n][j]) < k /\ Number(tun[n][j]) \in Nat
    BY <1>2, <1>4, <1>5, Counts, WrittenFacts
  <2>2. Number(build(Peer(n), i)) = i
    BY <1>2, <2>1, BuildFacts
  <2> QED
    BY <2>1, <2>2
<1> QED
  BY <1>1, <1>5, <1>6 DEF Link!HandOver, Link!Unseen, Link!Other, Peer

LEMMA LinkStep == TunnelInv /\ [Next]_vars => [Link!LinkNext]_(Link!linkVars)
<1> SUFFICES ASSUME TunnelInv, [Next]_vars
             PROVE  [Link!LinkNext]_(Link!linkVars)
  OBVIOUS
<1>1. CASE UNCHANGED vars
  BY <1>1 DEF vars, Link!linkVars
<1>2. ASSUME NEW n \in Nodes, IfaceEvent(n)
      PROVE  Link!LinkNext
  BY <1>2, IfaceEventAccepts DEF Link!LinkNext, Link!Stations, Nodes
<1>3. ASSUME NEW n \in Nodes, MainDisk(n)
      PROVE  Link!LinkNext
  BY <1>3, MainDiskHandsOver DEF Link!LinkNext, Link!Stations, Nodes
<1>4. ASSUME NEW n \in Nodes, DiskStep(n) \/ MainIface(n) \/ MainWrite(n)
      PROVE  UNCHANGED Link!linkVars
  BY <1>4 DEF DiskStep, DiskOpen, DiskRead, DiskPut, AckOpen, AckWrite, MainIface, MainWrite,
              DiskOnly, MainOnly, Link!linkVars
<1> QED
  BY <1>1, <1>2, <1>3, <1>4 DEF Next, MainStep

(* The tunnel of eoblock.py implements the lossy link: however the six loops
   interleave, and although every open of the shared file for writing truncates
   it, an interface is given whole packets of the peer only, each at most once
   and in order. *)
THEOREM TunnelImplementsLink == Spec => ImplementsLossyLink
<1>1. Init => Link!LinkInit
  BY DEF Init, Link!LinkInit, Nodes, Link!Stations
<1> QED
  BY <1>1, TunnelInvariant, LinkStep, PTL DEF Spec, ImplementsLossyLink, Link!LinkSpec
=============================================================================

-------------------------- MODULE EobLayout_proofs --------------------------
(***************************************************************************)
(* Which transfers of the library can touch the same bytes of a device.    *)
(* EobMailbox gives each node block a variable of its own and leaves the   *)
(* header out; these facts say when that is sound.                         *)
(***************************************************************************)
EXTENDS EobLayout, TLAPS

(* The blocks of a lower and a higher node follow each other. *)
LEMMA BlocksInOrder ==
    ASSUME NEW virt \in Nat, NEW a \in Nat, NEW b \in Nat, a < b
    PROVE  BlockOffset(virt, a) + virt <= BlockOffset(virt, b)
<1>1. PICK d \in Nat : b = a + 1 + d
  <2>1. b - a - 1 \in Nat
    OBVIOUS
  <2> QED
    BY <2>1
<1>2. virt * b = virt * a + virt + virt * d
  BY <1>1
<1>3. virt * d \in Nat /\ virt * a \in Nat /\ virt * b \in Nat
  BY <1>1
<1> QED
  BY <1>2, <1>3 DEF BlockOffset, EOB_HDR_SIZE

(* Whatever the block size, packets for different nodes share no byte: the
   offset that eob_buff_write and eob_buff_read compute from the node id. *)
THEOREM BlocksDisjoint ==
    ASSUME NEW virt \in Nat, NEW a \in Nat, NEW b \in Nat, a # b
    PROVE  Disjoint(BlockExtent(virt, a), BlockExtent(virt, b))
<1>1. BlockOffset(virt, a) \in Nat /\ BlockOffset(virt, b) \in Nat
  BY DEF BlockOffset, EOB_HDR_SIZE
<1>2. \/ BlockOffset(virt, a) + virt <= BlockOffset(virt, b)
      \/ BlockOffset(virt, b) + virt <= BlockOffset(virt, a)
  <2>1. CASE a < b
    BY <2>1, BlocksInOrder
  <2>2. CASE b < a
    BY <2>2, BlocksInOrder
  <2> QED
    BY <2>1, <2>2
<1> QED
  BY <1>1, <1>2 DEF Disjoint, BlockExtent, Extent

(* A header write shares no byte with any packet exactly if it is no longer
   than the header.  eob_write_header transfers phys_blk_size bytes: with the
   default of 4096 it covers the first bytes of the block of node 0, and the
   packet waiting there. *)
THEOREM HeaderWriteClearsBlocks ==
    ASSUME NEW virt \in Nat \ {0}, NEW phys \in Nat
    PROVE  (\A n \in Nat : Disjoint(HeaderWriteExtent(phys), BlockExtent(virt, n)))
           <=> phys <= EOB_HDR_SIZE
<1>1. ASSUME phys <= EOB_HDR_SIZE, NEW n \in Nat
      PROVE  Disjoint(HeaderWriteExtent(phys), BlockExtent(virt, n))
  <2>1. BlockOffset(virt, n) \in Nat /\ BlockOffset(virt, n) >= EOB_HDR_SIZE
    <3>1. virt * n \in Nat
      OBVIOUS
    <3> QED
      BY <3>1 DEF BlockOffset, EOB_HDR_SIZE
  <2> QED
    BY <1>1, <2>1 DEF Disjoint, HeaderWriteExtent, BlockExtent, Extent, EOB_HDR_SIZE
<1>2. ASSUME phys > EOB_HDR_SIZE
      PROVE  ~Disjoint(HeaderWriteExtent(phys), BlockExtent(virt, 0))
  <2>1. BlockOffset(virt, 0) = EOB_HDR_SIZE
    BY DEF BlockOffset, EOB_HDR_SIZE
  <2>2. EOB_HDR_SIZE \in HeaderWriteExtent(phys) /\ EOB_HDR_SIZE \in BlockExtent(virt, 0)
    BY <1>2, <2>1 DEF HeaderWriteExtent, BlockExtent, Extent, EOB_HDR_SIZE
  <2> QED
    BY <2>2 DEF Disjoint
<1>3. 0 \in Nat /\ (phys > EOB_HDR_SIZE <=> ~(phys <= EOB_HDR_SIZE))
  BY DEF EOB_HDR_SIZE
<1> QED
  BY <1>1, <1>2, <1>3
=============================================================================

------------------------------ MODULE EobLayout ------------------------------
(***************************************************************************)
(* Where things lie on an eoblock device: the 512-byte header at offset 0, *)
(* then one block of virt_blk_size bytes for each node.  The module holds  *)
(* the sizes the other modules share and the extents of the transfers the  *)
(* library makes.                                                          *)
(***************************************************************************)
EXTENDS Integers

(* sizeof(struct eob_header): preamble, padding and checksum fill 512 bytes. *)
EOB_HDR_SIZE == 512

(* The block size eob_hdr_init takes for a size given as 0. *)
EOB_DEFAULT_BLK_SIZE == 4096

(* The version the library writes and the only one it accepts. *)
EOB_HDR_VERSION == 2

(* The bytes from off up to off + len - 1, where one transfer lies. *)
Extent(off, len) == off .. (off + len - 1)

(* A header write transfers one physical block, header first. *)
HeaderWriteExtent(phys) == Extent(0, phys)

(* A header read transfers the header alone. *)
HeaderReadExtent == Extent(0, EOB_HDR_SIZE)

(* The first byte of a node's block, for reads and for writes alike. *)
BlockOffset(virt, node) == EOB_HDR_SIZE + virt * node

(* A packet fills the whole block of the node it is for. *)
BlockExtent(virt, node) == Extent(BlockOffset(virt, node), virt)

(* Two transfers that share no byte. *)
Disjoint(a, b) == a \cap b = {}

(* P2PHASE(x, align), x & (align - 1), is the remainder when align is a
   power of two, the only alignments the library is used with. *)
P2Phase(x, align) == x % align
=============================================================================

------------------------------- MODULE EobHdr -------------------------------
(***************************************************************************)
(* struct eob_header and what each header command computes from it: pure   *)
(* operators, no state.  The checksum is ideal: a checksum is the preamble *)
(* it was computed from, and NoSum fits no preamble.                       *)
(***************************************************************************)
EXTENDS EobLayout

CONSTANTS
    Ips,           \* IP addresses of nodes
    Absent,        \* not an address: a table entry whose present flag is clear
    NoSum,         \* a checksum that fits no preamble (zero, or rubbish)
    MaxCluster,    \* MAX_CLUSTER_SIZE, 32: the entries the checksum covers
    PadSlots,      \* entries that fit in __padding, 26: reachable by index,
                   \* not covered by the checksum
    Commands,      \* the commands the processes may run
    InitialDisks   \* what may be on the device before the first command

-----------------------------------------------------------------------------
(* struct eob_header *)

Covered == 0 .. (MaxCluster - 1)
Slots == 0 .. (MaxCluster + PadSlots - 1)

Entry == Ips \cup {Absent}

Geo == [magic : BOOLEAN, version : Nat, phys : Nat, virt : Nat, count : Nat]

(* struct eob_header_peamb, what the checksum is computed from. *)
Preambles == [geo : Geo, nodes : [Covered -> Entry]]

Header == [geo : Geo, tab : [Slots -> Entry], sum : Preambles \cup {NoSum}]

Preamble(h) == [geo |-> h.geo, nodes |-> [i \in Covered |-> h.tab[i]]]

ZeroTab == [i \in Slots |-> Absent]

(* 512 zero bytes: crc32 of the zero preamble is not zero. *)
ZeroHeader ==
    [geo |-> [magic |-> FALSE, version |-> 0, phys |-> 0, virt |-> 0,
              count |-> 0],
     tab |-> ZeroTab, sum |-> NoSum]

(* Mutant: a checksum over the fixed fields only. *)
eob_header_chksum_is_ok_fixed(h) == h.sum # NoSum /\ h.sum.geo = h.geo

eob_header_chksum_is_ok(h) == h.sum = Preamble(h)

eob_header_chksum_calc(h) == [h EXCEPT !.sum = Preamble(h)]

(* The checks that make a read stop with a header it trusts. *)
Current(h) == eob_header_chksum_is_ok(h) /\ h.geo.magic

Accepts(h) == Current(h) /\ h.geo.version = EOB_HDR_VERSION

(* hdr.h.nodes[n] with n counted from the table: the five words before the
   table are the fixed fields, and the index is not checked on removal.  The
   flag of an entry is the lowest bit of its first word; the magic number is
   odd. *)
EOB_NODE_IS_PRESENT(h, n) ==
    \/ n \in Slots /\ h.tab[n] # Absent
    \/ n = -1 /\ h.geo.count % 2 = 1
    \/ n = -2 /\ h.geo.virt % 2 = 1
    \/ n = -3 /\ h.geo.phys % 2 = 1
    \/ n = -4 /\ h.geo.version % 2 = 1
    \/ n = -5 /\ h.geo.magic

(* hdr.h.nodes[n] = {0} *)
ClearNode(h, n) ==
    IF n \in Slots THEN [h EXCEPT !.tab = [@ EXCEPT ![n] = Absent]]
    ELSE [h EXCEPT !.geo =
             [magic   |-> h.geo.magic /\ n # -5,
              version |-> IF n = -4 THEN 0 ELSE h.geo.version,
              phys    |-> IF n = -3 THEN 0 ELSE h.geo.phys,
              virt    |-> IF n = -2 THEN 0 ELSE h.geo.virt,
              count   |-> IF n = -1 THEN 0 ELSE h.geo.count]]

-----------------------------------------------------------------------------
(* Commands.  "open" is eob_device_open_file or _fd up to its return: count,
   virt and phys come from the address it is given. *)

Ops == {"init", "deinit", "add", "rem", "dump", "open"}

Cmd == [op : Ops, node : Int, ip : Entry, force : BOOLEAN,
        count : Nat, virt : Nat, phys : Nat]

NoCmd == [op |-> "dump", node |-> 0, ip |-> Absent, force |-> FALSE,
          count |-> 0, virt |-> 0, phys |-> 0]

Results == {"OK", "IO", "CHKSUM", "VER_MISM", "INVAL", "abort"}

(* What eob_hdr_init builds: sizes and count given as 0 take the default. *)
OrDefault(x, default) == IF x = 0 THEN default ELSE x

InitVirt(c) == OrDefault(c.virt, EOB_DEFAULT_BLK_SIZE)
InitPhys(c) == OrDefault(c.phys, EOB_DEFAULT_BLK_SIZE)

InitHeader(c) ==
    eob_header_chksum_calc(
        [ZeroHeader EXCEPT !.geo = [magic |-> TRUE,
                                    version |-> EOB_HDR_VERSION,
                                    phys |-> InitPhys(c),
                                    virt |-> InitVirt(c),
                                    count |-> OrDefault(c.count, MaxCluster)]])

(* The VERIFYs of eob_hdr_init, and of eob_write_header it ends with. *)
InitSizesOk(c) ==
    /\ InitPhys(c) <= InitVirt(c)
    /\ P2Phase(InitVirt(c), InitPhys(c)) = 0
    /\ InitPhys(c) >= EOB_HDR_SIZE

(* Mutant: the table is not carried over. *)
RewrittenHeader_cleared(c, h) ==
    eob_header_chksum_calc(
        [ZeroHeader EXCEPT !.geo = [magic |-> TRUE, version |-> EOB_HDR_VERSION,
                                    phys |-> c.phys, virt |-> c.virt,
                                    count |-> c.count]])

(* What eob_device_init_hdr writes over h: the fixed fields are set from the
   address, the node table stays as it was read. *)
RewrittenHeader(c, h) ==
    eob_header_chksum_calc(
        [h EXCEPT !.geo = [magic |-> TRUE, version |-> EOB_HDR_VERSION,
                           phys |-> c.phys, virt |-> c.virt,
                           count |-> c.count]])

(* Mutant: node ids counted from one. *)
AddedHeader_shifted(c, h) ==
    eob_header_chksum_calc([h EXCEPT !.tab = [@ EXCEPT ![c.node - 1] = c.ip]])

(* The header of eob_hdr_add_device, the present flag set by iface_hdr_add. *)
AddedHeader(c, h) ==
    eob_header_chksum_calc([h EXCEPT !.tab = [@ EXCEPT ![c.node] = c.ip]])

(* Mutant: the checksum is not computed again. *)
RemovedHeader_stale(c, h) == ClearNode(h, c.node)

RemovedHeader(c, h) == eob_header_chksum_calc(ClearNode(h, c.node))

(* Mutant: off by one. *)
NodeIdTooLarge_one(c, h) == c.node < 0 \/ c.node > h.geo.count

(* node_id >= nodes_count compares as unsigned: a negative id is too large. *)
NodeIdTooLarge(c, h) == c.node < 0 \/ c.node >= h.geo.count

(* Mutant: the entry is not looked at. *)
AddRefused_blind(c, h) == NodeIdTooLarge(c, h)

AddRefused(c, h) ==
    \/ NodeIdTooLarge(c, h)
    \/ ~c.force /\ EOB_NODE_IS_PRESENT(h, c.node)

(* The geometry checks of eob_device_init_hdr on a header it accepted. *)
GeometryMismatch(c, h) ==
    \/ h.geo.phys # c.phys
    \/ h.geo.virt # c.virt
    \/ h.geo.virt < h.geo.phys

ASSUME HdrConstants ==
    /\ Absent \notin Ips
    /\ NoSum \notin Preambles
    /\ MaxCluster \in Nat \ {0}
    /\ PadSlots \in Nat

(* Inputs within the header: an index past the padding is past the struct.
   A device address holds 1 << shift, never less than a header. *)
ASSUME HeaderInputs ==
    /\ Commands \subseteq Cmd
    /\ \A c \in Commands :
          /\ c.op = "add" => c.ip \in Ips /\ c.node \in Slots \cup (-5 .. -1)
          /\ c.op = "rem" => c.node \in Slots \cup (-5 .. -1)
          /\ c.op = "open" => c.phys >= EOB_HDR_SIZE

(* A device starts with zeros, rubbish or a header some version wrote. *)
ASSUME HeaderDisks ==
    /\ InitialDisks \subseteq Header
    /\ \A h \in InitialDisks : h.sum = NoSum \/ eob_header_chksum_is_ok(h)
=============================================================================

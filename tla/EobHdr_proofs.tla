----------------------------- MODULE EobHdr_proofs -----------------------------
(***************************************************************************)
(* What the header operators of EobHdr return, for any cluster size, any   *)
(* command and any header: lemmas for the proofs about EobHeader and Iface.*)
(***************************************************************************)
EXTENDS EobHdr, TLAPS

(* The preamble of a header is a preamble. *)
LEMMA PreambleType ==
    ASSUME NEW h \in Header
    PROVE  Preamble(h) \in Preambles
<1>1. \A i \in Covered : i \in Slots /\ h.tab[i] \in Entry
  BY HdrConstants DEF Header, Covered, Slots
<1> QED
  BY <1>1 DEF Header, Preamble, Preambles

(* Computing the checksum gives a header whose checksum fits, and leaves the
   rest: eob_header_chksum_calc and eob_header_chksum_is_ok agree. *)
LEMMA ChksumCalc ==
    ASSUME NEW h \in Header
    PROVE  /\ eob_header_chksum_calc(h) \in Header
           /\ eob_header_chksum_is_ok(eob_header_chksum_calc(h))
           /\ eob_header_chksum_calc(h).geo = h.geo
           /\ eob_header_chksum_calc(h).tab = h.tab
<1> DEFINE g == eob_header_chksum_calc(h)
<1>1. Preamble(h) \in Preambles
  BY PreambleType
<1>2. g \in Header /\ g.geo = h.geo /\ g.tab = h.tab /\ g.sum = Preamble(h)
  BY <1>1 DEF Header, eob_header_chksum_calc
<1>3. Preamble(g) = Preamble(h)
  BY <1>2 DEF Preamble
<1> QED
  BY <1>2, <1>3 DEF eob_header_chksum_is_ok

(* 512 zero bytes are a header without a checksum. *)
LEMMA ZeroHeaderType == ZeroHeader \in Header /\ ZeroHeader.sum = NoSum
  BY DEF ZeroHeader, ZeroTab, Header, Geo, Entry

(* Every header a command writes is a header whose checksum fits. *)
LEMMA HeadersWritten ==
    ASSUME NEW c \in Cmd, NEW h \in Header
    PROVE  /\ InitHeader(c) \in Header
           /\ eob_header_chksum_is_ok(InitHeader(c))
           /\ RewrittenHeader(c, h) \in Header
           /\ eob_header_chksum_is_ok(RewrittenHeader(c, h))
           /\ RewrittenHeader(c, h).tab = h.tab
           /\ AddedHeader(c, h) \in Header
           /\ eob_header_chksum_is_ok(AddedHeader(c, h))
           /\ RemovedHeader(c, h) \in Header
           /\ eob_header_chksum_is_ok(RemovedHeader(c, h))
<1>1. /\ InitHeader(c) \in Header
      /\ eob_header_chksum_is_ok(InitHeader(c))
  <2> DEFINE g == [magic |-> TRUE, version |-> EOB_HDR_VERSION,
                   phys |-> InitPhys(c), virt |-> InitVirt(c),
                   count |-> OrDefault(c.count, MaxCluster)]
  <2>1. g \in Geo
    BY HdrConstants
       DEF Cmd, Geo, InitPhys, InitVirt, OrDefault, EOB_HDR_VERSION,
           EOB_DEFAULT_BLK_SIZE
  <2>2. [ZeroHeader EXCEPT !.geo = g] \in Header
    BY <2>1, ZeroHeaderType DEF Header
  <2> QED
    BY <2>2, ChksumCalc DEF InitHeader
<1>2. /\ RewrittenHeader(c, h) \in Header
      /\ eob_header_chksum_is_ok(RewrittenHeader(c, h))
      /\ RewrittenHeader(c, h).tab = h.tab
  <2> DEFINE g == [magic |-> TRUE, version |-> EOB_HDR_VERSION,
                   phys |-> c.phys, virt |-> c.virt, count |-> c.count]
             r == [h EXCEPT !.geo = g]
  <2>1. g \in Geo
    BY DEF Cmd, Geo, EOB_HDR_VERSION
  <2>2. r \in Header /\ r.tab = h.tab
    BY <2>1 DEF Header
  <2>3. RewrittenHeader(c, h) = eob_header_chksum_calc(r)
    BY DEF RewrittenHeader
  <2> HIDE DEF r, g
  <2> QED
    BY <2>2, <2>3, ChksumCalc
<1>3. /\ AddedHeader(c, h) \in Header
      /\ eob_header_chksum_is_ok(AddedHeader(c, h))
  <2> DEFINE t == [h.tab EXCEPT ![c.node] = c.ip]
             r == [h EXCEPT !.tab = t]
  <2>1. t \in [Slots -> Entry]
    BY DEF Header, Entry, Cmd
  <2>2. r \in Header
    BY <2>1 DEF Header
  <2>3. AddedHeader(c, h) = eob_header_chksum_calc(r)
    BY DEF AddedHeader
  <2> HIDE DEF r, t
  <2> QED
    BY <2>2, <2>3, ChksumCalc
<1>4. /\ RemovedHeader(c, h) \in Header
      /\ eob_header_chksum_is_ok(RemovedHeader(c, h))
  <2>1. ClearNode(h, c.node) \in Header
    <3>1. CASE c.node \in Slots
      <4> DEFINE t == [h.tab EXCEPT ![c.node] = Absent]
      <4>1. t \in [Slots -> Entry]
        BY DEF Header, Entry
      <4>2. [h EXCEPT !.tab = t] \in Header
        BY <4>1 DEF Header
      <4> QED
        BY <3>1, <4>2 DEF ClearNode
    <3>2. CASE c.node \notin Slots
      <4> DEFINE g == [magic   |-> h.geo.magic /\ c.node # -5,
                       version |-> IF c.node = -4 THEN 0 ELSE h.geo.version,
                       phys    |-> IF c.node = -3 THEN 0 ELSE h.geo.phys,
                       virt    |-> IF c.node = -2 THEN 0 ELSE h.geo.virt,
                       count   |-> IF c.node = -1 THEN 0 ELSE h.geo.count]
      <4>1. g \in Geo
        BY DEF Header, Geo
      <4>2. [h EXCEPT !.geo = g] \in Header
        BY <4>1 DEF Header
      <4> QED
        BY <3>2, <4>2 DEF ClearNode
    <3> QED
      BY <3>1, <3>2
  <2> QED
    BY <2>1, ChksumCalc DEF RemovedHeader
<1> QED
  BY <1>1, <1>2, <1>3, <1>4

(* The node table and the fixed fields each of them has. *)
LEMMA TablesWritten ==
    ASSUME NEW c \in Cmd, NEW h \in Header
    PROVE  /\ InitHeader(c).tab = ZeroTab
           /\ AddedHeader(c, h).tab = [h.tab EXCEPT ![c.node] = c.ip]
           /\ AddedHeader(c, h).geo = h.geo
           /\ c.node \in Slots
                 => /\ RemovedHeader(c, h).tab = [h.tab EXCEPT ![c.node] = Absent]
                    /\ RemovedHeader(c, h).geo = h.geo
           /\ c.node \notin Slots => RemovedHeader(c, h).tab = h.tab
<1>1. InitHeader(c).tab = ZeroTab
  BY DEF InitHeader, eob_header_chksum_calc, ZeroHeader
<1>2. /\ AddedHeader(c, h).tab = [h.tab EXCEPT ![c.node] = c.ip]
      /\ AddedHeader(c, h).geo = h.geo
  <2> DEFINE t == [h.tab EXCEPT ![c.node] = c.ip]
             r == [h EXCEPT !.tab = t]
  <2>1. r.geo = h.geo /\ r.tab = t
    BY DEF Header
  <2>2. AddedHeader(c, h) = eob_header_chksum_calc(r)
    BY DEF AddedHeader
  <2>3. AddedHeader(c, h).tab = r.tab /\ AddedHeader(c, h).geo = r.geo
    <3> HIDE DEF r
    <3> QED
      BY <2>1, <2>2 DEF eob_header_chksum_calc
  <2> QED
    BY <2>1, <2>3
<1>3. ASSUME c.node \in Slots
      PROVE  /\ RemovedHeader(c, h).tab = [h.tab EXCEPT ![c.node] = Absent]
             /\ RemovedHeader(c, h).geo = h.geo
  <2> DEFINE t == [h.tab EXCEPT ![c.node] = Absent]
             r == [h EXCEPT !.tab = t]
  <2>1. r.geo = h.geo /\ r.tab = t
    BY DEF Header
  <2>2. RemovedHeader(c, h) = eob_header_chksum_calc(r)
    BY <1>3 DEF RemovedHeader, ClearNode
  <2>3. RemovedHeader(c, h).tab = r.tab /\ RemovedHeader(c, h).geo = r.geo
    <3> HIDE DEF r
    <3> QED
      BY <2>1, <2>2 DEF eob_header_chksum_calc
  <2> QED
    BY <2>1, <2>3
<1>4. ASSUME c.node \notin Slots
      PROVE  RemovedHeader(c, h).tab = h.tab
  <2>1. PICK g : ClearNode(h, c.node) = [h EXCEPT !.geo = g]
    BY <1>4 DEF ClearNode
  <2>2. ClearNode(h, c.node).tab = h.tab
    BY <2>1 DEF Header
  <2> QED
    BY <2>2 DEF RemovedHeader, eob_header_chksum_calc
<1> QED
  BY <1>1, <1>2, <1>3, <1>4

(* The nodes in the table are below nodes_count. *)
CoversNodes(h) == \A i \in Slots : h.tab[i] # Absent => i < h.geo.count

(* eob_hdr_init writes an empty table, eob_hdr_add_device an entry below the
   count, eob_hdr_rem_device takes an entry away: each keeps a header whose
   count covers its nodes such a header. *)
LEMMA CoverKept ==
    ASSUME NEW c \in Cmd, NEW h \in Header
    PROVE  /\ CoversNodes(InitHeader(c))
           /\ (CoversNodes(h) /\ ~AddRefused(c, h))
                 => CoversNodes(AddedHeader(c, h))
           /\ (CoversNodes(h) /\ c.node \in Slots)
                 => CoversNodes(RemovedHeader(c, h))
<1>1. CoversNodes(InitHeader(c))
  BY TablesWritten DEF CoversNodes, ZeroTab
<1>2. ASSUME CoversNodes(h), ~AddRefused(c, h)
      PROVE  CoversNodes(AddedHeader(c, h))
  <2>1. c.node < h.geo.count
    BY <1>2 DEF AddRefused, NodeIdTooLarge, Cmd, Header, Geo
  <2>2. /\ AddedHeader(c, h).tab = [h.tab EXCEPT ![c.node] = c.ip]
        /\ AddedHeader(c, h).geo = h.geo
    BY TablesWritten
  <2> QED
    BY <1>2, <2>1, <2>2 DEF CoversNodes, Header
<1>3. ASSUME CoversNodes(h), c.node \in Slots
      PROVE  CoversNodes(RemovedHeader(c, h))
  <2>1. /\ RemovedHeader(c, h).tab = [h.tab EXCEPT ![c.node] = Absent]
        /\ RemovedHeader(c, h).geo = h.geo
    BY <1>3, TablesWritten
  <2> QED
    BY <1>3, <2>1 DEF CoversNodes, Header
<1> QED
  BY <1>1, <1>2, <1>3
=============================================================================

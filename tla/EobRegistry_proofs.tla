-------------------------- MODULE EobRegistry_proofs --------------------------
(***************************************************************************)
(* The header protocol of EobHeader implements the registry of EobRegistry *)
(* for any number of processes, any cluster size and any commands: every   *)
(* step is one of the registry's, or leaves what the registry shows alone. *)
(***************************************************************************)
EXTENDS EobHeader_proofs

-----------------------------------------------------------------------------
(* The instance of EobRegistry has the header operators of EobHdr under names
   of its own. *)
LEMMA SameConstants ==
    /\ Registry!Covered = Covered /\ Registry!Slots = Slots
    /\ Registry!Entry = Entry /\ Registry!EOB_HDR_SIZE = EOB_HDR_SIZE
    /\ Registry!NoCmd = NoCmd /\ Registry!ZeroHeader = ZeroHeader
  BY DEF Registry!Covered, Covered, Registry!Slots, Slots, Registry!Entry,
         Entry, Registry!EOB_HDR_SIZE, EOB_HDR_SIZE, Registry!NoCmd, NoCmd,
         Registry!ZeroHeader, ZeroHeader, Registry!ZeroTab, ZeroTab

LEMMA SameTests ==
    ASSUME NEW c, NEW h
    PROVE  /\ Registry!Current(h) = Current(h)
           /\ Registry!Accepts(h) = Accepts(h)
           /\ Registry!EOB_NODE_IS_PRESENT(h, c.node)
                = EOB_NODE_IS_PRESENT(h, c.node)
           /\ Registry!AddRefused(c, h) = AddRefused(c, h)
           /\ Registry!GeometryMismatch(c, h) = GeometryMismatch(c, h)
           /\ Registry!InitSizesOk(c) = InitSizesOk(c)
  BY DEF Registry!Current, Current, Registry!Accepts, Accepts,
         Registry!eob_header_chksum_is_ok, eob_header_chksum_is_ok,
         Registry!Preamble, Preamble, Registry!Covered, Covered,
         Registry!EOB_HDR_VERSION, EOB_HDR_VERSION,
         Registry!EOB_NODE_IS_PRESENT, EOB_NODE_IS_PRESENT, Registry!Slots, Slots,
         Registry!AddRefused, AddRefused, Registry!NodeIdTooLarge, NodeIdTooLarge,
         Registry!GeometryMismatch, GeometryMismatch,
         Registry!InitSizesOk, InitSizesOk, Registry!InitPhys, InitPhys,
         Registry!InitVirt, InitVirt, Registry!OrDefault, OrDefault,
         Registry!EOB_DEFAULT_BLK_SIZE, EOB_DEFAULT_BLK_SIZE,
         Registry!P2Phase, P2Phase, Registry!EOB_HDR_SIZE, EOB_HDR_SIZE

LEMMA SameHeaders ==
    ASSUME NEW c, NEW h
    PROVE  /\ Registry!InitHeader(c) = InitHeader(c)
           /\ Registry!AddedHeader(c, h) = AddedHeader(c, h)
           /\ Registry!RemovedHeader(c, h) = RemovedHeader(c, h)
           /\ Registry!RewrittenHeader(c, h) = RewrittenHeader(c, h)
  BY DEF Registry!InitHeader, InitHeader, Registry!AddedHeader, AddedHeader,
         Registry!RemovedHeader, RemovedHeader, Registry!RewrittenHeader,
         RewrittenHeader, Registry!eob_header_chksum_calc, eob_header_chksum_calc,
         Registry!Preamble, Preamble, Registry!Covered, Covered,
         Registry!ClearNode, ClearNode, Registry!Slots, Slots,
         Registry!ZeroHeader, ZeroHeader, Registry!ZeroTab, ZeroTab,
         Registry!InitPhys, InitPhys, Registry!InitVirt, InitVirt,
         Registry!OrDefault, OrDefault, Registry!EOB_HDR_VERSION, EOB_HDR_VERSION,
         Registry!EOB_DEFAULT_BLK_SIZE, EOB_DEFAULT_BLK_SIZE

-----------------------------------------------------------------------------
(* What a command knows at each place *)

(* b is a snapshot of a header of w: its preamble was there and passes. *)
Snapshot(w, b) ==
    /\ b \in Header
    /\ \E g \in w : /\ Accepts(g) /\ b.geo = g.geo /\ b.sum = g.sum
                    /\ \A i \in Covered : b.tab[i] = g.tab[i]

(* h is what the command c may install if it has seen the headers of w. *)
Installs(c, w, h) ==
    \/ c.op = "init" /\ h = InitHeader(c)
    \/ c.op = "deinit" /\ h = ZeroHeader
    \/ /\ c.op = "add"
       /\ \E b : Snapshot(w, b) /\ ~AddRefused(c, b) /\ h = AddedHeader(c, b)
    \/ /\ c.op = "rem"
       /\ \E b : /\ Snapshot(w, b) /\ EOB_NODE_IS_PRESENT(b, c.node)
                 /\ h = RemovedHeader(c, b)
    \/ c.op = "open" /\ \E g \in w : h = RewrittenHeader(c, g)

(* The headers p may have seen a table of: those that were complete since it
   began, and the one whose table is on the device ahead of its checksum. *)
Seen(p) == window[p] \cup {buf[v] : v \in {q \in Procs : pc[q] = "wsum"}}

(* A read takes its table from a header of s; what is written follows from
   headers of s until the page is locked, and of w from then on. *)
PlaceInv(label, c, h, w, s) ==
    /\ label \in PcReading \cup {"accepted"} => c.op \in {"add", "rem", "dump", "open"}
    /\ label = "rewrite" => c.op = "open"
    /\ label \in {"rsum", "check", "accepted", "rewrite"}
          => \E g \in s : g.tab = h.tab
    /\ label = "wgeo" => Installs(c, s, h)
    /\ label \in PcWriting => Installs(c, w, h)

RegistryInv ==
    \A p \in Procs : PlaceInv(pc[p], cmd[p], buf[p], window[p], Seen(p))

(* To have seen more does no harm. *)
LEMMA PlaceGrows ==
    ASSUME NEW label, NEW c, NEW h, NEW w, NEW s, NEW w2, NEW s2,
           w \subseteq w2, s \subseteq s2, PlaceInv(label, c, h, w, s)
    PROVE  PlaceInv(label, c, h, w2, s2)
<1>1. \A b : (Snapshot(w, b) => Snapshot(w2, b)) /\ (Snapshot(s, b) => Snapshot(s2, b))
  BY DEF Snapshot
<1>2. (Installs(c, w, h) => Installs(c, w2, h)) /\ (Installs(c, s, h) => Installs(c, s2, h))
  BY <1>1 DEF Installs
<1> QED
  BY <1>2 DEF PlaceInv

(* The table on the device is that of a header p may have seen. *)
LEMMA DiskTableSeen ==
    ASSUME TypeInv, ProtocolInv, NEW p \in Procs, pc[p] # "idle"
    PROVE  \E g \in Seen(p) : g.tab = disk.tab
<1>1. stable \in Seen(p) /\ stable \in Header
  BY DEF ProtocolInv, WindowInv, Seen, TypeInv, TypeOK
<1>2. CASE writer = NoProc
  BY <1>1, <1>2 DEF ProtocolInv, DiskInv
<1>3. ASSUME NEW v \in Procs, writer = v
      PROVE  \E g \in Seen(p) : g.tab = disk.tab
  <2>1. pc[v] \in PcWriting /\ buf[v] \in Header
    BY <1>3 DEF ProtocolInv, LockInv, TypeInv, TypeOK
  <2>2. CASE pc[v] = "wtab"
    <3>1. disk = [stable EXCEPT !.geo = buf[v].geo]
      BY <2>2 DEF ProtocolInv, DiskInv
    <3>2. disk.tab = stable.tab
      BY <1>1, <3>1 DEF Header
    <3> QED
      BY <1>1, <3>2
  <2>3. CASE pc[v] = "wsum"
    <3>1. disk = [buf[v] EXCEPT !.sum = stable.sum]
      BY <2>3 DEF ProtocolInv, DiskInv
    <3>2. disk.tab = buf[v].tab
      BY <2>1, <3>1 DEF Header
    <3>3. buf[v] \in Seen(p)
      BY <2>3 DEF Seen
    <3> QED
      BY <3>2, <3>3
  <2> QED
    BY <2>1, <2>2, <2>3 DEF PcWriting
<1> QED
  BY <1>2, <1>3 DEF TypeInv, TypeOK

(* With the page unlocked there is nothing to be seen but what was complete. *)
LEMMA SeenUnlocked ==
    ASSUME ProtocolInv, writer = NoProc, NEW p \in Procs
    PROVE  Seen(p) = window[p]
<1>1. \A q \in Procs : pc[q] # "wsum"
  BY HeaderConstants DEF ProtocolInv, LockInv, PcWriting
<1> QED
  BY <1>1 DEF Seen

(* What a command has accepted is a snapshot. *)
LEMMA AcceptedSnapshot ==
    ASSUME TypeInv, ProtocolInv, NEW p \in Procs, pc[p] = "accepted"
    PROVE  Snapshot(window[p], buf[p])
<1>1. Accepts(buf[p]) /\ WasThere(p, buf[p])
  BY DEF ProtocolInv, SnapshotInv
<1>2. PICK g \in window[p] :
         eob_header_chksum_is_ok(g) /\ Preamble(g) = Preamble(buf[p])
  BY <1>1 DEF WasThere
<1>3. g \in Header /\ buf[p] \in Header
  BY DEF TypeInv, TypeOK
<1>4. g.geo = buf[p].geo /\ \A i \in Covered : buf[p].tab[i] = g.tab[i]
  BY <1>2, <1>3 DEF Preamble
<1>5. g.sum = buf[p].sum
  BY <1>1, <1>2 DEF Accepts, Current, eob_header_chksum_is_ok
<1>6. Accepts(g)
  BY <1>1, <1>2, <1>4 DEF Accepts, Current
<1> QED
  BY <1>2, <1>3, <1>4, <1>5, <1>6 DEF Snapshot

(* A rewrite depends on the table alone. *)
LEMMA RewriteByTable ==
    ASSUME NEW c, NEW g \in Header, NEW h \in Header, g.tab = h.tab
    PROVE  RewrittenHeader(c, g) = RewrittenHeader(c, h)
<1> DEFINE n == [magic |-> TRUE, version |-> EOB_HDR_VERSION, phys |-> c.phys,
                 virt |-> c.virt, count |-> c.count]
           gn == [g EXCEPT !.geo = n]
           hn == [h EXCEPT !.geo = n]
<1>1. RewrittenHeader(c, g) = [gn EXCEPT !.sum = Preamble(gn)]
  BY DEF RewrittenHeader, eob_header_chksum_calc
<1>2. RewrittenHeader(c, h) = [hn EXCEPT !.sum = Preamble(hn)]
  BY DEF RewrittenHeader, eob_header_chksum_calc
<1> HIDE DEF n
<1>3. gn = [geo |-> n, tab |-> g.tab, sum |-> g.sum]
  BY DEF Header
<1>4. hn = [geo |-> n, tab |-> g.tab, sum |-> h.sum]
  BY DEF Header
<1>5. Preamble(gn) = Preamble(hn)
  BY <1>3, <1>4 DEF Preamble
<1> HIDE DEF gn, hn
<1>6. [gn EXCEPT !.sum = Preamble(gn)] = [hn EXCEPT !.sum = Preamble(hn)]
  BY <1>3, <1>4, <1>5
<1> QED
  BY <1>1, <1>2, <1>6

-----------------------------------------------------------------------------
(* What the registry allows *)

LEMMA SnapshotAllowed ==
    ASSUME TypeInv, NEW p \in Procs, NEW b, Snapshot(window[p], b)
    PROVE  b \in Registry!Snapshots(p)
<1>1. PICK g \in window[p] : /\ Accepts(g) /\ b.geo = g.geo /\ b.sum = g.sum
                             /\ \A i \in Covered : b.tab[i] = g.tab[i]
  BY DEF Snapshot
<1>2. g \in Header /\ b \in Header
  BY DEF Snapshot, TypeInv, TypeOK
<1>3. b = [g EXCEPT !.tab = b.tab] /\ b.tab \in [Slots -> Entry]
  BY <1>1, <1>2 DEF Header
<1>4. Registry!Accepts(g)
  BY <1>1, SameTests
<1>5. b.tab \in {u \in [Registry!Slots -> Registry!Entry] :
                   \A i \in Registry!Covered : u[i] = g.tab[i]}
  BY <1>1, <1>3, SameConstants
<1>6. b \in {[g EXCEPT !.tab = t] :
               t \in {u \in [Registry!Slots -> Registry!Entry] :
                        \A i \in Registry!Covered : u[i] = g.tab[i]}}
  BY <1>3, <1>5
<1> QED
  BY <1>4, <1>6 DEF Registry!Snapshots

(* The replies of a command that has not written. *)
LEMMA ReplyAllowed ==
    ASSUME TypeInv, NEW p \in Procs
    PROVE  /\ IOErrors => "IO" \in Registry!KeepReplies(p)
           /\ cmd[p].op \in {"add", "rem", "dump"}
                 => "CHKSUM" \in Registry!KeepReplies(p)
           /\ (/\ cmd[p].op \in {"add", "rem", "dump"}
               /\ \E h \in window[p] : Current(h) /\ ~Accepts(h))
                 => "VER_MISM" \in Registry!KeepReplies(p)
           /\ \A b : Snapshot(window[p], b)
                 => Registry!KeepReply(cmd[p], b) \subseteq Registry!KeepReplies(p)
<1>1. IOErrors => "IO" \in Registry!KeepReplies(p)
  BY DEF Registry!KeepReplies, Registry!Failed
<1>2. cmd[p].op \in {"add", "rem", "dump"} => "CHKSUM" \in Registry!KeepReplies(p)
  BY DEF Registry!KeepReplies, Registry!Unread
<1>3. (/\ cmd[p].op \in {"add", "rem", "dump"}
       /\ \E h \in window[p] : Current(h) /\ ~Accepts(h))
         => "VER_MISM" \in Registry!KeepReplies(p)
  BY SameTests DEF Registry!KeepReplies, Registry!Unread
<1>4. ASSUME NEW b, Snapshot(window[p], b)
      PROVE  Registry!KeepReply(cmd[p], b) \subseteq Registry!KeepReplies(p)
  <2>1. b \in Registry!Snapshots(p)
    BY <1>4, SnapshotAllowed
  <2> QED
    BY <2>1 DEF Registry!KeepReplies, Registry!Decided
<1> QED
  BY <1>1, <1>2, <1>3, <1>4

(* What KeepReply gives, in terms of the operators of EobHdr. *)
LEMMA KeepReplyIs ==
    ASSUME NEW c \in Cmd, NEW b
    PROVE  /\ c.op = "dump" => "OK" \in Registry!KeepReply(c, b)
           /\ (c.op = "add" /\ AddRefused(c, b)) => "INVAL" \in Registry!KeepReply(c, b)
           /\ (c.op = "add" /\ ~AddRefused(c, b) /\ b.geo.phys < EOB_HDR_SIZE)
                 => "abort" \in Registry!KeepReply(c, b)
           /\ (c.op = "rem" /\ ~EOB_NODE_IS_PRESENT(b, c.node))
                 => "OK" \in Registry!KeepReply(c, b)
           /\ (/\ c.op = "rem" /\ EOB_NODE_IS_PRESENT(b, c.node)
               /\ RemovedHeader(c, b).geo.phys < EOB_HDR_SIZE)
                 => "abort" \in Registry!KeepReply(c, b)
           /\ (c.op = "open" /\ ~c.force)
                 => (IF GeometryMismatch(c, b) THEN "INVAL" ELSE "OK")
                        \in Registry!KeepReply(c, b)
<1>1. /\ Registry!AddRefused(c, b) = AddRefused(c, b)
      /\ Registry!EOB_NODE_IS_PRESENT(b, c.node) = EOB_NODE_IS_PRESENT(b, c.node)
      /\ Registry!GeometryMismatch(c, b) = GeometryMismatch(c, b)
      /\ Registry!RemovedHeader(c, b) = RemovedHeader(c, b)
      /\ Registry!EOB_HDR_SIZE = EOB_HDR_SIZE
  BY SameTests, SameHeaders, SameConstants
<1>2. CASE c.op = "dump"
  BY <1>1, <1>2 DEF Registry!KeepReply
<1>3. CASE c.op = "add"
  BY <1>1, <1>3 DEF Registry!KeepReply
<1>4. CASE c.op = "rem"
  BY <1>1, <1>4 DEF Registry!KeepReply
<1>5. CASE c.op = "open"
  BY <1>1, <1>5 DEF Registry!KeepReply
<1> QED
  BY <1>2, <1>3, <1>4, <1>5

(* What may be installed. *)
LEMMA InstallAllowed ==
    ASSUME TypeInv, NEW p \in Procs, NEW h, Installs(cmd[p], window[p], h)
    PROVE  h \in Registry!Replacements(p)
<1>1. CASE cmd[p].op = "init" /\ h = InitHeader(cmd[p])
  <2>1. h = Registry!InitHeader(cmd[p])
    BY <1>1, SameHeaders
  <2> QED
    BY <1>1, <2>1 DEF Registry!Replacements
<1>2. CASE cmd[p].op = "deinit" /\ h = ZeroHeader
  BY <1>2, SameConstants DEF Registry!Replacements
<1>3. ASSUME NEW b, cmd[p].op = "add", Snapshot(window[p], b),
             ~AddRefused(cmd[p], b), h = AddedHeader(cmd[p], b)
      PROVE  h \in Registry!Replacements(p)
  <2>1. /\ b \in Registry!Snapshots(p) /\ ~Registry!AddRefused(cmd[p], b)
        /\ h = Registry!AddedHeader(cmd[p], b)
    BY <1>3, SnapshotAllowed, SameTests, SameHeaders
  <2> QED
    BY <1>3, <2>1 DEF Registry!Replacements
<1>4. ASSUME NEW b, cmd[p].op = "rem", Snapshot(window[p], b),
             EOB_NODE_IS_PRESENT(b, cmd[p].node), h = RemovedHeader(cmd[p], b)
      PROVE  h \in Registry!Replacements(p)
  <2>1. /\ b \in Registry!Snapshots(p)
        /\ Registry!EOB_NODE_IS_PRESENT(b, cmd[p].node)
        /\ h = Registry!RemovedHeader(cmd[p], b)
    BY <1>4, SnapshotAllowed, SameTests, SameHeaders
  <2> QED
    BY <1>4, <2>1 DEF Registry!Replacements
<1>5. ASSUME NEW g \in window[p], cmd[p].op = "open", h = RewrittenHeader(cmd[p], g)
      PROVE  h \in Registry!Replacements(p)
  <2>1. h = Registry!RewrittenHeader(cmd[p], g)
    BY <1>5, SameHeaders
  <2> QED
    BY <1>5, <2>1 DEF Registry!Replacements
<1> QED
  BY <1>1, <1>2, <1>3, <1>4, <1>5 DEF Installs

-----------------------------------------------------------------------------
(* The steps of the protocol, as the registry sees them *)

(* p begins a command. *)
Begins(p) ==
    /\ pc[p] = "idle" /\ pc'[p] # "idle"
    /\ \E c \in Commands : cmd' = [cmd EXCEPT ![p] = c]
    /\ window' = [window EXCEPT ![p] = {stable}]
    /\ UNCHANGED <<stable, res>>
    /\ \A w, s : PlaceInv(pc'[p], cmd'[p], buf'[p], w, s)

(* p goes on inside its command: the registry sees nothing. *)
GoesOn(p) ==
    /\ pc[p] \notin {"idle", "wsum"} /\ pc'[p] # "idle"
    /\ UNCHANGED <<stable, window, cmd, res>>
    /\ PlaceInv(pc'[p], cmd[p], buf'[p], window[p], Seen(p))

(* p returns without having written. *)
Returns(p) ==
    /\ pc[p] \notin {"idle", "wsum"}
    /\ \E r \in Registry!KeepReplies(p) : Return(p, r)
    /\ UNCHANGED stable

LEMMA BeginBegins ==
    ASSUME TypeInv, NEW p \in Procs, NEW c \in Commands,
           NEW label \in {"rgeo", "wgeo"}, NEW h, Begin(p, c, label, h),
           \A w, s : PlaceInv(label, c, h, w, s)
    PROVE  Begins(p)
<1>1. pc'[p] = label /\ cmd'[p] = c /\ buf'[p] = h
  BY DEF Begin, TypeInv, TypeOK
<1>2. /\ pc[p] = "idle" /\ cmd' = [cmd EXCEPT ![p] = c]
      /\ window' = [window EXCEPT ![p] = {stable}] /\ stable' = stable /\ res' = res
  BY DEF Begin
<1>3. \A w, s : PlaceInv(pc'[p], cmd'[p], buf'[p], w, s)
  BY <1>1
<1> QED
  BY <1>1, <1>2, <1>3 DEF Begins

LEMMA GotoGoesOn ==
    ASSUME TypeInv, NEW p \in Procs, NEW label, NEW h, Goto(p, label, h),
           pc[p] \notin {"idle", "wsum"}, label # "idle", UNCHANGED history,
           PlaceInv(label, cmd[p], h, window[p], Seen(p))
    PROVE  GoesOn(p)
<1>1. pc'[p] = label /\ buf'[p] = h
  BY DEF Goto, TypeInv, TypeOK
<1>2. UNCHANGED <<stable, window, cmd, res>>
  BY DEF Goto, history
<1>3. PlaceInv(pc'[p], cmd[p], buf'[p], window[p], Seen(p))
  BY <1>1
<1> QED
  BY <1>1, <1>2, <1>3 DEF GoesOn

LEMMA BeginKinds ==
    ASSUME TypeInv, NEW p \in Procs, BeginCommand(p)
    PROVE  Begins(p) \/ eob_hdr_init_abort(p)
<1>1. CASE eob_hdr_init(p)
  <2>1. PICK c \in Commands : c.op = "init" /\ Begin(p, c, "wgeo", InitHeader(c))
    BY <1>1 DEF eob_hdr_init
  <2>2. \A w, s : PlaceInv("wgeo", c, InitHeader(c), w, s)
    BY <2>1 DEF PlaceInv, Installs, PcReading, PcWriting
  <2> QED
    BY <2>1, <2>2, BeginBegins
<1>2. CASE eob_hdr_deinit(p)
  <2>1. PICK c \in Commands : c.op = "deinit" /\ Begin(p, c, "wgeo", ZeroHeader)
    BY <1>2 DEF eob_hdr_deinit
  <2>2. \A w, s : PlaceInv("wgeo", c, ZeroHeader, w, s)
    BY <2>1 DEF PlaceInv, Installs, PcReading, PcWriting
  <2> QED
    BY <2>1, <2>2, BeginBegins
<1>3. CASE BeginRead(p)
  <2>1. PICK c \in Commands : /\ c.op \in {"add", "rem", "dump", "open"}
                              /\ Begin(p, c, "rgeo", ZeroHeader)
    BY <1>3 DEF BeginRead
  <2>2. \A w, s : PlaceInv("rgeo", c, ZeroHeader, w, s)
    BY <2>1 DEF PlaceInv, PcReading, PcWriting
  <2> QED
    BY <2>1, <2>2, BeginBegins
<1> QED
  BY <1>1, <1>2, <1>3 DEF BeginCommand

(* The steps of a read. *)
LEMMA ReadKinds ==
    ASSUME TypeInv, ProtocolInv, RegistryInv, NEW p \in Procs,
           \/ ReadGeo(p) \/ ReadTab(p) \/ ReadSum(p) \/ ReadFail(p)
           \/ ReadAccept(p) \/ ReadAgain(p) \/ ReadGivesUp(p)
    PROVE  GoesOn(p) \/ Returns(p)
<1>t. buf[p] \in Header /\ disk \in Header
  BY DEF TypeInv, TypeOK
<1>i. PlaceInv(pc[p], cmd[p], buf[p], window[p], Seen(p))
  BY DEF RegistryInv
<1>1. CASE ReadGeo(p)
  <2>1. /\ pc[p] = "rgeo" /\ pc'[p] = "rtab"
        /\ UNCHANGED <<stable, window, cmd, res>>
    BY <1>1 DEF ReadGeo, TypeInv, TypeOK
  <2>2. PlaceInv("rtab", cmd[p], buf'[p], window[p], Seen(p))
    BY <1>i, <2>1 DEF PlaceInv, PcReading, PcWriting
  <2> QED
    BY <2>1, <2>2 DEF GoesOn
<1>2. CASE ReadTab(p)
  <2> DEFINE h == [buf[p] EXCEPT !.tab = disk.tab]
  <2>1. pc[p] = "rtab" /\ Goto(p, "rsum", h) /\ UNCHANGED history
    BY <1>2 DEF ReadTab
  <2>2. h.tab = disk.tab
    BY <1>t DEF Header
  <2>3. \E g \in Seen(p) : g.tab = h.tab
    BY <2>1, <2>2, DiskTableSeen
  <2> HIDE DEF h
  <2>4. PlaceInv("rsum", cmd[p], h, window[p], Seen(p))
    BY <1>i, <2>1, <2>3 DEF PlaceInv, PcReading, PcWriting
  <2> QED
    BY <2>1, <2>4, GotoGoesOn
<1>3. CASE ReadSum(p)
  <2> DEFINE h == [buf[p] EXCEPT !.sum = disk.sum]
  <2>1. pc[p] = "rsum" /\ Goto(p, "check", h) /\ UNCHANGED history
    BY <1>3 DEF ReadSum
  <2>2. h.tab = buf[p].tab
    BY <1>t DEF Header
  <2> HIDE DEF h
  <2>4. PlaceInv("check", cmd[p], h, window[p], Seen(p))
    BY <1>i, <2>1, <2>2 DEF PlaceInv, PcReading, PcWriting
  <2> QED
    BY <2>1, <2>4, GotoGoesOn
<1>4. CASE ReadFail(p)
  BY <1>4, ReplyAllowed DEF ReadFail, Returns
<1>5. CASE ReadAccept(p)
  <2>1. pc[p] = "check" /\ Goto(p, "accepted", buf[p]) /\ UNCHANGED history
    BY <1>5 DEF ReadAccept
  <2>2. PlaceInv("accepted", cmd[p], buf[p], window[p], Seen(p))
    BY <1>i, <2>1 DEF PlaceInv, PcReading, PcWriting
  <2> QED
    BY <2>1, <2>2, GotoGoesOn
<1>6. CASE ReadAgain(p)
  <2>1. pc[p] = "check" /\ Goto(p, "rgeo", buf[p]) /\ UNCHANGED history
    BY <1>6 DEF ReadAgain
  <2>2. PlaceInv("rgeo", cmd[p], buf[p], window[p], Seen(p))
    BY <1>i, <2>1 DEF PlaceInv, PcReading, PcWriting
  <2> QED
    BY <2>1, <2>2, GotoGoesOn
<1>7. CASE ReadGivesUp(p)
  <2>1. pc[p] = "check" /\ ~Accepts(buf[p])
    BY <1>7 DEF ReadGivesUp
  <2>2. CASE /\ cmd[p].op = "open" /\ Goto(p, "rewrite", buf[p])
             /\ UNCHANGED history
    <3>1. PlaceInv("rewrite", cmd[p], buf[p], window[p], Seen(p))
      BY <1>i, <2>1, <2>2 DEF PlaceInv, PcReading, PcWriting
    <3> QED
      BY <2>1, <2>2, <3>1, GotoGoesOn
  <2>3. CASE cmd[p].op # "open" /\ Return(p, ReadError(p)) /\ UNCHANGED stable
    <3>1. cmd[p].op \in {"add", "rem", "dump"}
      BY <1>i, <2>1, <2>3 DEF PlaceInv, PcReading
    <3>2. CASE ~Current(buf[p])
      BY <2>1, <2>3, <3>1, <3>2, ReplyAllowed DEF ReadError, Returns
    <3>3. CASE Current(buf[p])
      <4>1. PICK g \in window[p] :
               eob_header_chksum_is_ok(g) /\ Preamble(g) = Preamble(buf[p])
        BY <2>1, <3>3 DEF ProtocolInv, SnapshotInv, WasThere
      <4>2. g \in Header
        BY DEF TypeInv, TypeOK
      <4>3. g.geo = buf[p].geo
        BY <1>t, <4>1, <4>2, PreambleParts
      <4>4. Current(g) /\ ~Accepts(g)
        BY <2>1, <3>3, <4>1, <4>3 DEF Current, Accepts
      <4> QED
        BY <2>1, <2>3, <3>1, <3>3, <4>4, ReplyAllowed DEF ReadError, Returns
    <3> QED
      BY <3>2, <3>3
  <2> QED
    BY <1>7, <2>2, <2>3 DEF ReadGivesUp
<1> QED
  BY <1>1, <1>2, <1>3, <1>4, <1>5, <1>6, <1>7

(* What a command does with the header it has. *)
LEMMA DecideKinds ==
    ASSUME TypeInv, ProtocolInv, RegistryInv, NEW p \in Procs,
           \/ eob_hdr_dump(p)
           \/ eob_hdr_add_device(p) \/ eob_hdr_add_device_refused(p)
           \/ eob_hdr_rem_device(p) \/ eob_hdr_rem_device_absent(p)
           \/ eob_device_init_hdr(p) \/ eob_device_init_hdr_rewrite(p)
    PROVE  GoesOn(p) \/ Returns(p)
<1>t. buf[p] \in Header /\ cmd[p] \in Cmd /\ window[p] \subseteq Seen(p)
  BY DEF TypeInv, TypeOK, Seen
<1>i. PlaceInv(pc[p], cmd[p], buf[p], window[p], Seen(p))
  BY DEF RegistryInv
<1>s. pc[p] = "accepted" => /\ Snapshot(window[p], buf[p])
                            /\ Snapshot(Seen(p), buf[p])
  BY <1>t, AcceptedSnapshot DEF Snapshot
<1>r. ASSUME NEW r \in Registry!KeepReply(cmd[p], buf[p]), pc[p] = "accepted",
             Return(p, r), stable' = stable
      PROVE  Returns(p)
  BY <1>r, <1>s, ReplyAllowed DEF Returns
<1>w. ASSUME NEW h, pc[p] \in {"accepted", "rewrite"}, Goto(p, "wgeo", h),
             UNCHANGED history, Installs(cmd[p], Seen(p), h)
      PROVE  GoesOn(p)
  <2>1. PlaceInv("wgeo", cmd[p], h, window[p], Seen(p))
    BY <1>w DEF PlaceInv, PcReading, PcWriting
  <2> QED
    BY <1>w, <2>1, GotoGoesOn
<1>1. CASE eob_hdr_dump(p)
  BY <1>1, <1>r, <1>t, KeepReplyIs DEF eob_hdr_dump
<1>2. CASE eob_hdr_add_device(p)
  <2> DEFINE h == AddedHeader(cmd[p], buf[p])
  <2>1. /\ pc[p] = "accepted" /\ cmd[p].op = "add" /\ WriteOrAbort(p, h)
        /\ ~AddRefused(cmd[p], buf[p])
    BY <1>2 DEF eob_hdr_add_device
  <2>2. h.geo = buf[p].geo
    BY <1>t DEF AddedHeader, eob_header_chksum_calc, Header
  <2>3. Installs(cmd[p], Seen(p), h)
    BY <1>s, <2>1 DEF Installs
  <2> HIDE DEF h
  <2>4. CASE Goto(p, "wgeo", h) /\ UNCHANGED history
    BY <1>w, <2>1, <2>3, <2>4
  <2>5. CASE h.geo.phys < EOB_HDR_SIZE /\ Return(p, "abort") /\ UNCHANGED stable
    BY <1>r, <1>t, <2>1, <2>2, <2>5, KeepReplyIs
  <2> QED
    BY <2>1, <2>4, <2>5 DEF WriteOrAbort
<1>3. CASE eob_hdr_add_device_refused(p)
  BY <1>3, <1>r, <1>t, KeepReplyIs DEF eob_hdr_add_device_refused
<1>4. CASE eob_hdr_rem_device(p)
  <2> DEFINE h == RemovedHeader(cmd[p], buf[p])
  <2>1. /\ pc[p] = "accepted" /\ cmd[p].op = "rem" /\ WriteOrAbort(p, h)
        /\ EOB_NODE_IS_PRESENT(buf[p], cmd[p].node)
    BY <1>4 DEF eob_hdr_rem_device
  <2>3. Installs(cmd[p], Seen(p), h)
    BY <1>s, <2>1 DEF Installs
  <2>6. h.geo.phys < EOB_HDR_SIZE => "abort" \in Registry!KeepReply(cmd[p], buf[p])
    BY <1>t, <2>1, KeepReplyIs
  <2> HIDE DEF h
  <2>4. CASE Goto(p, "wgeo", h) /\ UNCHANGED history
    BY <1>w, <2>1, <2>3, <2>4
  <2>5. CASE h.geo.phys < EOB_HDR_SIZE /\ Return(p, "abort") /\ UNCHANGED stable
    BY <1>r, <2>1, <2>5, <2>6
  <2> QED
    BY <2>1, <2>4, <2>5 DEF WriteOrAbort
<1>5. CASE eob_hdr_rem_device_absent(p)
  BY <1>5, <1>r, <1>t, KeepReplyIs DEF eob_hdr_rem_device_absent
<1>6. CASE eob_device_init_hdr(p)
  BY <1>6, <1>r, <1>t, KeepReplyIs DEF eob_device_init_hdr
<1>7. CASE eob_device_init_hdr_rewrite(p)
  <2> DEFINE h == RewrittenHeader(cmd[p], buf[p])
  <2>1. /\ pc[p] \in {"accepted", "rewrite"} /\ Goto(p, "wgeo", h)
        /\ UNCHANGED history /\ (pc[p] = "accepted" => cmd[p].op = "open")
    BY <1>7 DEF eob_device_init_hdr_rewrite
  <2>2. cmd[p].op = "open"
    BY <1>i, <2>1 DEF PlaceInv
  <2>3. PICK g \in Seen(p) : g.tab = buf[p].tab
    BY <1>i, <2>1 DEF PlaceInv
  <2>4. g \in Header
    BY DEF Seen, TypeInv, TypeOK
  <2>5. h = RewrittenHeader(cmd[p], g)
    BY <1>t, <2>3, <2>4, RewriteByTable
  <2> HIDE DEF h
  <2>6. Installs(cmd[p], Seen(p), h)
    BY <2>2, <2>5 DEF Installs
  <2> QED
    BY <1>w, <2>1, <2>6
<1> QED
  BY <1>1, <1>2, <1>3, <1>4, <1>5, <1>6, <1>7

(* The steps of a write before its last, which the registry does not see. *)
LEMMA WriteKinds ==
    ASSUME TypeInv, ProtocolInv, RegistryInv, NEW p \in Procs,
           WriteGeo(p) \/ WriteTab(p) \/ WriteFail(p)
    PROVE  GoesOn(p) \/ Returns(p)
<1>i. PlaceInv(pc[p], cmd[p], buf[p], window[p], Seen(p))
  BY DEF RegistryInv
<1>1. CASE WriteGeo(p)
  <2>1. /\ pc[p] = "wgeo" /\ writer = NoProc /\ pc'[p] = "wtab"
        /\ UNCHANGED <<stable, window, cmd, res, buf>>
    BY <1>1 DEF WriteGeo, Disturb, TypeInv, TypeOK
  <2>2. Installs(cmd[p], window[p], buf[p])
    BY <1>i, <2>1, SeenUnlocked DEF PlaceInv
  <2>3. PlaceInv("wtab", cmd[p], buf[p], window[p], Seen(p))
    BY <2>2 DEF PlaceInv, PcReading, PcWriting
  <2> QED
    BY <2>1, <2>3 DEF GoesOn
<1>2. CASE WriteTab(p)
  <2>1. /\ pc[p] = "wtab" /\ pc'[p] = "wsum"
        /\ UNCHANGED <<stable, window, cmd, res, buf>>
    BY <1>2 DEF WriteTab, Disturb, TypeInv, TypeOK
  <2>2. PlaceInv("wsum", cmd[p], buf[p], window[p], Seen(p))
    BY <1>i, <2>1 DEF PlaceInv, PcReading, PcWriting
  <2> QED
    BY <2>1, <2>2 DEF GoesOn
<1>3. CASE WriteFail(p)
  BY <1>3, ReplyAllowed DEF WriteFail, Returns
<1> QED
  BY <1>1, <1>2, <1>3

LEMMA StepKinds ==
    ASSUME TypeInv, ProtocolInv, RegistryInv, NEW p \in Procs,
           BeginCommand(p) \/ Work(p)
    PROVE  \/ Begins(p) \/ eob_hdr_init_abort(p) \/ GoesOn(p) \/ Returns(p)
           \/ WriteSum(p)
  BY BeginKinds, ReadKinds, DecideKinds, WriteKinds DEF Work

-----------------------------------------------------------------------------
(* The invariant *)

(* The others see no less than before. *)
LEMMA SeenGrows ==
    ASSUME TypeInv, NEW p \in Procs, BeginCommand(p) \/ Work(p),
           \/ Begins(p) \/ eob_hdr_init_abort(p) \/ GoesOn(p) \/ Returns(p)
           \/ WriteSum(p),
           NEW q \in Procs, pc[q] # "idle", pc'[q] # "idle"
    PROVE  window[q] \subseteq window'[q] /\ Seen(q) \subseteq Seen(q)'
<1>1. \A v \in Procs \ {p} : pc'[v] = pc[v] /\ buf'[v] = buf[v]
  BY StepHandles DEF Handles
<1>2. CASE WriteSum(p)
  <2>1. /\ window' = [v \in Procs |-> IF pc[v] = "idle" \/ v = p THEN {}
                                      ELSE window[v] \cup {buf[p]}]
        /\ pc'[p] = "idle"
    BY <1>2 DEF WriteSum, TypeInv, TypeOK
  <2>2. window'[q] = window[q] \cup {buf[p]}
    BY <2>1
  <2>3. \A v \in Procs : pc[v] = "wsum" => buf[v] \in Seen(q)'
    BY <1>1, <2>2 DEF Seen
  <2> QED
    BY <2>2, <2>3 DEF Seen
<1>3. CASE ~WriteSum(p)
  <2>1. pc[p] # "wsum"
    BY <1>3 DEF Begins, eob_hdr_init_abort, GoesOn, Returns
  <2>2. window'[q] = window[q]
    BY <1>3 DEF Begins, eob_hdr_init_abort, GoesOn, Returns, Return, TypeInv, TypeOK
  <2>3. \A v \in Procs : pc[v] = "wsum" => pc'[v] = "wsum" /\ buf'[v] = buf[v]
    BY <1>1, <2>1
  <2> QED
    BY <2>2, <2>3 DEF Seen
<1> QED
  BY <1>2, <1>3

LEMMA RegistryStep ==
    TypeInv /\ ProtocolInv /\ RegistryInv /\ [Next]_vars => RegistryInv'
<1> SUFFICES ASSUME TypeInv, ProtocolInv, RegistryInv, [Next]_vars
             PROVE  RegistryInv'
  OBVIOUS
<1>1. CASE UNCHANGED vars
  BY <1>1 DEF vars, RegistryInv, PlaceInv, Installs, Snapshot, Seen
<1>2. ASSUME NEW p \in Procs, BeginCommand(p) \/ Work(p)
      PROVE  RegistryInv'
  <2> SUFFICES ASSUME NEW q \in Procs
               PROVE  PlaceInv(pc'[q], cmd'[q], buf'[q], window'[q], Seen(q)')
    BY DEF RegistryInv
  <2>1. \/ Begins(p) \/ eob_hdr_init_abort(p) \/ GoesOn(p) \/ Returns(p)
        \/ WriteSum(p)
    BY <1>2, StepKinds
  <2>2. CASE pc'[q] = "idle"
    BY <2>2 DEF PlaceInv, PcReading, PcWriting
  <2>3. CASE pc'[q] # "idle" /\ pc[q] # "idle"
    <3>1. window[q] \subseteq window'[q] /\ Seen(q) \subseteq Seen(q)'
      BY <1>2, <2>1, <2>3, SeenGrows
    <3>2. PlaceInv(pc'[q], cmd'[q], buf'[q], window[q], Seen(q))
      <4>1. CASE q = p
        <5>1. GoesOn(p)
          BY <2>1, <2>3, <4>1 DEF Begins, eob_hdr_init_abort, Returns, Return,
                                  WriteSum, TypeInv, TypeOK
        <5> QED
          BY <4>1, <5>1 DEF GoesOn
      <4>2. CASE q # p
        <5>1. pc'[q] = pc[q] /\ cmd'[q] = cmd[q] /\ buf'[q] = buf[q]
          BY <1>2, <4>2, StepHandles DEF Handles
        <5> QED
          BY <5>1 DEF RegistryInv
      <4> QED
        BY <4>1, <4>2
    <3> QED
      BY <3>1, <3>2, PlaceGrows
  <2>4. CASE pc'[q] # "idle" /\ pc[q] = "idle"
    <3>1. q = p
      BY <1>2, <2>4, StepHandles DEF Handles
    <3>2. Begins(p)
      BY <2>1, <2>4, <3>1 DEF eob_hdr_init_abort, GoesOn, Returns, WriteSum
    <3> QED
      BY <3>1, <3>2 DEF Begins
  <2> QED
    BY <2>2, <2>3, <2>4
<1> QED
  BY <1>1, <1>2 DEF Next

-----------------------------------------------------------------------------
(* The refinement *)

LEMMA RegistrySteps ==
    TypeInv /\ ProtocolInv /\ RegistryInv /\ [Next]_vars
        => [Registry!RNext]_(Registry!rvars)
<1> SUFFICES ASSUME TypeInv, ProtocolInv, RegistryInv, [Next]_vars
             PROVE  [Registry!RNext]_(Registry!rvars)
  OBVIOUS
<1>1. CASE UNCHANGED vars
  BY <1>1 DEF vars, Registry!rvars
<1>2. ASSUME NEW p \in Procs, BeginCommand(p) \/ Work(p)
      PROVE  [Registry!RNext]_(Registry!rvars)
  <2>w. /\ pc[p] = "idle" => window[p] = {}
        /\ pc[p] # "idle" => stable \in window[p]
    BY DEF ProtocolInv, WindowInv
  <2>1. CASE Begins(p)
    <3>1. Registry!Call(p)
      BY <2>1, <2>w DEF Begins, Registry!Call
    <3> QED
      BY <3>1 DEF Registry!RNext
  <2>2. CASE eob_hdr_init_abort(p)
    <3>1. PICK c \in Commands : c.op = "init" /\ ~InitSizesOk(c)
      BY <2>2 DEF eob_hdr_init_abort
    <3>2. ~Registry!InitSizesOk(c)
      BY <3>1, SameTests
    <3>3. /\ pc[p] = "idle" /\ res' = [res EXCEPT ![p] = "abort"]
          /\ stable' = stable /\ cmd' = cmd /\ window' = window
      BY <2>2 DEF eob_hdr_init_abort
    <3>4. Registry!CallAborts(p)
      BY <2>w, <3>1, <3>2, <3>3 DEF Registry!CallAborts
    <3> QED
      BY <3>4 DEF Registry!RNext
  <2>3. CASE GoesOn(p)
    BY <2>3 DEF GoesOn, Registry!rvars
  <2>4. CASE Returns(p)
    <3>1. PICK r \in Registry!KeepReplies(p) : Return(p, r)
      BY <2>4 DEF Returns
    <3>2. Registry!Answer(p, r) /\ window' = [window EXCEPT ![p] = {}]
      BY <3>1, SameConstants DEF Return, Registry!Answer
    <3>3. window[p] # {} /\ stable' = stable
      BY <2>4, <2>w DEF Returns
    <3>4. Registry!Keep(p)
      BY <3>2, <3>3 DEF Registry!Keep
    <3> QED
      BY <3>4 DEF Registry!RNext
  <2>5. CASE WriteSum(p)
    <3>1. PICK r \in IF IOErrors THEN {"OK", "IO"} ELSE {"OK"} :
             /\ cmd' = [cmd EXCEPT ![p] = NoCmd] /\ res' = [res EXCEPT ![p] = r]
      BY <2>5 DEF WriteSum
    <3>2. /\ pc[p] = "wsum" /\ stable' = buf[p]
          /\ window' = [q \in Procs |-> IF pc[q] = "idle" \/ q = p THEN {}
                                        ELSE window[q] \cup {buf[p]}]
      BY <2>5 DEF WriteSum
    <3>3. Installs(cmd[p], window[p], buf[p])
      BY <3>2 DEF RegistryInv, PlaceInv, PcWriting
    <3>4. stable' \in Registry!Replacements(p)
      BY <3>2, <3>3, InstallAllowed
    <3>5. window' = [q \in Procs |-> IF window[q] = {} \/ q = p THEN {}
                                     ELSE window[q] \cup {stable'}]
      <4>1. \A q \in Procs : window[q] = {} <=> pc[q] = "idle"
        BY DEF ProtocolInv, WindowInv
      <4> QED
        BY <3>2, <4>1
    <3>6. Registry!Answer(p, r)
      BY <3>1, SameConstants DEF Registry!Answer
    <3>7. r \in {"OK"} \cup Registry!Failed
      BY <3>1 DEF Registry!Failed
    <3>8. Registry!Replace(p)
      BY <2>w, <3>2, <3>4, <3>5, <3>6, <3>7 DEF Registry!Replace
    <3> QED
      BY <3>8 DEF Registry!RNext
  <2> QED
    BY <1>2, <2>1, <2>2, <2>3, <2>4, <2>5, StepKinds
<1> QED
  BY <1>1, <1>2 DEF Next

(* The header commands of liboblock.c implement the registry, however many
   processes run them at once: although headers are read and written in parts
   and without a lock, each command decides on one header that was there since
   it began, and its write takes effect at one moment, with the checksum. *)
THEOREM HeaderImplementsRegistry == Spec => ImplementsRegistry
<1>1. Init => RegistryInv
  BY DEF Init, RegistryInv, PlaceInv, PcReading, PcWriting
<1>2. Init => Registry!RInit
  BY SameConstants DEF Init, Registry!RInit
<1>3. TypeInv /\ ProtocolInv /\ RegistryInv /\ [Next]_vars => RegistryInv'
  BY RegistryStep
<1>4. TypeInv /\ ProtocolInv /\ RegistryInv /\ [Next]_vars
        => [Registry!RNext]_(Registry!rvars)
  BY RegistrySteps
<1> QED
  BY <1>1, <1>2, <1>3, <1>4, Protocol, PTL
     DEF Spec, ImplementsRegistry, Registry!RSpec
=============================================================================

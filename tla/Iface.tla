------------------------------- MODULE Iface -------------------------------
(***************************************************************************)
(* The program iface and other clients of the library on one device: the   *)
(* header of EobHdr and the blocks of the nodes behind it, in 512-byte     *)
(* sectors.  Processes run subcommands, each from its arguments to its     *)
(* exit code.                                                              *)
(*                                                                         *)
(* A header or block transfer is one step here; EobHeader and EobMailbox   *)
(* model its pieces, and show that a header read gives a header that was   *)
(* on the device or gives up.  Between the steps anything may run.         *)
(***************************************************************************)
EXTENDS EobHdr

CONSTANTS
    Procs,         \* process slots
    Texts,         \* contents of input files
    TextLen,       \* TextLen[t]: bytes of t
    None,          \* no text: zeros, or a checksum that fits no text
    IfaceCommands, \* the command lines run
    MaxCommands,   \* bound: commands run
    Sectors,       \* bound: 512-byte sectors behind the header
    Faults         \* may reads, writes and the log setup fail?

(* How a device or a file is named on the command line: a path that can be
   opened, "-", or a path that cannot. *)
Named == {"path", "-", "missing"}

(* "lib send" and "lib recv" are clients of the library with blocks of any
   size; send and recv of iface take 512. *)
Subs == {"help", "usage", "init", "deinit", "add", "remove", "dump", "dump -j",
         "send", "recv", "lib send", "lib recv"}

IfaceCmd == [sub : Subs, dev : Named, file : Named, force : BOOLEAN, node : Int,
             dst : Nat, ip : Entry, count : Nat, virt : Nat, phys : Nat,
             text : Texts \cup {None}]

Opens(c) == c.sub \in {"send", "recv", "lib send", "lib recv"}
Sends(c) == c.sub \in {"send", "lib send"}
IntoFile(c) == c.sub = "recv" /\ c.file = "path"

(* The library call behind a subcommand.  struct eob_hw_addr_idx holds the
   count and the node ids in eight bits. *)
HdrCmd(c) ==
    [NoCmd EXCEPT
        !.op = CASE Opens(c) -> "open" [] c.sub = "remove" -> "rem"
                 [] OTHER -> c.sub,
        !.node = c.node, !.ip = c.ip, !.force = c.force,
        !.count = IF Opens(c) THEN c.count % 256 ELSE c.count,
        !.virt = c.virt, !.phys = c.phys]

VARIABLES
    hdr,      \* the header on the device
    sector,   \* sector[i]: what the i-th sector behind it holds
    at,       \* where each process is
    cmd,      \* its command line
    buf,      \* the header it has read, or is about to write
    fds,      \* descriptors its command has open
    exit,     \* how its last command ended, where, and which it was
    out,      \* the packet its last recv gave, if any
    commands, \* commands started
    posted,   \* history: every packet written
    mail,     \* history: packets reported as sent and not overwritten since
    rewrote   \* history: an open has rewritten the header

vars == <<hdr, sector, at, cmd, buf, fds, exit, out, commands, posted, mail,
          rewrote>>

NoIface == [sub |-> "help", dev |-> "path", file |-> "-", force |-> FALSE,
            node |-> 0, dst |-> 0, ip |-> Absent, count |-> 0, virt |-> 0,
            phys |-> 0, text |-> None]

NoExit == [code |-> "none", at |-> "idle", sub |-> "help"]

-----------------------------------------------------------------------------
(* A packet as a send gives it to a block: head is its source and its text. *)
Packet(node, virt, head) == [node |-> node, virt |-> virt, head |-> head]

(* Sectors.  head is source and text of a packet that starts here, tail the
   text whose checksum ends here; a rubbish sector has a head of no packet. *)

Zeros == [head |-> <<>>, tail |-> None]
Rubbish == [head |-> <<None, None>>, tail |-> None]

First(virt, node) == BlockOffset(virt, node) \div EOB_HDR_SIZE
Last(virt, node) == First(virt, node) + virt \div EOB_HDR_SIZE - 1

(* Room for data in a packet, and up to where it runs over the tail only.  The
   head has 24 bytes: union eob_hw_addr is padded to 16. *)
DataRoom(virt) == virt - 32
TailEnd(virt) == virt - 24

(* Mutant: the source id is not cut to eight bits. *)
Packed_wide(c, i) ==
    [head |-> IF i = First(c.virt, c.dst % 256) THEN <<c.node, c.text>> ELSE <<>>,
     tail |-> IF i = Last(c.virt, c.dst % 256) THEN c.text ELSE None]

(* eob_device_send lays a packet out; one that is too long loses its tail. *)
Packed(c, i) ==
    [head |-> IF i = First(c.virt, c.dst % 256) THEN <<c.node % 256, c.text>>
              ELSE <<>>,
     tail |-> IF i = Last(c.virt, c.dst % 256)
                 /\ TextLen[c.text] + 1 <= DataRoom(c.virt)
              THEN c.text ELSE None]

(* eob_device_recv: a length of 0 aborts, a rubbish one may. *)
DecodeBlock(virt, node) ==
    LET h == sector[First(virt, node)].head IN
    CASE h = <<>> -> "empty"
      [] h = Rubbish.head -> "rubbish"
      [] OTHER ->
            IF sector[Last(virt, node)].tail = h[2] THEN "OK" ELSE "CHKSUM"

(* The sectors behind the header that a header write of phys bytes reaches. *)
Behind(phys) == {i \in DOMAIN sector : i < phys \div EOB_HDR_SIZE}

(* Mutant: a header write is always one default block. *)
WrittenOver_default(phys, with) ==
    [i \in DOMAIN sector |->
        IF i \in Behind(EOB_DEFAULT_BLK_SIZE) THEN with ELSE sector[i]]

WrittenOver(phys, with) ==
    [i \in DOMAIN sector |-> IF i \in Behind(phys) THEN with ELSE sector[i]]

-----------------------------------------------------------------------------

Init ==
    /\ hdr \in InitialDisks
    /\ sector = [i \in 1 .. Sectors |-> Zeros]
    /\ at = [p \in Procs |-> "idle"]
    /\ cmd = [p \in Procs |-> NoIface]
    /\ buf = [p \in Procs |-> ZeroHeader]
    /\ fds = [p \in Procs |-> {}]
    /\ exit = [p \in Procs |-> NoExit]
    /\ out = [p \in Procs |-> {}]
    /\ commands = 0
    /\ posted = {} /\ mail = {} /\ rewrote = FALSE

device == <<hdr, sector>>
history == <<posted, mail, rewrote>>

(* main: a code other than 0 that eob_strerror does not know is an abort. *)
Exit(p, code, stillOpen) ==
    /\ at' = [at EXCEPT ![p] = "idle"]
    /\ exit' = [exit EXCEPT ![p] = [code |-> code, at |-> at[p],
                                    sub |-> cmd[p].sub]]
    /\ fds' = [fds EXCEPT ![p] = stillOpen]
    /\ cmd' = [cmd EXCEPT ![p] = NoIface]
    /\ buf' = [buf EXCEPT ![p] = ZeroHeader]

Goto(p, where, h) ==
    /\ at' = [at EXCEPT ![p] = where]
    /\ buf' = [buf EXCEPT ![p] = h]
    /\ UNCHANGED <<cmd, exit>>

-----------------------------------------------------------------------------
(* main and the iface_do_ functions: options are parsed. *)
Start(p, c) ==
    /\ at[p] = "idle" /\ commands < MaxCommands
    /\ commands' = commands + 1
    /\ at' = [at EXCEPT ![p] = "args"]
    /\ cmd' = [cmd EXCEPT ![p] = c]
    /\ fds' = [fds EXCEPT ![p] = {}]
    /\ exit' = [exit EXCEPT ![p] = NoExit]
    /\ out' = [out EXCEPT ![p] = {}]
    /\ UNCHANGED <<device, buf, history>>

(* The arguments are in order but for these. *)
Usage(p) ==
    /\ at[p] = "args"
    /\ \/ cmd[p].sub = "help" /\ Exit(p, "0", {})
       \/ cmd[p].sub = "usage" /\ Exit(p, "2", {})
       \/ cmd[p].sub = "dump -j" /\ Exit(p, "abort", {})
       \/ Faults /\ Exit(p, "1", {})
    /\ UNCHANGED <<device, out, commands, history>>

Local(c) == IF Opens(c) /\ c.file = "path" THEN {"file"} ELSE {}

Runs(c) == c.sub \notin {"help", "usage", "dump -j"}

(* An input or output file, or the device, that cannot be opened.  The file
   opened first stays open; standard input as a device fails a VERIFY. *)
OpenFails(p) ==
    LET c == cmd[p] IN
    /\ at[p] = "args" /\ Runs(c)
    /\ \/ Opens(c) /\ c.file = "missing" /\ Exit(p, "1", {})
       \/ c.file # "missing" /\ c.dev = "missing" /\ Exit(p, "1", Local(c))
       \/ /\ c.file # "missing" /\ c.dev = "-" /\ c.sub = "recv"
          /\ Exit(p, "abort", {})
    /\ UNCHANGED <<device, out, commands, history>>

(* The device can be opened: "-" is standard output for send. *)
Opened(p) ==
    LET c == cmd[p] IN
    /\ at[p] = "args" /\ Runs(c)
    /\ Opens(c) => c.file # "missing"
    /\ c.dev = "path" \/ (c.dev = "-" /\ c.sub = "send")
    /\ UNCHANGED <<device, out, commands, history>>

(* All but init and deinit read the header. *)
OpenDevice(p) ==
    /\ Opened(p) /\ cmd[p].sub \notin {"init", "deinit"}
    /\ fds' = [fds EXCEPT ![p] = Local(cmd[p]) \cup {"device"}]
    /\ Goto(p, "read", ZeroHeader)

(* iface_hdr_init, eob_hdr_init: sizes in the wrong order fail a VERIFY. *)
iface_hdr_init(p) ==
    LET k == HdrCmd(cmd[p]) IN
    /\ Opened(p) /\ k.op = "init"
    /\ \/ ~InitSizesOk(k) /\ Exit(p, "abort", {})
       \/ /\ InitSizesOk(k)
          /\ fds' = [fds EXCEPT ![p] = {"device"}]
          /\ Goto(p, "write", InitHeader(k))

iface_hdr_deinit(p) ==
    /\ Opened(p) /\ cmd[p].sub = "deinit"
    /\ fds' = [fds EXCEPT ![p] = {"device"}]
    /\ Goto(p, "write", ZeroHeader)

-----------------------------------------------------------------------------
(* A header command closes the device whatever happens; an open that fails
   leaves it, and the file, open. *)
LeftOpen(p) == IF Opens(cmd[p]) THEN fds[p] ELSE {}

(* eob_read_header gives up if the header is bad, or if other writes disturb
   every pass. *)
GivesUp(p) ==
    ~Accepts(hdr) \/ \E q \in Procs \ {p} : at[q] = "write"

ReadFails(p) ==
    LET c == cmd[p] IN
    /\ at[p] = "read"
    /\ \/ Faults
       \/ GivesUp(p) /\ ~Opens(c)
    /\ Exit(p, "1", LeftOpen(p))
    /\ UNCHANGED <<device, out, commands, history>>

(* A header command has read a good header. *)
HasRead(p, sub) ==
    /\ at[p] = "read" /\ cmd[p].sub = sub /\ Accepts(hdr)
    /\ UNCHANGED <<device, out, commands, history>>

iface_hdr_dump(p) == HasRead(p, "dump") /\ Exit(p, "0", {})

(* inet_aton reports a bad address as 0, which iface_hdr_add does not see:
   some address is added. *)
iface_hdr_add(p) ==
    LET k == HdrCmd(cmd[p]) IN
    /\ HasRead(p, "add")
    /\ \/ AddRefused(k, hdr) /\ Exit(p, "1", {})
       \/ /\ ~AddRefused(k, hdr)
          /\ \E ip \in Ips :
                /\ k.ip \in {ip, Absent}
                /\ Goto(p, "write", AddedHeader([k EXCEPT !.ip = ip], hdr))
          /\ UNCHANGED fds

iface_hdr_rem(p) ==
    LET k == HdrCmd(cmd[p]) IN
    /\ HasRead(p, "remove")
    /\ \/ ~EOB_NODE_IS_PRESENT(hdr, k.node) /\ Exit(p, "0", {})
       \/ /\ EOB_NODE_IS_PRESENT(hdr, k.node)
          /\ Goto(p, "write", RemovedHeader(k, hdr)) /\ UNCHANGED fds

(* eob_device_init_hdr for eob_device_open_file and eob_device_open_fd. *)
OpenHeader(p) ==
    LET c == cmd[p]
        k == HdrCmd(c)
    IN
    /\ at[p] = "read" /\ Opens(c)
    /\ \/ /\ Accepts(hdr) /\ ~c.force /\ GeometryMismatch(k, hdr)
          /\ Exit(p, "1", LeftOpen(p))
       \/ /\ Accepts(hdr) /\ ~c.force /\ ~GeometryMismatch(k, hdr)
          /\ Goto(p, "transfer", hdr) /\ UNCHANGED fds
       \/ /\ c.force \/ GivesUp(p)
          /\ Goto(p, "write", RewrittenHeader(k, hdr)) /\ UNCHANGED fds
    /\ UNCHANGED <<device, out, commands, history>>

(* The bytes a header write is long: eob_hdr_deinit writes the header only. *)
WriteLen(c, h) == IF c.sub = "deinit" THEN EOB_HDR_SIZE ELSE h.geo.phys

(* What comes behind the header: eob_device_write_header clears its buffer
   only if the header the device had before was a long one, and at that time
   it has none: the rest of a long block is what malloc returned. *)
WriteHeader(p) ==
    LET c == cmd[p]
        len == WriteLen(c, buf[p])
    IN
    /\ at[p] = "write"
    /\ hdr' = buf[p]
    /\ \E with \in (IF Opens(c) THEN {Zeros, Rubbish} ELSE {Zeros}) :
          sector' = WrittenOver(len, with)
    /\ mail' = {m \in mail : Disjoint(HeaderWriteExtent(len),
                                      BlockExtent(m.virt, m.node))}
    /\ rewrote' = (rewrote \/ Opens(c))
    /\ \/ Opens(c) /\ Goto(p, "transfer", buf[p]) /\ UNCHANGED fds
       \/ ~Opens(c) /\ Exit(p, "0", {})
       \/ Faults /\ Exit(p, "1", LeftOpen(p))
    /\ UNCHANGED <<out, commands, posted>>

(* pwritev may also fail before anything is written. *)
WriteFails(p) ==
    /\ at[p] = "write" /\ Faults
    /\ Exit(p, "1", LeftOpen(p))
    /\ UNCHANGED <<device, out, commands, history>>

-----------------------------------------------------------------------------
(* iface_send from the read of its input on *)

(* Mutant: the input file is left open. *)
SendRefused_open(p) ==
    LET c == cmd[p] IN
    /\ at[p] = "transfer" /\ Sends(c)
    /\ Faults \/ TextLen[c.text] + 1 > c.virt
    /\ Exit(p, "1", fds[p] \ {"device"})
    /\ UNCHANGED <<device, out, commands, history>>

(* The input cannot be read, the packet cannot be written, or the text with
   its zero is longer than a block. *)
SendRefused(p) ==
    LET c == cmd[p] IN
    /\ at[p] = "transfer" /\ Sends(c)
    /\ Faults \/ TextLen[c.text] + 1 > c.virt
    /\ Exit(p, "1", {})
    /\ UNCHANGED <<device, out, commands, history>>

(* A text longer than the room for data runs over the tail, a longer one past
   the packet on the stack. *)
Send(p) ==
    LET c == cmd[p]
        len == TextLen[c.text] + 1
        node == c.dst % 256
        block == BlockExtent(c.virt, node)
        kept == {m \in mail : Disjoint(BlockExtent(m.virt, m.node), block)}
        sent == Packet(node, c.virt, <<c.node % 256, c.text>>)
    IN
    /\ at[p] = "transfer" /\ Sends(c) /\ len <= c.virt
    /\ sector' = [i \in DOMAIN sector |->
                     IF i \in First(c.virt, node) .. Last(c.virt, node)
                     THEN Packed(c, i) ELSE sector[i]]
    /\ posted' = posted \cup {sent}
    /\ \/ /\ Exit(p, "0", {})
          /\ mail' = kept \cup IF len > DataRoom(c.virt) THEN {} ELSE {sent}
       \/ Faults /\ Exit(p, "1", {}) /\ mail' = kept
    /\ UNCHANGED <<hdr, out, commands, rewrote>>

SendCrashes(p) ==
    LET c == cmd[p] IN
    /\ at[p] = "transfer" /\ Sends(c)
    /\ TextLen[c.text] + 1 \in TailEnd(c.virt) + 1 .. c.virt
    /\ Exit(p, "crash", {})
    /\ UNCHANGED <<device, out, commands, history>>

-----------------------------------------------------------------------------
(* iface_recv from eob_device_recv_str on *)

Received(virt, node) == {Packet(node, virt, sector[First(virt, node)].head)}

(* Mutant: the checksum is not looked at. *)
RecvGood_unchecked(p) ==
    LET c == cmd[p]
        node == c.node % 256
    IN
    /\ at[p] = "transfer" /\ Opens(c) /\ ~Sends(c)
    /\ DecodeBlock(c.virt, node) # "empty"
    /\ out' = [out EXCEPT ![p] = Received(c.virt, node)]
    /\ Exit(p, IF IntoFile(c) THEN "abort" ELSE "0", {})
    /\ UNCHANGED <<device, commands, history>>

(* A text for standard output is printed.  A text for a file is written, and
   the count write returned becomes the result, which main hands to
   eob_strerror. *)
RecvGood(p) ==
    LET c == cmd[p]
        node == c.node % 256
    IN
    /\ at[p] = "transfer" /\ Opens(c) /\ ~Sends(c)
    /\ DecodeBlock(c.virt, node) = "OK"
    /\ out' = [out EXCEPT ![p] = Received(c.virt, node)]
    /\ Exit(p, IF IntoFile(c) THEN "abort" ELSE "0", {})
    /\ UNCHANGED <<device, commands, history>>

(* An error is a positive code, iface_recv looks for a negative one: it prints
   and frees a string that was not set, and goes on if it survives that. *)
RecvBad(p) ==
    LET c == cmd[p]
        r == DecodeBlock(c.virt, c.node % 256)
    IN
    /\ at[p] = "transfer" /\ Opens(c) /\ ~Sends(c)
    /\ \/ r \in {"empty", "rubbish"} /\ Exit(p, "abort", {})
       \/ /\ Faults \/ r \in {"CHKSUM", "rubbish"}
          /\ \/ c.sub = "recv" /\ Exit(p, "crash", {})
             \/ Exit(p, IF IntoFile(c) THEN "abort" ELSE "1", {})
    /\ UNCHANGED <<device, out, commands, history>>

-----------------------------------------------------------------------------

Step(p) ==
    \/ Usage(p) \/ OpenFails(p) \/ OpenDevice(p)
    \/ iface_hdr_init(p) \/ iface_hdr_deinit(p) \/ iface_hdr_dump(p)
    \/ iface_hdr_add(p) \/ iface_hdr_rem(p)
    \/ ReadFails(p) \/ OpenHeader(p)
    \/ WriteHeader(p) \/ WriteFails(p)
    \/ SendRefused(p) \/ Send(p) \/ SendCrashes(p)
    \/ RecvGood(p) \/ RecvBad(p)

Next == \E p \in Procs : Step(p) \/ \E c \in IfaceCommands : Start(p, c)

Spec == Init /\ [][Next]_vars

ASSUME IfaceInputs ==
    /\ IfaceCommands \subseteq IfaceCmd
    /\ MaxCommands \in Nat /\ Sectors \in Nat
    /\ None \notin Texts /\ \A t \in Texts : TextLen[t] \in 0 .. EOB_HDR_SIZE
    /\ \A c \in IfaceCommands :
          /\ c.sub = "add" => c.node \in Slots \cup (-5 .. -1)
          /\ c.sub = "remove" => c.node \in Slots
          (* sizes are powers of two, no less than a header *)
          /\ Opens(c) => /\ c.node \in Nat /\ c.virt >= c.phys
                         /\ c.phys >= EOB_HDR_SIZE
                         /\ c.virt % EOB_HDR_SIZE = 0
                         /\ Last(c.virt, c.node % 256) <= Sectors
          /\ Sends(c) => /\ c.text \in Texts
                         /\ Last(c.virt, c.dst % 256) <= Sectors
          (* the text of a large packet lies in its first sector *)
          /\ c.sub = "lib send" => TextLen[c.text] + 1 <= DataRoom(EOB_HDR_SIZE)

-----------------------------------------------------------------------------
(* Types.  A packet in mail was posted; the head of a received one may be
   rubbish as far as its type goes. *)
Heads == (0 .. 255) \X Texts

Sector == [head : {<<>>, Rubbish.head} \cup Heads, tail : Texts \cup {None}]

Packets == [node : 0 .. 255, virt : Nat, head : Heads \cup {Rubbish.head}]

Places == {"idle", "args", "read", "write", "transfer"}

Exits == [code : {"none", "0", "1", "2", "abort", "crash"}, at : Places,
          sub : Subs]

TypeOK ==
    /\ hdr \in Header
    /\ sector \in [1 .. Sectors -> Sector]
    /\ at \in [Procs -> Places]
    /\ cmd \in [Procs -> IfaceCommands \cup {NoIface}]
    /\ buf \in [Procs -> Header]
    /\ fds \in [Procs -> SUBSET {"file", "device"}]
    /\ exit \in [Procs -> Exits]
    /\ out \in [Procs -> SUBSET Packets]
    /\ commands \in 0 .. MaxCommands
    /\ posted \subseteq Packets /\ mail \subseteq posted
    /\ rewrote \in BOOLEAN

(* A packet that a send reported with exit code 0 can be received, until
   another send writes to its block or a header write reaches it: no header
   command, and no open that leaves or rewrites the header, destroys mail
   outside the one physical block it writes. *)
MailOnlyOverwritten ==
    \A m \in mail :
        /\ DecodeBlock(m.virt, m.node) = "OK"
        /\ sector[First(m.virt, m.node)].head = m.head

(* A receive that ends with exit code 0 gave a text that its source had sent
   to a block that starts at the byte where the receive looked: with blocks of
   one size, to this node (ids are the ones given modulo 256).  The error that
   iface_recv does not see is never taken for a success, nor is memory that a
   forced open has written over the blocks. *)
PrintedWasSent ==
    \A p \in Procs :
        (exit[p].sub \in {"recv", "lib recv"} /\ exit[p].code = "0")
            => \E r \in out[p], m \in posted :
                  /\ r.head = m.head
                  /\ BlockOffset(r.virt, r.node) = BlockOffset(m.virt, m.node)

(* As long as no open has rewritten the header, the nodes in the table of a
   good header are below its nodes_count, however init, add, remove and
   deinit of several processes follow each other. *)
CountCoversNodes ==
    (~rewrote /\ Accepts(hdr))
        => \A i \in Slots : hdr.tab[i] # Absent => i < hdr.geo.count

(* Only an open that failed leaves descriptors behind: the header commands and
   every path of send and recv after the open close what they opened. *)
DescriptorsReturned ==
    \A p \in Procs :
        (/\ exit[p].code \in {"0", "1"}
         /\ \/ exit[p].at = "transfer"
            \/ exit[p].sub \notin {"send", "recv", "lib send", "lib recv"})
            => fds[p] = {}

(* "recv [-v] [-F] [-c <nodes-count>] -s <node-id> -f <file> <device>": a
   message that was received into a file is a success. *)
RecvIntoFileSucceeds ==
    \A p \in Procs :
        (exit[p].sub = "recv" /\ out[p] # {}) => exit[p].code = "0"
=============================================================================

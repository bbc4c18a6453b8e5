----------------------------- MODULE Iface_proofs -----------------------------
(***************************************************************************)
(* Proofs about Iface, for any number of processes, any command lines, any *)
(* texts, any block sizes that are whole sectors and any device.           *)
(***************************************************************************)
EXTENDS Iface, EobHdr_proofs, EobLayout_proofs, TLAPS

-----------------------------------------------------------------------------
(* Types *)

(* A process that runs a command has not exited and has one of the commands;
   only an open goes on to a transfer. *)
ControlInv ==
    \A p \in Procs :
        /\ at[p] # "idle" => /\ exit[p].code = "none"
                             /\ cmd[p] \in IfaceCommands
        /\ at[p] = "transfer" => Opens(cmd[p])

TypeInv == TypeOK /\ ControlInv

Codes == {"0", "1", "2", "abort", "crash"}

Descriptors == {"file", "device"}

Receives(c) == c.sub \in {"recv", "lib recv"}

(* A command ends.  Whatever was not an open, and whatever came as far as a
   transfer, has closed its descriptors.  A receive succeeds with a good
   block only. *)
Leaves(p) ==
    \E code \in Codes, left \in SUBSET Descriptors :
        /\ Exit(p, code, left)
        /\ (at[p] = "transfer" \/ ~Opens(cmd[p])) => left = {}
        /\ (code = "0" /\ Receives(cmd[p])) => RecvGood(p)

(* A command goes on.  The header that a header command is about to write
   covers its nodes if the one it has read does. *)
Proceeds(p) ==
    \E where \in {"read", "write", "transfer"}, h \in Header :
        /\ Goto(p, where, h)
        /\ \E open \in SUBSET Descriptors : fds' = [fds EXCEPT ![p] = open]
        /\ where = "transfer" => Opens(cmd[p])
        /\ (where = "write" /\ ~Opens(cmd[p]))
              => ((Accepts(hdr) => CoversNodes(hdr)) => CoversNodes(h))

(* What a step of a process does besides a transfer, and which steps do
   more: a header write and a send change the device, a receive gives a
   packet. *)
Moves(p) ==
    /\ at[p] # "idle"
    /\ Leaves(p) \/ Proceeds(p)
    /\ WriteHeader(p) \/ Send(p) \/ UNCHANGED <<device, history>>
    /\ RecvGood(p) \/ UNCHANGED out
    /\ UNCHANGED commands

LEMMA Bounds == MaxCommands \in Nat /\ Sectors \in Nat
  BY IfaceInputs, Zenon

(* The library call behind a subcommand is a command of EobHdr. *)
LEMMA HdrCmdType ==
    ASSUME NEW c \in IfaceCommands, HdrCmd(c).op \in Ops
    PROVE  HdrCmd(c) \in Cmd
<1>1. c \in IfaceCmd
  BY IfaceInputs
<1>2. c.count % 256 \in Nat /\ c.count \in Nat
  BY <1>1 DEF IfaceCmd
<1>3. NoCmd \in Cmd
  BY DEF NoCmd, Cmd, Ops, Entry
<1> QED
  BY <1>1, <1>2, <1>3 DEF HdrCmd, NoCmd, Cmd, IfaceCmd

(* The fields of the call. *)
LEMMA HdrCmdFields ==
    ASSUME NEW c \in IfaceCommands
    PROVE  /\ HdrCmd(c).node = c.node /\ HdrCmd(c).ip = c.ip
           /\ Opens(c) => HdrCmd(c).op = "open"
           /\ c.sub = "remove" => HdrCmd(c).op = "rem"
           /\ c.sub = "add" => HdrCmd(c).op = "add"
           /\ HdrCmd(c).op = "init" => ~Opens(c)
  BY DEF HdrCmd, NoCmd, Opens

LEMMA NoIfaceFields == ~Opens(NoIface) /\ NoIface.sub = "help"
  BY DEF NoIface, Opens

(* Every step of a process is one of these. *)
LEMMA StepMoves ==
    ASSUME TypeInv, NEW p \in Procs, Step(p)
    PROVE  Moves(p)
<1> DEFINE c == cmd[p]
           k == HdrCmd(cmd[p])
<1>t. /\ hdr \in Header /\ ZeroHeader \in Header /\ buf[p] \in Header
      /\ fds[p] \in SUBSET Descriptors /\ fds = [fds EXCEPT ![p] = fds[p]]
      /\ {} \in SUBSET Descriptors /\ {"device"} \in SUBSET Descriptors
      /\ Local(c) \in SUBSET Descriptors
      /\ Local(c) \cup {"device"} \in SUBSET Descriptors
      /\ ~Opens(c) => Local(c) = {}
      /\ at[p] # "idle" => c \in IfaceCommands
      /\ at[p] = "transfer" => Opens(c)
  BY ZeroHeaderType DEF TypeInv, TypeOK, ControlInv, Descriptors, Local
<1>l. /\ LeftOpen(p) \in SUBSET Descriptors
      /\ ~Opens(c) => LeftOpen(p) = {}
  BY <1>t DEF LeftOpen
<1>z. CoversNodes(ZeroHeader)
  BY DEF CoversNodes, ZeroHeader, ZeroTab
<1> HIDE DEF c, k
<1>1. CASE Usage(p)
  <2>1. at[p] = "args"
    BY <1>1 DEF Usage
  <2>2. PICK code \in Codes : /\ Exit(p, code, {})
                              /\ code = "0" => ~Receives(cmd[p])
    <3>1. \/ cmd[p].sub = "help" /\ Exit(p, "0", {})
          \/ Exit(p, "2", {}) \/ Exit(p, "abort", {}) \/ Exit(p, "1", {})
      BY <1>1 DEF Usage
    <3>2. cmd[p].sub = "help" => ~Receives(cmd[p])
      BY DEF Receives
    <3> QED
      BY <3>1, <3>2 DEF Codes
  <2>3. UNCHANGED <<device, out, commands, history>>
    BY <1>1 DEF Usage
  <2>4. Leaves(p)
    <3>1. /\ (at[p] = "transfer" \/ ~Opens(cmd[p])) => {} = {}
          /\ (code = "0" /\ Receives(cmd[p])) => RecvGood(p)
      BY <2>2
    <3> QED
      BY <1>t, <2>2, <3>1, Zenon DEF Leaves
  <2> QED
    BY <2>1, <2>3, <2>4 DEF Moves
<1>2. CASE OpenFails(p)
  <2>1. at[p] = "args"
    BY <1>2 DEF OpenFails
  <2>2. Exit(p, "1", {}) \/ Exit(p, "1", Local(c)) \/ Exit(p, "abort", {})
    BY <1>2 DEF OpenFails, c
  <2>3. Leaves(p)
    BY <1>t, <2>1, <2>2 DEF Leaves, Codes, c
  <2> QED
    BY <1>2, <2>1, <2>3 DEF OpenFails, Moves
<1>3. CASE OpenDevice(p)
  <2>1. at[p] = "args" /\ UNCHANGED <<device, out, commands, history>>
    BY <1>3 DEF OpenDevice, Opened
  <2>2. Goto(p, "read", ZeroHeader)
    BY <1>3 DEF OpenDevice
  <2>3. fds' = [fds EXCEPT ![p] = Local(c) \cup {"device"}]
    BY <1>3 DEF OpenDevice, c
  <2>4. Proceeds(p)
    BY <1>t, <2>2, <2>3 DEF Proceeds
  <2> QED
    BY <2>1, <2>4 DEF Moves
<1>4. CASE iface_hdr_init(p)
  <2>1. at[p] = "args" /\ UNCHANGED <<device, out, commands, history>>
    BY <1>4 DEF iface_hdr_init, Opened
  <2>2. k.op = "init" /\ ~Opens(c)
    BY <1>4, <2>1, <1>t, HdrCmdFields DEF iface_hdr_init, k, c
  <2>3. k \in Cmd
    BY <2>1, <2>2, <1>t, HdrCmdType DEF k, c, Ops
  <2>4. InitHeader(k) \in Header /\ CoversNodes(InitHeader(k))
    BY <2>3, <1>t, HeadersWritten, CoverKept
  <2>5. CASE Exit(p, "abort", {})
    BY <2>1, <2>5, <1>t DEF Moves, Leaves, Codes
  <2>6. CASE /\ fds' = [fds EXCEPT ![p] = {"device"}]
             /\ Goto(p, "write", InitHeader(k))
    <3>1. Proceeds(p)
      BY <1>t, <2>4, <2>6 DEF Proceeds
    <3> QED
      BY <2>1, <3>1 DEF Moves
  <2> QED
    BY <1>4, <2>5, <2>6 DEF iface_hdr_init, k
<1>5. CASE iface_hdr_deinit(p)
  <2>1. at[p] = "args" /\ UNCHANGED <<device, out, commands, history>>
    BY <1>5 DEF iface_hdr_deinit, Opened
  <2>2. /\ fds' = [fds EXCEPT ![p] = {"device"}]
        /\ Goto(p, "write", ZeroHeader)
    BY <1>5 DEF iface_hdr_deinit
  <2>3. Proceeds(p)
    BY <1>t, <1>z, <2>2 DEF Proceeds
  <2> QED
    BY <2>1, <2>3 DEF Moves
<1>6. CASE iface_hdr_dump(p)
  <2>1. at[p] = "read" /\ UNCHANGED <<device, out, commands, history>>
    BY <1>6 DEF iface_hdr_dump, HasRead
  <2>2. Exit(p, "0", {}) /\ ~Receives(cmd[p])
    BY <1>6 DEF iface_hdr_dump, HasRead, Receives
  <2> QED
    BY <2>1, <2>2, <1>t DEF Moves, Leaves, Codes
<1>7. CASE iface_hdr_add(p)
  <2>1. /\ at[p] = "read" /\ c.sub = "add" /\ Accepts(hdr)
        /\ UNCHANGED <<device, out, commands, history>>
    BY <1>7 DEF iface_hdr_add, HasRead, c
  <2>2. CASE Exit(p, "1", {})
    BY <2>1, <2>2, <1>t DEF Moves, Leaves, Codes
  <2>3. ASSUME ~AddRefused(k, hdr), NEW ip \in Ips,
               Goto(p, "write", AddedHeader([k EXCEPT !.ip = ip], hdr)),
               UNCHANGED fds
        PROVE  Moves(p)
    <3> DEFINE d == [k EXCEPT !.ip = ip]
    <3>1. k \in Cmd
      BY <2>1, <1>t, HdrCmdFields, HdrCmdType DEF k, c, Ops
    <3>2. d \in Cmd /\ d.node = k.node /\ d.force = k.force
      BY <3>1 DEF Cmd, Entry
    <3>3. ~AddRefused(d, hdr)
      BY <2>3, <3>2 DEF AddRefused, NodeIdTooLarge
    <3>4. Goto(p, "write", AddedHeader(d, hdr))
      BY <2>3
    <3> HIDE DEF d
    <3>5. /\ AddedHeader(d, hdr) \in Header
          /\ CoversNodes(hdr) => CoversNodes(AddedHeader(d, hdr))
      BY <3>2, <3>3, <1>t, HeadersWritten, CoverKept
    <3>6. fds' = [fds EXCEPT ![p] = fds[p]]
      BY <2>3, <1>t
    <3>7. Proceeds(p)
      BY <1>t, <2>1, <3>4, <3>5, <3>6 DEF Proceeds
    <3> QED
      BY <2>1, <3>7 DEF Moves
  <2> QED
    BY <1>7, <2>2, <2>3 DEF iface_hdr_add, k
<1>8. CASE iface_hdr_rem(p)
  <2>1. /\ at[p] = "read" /\ c.sub = "remove" /\ Accepts(hdr)
        /\ UNCHANGED <<device, out, commands, history>>
    BY <1>8 DEF iface_hdr_rem, HasRead, c
  <2>2. CASE Exit(p, "0", {})
    BY <2>1, <2>2, <1>t DEF Moves, Leaves, Codes, Receives, c
  <2>3. CASE Goto(p, "write", RemovedHeader(k, hdr)) /\ UNCHANGED fds
    <3>1. k \in Cmd /\ k.node \in Slots
      BY <2>1, <1>t, HdrCmdFields, HdrCmdType, IfaceInputs DEF k, c, Ops
    <3>2. /\ RemovedHeader(k, hdr) \in Header
          /\ CoversNodes(hdr) => CoversNodes(RemovedHeader(k, hdr))
      BY <3>1, <1>t, HeadersWritten, CoverKept
    <3>3. fds' = [fds EXCEPT ![p] = fds[p]]
      BY <2>3, <1>t
    <3>4. Proceeds(p)
      BY <1>t, <2>1, <2>3, <3>2, <3>3 DEF Proceeds
    <3> QED
      BY <2>1, <3>4 DEF Moves
  <2> QED
    BY <1>8, <2>2, <2>3 DEF iface_hdr_rem, k
<1>9. CASE ReadFails(p)
  <2>1. /\ at[p] = "read" /\ Exit(p, "1", LeftOpen(p))
        /\ UNCHANGED <<device, out, commands, history>>
    BY <1>9 DEF ReadFails
  <2>2. Leaves(p)
    BY <2>1, <1>l DEF Leaves, Codes, c
  <2> QED
    BY <2>1, <2>2 DEF Moves
<1>10. CASE OpenHeader(p)
  <2>1. /\ at[p] = "read" /\ Opens(c)
        /\ UNCHANGED <<device, out, commands, history>>
    BY <1>10 DEF OpenHeader, c
  <2>2. CASE Exit(p, "1", LeftOpen(p))
    <3>1. Leaves(p)
      BY <2>1, <2>2, <1>l DEF Leaves, Codes, c
    <3> QED
      BY <2>1, <3>1 DEF Moves
  <2>3. fds' = fds => fds' = [fds EXCEPT ![p] = fds[p]]
    BY <1>t
  <2>4. CASE Goto(p, "transfer", hdr) /\ UNCHANGED fds
    <3>1. Proceeds(p)
      BY <1>t, <2>1, <2>3, <2>4 DEF Proceeds, c
    <3> QED
      BY <2>1, <3>1 DEF Moves
  <2>5. CASE Goto(p, "write", RewrittenHeader(k, hdr)) /\ UNCHANGED fds
    <3>1. k \in Cmd
      BY <2>1, <1>t, HdrCmdFields, HdrCmdType DEF k, c, Ops
    <3>2. RewrittenHeader(k, hdr) \in Header
      BY <3>1, <1>t, HeadersWritten
    <3>3. Proceeds(p)
      BY <1>t, <2>1, <2>3, <2>5, <3>2 DEF Proceeds, c
    <3> QED
      BY <2>1, <3>3 DEF Moves
  <2> QED
    BY <1>10, <2>2, <2>4, <2>5 DEF OpenHeader, k
<1>11. CASE WriteHeader(p)
  <2>1. at[p] = "write" /\ UNCHANGED <<out, commands>>
    BY <1>11 DEF WriteHeader
  <2>2. CASE Opens(c) /\ Goto(p, "transfer", buf[p]) /\ UNCHANGED fds
    <3>1. fds' = [fds EXCEPT ![p] = fds[p]]
      BY <2>2, <1>t
    <3>2. Proceeds(p)
      BY <1>t, <2>2, <3>1 DEF Proceeds, c
    <3> QED
      BY <1>11, <2>1, <3>2 DEF Moves
  <2>3. CASE ~Opens(c) /\ Exit(p, "0", {})
    <3>1. ~Receives(cmd[p])
      BY <2>3 DEF Receives, Opens, c
    <3> QED
      BY <1>11, <2>1, <2>3, <3>1, <1>t DEF Moves, Leaves, Codes
  <2>4. CASE Exit(p, "1", LeftOpen(p))
    <3>1. Leaves(p)
      BY <2>1, <2>4, <1>l DEF Leaves, Codes, c
    <3> QED
      BY <1>11, <2>1, <3>1 DEF Moves
  <2> QED
    BY <1>11, <2>2, <2>3, <2>4 DEF WriteHeader, c
<1>12. CASE WriteFails(p)
  <2>1. /\ at[p] = "write" /\ Exit(p, "1", LeftOpen(p))
        /\ UNCHANGED <<device, out, commands, history>>
    BY <1>12 DEF WriteFails
  <2>2. Leaves(p)
    BY <2>1, <1>l DEF Leaves, Codes, c
  <2> QED
    BY <2>1, <2>2 DEF Moves
<1>13. CASE SendRefused(p)
  <2>1. /\ at[p] = "transfer" /\ Exit(p, "1", {})
        /\ UNCHANGED <<device, out, commands, history>>
    BY <1>13 DEF SendRefused
  <2> QED
    BY <2>1, <1>t DEF Moves, Leaves, Codes
<1>14. CASE Send(p)
  <2>1. /\ at[p] = "transfer" /\ UNCHANGED <<out, commands>>
        /\ Exit(p, "0", {}) \/ Exit(p, "1", {})
        /\ ~Receives(cmd[p])
    BY <1>14 DEF Send, Sends, Receives
  <2> QED
    BY <1>14, <2>1, <1>t DEF Moves, Leaves, Codes
<1>15. CASE SendCrashes(p)
  <2>1. /\ at[p] = "transfer" /\ Exit(p, "crash", {})
        /\ UNCHANGED <<device, out, commands, history>>
    BY <1>15 DEF SendCrashes
  <2> QED
    BY <2>1, <1>t DEF Moves, Leaves, Codes
<1>16. CASE RecvGood(p)
  <2>1. /\ at[p] = "transfer"
        /\ Exit(p, "0", {}) \/ Exit(p, "abort", {})
        /\ UNCHANGED <<device, commands, history>>
    BY <1>16 DEF RecvGood
  <2> QED
    BY <1>16, <2>1, <1>t DEF Moves, Leaves, Codes
<1>17. CASE RecvBad(p)
  <2>1. /\ at[p] = "transfer"
        /\ UNCHANGED <<device, out, commands, history>>
    BY <1>17 DEF RecvBad
  <2>2. \/ Exit(p, "abort", {}) \/ Exit(p, "crash", {}) \/ Exit(p, "1", {})
    BY <1>17 DEF RecvBad
  <2> QED
    BY <2>1, <2>2, <1>t DEF Moves, Leaves, Codes
<1> QED
  BY <1>1, <1>2, <1>3, <1>4, <1>5, <1>6, <1>7, <1>8, <1>9, <1>10, <1>11,
     <1>12, <1>13, <1>14, <1>15, <1>16, <1>17 DEF Step

-----------------------------------------------------------------------------
(* Blocks in sectors *)

(* Block sizes that a client can open a device with. *)
BlockSizes == {v \in Nat : v >= EOB_HDR_SIZE /\ v % EOB_HDR_SIZE = 0}

(* A block of whole sectors starts at the beginning of its first sector and
   ends with its last one. *)
LEMMA BlockSectors ==
    ASSUME NEW virt \in BlockSizes, NEW node \in Nat
    PROVE  /\ First(virt, node) \in Nat /\ Last(virt, node) \in Nat
           /\ 1 <= First(virt, node)
           /\ First(virt, node) <= Last(virt, node)
           /\ BlockOffset(virt, node) = EOB_HDR_SIZE * First(virt, node)
           /\ BlockOffset(virt, node) + virt
                = EOB_HDR_SIZE * (Last(virt, node) + 1)
<1>1. PICK k \in Nat : virt = 512 * k /\ k >= 1
  <2>1. virt \in Nat /\ virt % 512 = 0 /\ virt >= 512
    BY DEF BlockSizes, EOB_HDR_SIZE
  <2>2. virt = 512 * (virt \div 512) /\ virt \div 512 \in Nat
    BY <2>1
  <2>3. virt \div 512 >= 1
    BY <2>1, <2>2
  <2> QED
    BY <2>2, <2>3
<1>2. PICK j \in Nat : j = k * node
  BY <1>1
<1>3. virt * node = 512 * j
  BY <1>1, <1>2
<1>4. BlockOffset(virt, node) = 512 * (j + 1)
  BY <1>3 DEF BlockOffset, EOB_HDR_SIZE
<1>5. (512 * (j + 1)) \div 512 = j + 1
  OBVIOUS
<1>6. (512 * k) \div 512 = k
  OBVIOUS
<1>7. First(virt, node) = j + 1
  BY <1>4, <1>5 DEF First, EOB_HDR_SIZE
<1>8. Last(virt, node) = j + k
  BY <1>1, <1>6, <1>7 DEF Last, EOB_HDR_SIZE
<1> QED
  BY <1>1, <1>4, <1>7, <1>8 DEF EOB_HDR_SIZE

(* The blocks that a command transfers lie on the device. *)
LEMMA CommandBlocks ==
    ASSUME NEW c \in IfaceCommands, Opens(c)
    PROVE  /\ c.virt \in BlockSizes
           /\ c.node % 256 \in 0 .. 255
           /\ Last(c.virt, c.node % 256) <= Sectors
           /\ Sends(c) => /\ c.dst % 256 \in 0 .. 255 /\ c.text \in Texts
                          /\ TextLen[c.text] \in Nat
                          /\ Last(c.virt, c.dst % 256) <= Sectors
<1>0. /\ c \in IfaceCmd
      /\ c.text \in Texts => TextLen[c.text] \in 0 .. EOB_HDR_SIZE
  BY IfaceInputs, Zenon
<1>1. /\ c.virt \in Nat /\ c.phys \in Nat /\ c.dst \in Nat
  BY <1>0 DEF IfaceCmd
<1>2. /\ c.node \in Nat
      /\ c.virt >= c.phys /\ c.phys >= EOB_HDR_SIZE
      /\ c.virt % EOB_HDR_SIZE = 0
      /\ Last(c.virt, c.node % 256) <= Sectors
      /\ Sends(c) => /\ c.text \in Texts
                     /\ Last(c.virt, c.dst % 256) <= Sectors
  BY IfaceInputs, Zenon
<1>3. c.virt >= EOB_HDR_SIZE
  BY <1>1, <1>2 DEF EOB_HDR_SIZE
<1>4. c.dst % 256 \in 0 .. 255 /\ c.node % 256 \in 0 .. 255
  BY <1>1, <1>2
<1>5. c.text \in Texts => TextLen[c.text] \in Nat
  BY <1>0 DEF EOB_HDR_SIZE
<1> QED
  BY <1>1, <1>2, <1>3, <1>4, <1>5 DEF BlockSizes

(* Only the heads of packets are heads of packets. *)
LEMMA NoHeads == <<>> \notin Heads /\ Rubbish.head \notin Heads
<1>1. None \notin Texts
  BY IfaceInputs
<1> QED
  BY <1>1 DEF Heads, Rubbish

(* What a receive finds: a good block begins with the head of a packet. *)
LEMMA GoodBlock ==
    ASSUME TypeInv, NEW virt \in BlockSizes, NEW node \in Nat,
           Last(virt, node) <= Sectors
    PROVE  /\ First(virt, node) \in 1 .. Sectors
           /\ Last(virt, node) \in 1 .. Sectors
           /\ DecodeBlock(virt, node) = "OK"
                 <=> /\ sector[First(virt, node)].head \in Heads
                     /\ sector[Last(virt, node)].tail
                          = sector[First(virt, node)].head[2]
<1>1. First(virt, node) \in 1 .. Sectors /\ Last(virt, node) \in 1 .. Sectors
  <2>1. node \in Nat /\ Sectors \in Nat
    BY Bounds
  <2> QED
    BY <2>1, BlockSectors
<1>2. sector[First(virt, node)].head \in {<<>>, Rubbish.head} \cup Heads
  BY <1>1 DEF TypeInv, TypeOK, Sector
<1> QED
  BY <1>1, <1>2, NoHeads DEF DecodeBlock

-----------------------------------------------------------------------------
(* Type correctness *)

(* The steps that end a command or let it go on keep the types of the process;
   the other processes are left alone. *)
LEMMA MoveTypes ==
    ASSUME TypeInv, NEW p \in Procs, Moves(p)
    PROVE  /\ at' \in [Procs -> Places]
           /\ cmd' \in [Procs -> IfaceCommands \cup {NoIface}]
           /\ buf' \in [Procs -> Header]
           /\ fds' \in [Procs -> SUBSET Descriptors]
           /\ exit' \in [Procs -> Exits]
           /\ commands' \in 0 .. MaxCommands
           /\ ControlInv'
<1>1. CASE Leaves(p)
  <2>1. PICK code \in Codes, left \in SUBSET Descriptors : Exit(p, code, left)
    BY <1>1 DEF Leaves
  <2>2. /\ at' = [at EXCEPT ![p] = "idle"]
        /\ exit' = [exit EXCEPT ![p] = [code |-> code, at |-> at[p],
                                        sub |-> cmd[p].sub]]
        /\ fds' = [fds EXCEPT ![p] = left]
        /\ cmd' = [cmd EXCEPT ![p] = NoIface]
        /\ buf' = [buf EXCEPT ![p] = ZeroHeader]
    BY <2>1 DEF Exit
  <2>3. at[p] \in Places /\ cmd[p] \in IfaceCommands
    BY DEF Moves, TypeInv, TypeOK, ControlInv
  <2>4. cmd[p].sub \in Subs
    BY <2>3, IfaceInputs DEF IfaceCmd
  <2>5. [code |-> code, at |-> at[p], sub |-> cmd[p].sub] \in Exits
    BY <2>3, <2>4 DEF Exits, Codes
  <2>6. exit' \in [Procs -> Exits]
    BY <2>2, <2>5 DEF TypeInv, TypeOK
  <2>7. /\ at' \in [Procs -> Places]
        /\ cmd' \in [Procs -> IfaceCommands \cup {NoIface}]
        /\ buf' \in [Procs -> Header]
        /\ fds' \in [Procs -> SUBSET Descriptors]
    BY <2>2, ZeroHeaderType DEF TypeInv, TypeOK, Places, Descriptors
  <2>8. ControlInv'
    BY <2>2 DEF TypeInv, TypeOK, ControlInv
  <2> QED
    BY <2>6, <2>7, <2>8 DEF Moves, TypeInv, TypeOK
<1>2. CASE Proceeds(p)
  <2>1. PICK where \in {"read", "write", "transfer"}, h \in Header :
            /\ Goto(p, where, h)
            /\ \E open \in SUBSET Descriptors : fds' = [fds EXCEPT ![p] = open]
            /\ where = "transfer" => Opens(cmd[p])
    BY <1>2 DEF Proceeds
  <2>2. /\ at' = [at EXCEPT ![p] = where] /\ buf' = [buf EXCEPT ![p] = h]
        /\ cmd' = cmd /\ exit' = exit
    BY <2>1 DEF Goto
  <2>3. fds' \in [Procs -> SUBSET Descriptors]
    BY <2>1 DEF TypeInv, TypeOK, Descriptors
  <2>4. at' \in [Procs -> Places] /\ buf' \in [Procs -> Header]
    BY <2>2 DEF TypeInv, TypeOK, Places
  <2>5. ControlInv'
    BY <2>1, <2>2 DEF Moves, TypeInv, TypeOK, ControlInv
  <2> QED
    BY <2>2, <2>3, <2>4, <2>5 DEF Moves, TypeInv, TypeOK
<1> QED
  BY <1>1, <1>2 DEF Moves

(* A send and a header write put sectors on the device. *)
LEMMA DeviceTypes ==
    ASSUME TypeInv, NEW p \in Procs, WriteHeader(p) \/ Send(p)
    PROVE  /\ hdr' \in Header /\ sector' \in [1 .. Sectors -> Sector]
           /\ posted' \subseteq Packets /\ mail' \subseteq posted'
           /\ rewrote' \in BOOLEAN
<1>0. /\ sector \in [1 .. Sectors -> Sector] /\ DOMAIN sector = 1 .. Sectors
      /\ hdr \in Header /\ buf[p] \in Header /\ rewrote \in BOOLEAN
      /\ posted \subseteq Packets /\ mail \subseteq posted
  BY DEF TypeInv, TypeOK
<1>1. CASE WriteHeader(p)
  <2> DEFINE len == WriteLen(cmd[p], buf[p])
  <2>1. \E with \in {Zeros, Rubbish} : sector' = WrittenOver(len, with)
    BY <1>1 DEF WriteHeader
  <2>2. Zeros \in Sector /\ Rubbish \in Sector
    BY DEF Zeros, Rubbish, Sector
  <2>3. sector' \in [1 .. Sectors -> Sector]
    BY <1>0, <2>1, <2>2 DEF WrittenOver
  <2>4. rewrote' = TRUE \/ rewrote' = rewrote
    BY <1>0, <1>1 DEF WriteHeader, Opens
  <2> QED
    BY <1>0, <1>1, <2>3, <2>4 DEF WriteHeader
<1>2. CASE Send(p)
  <2> DEFINE c == cmd[p]
             node == c.dst % 256
             head == <<c.node % 256, c.text>>
  <2>1. at[p] = "transfer" /\ Sends(c) /\ UNCHANGED <<hdr, rewrote>>
    BY <1>2 DEF Send
  <2>2. c \in IfaceCommands /\ Opens(c)
    BY <2>1 DEF TypeInv, ControlInv
  <2>3. c.virt \in Nat /\ node \in 0 .. 255 /\ head \in Heads
    BY <2>1, <2>2, CommandBlocks DEF BlockSizes, Heads
  <2>4. \A i \in 1 .. Sectors : Packed(c, i) \in Sector
    BY <2>1, <2>2, <2>3, CommandBlocks DEF Packed, Sector
  <2>5. Packet(node, c.virt, head) \in Packets
    BY <2>3 DEF Packet, Packets
  <2>6. sector' \in [1 .. Sectors -> Sector]
    <3>1. sector' = [i \in DOMAIN sector |->
                        IF i \in First(c.virt, node) .. Last(c.virt, node)
                        THEN Packed(c, i) ELSE sector[i]]
      BY <1>2 DEF Send
    <3> HIDE DEF c, node
    <3> QED
      BY <3>1, <1>0, <2>4
  <2>7. /\ posted' = posted \cup {Packet(node, c.virt, head)}
        /\ mail' \subseteq mail \cup {Packet(node, c.virt, head)}
    BY <1>2 DEF Send
  <2> HIDE DEF c, node, head
  <2> QED
    BY <1>0, <2>1, <2>5, <2>6, <2>7
<1> QED
  BY <1>1, <1>2

LEMMA TypeStep == TypeInv /\ [Next]_vars => TypeInv'
<1> SUFFICES ASSUME TypeInv, [Next]_vars
             PROVE  TypeInv'
  OBVIOUS
<1>1. ASSUME NEW p \in Procs, Step(p)
      PROVE  TypeInv'
  <2>1. Moves(p)
    BY <1>1, StepMoves
  <2>2. /\ hdr' \in Header /\ sector' \in [1 .. Sectors -> Sector]
        /\ posted' \subseteq Packets /\ mail' \subseteq posted'
        /\ rewrote' \in BOOLEAN
    <3>1. CASE WriteHeader(p) \/ Send(p)
      BY <3>1, DeviceTypes
    <3>2. CASE UNCHANGED <<device, history>>
      BY <3>2 DEF TypeInv, TypeOK, device, history
    <3> QED
      BY <2>1, <3>1, <3>2 DEF Moves
  <2>3. out' \in [Procs -> SUBSET Packets]
    <3>1. CASE RecvGood(p)
      <4> DEFINE c == cmd[p]
                 node == c.node % 256
      <4>1. /\ at[p] = "transfer" /\ Opens(c)
            /\ out' = [out EXCEPT ![p] = Received(c.virt, node)]
            /\ DecodeBlock(c.virt, node) = "OK"
        BY <3>1 DEF RecvGood
      <4>2. c \in IfaceCommands
        BY <4>1 DEF TypeInv, ControlInv
      <4>3. c.virt \in BlockSizes /\ node \in 0 .. 255 /\ node \in Nat
            /\ Last(c.virt, node) <= Sectors
        BY <4>1, <4>2, CommandBlocks
      <4> HIDE DEF c, node
      <4>4. sector[First(c.virt, node)].head \in Heads
        BY <4>1, <4>3, GoodBlock
      <4>5. Received(c.virt, node) \in SUBSET Packets
        BY <4>3, <4>4 DEF Received, Packet, Packets, BlockSizes
      <4> QED
        BY <4>1, <4>5 DEF TypeInv, TypeOK
    <3>2. CASE UNCHANGED out
      BY <3>2 DEF TypeInv, TypeOK
    <3> QED
      BY <2>1, <3>1, <3>2 DEF Moves
  <2>4. /\ at' \in [Procs -> Places]
        /\ cmd' \in [Procs -> IfaceCommands \cup {NoIface}]
        /\ buf' \in [Procs -> Header]
        /\ fds' \in [Procs -> SUBSET Descriptors]
        /\ exit' \in [Procs -> Exits]
        /\ commands' \in 0 .. MaxCommands
        /\ ControlInv'
    BY <2>1, MoveTypes
  <2> QED
    BY <2>2, <2>3, <2>4 DEF TypeInv, TypeOK, Descriptors
<1>2. ASSUME NEW p \in Procs, NEW c \in IfaceCommands, Start(p, c)
      PROVE  TypeInv'
  <2>1. NoExit \in Exits /\ NoExit.code = "none"
    BY DEF NoExit, Exits, Places, Subs
  <2>2. commands' \in 0 .. MaxCommands
    <3>1. /\ commands' = commands + 1 /\ commands < MaxCommands
          /\ commands \in 0 .. MaxCommands
      BY <1>2 DEF Start, TypeInv, TypeOK
    <3> QED
      BY <3>1, Bounds
  <2>3. TypeOK'
    BY <1>2, <2>1, <2>2
       DEF Start, TypeInv, TypeOK, device, history, Places
  <2>4. ControlInv'
    BY <1>2, <2>1 DEF Start, TypeInv, TypeOK, ControlInv
  <2> QED
    BY <2>3, <2>4 DEF TypeInv
<1>3. CASE UNCHANGED vars
  BY <1>3 DEF vars, TypeInv, TypeOK, ControlInv
<1> QED
  BY <1>1, <1>2, <1>3 DEF Next

LEMMA TypeInit == Init => TypeInv
<1> SUFFICES ASSUME Init
             PROVE  TypeInv
  OBVIOUS
<1>1. NoExit \in Exits
  BY DEF NoExit, Exits, Places, Subs
<1>2. Zeros \in Sector
  BY DEF Zeros, Sector
<1>3. TypeOK
  <2>1. commands \in 0 .. MaxCommands
    BY Bounds DEF Init
  <2> QED
    BY <1>1, <1>2, <2>1, ZeroHeaderType, HeaderDisks DEF Init, TypeOK, Places
<1>4. ControlInv
  BY DEF Init, ControlInv
<1> QED
  BY <1>3, <1>4 DEF TypeInv

LEMMA Typed == Spec => []TypeInv
<1>1. Init => TypeInv
  BY TypeInit
<1>2. TypeInv /\ [Next]_vars => TypeInv'
  BY TypeStep
<1> QED
  BY <1>1, <1>2, PTL DEF Spec

(* The variables keep their types: every header that a command of iface or of
   a client writes is a header, and node ids are cut to eight bits. *)
THEOREM TypeCorrect == Spec => []TypeOK
<1>1. TypeInv => TypeOK
  BY DEF TypeInv
<1> QED
  BY <1>1, Typed, PTL

-----------------------------------------------------------------------------
(* Descriptors *)

LEMMA DescriptorStep ==
    TypeInv /\ DescriptorsReturned /\ [Next]_vars => DescriptorsReturned'
<1> SUFFICES ASSUME TypeInv, DescriptorsReturned, [Next]_vars
             PROVE  DescriptorsReturned'
  OBVIOUS
<1>1. ASSUME NEW p \in Procs, Step(p)
      PROVE  DescriptorsReturned'
  <2>1. Moves(p)
    BY <1>1, StepMoves
  <2>2. CASE Leaves(p)
    <3>1. PICK code \in Codes, left \in SUBSET Descriptors :
              /\ Exit(p, code, left)
              /\ (at[p] = "transfer" \/ ~Opens(cmd[p])) => left = {}
      BY <2>2 DEF Leaves
    <3>2. /\ exit' = [exit EXCEPT ![p] = [code |-> code, at |-> at[p],
                                          sub |-> cmd[p].sub]]
          /\ fds' = [fds EXCEPT ![p] = left]
      BY <3>1 DEF Exit
    <3> QED
      BY <3>1, <3>2 DEF DescriptorsReturned, Opens, TypeInv, TypeOK
  <2>3. CASE Proceeds(p)
    <3>1. /\ exit' = exit /\ exit[p].code = "none"
          /\ \E open \in SUBSET Descriptors : fds' = [fds EXCEPT ![p] = open]
      BY <2>1, <2>3 DEF Proceeds, Goto, Moves, TypeInv, ControlInv
    <3> QED
      BY <3>1 DEF DescriptorsReturned, TypeInv, TypeOK
  <2> QED
    BY <2>1, <2>2, <2>3 DEF Moves
<1>2. ASSUME NEW p \in Procs, NEW c \in IfaceCommands, Start(p, c)
      PROVE  DescriptorsReturned'
  BY <1>2 DEF Start, NoExit, DescriptorsReturned, TypeInv, TypeOK
<1>3. CASE UNCHANGED vars
  BY <1>3 DEF vars, DescriptorsReturned
<1> QED
  BY <1>1, <1>2, <1>3 DEF Next

(* The header commands, and send and recv once the device is open, close what
   they opened on every path, the failing ones included. *)
THEOREM DescriptorsAreReturned == Spec => []DescriptorsReturned
<1>1. Init => DescriptorsReturned
  BY DEF Init, DescriptorsReturned
<1>2. TypeInv /\ DescriptorsReturned /\ [Next]_vars => DescriptorsReturned'
  BY DescriptorStep
<1> QED
  BY <1>1, <1>2, Typed, PTL DEF Spec

-----------------------------------------------------------------------------
(* The count of a header covers its nodes *)

(* As long as no open has rewritten the header, the headers that processes are
   about to write cover their nodes too: they were computed from a header that
   did, and other processes may have written such headers since. *)
CoverInv ==
    /\ CountCoversNodes
    /\ \A p \in Procs :
          (~rewrote /\ at[p] = "write" /\ ~Opens(cmd[p])) => CoversNodes(buf[p])

LEMMA CoverStep == TypeInv /\ CoverInv /\ [Next]_vars => CoverInv'
<1> SUFFICES ASSUME TypeInv, CoverInv, [Next]_vars
             PROVE  CoverInv'
  OBVIOUS
<1>0. rewrote = FALSE => (Accepts(hdr) => CoversNodes(hdr))
  BY DEF CoverInv, CountCoversNodes, CoversNodes
<1>1. ASSUME NEW p \in Procs, Step(p)
      PROVE  CoverInv'
  <2>1. Moves(p)
    BY <1>1, StepMoves
  <2>2. /\ rewrote' = FALSE => rewrote = FALSE
        /\ (rewrote' = FALSE /\ Accepts(hdr)') => CoversNodes(hdr)'
    <3>1. CASE WriteHeader(p)
      <4>1. hdr' = buf[p] /\ at[p] = "write"
        BY <3>1 DEF WriteHeader
      <4>2. rewrote' = (rewrote \/ Opens(cmd[p]))
        BY <3>1 DEF WriteHeader
      <4>3. rewrote \in BOOLEAN /\ Opens(cmd[p]) \in BOOLEAN
        BY DEF TypeInv, TypeOK, Opens
      <4>4. rewrote' = FALSE => rewrote = FALSE /\ ~Opens(cmd[p])
        BY <4>2, <4>3
      <4>5. rewrote' = FALSE => CoversNodes(buf[p])
        BY <4>1, <4>4 DEF CoverInv
      <4> QED
        BY <4>1, <4>4, <4>5 DEF CoversNodes
    <3>2. CASE Send(p)
      BY <3>2, <1>0 DEF Send, CoversNodes, Accepts, Current,
         eob_header_chksum_is_ok, Preamble
    <3>3. CASE UNCHANGED <<device, history>>
      BY <3>3, <1>0 DEF device, history, CoversNodes, Accepts, Current,
         eob_header_chksum_is_ok, Preamble
    <3> QED
      BY <2>1, <3>1, <3>2, <3>3 DEF Moves
  <2>3. ASSUME NEW q \in Procs, rewrote' = FALSE, at'[q] = "write",
               ~Opens(cmd[q])'
        PROVE  CoversNodes(buf'[q])
    <3>0. rewrote = FALSE
      BY <2>2, <2>3
    <3>1. CASE Leaves(p)
      <4>1. /\ at' = [at EXCEPT ![p] = "idle"]
            /\ cmd' = [cmd EXCEPT ![p] = NoIface]
            /\ buf' = [buf EXCEPT ![p] = ZeroHeader]
        BY <3>1 DEF Leaves, Exit
      <4>2. q # p /\ at[q] = "write" /\ cmd'[q] = cmd[q] /\ buf'[q] = buf[q]
        BY <4>1, <2>3 DEF TypeInv, TypeOK
      <4>3. ~Opens(cmd[q])
        BY <2>3, <4>2 DEF Opens
      <4> QED
        BY <3>0, <4>2, <4>3 DEF CoverInv
    <3>2. CASE Proceeds(p)
      <4>1. PICK where \in {"read", "write", "transfer"}, h \in Header :
                /\ Goto(p, where, h)
                /\ (where = "write" /\ ~Opens(cmd[p]))
                      => ((Accepts(hdr) => CoversNodes(hdr)) => CoversNodes(h))
        BY <3>2 DEF Proceeds
      <4>2. /\ at' = [at EXCEPT ![p] = where] /\ buf' = [buf EXCEPT ![p] = h]
            /\ cmd' = cmd
        BY <4>1 DEF Goto
      <4>3. ~Opens(cmd[q])
        BY <2>3, <4>2 DEF Opens
      <4>4. CASE q = p
        <5>1. where = "write" /\ buf'[q] = h
          BY <2>3, <4>2, <4>4 DEF TypeInv, TypeOK
        <5> QED
          BY <1>0, <3>0, <4>1, <4>3, <4>4, <5>1
      <4>5. CASE q # p
        <5>1. at[q] = "write" /\ buf'[q] = buf[q]
          BY <2>3, <4>2, <4>5 DEF TypeInv, TypeOK
        <5> QED
          BY <3>0, <4>3, <5>1 DEF CoverInv
      <4> QED
        BY <4>4, <4>5
    <3> QED
      BY <2>1, <3>1, <3>2 DEF Moves
  <2>4. rewrote' \in BOOLEAN
    BY TypeStep DEF TypeInv, TypeOK
  <2>5. CountCoversNodes'
    BY <2>2, <2>4 DEF CountCoversNodes, CoversNodes
  <2> QED
    BY <2>3, <2>4, <2>5 DEF CoverInv, CoversNodes
<1>2. ASSUME NEW p \in Procs, NEW c \in IfaceCommands, Start(p, c)
      PROVE  CoverInv'
  <2>1. /\ at' = [at EXCEPT ![p] = "args"] /\ cmd' = [cmd EXCEPT ![p] = c]
        /\ buf' = buf /\ hdr' = hdr /\ rewrote' = rewrote
    BY <1>2 DEF Start, device, history
  <2>2. CountCoversNodes'
    BY <2>1 DEF CoverInv, CountCoversNodes, Accepts, Current,
       eob_header_chksum_is_ok, Preamble
  <2>3. ASSUME NEW q \in Procs, ~rewrote', at'[q] = "write", ~Opens(cmd'[q])
        PROVE  CoversNodes(buf'[q])
    <3>1. q # p /\ at[q] = "write" /\ cmd'[q] = cmd[q]
      BY <2>1, <2>3 DEF TypeInv, TypeOK
    <3> QED
      BY <2>1, <2>3, <3>1 DEF CoverInv
  <2> QED
    BY <2>2, <2>3 DEF CoverInv, CoversNodes, Opens
<1>3. CASE UNCHANGED vars
  BY <1>3 DEF vars, CoverInv, CountCoversNodes, Accepts, Current,
     eob_header_chksum_is_ok, Preamble, CoversNodes, Opens
<1> QED
  BY <1>1, <1>2, <1>3 DEF Next

(* init, add, remove and deinit, however the processes that run them take
   turns, leave a good header with a count that covers its nodes, provided the
   device started with such a header or a bad one.  (An open may break this:
   it sets the count and keeps the table.) *)
THEOREM CountsCover ==
    ASSUME \A h \in InitialDisks : Accepts(h) => CoversNodes(h)
    PROVE  Spec => []CountCoversNodes
<1>1. Init => CoverInv
  BY DEF Init, CoverInv, CountCoversNodes, CoversNodes
<1>2. TypeInv /\ CoverInv /\ [Next]_vars => CoverInv'
  BY CoverStep
<1>3. CoverInv => CountCoversNodes
  BY DEF CoverInv
<1> QED
  BY <1>1, <1>2, <1>3, Typed, PTL DEF Spec

-----------------------------------------------------------------------------
(* Mail *)

(* Two blocks that share no byte share no sector. *)
LEMMA DisjointBlocks ==
    ASSUME NEW v \in BlockSizes, NEW n \in Nat, NEW w \in BlockSizes, NEW k \in Nat,
           Disjoint(BlockExtent(v, n), BlockExtent(w, k)),
           NEW i \in First(v, n) .. Last(v, n)
    PROVE  i \notin First(w, k) .. Last(w, k)
<1> SUFFICES ASSUME i \in First(w, k) .. Last(w, k)
             PROVE  FALSE
  OBVIOUS
<1>1. /\ First(v, n) \in Nat /\ Last(v, n) \in Nat
      /\ BlockOffset(v, n) = 512 * First(v, n)
      /\ BlockOffset(v, n) + v = 512 * (Last(v, n) + 1)
  BY BlockSectors DEF EOB_HDR_SIZE
<1>2. /\ First(w, k) \in Nat /\ Last(w, k) \in Nat
      /\ BlockOffset(w, k) = 512 * First(w, k)
      /\ BlockOffset(w, k) + w = 512 * (Last(w, k) + 1)
  BY BlockSectors DEF EOB_HDR_SIZE
<1>3. v \in Nat /\ w \in Nat
  BY DEF BlockSizes
<1>4. 512 * i \in BlockExtent(v, n)
  BY <1>1, <1>3 DEF BlockExtent, Extent
<1>5. 512 * i \in BlockExtent(w, k)
  BY <1>2, <1>3 DEF BlockExtent, Extent
<1> QED
  BY <1>4, <1>5 DEF Disjoint

(* A header write that shares no byte with a block reaches no sector of it. *)
LEMMA DisjointHeader ==
    ASSUME NEW len \in Nat, NEW v \in BlockSizes, NEW n \in Nat,
           Disjoint(HeaderWriteExtent(len), BlockExtent(v, n)),
           NEW i \in First(v, n) .. Last(v, n)
    PROVE  i \notin Behind(len)
<1> SUFFICES ASSUME i \in Behind(len)
             PROVE  FALSE
  OBVIOUS
<1>1. /\ First(v, n) \in Nat /\ Last(v, n) \in Nat /\ v \in Nat
      /\ BlockOffset(v, n) = 512 * First(v, n)
      /\ BlockOffset(v, n) + v = 512 * (Last(v, n) + 1)
  BY BlockSectors DEF EOB_HDR_SIZE, BlockSizes
<1>2. i \in Nat /\ 512 * i < len
  <2>1. i < len \div 512 /\ i \in Nat
    BY <1>1 DEF Behind, EOB_HDR_SIZE
  <2>2. PICK d \in Nat : d = len \div 512
    OBVIOUS
  <2>3. 512 * d <= len
    BY <2>2
  <2> QED
    BY <2>1, <2>2, <2>3
<1>3. 512 * i \in BlockExtent(v, n)
  BY <1>1 DEF BlockExtent, Extent
<1>4. 512 * i \in HeaderWriteExtent(len)
  BY <1>2 DEF HeaderWriteExtent, Extent
<1> QED
  BY <1>3, <1>4 DEF Disjoint

(* m stands on the device. *)
Stands(m) ==
    /\ m.virt \in BlockSizes /\ m.node \in Nat /\ m.head \in Heads
    /\ Last(m.virt, m.node) <= Sectors
    /\ sector[First(m.virt, m.node)].head = m.head
    /\ sector[Last(m.virt, m.node)].tail = m.head[2]

(* Some packet with the head of sector i was sent to a block that begins
   there. *)
SentTo(i) ==
    \E m \in posted :
        /\ m.virt \in BlockSizes /\ m.node \in Nat
        /\ m.head = sector[i].head
        /\ First(m.virt, m.node) = i

(* The sectors hold the mail, and every head in them comes from a packet that
   was sent to that place. *)
StoreInv ==
    /\ \A m \in mail : Stands(m)
    /\ \A i \in 1 .. Sectors : sector[i].head \in Heads => SentTo(i)

(* A packet stands as long as its first and its last sector stay. *)
LEMMA StillStands ==
    ASSUME NEW m, Stands(m),
           \A i \in First(m.virt, m.node) .. Last(m.virt, m.node) :
               i \in 1 .. Sectors => sector'[i] = sector[i]
    PROVE  Stands(m)'
<1> DEFINE f == First(m.virt, m.node)
           l == Last(m.virt, m.node)
<1>1. /\ f \in Nat /\ l \in Nat /\ 1 <= f /\ f <= l /\ l <= Sectors
      /\ Sectors \in Nat
  BY BlockSectors, Bounds DEF Stands
<1>2. f \in f .. l /\ l \in f .. l /\ f \in 1 .. Sectors /\ l \in 1 .. Sectors
  BY <1>1
<1>3. sector'[f] = sector[f] /\ sector'[l] = sector[l]
  BY <1>2
<1>4. f' = f /\ l' = l
  BY DEF First, Last, BlockOffset
<1> QED
  BY <1>3, <1>4 DEF Stands, First, Last, BlockOffset

(* What is sent to a place stays sent, as long as the sector stays. *)
LEMMA StillSent ==
    ASSUME NEW i, SentTo(i), sector'[i] = sector[i], posted \subseteq posted'
    PROVE  SentTo(i)'
  BY DEF SentTo, First, BlockOffset

LEMMA HeaderWriteStore ==
    ASSUME TypeInv, StoreInv, NEW p \in Procs, WriteHeader(p)
    PROVE  StoreInv'
<1>1. PICK len \in Nat : len = WriteLen(cmd[p], buf[p])
  <2>1. buf[p] \in Header
    BY DEF TypeInv, TypeOK
  <2>2. WriteLen(cmd[p], buf[p]) \in Nat
    BY <2>1 DEF WriteLen, EOB_HDR_SIZE, Header, Geo
  <2> QED
    BY <2>2
<1>2. PICK with \in {Zeros, Rubbish} : sector' = WrittenOver(len, with)
  BY <1>1 DEF WriteHeader
<1>3. /\ mail' = {m \in mail : Disjoint(HeaderWriteExtent(len),
                                        BlockExtent(m.virt, m.node))}
      /\ posted' = posted
  BY <1>1 DEF WriteHeader
<1>4. DOMAIN sector = 1 .. Sectors
  BY DEF TypeInv, TypeOK
<1>5. \A i \in 1 .. Sectors :
          /\ i \notin Behind(len) => sector'[i] = sector[i]
          /\ i \in Behind(len) => sector'[i] = with
  BY <1>2, <1>4 DEF WrittenOver
<1>6. with.head \notin Heads
  BY NoHeads DEF Zeros, Rubbish
<1>7. ASSUME NEW m \in mail'
      PROVE  Stands(m)'
  <2>1. /\ m \in mail /\ Stands(m)
        /\ Disjoint(HeaderWriteExtent(len), BlockExtent(m.virt, m.node))
    BY <1>3 DEF StoreInv
  <2>2. \A i \in First(m.virt, m.node) .. Last(m.virt, m.node) :
            i \notin Behind(len)
    BY <2>1, DisjointHeader DEF Stands
  <2> QED
    BY <2>1, <2>2, <1>5, StillStands
<1>8. ASSUME NEW i \in 1 .. Sectors, sector'[i].head \in Heads
      PROVE  SentTo(i)'
  <2>1. sector'[i] = sector[i]
    BY <1>5, <1>6, <1>8
  <2>2. SentTo(i)
    BY <1>8, <2>1 DEF StoreInv
  <2> QED
    BY <1>3, <2>1, <2>2, StillSent
<1>9. Heads' = Heads /\ Sectors' = Sectors
  BY DEF Heads
<1> QED
  BY <1>7, <1>8, <1>9 DEF StoreInv

LEMMA SendStore ==
    ASSUME TypeInv, StoreInv, NEW p \in Procs, Send(p)
    PROVE  StoreInv'
<1>1. at[p] = "transfer" /\ Sends(cmd[p])
  BY DEF Send
<1>2. PICK c \in IfaceCommands : c = cmd[p] /\ Opens(c) /\ Sends(c)
  BY <1>1 DEF TypeInv, ControlInv
<1>3. PICK node \in 0 .. 255 : node = c.dst % 256
  BY <1>2, CommandBlocks
<1>4. PICK src \in 0 .. 255 : src = c.node % 256
  BY <1>2, CommandBlocks
<1>5. /\ node \in Nat /\ c.virt \in BlockSizes /\ c.text \in Texts
      /\ TextLen[c.text] \in Nat /\ Last(c.virt, node) <= Sectors
  BY <1>2, <1>3, CommandBlocks
<1>6. PICK f \in Nat, l \in Nat :
          f = First(c.virt, node) /\ l = Last(c.virt, node)
  BY <1>5, BlockSectors
<1>7. 1 <= f /\ f <= l /\ l <= Sectors /\ Sectors \in Nat
  BY <1>5, <1>6, BlockSectors, Bounds
<1>8. PICK sent \in Packets :
          sent = Packet(node, c.virt, <<src, c.text>>)
  BY <1>5 DEF Packets, Packet, Heads, BlockSizes
<1>s. /\ sent.node = node /\ sent.virt = c.virt /\ sent.head = <<src, c.text>>
      /\ sent.head \in Heads /\ sent.head[2] = c.text
  BY <1>5, <1>8 DEF Packet, Heads
<1>9. posted' = posted \cup {sent}
  BY <1>2, <1>3, <1>4, <1>8 DEF Send
<1>10. \A m \in mail' :
          \/ m \in mail /\ Disjoint(BlockExtent(m.virt, m.node),
                                    BlockExtent(c.virt, node))
          \/ m = sent /\ ~(TextLen[c.text] + 1 > DataRoom(c.virt))
  BY <1>2, <1>3, <1>4, <1>8 DEF Send
<1>11. sector' = [i \in DOMAIN sector |-> IF i \in f .. l
                                          THEN Packed(c, i) ELSE sector[i]]
  BY <1>2, <1>3, <1>6 DEF Send
<1>12. DOMAIN sector = 1 .. Sectors
  BY DEF TypeInv, TypeOK
<1>13. \A i \in 1 .. Sectors :
          /\ i \in f .. l => sector'[i] = Packed(c, i)
          /\ i \notin f .. l => sector'[i] = sector[i]
  BY <1>11, <1>12
<1>14. \A i : /\ Packed(c, i).head = IF i = f THEN sent.head ELSE <<>>
              /\ (i = l /\ TextLen[c.text] + 1 <= DataRoom(c.virt))
                    => Packed(c, i).tail = c.text
  BY <1>3, <1>4, <1>6, <1>s DEF Packed
<1>15. ASSUME NEW m \in mail'
       PROVE  Stands(m)'
  <2>1. CASE m \in mail /\ Disjoint(BlockExtent(m.virt, m.node),
                                    BlockExtent(c.virt, node))
    <3>1. Stands(m)
      BY <2>1 DEF StoreInv
    <3>2. \A i \in First(m.virt, m.node) .. Last(m.virt, m.node) :
              i \notin f .. l
      BY <1>5, <1>6, <2>1, <3>1, DisjointBlocks DEF Stands
    <3> QED
      BY <1>13, <3>1, <3>2, StillStands
  <2>2. CASE m = sent /\ ~(TextLen[c.text] + 1 > DataRoom(c.virt))
    <3>1. TextLen[c.text] + 1 <= DataRoom(c.virt)
      BY <1>5, <2>2 DEF DataRoom, BlockSizes
    <3>2. f \in 1 .. Sectors /\ f \in f .. l /\ l \in 1 .. Sectors /\ l \in f .. l
      BY <1>7
    <3>3. sector'[f].head = sent.head /\ sector'[l].tail = c.text
      BY <1>13, <1>14, <3>1, <3>2
    <3> QED
      BY <1>5, <1>6, <1>s, <2>2, <3>3
         DEF Stands, First, Last, BlockOffset, BlockSizes, Heads
  <2> QED
    BY <1>10, <2>1, <2>2
<1>16. ASSUME NEW i \in 1 .. Sectors, sector'[i].head \in Heads
       PROVE  SentTo(i)'
  <2>1. CASE i \in f .. l
    <3>1. i = f /\ sector'[i].head = sent.head
      BY <1>13, <1>14, <1>16, <2>1, NoHeads
    <3>2. First(sent.virt, sent.node) = i
      BY <1>6, <1>s, <3>1
    <3>3. sent \in posted'
      BY <1>9
    <3> QED
      BY <1>5, <1>s, <3>1, <3>2, <3>3
         DEF SentTo, First, BlockOffset, BlockSizes
  <2>2. CASE i \notin f .. l
    <3>1. sector'[i] = sector[i]
      BY <1>13, <2>2
    <3>2. SentTo(i)
      BY <1>16, <3>1 DEF StoreInv
    <3> QED
      BY <1>9, <3>1, <3>2, StillSent
  <2> QED
    BY <2>1, <2>2
<1>17. Heads' = Heads /\ Sectors' = Sectors
  BY DEF Heads
<1> QED
  BY <1>15, <1>16, <1>17 DEF StoreInv

LEMMA StoreStep == TypeInv /\ StoreInv /\ [Next]_vars => StoreInv'
<1> SUFFICES ASSUME TypeInv, StoreInv, [Next]_vars
             PROVE  StoreInv'
  OBVIOUS
<1>0. ASSUME UNCHANGED <<sector, mail, posted>>
      PROVE  StoreInv'
  BY <1>0 DEF StoreInv, Stands, SentTo, First, Last, BlockOffset, Heads,
     BlockSizes
<1>1. ASSUME NEW p \in Procs, Step(p)
      PROVE  StoreInv'
  <2>1. Moves(p)
    BY <1>1, StepMoves
  <2>2. CASE UNCHANGED <<device, history>>
    BY <1>0, <2>2 DEF device, history
  <2> QED
    BY <2>1, <2>2, HeaderWriteStore, SendStore DEF Moves
<1>2. ASSUME NEW p \in Procs, NEW c \in IfaceCommands, Start(p, c)
      PROVE  StoreInv'
  BY <1>0, <1>2 DEF Start, device, history
<1>3. CASE UNCHANGED vars
  BY <1>0, <1>3 DEF vars
<1> QED
  BY <1>1, <1>2, <1>3 DEF Next

LEMMA Stored == Spec => [](TypeInv /\ StoreInv)
<1>1. Init => StoreInv
  <2> SUFFICES ASSUME Init
               PROVE  StoreInv
    OBVIOUS
  <2>1. \A i \in 1 .. Sectors : sector[i].head \notin Heads
    BY NoHeads DEF Init, Zeros
  <2> QED
    BY <2>1 DEF Init, StoreInv
<1>2. TypeInv /\ StoreInv /\ [Next]_vars => StoreInv'
  BY StoreStep
<1> QED
  BY <1>1, <1>2, Typed, PTL DEF Spec

(* Mail that a send has reported stays and can be received until a write that
   shares a byte with its block: whatever sizes the blocks of the senders, the
   receivers and the header have. *)
THEOREM MailStays == Spec => []MailOnlyOverwritten
<1>1. TypeInv /\ StoreInv => MailOnlyOverwritten
  <2> SUFFICES ASSUME TypeInv, StoreInv, NEW m \in mail
               PROVE  /\ DecodeBlock(m.virt, m.node) = "OK"
                      /\ sector[First(m.virt, m.node)].head = m.head
    BY DEF MailOnlyOverwritten
  <2>1. Stands(m)
    BY DEF StoreInv
  <2> QED
    BY <2>1, GoodBlock DEF Stands
<1> QED
  BY <1>1, Stored, PTL

-----------------------------------------------------------------------------
(* What is printed *)

(* A packet in m's place. *)
SameBlock(r, m) ==
    r.head = m.head /\ BlockOffset(r.virt, r.node) = BlockOffset(m.virt, m.node)

LEMMA PrintStep ==
    TypeInv /\ StoreInv /\ PrintedWasSent /\ [Next]_vars => PrintedWasSent'
<1> SUFFICES ASSUME TypeInv, StoreInv, PrintedWasSent, [Next]_vars
             PROVE  PrintedWasSent'
  OBVIOUS
<1>0. ASSUME NEW q \in Procs, posted \subseteq posted', exit'[q] = exit[q],
             out'[q] = out[q],
             exit'[q].sub \in {"recv", "lib recv"}, exit'[q].code = "0"
      PROVE  \E r \in out'[q], m \in posted' : SameBlock(r, m)
  BY <1>0 DEF PrintedWasSent, SameBlock
<1>1. ASSUME NEW p \in Procs, Step(p)
      PROVE  PrintedWasSent'
  <2>1. Moves(p)
    BY <1>1, StepMoves
  <2>2. posted \subseteq posted'
    BY <2>1 DEF Moves, WriteHeader, Send, history
  <2>3. ASSUME NEW q \in Procs, q # p
        PROVE  exit'[q] = exit[q] /\ out'[q] = out[q]
    <3>1. exit'[q] = exit[q]
      BY <2>1, <2>3
         DEF Moves, Leaves, Proceeds, Exit, Goto, TypeInv, TypeOK
    <3>2. out'[q] = out[q]
      BY <2>1, <2>3 DEF Moves, RecvGood, TypeInv, TypeOK
    <3> QED
      BY <3>1, <3>2
  <2>4. ASSUME exit'[p].sub \in {"recv", "lib recv"}, exit'[p].code = "0"
        PROVE  \E r \in out'[p], m \in posted' : SameBlock(r, m)
    <3>1. exit[p].code = "none" /\ cmd[p] \in IfaceCommands
      BY <2>1 DEF Moves, TypeInv, ControlInv
    <3>2. CASE RecvGood(p)
      <4>1. PICK c \in IfaceCommands : c = cmd[p]
        BY <3>1
      <4>2. Opens(c)
        BY <3>2, <4>1 DEF RecvGood
      <4>3. PICK node \in 0 .. 255 : node = c.node % 256
        BY <4>2, CommandBlocks
      <4>4. /\ DecodeBlock(c.virt, node) = "OK"
            /\ out' = [out EXCEPT ![p] = Received(c.virt, node)]
        BY <3>2, <4>1, <4>3 DEF RecvGood
      <4>5. node \in Nat /\ c.virt \in BlockSizes /\ Last(c.virt, node) <= Sectors
        BY <4>2, <4>3, CommandBlocks
      <4>6. PICK i \in 1 .. Sectors : i = First(c.virt, node)
        BY <4>5, GoodBlock
      <4>7. sector[i].head \in Heads
        BY <4>4, <4>5, <4>6, GoodBlock
      <4>8. PICK m \in posted : /\ m.virt \in BlockSizes /\ m.node \in Nat
                                /\ m.head = sector[i].head
                                /\ First(m.virt, m.node) = i
        BY <4>7 DEF StoreInv, SentTo
      <4>9. BlockOffset(m.virt, m.node) = BlockOffset(c.virt, node)
        BY <4>5, <4>6, <4>8, BlockSectors
      <4>10. Packet(node, c.virt, sector[i].head) \in out'[p]
        BY <4>4, <4>6 DEF Received, TypeInv, TypeOK
      <4>11. SameBlock(Packet(node, c.virt, sector[i].head), m)
        BY <4>8, <4>9 DEF SameBlock, Packet
      <4> QED
        BY <2>2, <4>8, <4>10, <4>11
    <3>3. CASE ~RecvGood(p)
      <4>1. CASE Leaves(p)
        <5>1. PICK code \in Codes, left \in SUBSET Descriptors :
                  /\ Exit(p, code, left)
                  /\ (code = "0" /\ Receives(cmd[p])) => RecvGood(p)
          BY <4>1 DEF Leaves
        <5>2. exit'[p] = [code |-> code, at |-> at[p], sub |-> cmd[p].sub]
          BY <5>1 DEF Exit, TypeInv, TypeOK
        <5>3. exit'[p].code = code /\ exit'[p].sub = cmd[p].sub
          BY <5>2
        <5>4. code = "0" /\ Receives(cmd[p])
          BY <2>4, <5>3 DEF Receives
        <5> QED
          BY <3>3, <5>1, <5>4
      <4>2. CASE Proceeds(p)
        BY <2>4, <3>1, <4>2 DEF Proceeds, Goto
      <4> QED
        BY <2>1, <4>1, <4>2 DEF Moves
    <3> QED
      BY <3>2, <3>3
  <2> QED
    BY <1>0, <2>2, <2>3, <2>4 DEF PrintedWasSent, SameBlock
<1>2. ASSUME NEW p \in Procs, NEW c \in IfaceCommands, Start(p, c)
      PROVE  PrintedWasSent'
  <2>1. /\ exit' = [exit EXCEPT ![p] = NoExit] /\ out' = [out EXCEPT ![p] = {}]
        /\ posted' = posted
    BY <1>2 DEF Start, history
  <2>2. exit'[p].code = "none"
    BY <2>1 DEF NoExit, TypeInv, TypeOK
  <2>3. \A q \in Procs \ {p} : exit'[q] = exit[q] /\ out'[q] = out[q]
    BY <2>1 DEF TypeInv, TypeOK
  <2> QED
    BY <1>0, <2>1, <2>2, <2>3 DEF PrintedWasSent, SameBlock
<1>3. CASE UNCHANGED vars
  BY <1>3 DEF vars, PrintedWasSent
<1> QED
  BY <1>1, <1>2, <1>3 DEF Next

(* A receive that reports success gave a text that its source had sent to the
   block it looked at, however sends, receives and forced opens with blocks of
   several sizes have been mixed on the device. *)
THEOREM PrintedTextsWereSent == Spec => []PrintedWasSent
<1>1. Init => PrintedWasSent
  <2>1. ASSUME Init
        PROVE  \A p \in Procs : exit[p].code = "none"
    BY <2>1 DEF Init, NoExit
  <2>2. ASSUME \A p \in Procs : exit[p].code = "none"
        PROVE  \A p \in Procs : exit[p].code # "0"
    BY <2>2
  <2> QED
    BY <2>1, <2>2, Zenon DEF PrintedWasSent
<1>2. TypeInv /\ StoreInv /\ PrintedWasSent /\ [Next]_vars => PrintedWasSent'
  BY PrintStep
<1> QED
  BY <1>1, <1>2, Stored, PTL DEF Spec

(* Every packet sent or received is one of blocks of v bytes. *)
SizeInv(v) ==
    /\ \A m \in posted : m.virt = v
    /\ \A p \in Procs : \A r \in out[p] : r.virt = v

LEMMA SizeStep ==
    ASSUME NEW CONSTANT v, \A c \in IfaceCommands : Opens(c) => c.virt = v
    PROVE  TypeInv /\ SizeInv(v) /\ [Next]_vars => SizeInv(v)'
<1> SUFFICES ASSUME TypeInv, SizeInv(v), [Next]_vars
             PROVE  SizeInv(v)'
  OBVIOUS
<1>1. ASSUME NEW p \in Procs, Step(p)
      PROVE  SizeInv(v)'
  <2>1. Moves(p)
    BY <1>1, StepMoves
  <2>2. cmd[p] \in IfaceCommands /\ (Opens(cmd[p]) => cmd[p].virt = v)
    BY <2>1 DEF Moves, TypeInv, ControlInv
  <2>3. \A m \in posted' : m.virt = v
    <3>1. CASE Send(p)
      <4>1. cmd[p].virt = v
        BY <3>1, <2>2 DEF Send, Sends, Opens
      <4>2. posted' = posted \cup
               {Packet(cmd[p].dst % 256, cmd[p].virt,
                       <<cmd[p].node % 256, cmd[p].text>>)}
        BY <3>1 DEF Send
      <4> QED
        BY <4>1, <4>2 DEF SizeInv, Packet
    <3>2. CASE ~Send(p)
      BY <2>1, <3>2 DEF Moves, WriteHeader, history, SizeInv
    <3> QED
      BY <3>1, <3>2
  <2>4. \A q \in Procs : \A r \in out'[q] : r.virt = v
    <3>1. CASE RecvGood(p)
      <4>1. cmd[p].virt = v
        BY <3>1, <2>2 DEF RecvGood
      <4>2. out' = [out EXCEPT ![p] = Received(v, cmd[p].node % 256)]
        BY <3>1, <4>1 DEF RecvGood
      <4>3. \A r \in Received(v, cmd[p].node % 256) : r.virt = v
        BY DEF Received, Packet
      <4> QED
        BY <4>2, <4>3 DEF SizeInv, TypeInv, TypeOK
    <3>2. CASE ~RecvGood(p)
      BY <2>1, <3>2 DEF Moves, SizeInv
    <3> QED
      BY <3>1, <3>2
  <2> QED
    BY <2>3, <2>4 DEF SizeInv
<1>2. ASSUME NEW p \in Procs, NEW c \in IfaceCommands, Start(p, c)
      PROVE  SizeInv(v)'
  BY <1>2 DEF Start, history, SizeInv, TypeInv, TypeOK
<1>3. CASE UNCHANGED vars
  BY <1>3 DEF vars, SizeInv
<1> QED
  BY <1>1, <1>2, <1>3 DEF Next

(* A receive that reports success gave a text that its source had sent to the
   node that receives. *)
PrintedForNode ==
    \A p \in Procs :
        (exit[p].sub \in {"recv", "lib recv"} /\ exit[p].code = "0")
            => \E r \in out[p], m \in posted :
                  r.head = m.head /\ r.node = m.node

(* Blocks of one size begin at different bytes. *)
LEMMA OneBlockPerOffset ==
    ASSUME NEW v \in BlockSizes, NEW a \in Nat, NEW b \in Nat,
           BlockOffset(v, a) = BlockOffset(v, b)
    PROVE  a = b
<1>1. v \in Nat /\ v > 0
  BY DEF BlockSizes, EOB_HDR_SIZE
<1>2. BlockOffset(v, a) \in Nat /\ BlockOffset(v, b) \in Nat
  BY <1>1 DEF BlockOffset, EOB_HDR_SIZE
<1>3. ~(a < b)
  BY <1>1, <1>2, BlocksInOrder
<1>4. ~(b < a)
  BY <1>1, <1>2, BlocksInOrder
<1> QED
  BY <1>3, <1>4

LEMMA PacketNodes == \A m \in Packets : m.node \in Nat
  BY DEF Packets

LEMMA OneSizeOneNode ==
    ASSUME NEW CONSTANT v \in BlockSizes
    PROVE  TypeInv /\ SizeInv(v) /\ PrintedWasSent => PrintedForNode
<1> SUFFICES ASSUME TypeInv, SizeInv(v), PrintedWasSent, NEW p \in Procs,
                    exit[p].sub \in {"recv", "lib recv"}, exit[p].code = "0"
             PROVE  \E r \in out[p], m \in posted :
                        r.head = m.head /\ r.node = m.node
  BY DEF PrintedForNode
<1>1. PICK r \in out[p], m \in posted :
          /\ r.head = m.head
          /\ BlockOffset(r.virt, r.node) = BlockOffset(m.virt, m.node)
  BY DEF PrintedWasSent
<1>2. r.virt = v /\ m.virt = v
  BY DEF SizeInv
<1>3. r.node \in Nat /\ m.node \in Nat
  <2>1. r \in Packets /\ m \in Packets
    BY DEF TypeInv, TypeOK
  <2> QED
    BY <2>1, PacketNodes
<1> QED
  BY <1>1, <1>2, <1>3, OneBlockPerOffset

(* If all clients of a device use blocks of one size, as send and recv of
   iface do, what a receive gives was sent to its own node.  With two sizes
   it need not be: a block of node 1 with 4096 bytes begins where one of node
   8 with 512 bytes does. *)
THEOREM OneSizePrintsOwnMail ==
    ASSUME NEW CONSTANT v \in BlockSizes,
           \A c \in IfaceCommands : Opens(c) => c.virt = v
    PROVE  Spec => []PrintedForNode
<1>1. Init => SizeInv(v)
  BY DEF Init, SizeInv
<1>2. TypeInv /\ SizeInv(v) /\ [Next]_vars => SizeInv(v)'
  BY SizeStep
<1>3. TypeInv /\ SizeInv(v) /\ PrintedWasSent => PrintedForNode
  BY OneSizeOneNode
<1> QED
  BY <1>1, <1>2, <1>3, Typed, PrintedTextsWereSent, PTL DEF Spec
=============================================================================

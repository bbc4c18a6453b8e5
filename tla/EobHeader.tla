------------------------------ MODULE EobHeader ------------------------------
(***************************************************************************)
(* The device header as the processes that share the device see it.  Every *)
(* header command of the library (eob_hdr_init, eob_hdr_deinit,            *)
(* eob_hdr_add_device, eob_hdr_rem_device, eob_hdr_dump) and the header    *)
(* half of opening a device (eob_device_init_hdr) is run by independent    *)
(* processes, without a lock: read the header, accept it if its checksum   *)
(* fits, change it in memory, write it back.                               *)
(*                                                                         *)
(* One header transfer is not atomic for the others.  The preamble's fixed *)
(* fields, the node table and the checksum are read and written one after  *)
(* the other, so a reader may see a torn header; two writers of the page   *)
(* that holds the header exclude each other (the page lock, `writer').     *)
(***************************************************************************)
EXTENDS EobHdr

CONSTANTS
    Procs,         \* process slots that run commands on the device
    NoProc,        \* not a process: the page lock is free
    MaxPass,       \* max_pass, 10: how often a read is tried
    IOErrors,      \* whether pread and pwritev may fail
    MaxCommands    \* bound on the commands of one behaviour

ASSUME HeaderConstants ==
    /\ NoProc \notin Procs
    /\ MaxPass \in Nat \ {0}
    /\ MaxCommands \in Nat
    /\ IOErrors \in BOOLEAN

-----------------------------------------------------------------------------
VARIABLES
    disk,     \* the header on the device, as a reader finds it
    writer,   \* the process inside a header write, or NoProc
    pc,       \* where each process is in its command
    cmd,      \* the command each process runs
    pass,     \* the pass of its header read
    buf,      \* its struct eob_header
    res,      \* the result of its last command
    \* history variables
    stable,   \* the header as of the last finished write
    window,   \* the values stable had since the command of p began
    calm,     \* during this pass of p, disk was Current and did not change
    granted,  \* <<node, ip>> of the adds begun so far
    acked,    \* <<node, ip>> of the adds reported OK and not undone since
    started   \* the number of commands begun

device == <<disk, writer>>
local == <<pc, cmd, pass, buf, res>>
history == <<stable, window, calm, granted, acked, started>>
vars == <<disk, writer, pc, cmd, pass, buf, res,
          stable, window, calm, granted, acked, started>>

PcReading == {"rgeo", "rtab", "rsum", "check"}
PcWriting == {"wtab", "wsum"}
PcAll == {"idle", "accepted", "rewrite", "wgeo"} \cup PcReading \cup PcWriting

Init ==
    /\ disk \in InitialDisks
    /\ writer = NoProc
    /\ pc = [p \in Procs |-> "idle"]
    /\ cmd = [p \in Procs |-> NoCmd]
    /\ pass = [p \in Procs |-> 0]
    /\ buf = [p \in Procs |-> ZeroHeader]
    /\ res = [p \in Procs |-> "OK"]
    /\ stable = disk
    /\ window = [p \in Procs |-> {}]
    /\ calm = [p \in Procs |-> FALSE]
    /\ granted = {}
    /\ acked = {}
    /\ started = 0

(* Move p on inside its command, with its header buffer at h. *)
Goto(p, label, h) ==
    /\ pc' = [pc EXCEPT ![p] = label]
    /\ buf' = [buf EXCEPT ![p] = h]
    /\ UNCHANGED <<cmd, pass, res>>

(* Return r from the command: its locals are gone. *)
Return(p, r) ==
    /\ pc' = [pc EXCEPT ![p] = "idle"]
    /\ cmd' = [cmd EXCEPT ![p] = NoCmd]
    /\ pass' = [pass EXCEPT ![p] = 0]
    /\ buf' = [buf EXCEPT ![p] = ZeroHeader]
    /\ res' = [res EXCEPT ![p] = r]
    /\ window' = [window EXCEPT ![p] = {}]
    /\ calm' = [calm EXCEPT ![p] = FALSE]

Forget(n) == {a \in acked : a[1] # n}

-----------------------------------------------------------------------------
(* Beginning a command *)

Begin(p, c, label, h) ==
    /\ pc[p] = "idle"
    /\ started < MaxCommands
    /\ started' = started + 1
    /\ pc' = [pc EXCEPT ![p] = label]
    /\ cmd' = [cmd EXCEPT ![p] = c]
    /\ buf' = [buf EXCEPT ![p] = h]
    /\ window' = [window EXCEPT ![p] = {stable}]
    /\ granted' = IF c.op = "add" THEN granted \cup {<<c.node, c.ip>>}
                  ELSE granted
    /\ UNCHANGED <<device, pass, res, stable, calm, acked>>

(* eob_hdr_init formats without reading what is there. *)
eob_hdr_init(p) ==
    \E c \in Commands :
        /\ c.op = "init"
        /\ InitSizesOk(c)
        /\ Begin(p, c, "wgeo", InitHeader(c))

(* A failed VERIFY of eob_hdr_init, or of eob_write_header it calls. *)
eob_hdr_init_abort(p) ==
    \E c \in Commands :
        /\ c.op = "init"
        /\ ~InitSizesOk(c)
        /\ pc[p] = "idle"
        /\ started < MaxCommands
        /\ started' = started + 1
        /\ res' = [res EXCEPT ![p] = "abort"]
        /\ UNCHANGED <<device, pc, cmd, pass, buf, stable, window, calm,
                       granted, acked>>

eob_hdr_deinit(p) ==
    \E c \in Commands : c.op = "deinit" /\ Begin(p, c, "wgeo", ZeroHeader)

(* The commands that begin with a header read, into a zeroed buffer. *)
BeginRead(p) ==
    \E c \in Commands :
        c.op \in {"add", "rem", "dump", "open"} /\ Begin(p, c, "rgeo", ZeroHeader)

-----------------------------------------------------------------------------
(* eob_read_header, eob_device_read_header: up to max_pass reads *)

(* Mutant: passes are not counted. *)
ReadGeo_uncounted(p) ==
    /\ pc[p] = "rgeo"
    /\ Goto(p, "rtab", [buf[p] EXCEPT !.geo = disk.geo])
    /\ calm' = [calm EXCEPT ![p] = Current(disk)]
    /\ UNCHANGED <<device, stable, window, granted, acked, started>>

ReadGeo(p) ==
    /\ pc[p] = "rgeo"
    /\ pc' = [pc EXCEPT ![p] = "rtab"]
    /\ pass' = [pass EXCEPT ![p] = @ + 1]
    /\ buf' = [buf EXCEPT ![p].geo = disk.geo]
    /\ calm' = [calm EXCEPT ![p] = Current(disk)]
    /\ UNCHANGED <<device, cmd, res, stable, window, granted, acked, started>>

ReadTab(p) ==
    /\ pc[p] = "rtab"
    /\ Goto(p, "rsum", [buf[p] EXCEPT !.tab = disk.tab])
    /\ UNCHANGED <<device, history>>

(* Mutant: the read ends before the checksum field. *)
ReadSum_skipped(p) ==
    /\ pc[p] = "rsum"
    /\ Goto(p, "check", buf[p])
    /\ UNCHANGED <<device, history>>

ReadSum(p) ==
    /\ pc[p] = "rsum"
    /\ Goto(p, "check", [buf[p] EXCEPT !.sum = disk.sum])
    /\ UNCHANGED <<device, history>>

(* pread < 0 ends the command at once, whatever the pass. *)
ReadFail(p) ==
    /\ IOErrors
    /\ pc[p] = "rgeo"
    /\ Return(p, "IO")
    /\ UNCHANGED <<device, stable, granted, acked, started>>

(* Mutant: magic and version make a header, whatever its checksum. *)
ReadAccept_unchecked(p) ==
    /\ pc[p] = "check"
    /\ buf[p].geo.magic /\ buf[p].geo.version = EOB_HDR_VERSION
    /\ Goto(p, "accepted", buf[p])
    /\ UNCHANGED <<device, history>>

ReadAccept(p) ==
    /\ pc[p] = "check"
    /\ Accepts(buf[p])
    /\ Goto(p, "accepted", buf[p])
    /\ UNCHANGED <<device, history>>

(* Mutant: no limit on the passes. *)
ReadAgain_unbounded(p) ==
    /\ pc[p] = "check"
    /\ ~Current(buf[p])
    /\ Goto(p, "rgeo", buf[p])
    /\ UNCHANGED <<device, history>>

(* A bad checksum or magic: read again, into the same buffer. *)
ReadAgain(p) ==
    /\ pc[p] = "check"
    /\ ~Current(buf[p])
    /\ pass[p] < MaxPass
    /\ Goto(p, "rgeo", buf[p])
    /\ UNCHANGED <<device, history>>

(* The read ends in an error: a version that is not ours, or no pass left. *)
ReadError(p) ==
    IF Current(buf[p]) THEN "VER_MISM" ELSE "CHKSUM"

ReadGivesUp(p) ==
    /\ pc[p] = "check"
    /\ ~Accepts(buf[p])
    /\ Current(buf[p]) \/ pass[p] >= MaxPass
    /\ \/ /\ cmd[p].op = "open"
          /\ Goto(p, "rewrite", buf[p])
          /\ UNCHANGED history
       \/ /\ cmd[p].op # "open"
          /\ Return(p, ReadError(p))
          /\ UNCHANGED <<stable, granted, acked, started>>
    /\ UNCHANGED device

-----------------------------------------------------------------------------
(* What each command does with a header it accepted *)

eob_hdr_dump(p) ==
    /\ pc[p] = "accepted"
    /\ cmd[p].op = "dump"
    /\ Return(p, "OK")
    /\ UNCHANGED <<device, stable, granted, acked, started>>

(* eob_write_header VERIFYs that a physical block holds a header. *)
WriteOrAbort(p, h) ==
    \/ /\ h.geo.phys >= EOB_HDR_SIZE
       /\ Goto(p, "wgeo", h)
       /\ UNCHANGED history
    \/ /\ h.geo.phys < EOB_HDR_SIZE
       /\ Return(p, "abort")
       /\ UNCHANGED <<stable, granted, acked, started>>

eob_hdr_add_device(p) ==
    /\ pc[p] = "accepted"
    /\ cmd[p].op = "add"
    /\ ~AddRefused(cmd[p], buf[p])
    /\ WriteOrAbort(p, AddedHeader(cmd[p], buf[p]))
    /\ UNCHANGED device

eob_hdr_add_device_refused(p) ==
    /\ pc[p] = "accepted"
    /\ cmd[p].op = "add"
    /\ AddRefused(cmd[p], buf[p])
    /\ Return(p, "INVAL")
    /\ UNCHANGED <<device, stable, granted, acked, started>>

eob_hdr_rem_device(p) ==
    /\ pc[p] = "accepted"
    /\ cmd[p].op = "rem"
    /\ EOB_NODE_IS_PRESENT(buf[p], cmd[p].node)
    /\ WriteOrAbort(p, RemovedHeader(cmd[p], buf[p]))
    /\ UNCHANGED device

(* Removing a node that is not present succeeds without a write. *)
eob_hdr_rem_device_absent(p) ==
    /\ pc[p] = "accepted"
    /\ cmd[p].op = "rem"
    /\ ~EOB_NODE_IS_PRESENT(buf[p], cmd[p].node)
    /\ Return(p, "OK")
    /\ acked' = Forget(cmd[p].node)
    /\ UNCHANGED <<device, stable, granted, started>>

(* eob_device_init_hdr without a rewrite: the header becomes the device's. *)
eob_device_init_hdr(p) ==
    /\ pc[p] = "accepted"
    /\ cmd[p].op = "open"
    /\ ~cmd[p].force
    /\ Return(p, IF GeometryMismatch(cmd[p], buf[p]) THEN "INVAL" ELSE "OK")
    /\ UNCHANGED <<device, stable, granted, acked, started>>

(* Mutant: an open that read the header also writes it, forced or not. *)
eob_device_init_hdr_rewrite_always(p) ==
    /\ pc[p] = "rewrite" \/ (pc[p] = "accepted" /\ cmd[p].op = "open")
    /\ Goto(p, "wgeo", RewrittenHeader(cmd[p], buf[p]))
    /\ UNCHANGED <<device, history>>

(* eob_device_init_hdr with a rewrite: forced, or the read gave up. *)
eob_device_init_hdr_rewrite(p) ==
    /\ \/ pc[p] = "rewrite"
       \/ pc[p] = "accepted" /\ cmd[p].op = "open" /\ cmd[p].force
    /\ Goto(p, "wgeo", RewrittenHeader(cmd[p], buf[p]))
    /\ UNCHANGED <<device, history>>

-----------------------------------------------------------------------------
(* eob_write_header, eob_device_write_header, and the pwrite of deinit *)

(* A step of a write changes what is on the device under every reader. *)
Disturb(p, label, d) ==
    /\ disk' = d
    /\ pc' = [pc EXCEPT ![p] = label]
    /\ calm' = [q \in Procs |-> FALSE]
    /\ UNCHANGED <<cmd, pass, buf, res, stable, window, granted, acked, started>>

WriteGeo(p) ==
    /\ pc[p] = "wgeo"
    /\ writer = NoProc
    /\ writer' = p
    /\ Disturb(p, "wtab", [disk EXCEPT !.geo = buf[p].geo])

WriteTab(p) ==
    /\ pc[p] = "wtab"
    /\ Disturb(p, "wsum", [disk EXCEPT !.tab = buf[p].tab])
    /\ UNCHANGED writer

(* What the adds reported OK amount to once p has written and returns r. *)
AckedAfter(p, r) ==
    CASE cmd[p].op \in {"init", "deinit"} -> {}
      [] cmd[p].op = "add" /\ r = "OK" ->
             Forget(cmd[p].node) \cup {<<cmd[p].node, cmd[p].ip>>}
      [] cmd[p].op \in {"add", "rem"} /\ ~(cmd[p].op = "add" /\ r = "OK") ->
             Forget(cmd[p].node)
      [] OTHER -> acked

(* The last bytes of the header; pwritev returns, or fails after the data is
   in place (the O_SYNC flush failed). *)
WriteSum(p) ==
    /\ pc[p] = "wsum"
    /\ disk' = [disk EXCEPT !.sum = buf[p].sum]
    /\ writer' = NoProc
    /\ \E r \in IF IOErrors THEN {"OK", "IO"} ELSE {"OK"} :
          /\ pc' = [pc EXCEPT ![p] = "idle"]
          /\ cmd' = [cmd EXCEPT ![p] = NoCmd]
          /\ pass' = [pass EXCEPT ![p] = 0]
          /\ buf' = [buf EXCEPT ![p] = ZeroHeader]
          /\ res' = [res EXCEPT ![p] = r]
          /\ acked' = AckedAfter(p, r)
    /\ stable' = buf[p]
    /\ window' = [q \in Procs |-> IF pc[q] = "idle" \/ q = p THEN {}
                                  ELSE window[q] \cup {buf[p]}]
    /\ calm' = [q \in Procs |-> FALSE]
    /\ UNCHANGED <<granted, started>>

(* pwritev fails before it has written anything. *)
WriteFail(p) ==
    /\ IOErrors
    /\ pc[p] = "wgeo"
    /\ Return(p, "IO")
    /\ UNCHANGED <<device, stable, granted, acked, started>>

-----------------------------------------------------------------------------
Work(p) ==
    \/ ReadGeo(p) \/ ReadTab(p) \/ ReadSum(p) \/ ReadFail(p)
    \/ ReadAccept(p) \/ ReadAgain(p) \/ ReadGivesUp(p)
    \/ eob_hdr_dump(p)
    \/ eob_hdr_add_device(p) \/ eob_hdr_add_device_refused(p)
    \/ eob_hdr_rem_device(p) \/ eob_hdr_rem_device_absent(p)
    \/ eob_device_init_hdr(p) \/ eob_device_init_hdr_rewrite(p)
    \/ WriteGeo(p) \/ WriteTab(p) \/ WriteSum(p) \/ WriteFail(p)

BeginCommand(p) ==
    eob_hdr_init(p) \/ eob_hdr_init_abort(p) \/ eob_hdr_deinit(p) \/ BeginRead(p)

Next == \E p \in Procs : BeginCommand(p) \/ Work(p)

Spec == Init /\ [][Next]_vars

(* A command that is running is scheduled until it returns; a process that
   waits for the page lock gets it.  Users need not begin commands. *)
Fairness ==
    \A p \in Procs : WF_vars(Work(p)) /\ SF_vars(WriteGeo(p))

FairSpec == Spec /\ Fairness

-----------------------------------------------------------------------------
(* Properties *)

(* Every variable has the type of what it models. *)
TypeOK ==
    /\ disk \in Header
    /\ writer \in Procs \cup {NoProc}
    /\ pc \in [Procs -> PcAll]
    /\ cmd \in [Procs -> Cmd]
    /\ pass \in [Procs -> 0 .. MaxPass]
    /\ buf \in [Procs -> Header]
    /\ res \in [Procs -> Results]
    /\ stable \in Header
    /\ window \in [Procs -> SUBSET Header]
    /\ calm \in [Procs -> BOOLEAN]
    /\ granted \subseteq Int \X Entry
    /\ acked \subseteq Int \X Entry
    /\ started \in 0 .. MaxCommands

(* A header a command accepts (checksum, magic and version fit) was the
   device's header at some moment since the command began: readers that race
   with writers never act on a torn preamble, nor on one older than the
   command.  This is what the checksum and the retries of eob_read_header are
   for. *)
AcceptedWasCurrent ==
    \A p \in Procs :
        pc[p] = "accepted" =>
            \E h \in window[p] : Accepts(h) /\ Preamble(h) = Preamble(buf[p])

(* A pass of eob_read_header during which a good header stayed on the device
   never fails: a read gives up only if a write overlapped every pass, or the
   header was bad. *)
CalmPassAccepts ==
    \A p \in Procs : pc[p] = "check" /\ calm[p] => Current(buf[p])

(* Whenever no write is under way the device holds one complete header: what
   the last write wrote, its checksum computed from that very preamble, or a
   header without a checksum (zeros, what was there at first). *)
QuiescentHeaderIntact ==
    writer = NoProc =>
        /\ disk = stable
        /\ disk.sum = NoSum \/ eob_header_chksum_is_ok(disk)

(* A node is in the table only if some add asked for this node with this
   address, or a table found on the device had it: no interleaving of torn
   reads, rewrites by eob_device_init_hdr and removals invents a node. *)
NoPhantomNodes ==
    \A n \in Slots :
        \/ stable.tab[n] = Absent
        \/ <<n, stable.tab[n]>> \in granted
        \/ \E h \in InitialDisks : h.tab[n] = stable.tab[n]

(* eob_device_open without force rewrites the header only if the header was
   not acceptable at some moment of the command, or another process replaced
   it meanwhile: an open that nothing disturbs keeps a good device as it is. *)
UndisturbedOpenKeepsHeader ==
    [][\A p \in Procs :
          pc[p] = "wsum" /\ pc'[p] = "idle" /\ cmd[p].op = "open" /\ ~cmd[p].force
          => \/ \E h \in window[p] : ~Accepts(h)
             \/ \E g, h \in window[p] : g # h]_vars

(* Every add reported OK is in the table until a command removes or replaces
   the node or formats the device.  Holds for commands run one after the
   other; the unlocked read-modify-write loses it when two run at once. *)
AcknowledgedAddsHold == \A a \in acked : stable.tab[a[1]] = a[2]

(* An add without force never replaces a node that is in the table. *)
UnforcedAddTakesFreeSlot ==
    [][\A p \in Procs :
          pc[p] = "wsum" /\ pc'[p] = "idle" /\ cmd[p].op = "add" /\ ~cmd[p].force
          => stable.tab[cmd[p].node] = Absent]_vars

(* Every command that is begun returns: the read loop is bounded by max_pass
   and no process keeps the header page for ever. *)
CommandsReturn == \A p \in Procs : pc[p] # "idle" ~> pc[p] = "idle"

(* How many steps a command has before it at most, by where it is and how
   many passes its read has made. *)
StepsFrom(label, k) ==
    CASE label = "idle" -> 0
      [] label = "wsum" -> 1
      [] label = "wtab" -> 2
      [] label = "wgeo" -> 3
      [] label \in {"accepted", "rewrite"} -> 4
      [] label = "rgeo" -> 4 + 4 * (MaxPass - k)
      [] label = "check" -> 5 + 4 * (MaxPass - k)
      [] label = "rsum" -> 6 + 4 * (MaxPass - k)
      [] label = "rtab" -> 7 + 4 * (MaxPass - k)

StepsLeft(p) == StepsFrom(pc[p], pass[p])

(* A command comes nearer to its return with each of its own steps, and no
   step of another process, whatever that does to the header it reads, sends
   it back: the read loop of eob_read_header is bounded by max_pass alone. *)
CommandsAdvance ==
    [][\A p \in Procs : Work(p) =>
          /\ StepsLeft(p)' < StepsLeft(p)
          /\ \A q \in Procs \ {p} : StepsLeft(q)' = StepsLeft(q)]_vars

(* The header commands, with their racing transfers, implement the registry
   of EobRegistry: each works on a snapshot taken since it began and installs
   its header all at once, when the checksum is written. *)
Registry == INSTANCE EobRegistry
    WITH reg <- stable, req <- cmd, rep <- res, since <- window

ImplementsRegistry == Registry!RSpec
=============================================================================

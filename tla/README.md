# eoblock in TLA+

eoblock ("Ethernet over block device") lets the nodes of a cluster talk through
a block device they share. This directory holds TLA+ models of the program, the
TLC configurations that check them on small instances, and TLAPS proofs.

## 1. The system

| Part | State | Operations | Code |
|---|---|---|---|
| Device header | 512 bytes at offset 0: magic, version, block sizes, `nodes_count`, node table, padding, crc32 | `eob_hdr_init`, `_deinit`, `_add_device`, `_rem_device`, `_dump`; `eob_device_init_hdr` when a device is opened | `lib/liboblock.c`, `lib/chksum.c` |
| Node mailboxes | one block of `virt_blk_size` bytes per node, after the header | `eob_device_send`, `eob_device_recv` and the buffer functions below them | `lib/liboblock.c` |
| Layout | none | offsets and lengths of the transfers | `lib/liboblock.c`, `include/eoblock.h` |
| Opening | descriptor, `phys_buff`, copy of the header | `eob_device_open_file`, `_fd`, `_disk`, `eob_device_close`, udev lookups | `lib/liboblock.c` |
| `iface0` | files and descriptors of one command | send, recv, init, deinit, add, remove, dump | `cmd/iface0/iface.c` |
| File tunnel | a shared file, a queue, three processes per node | disk loop, interface loop, main loop, acknowledgement | `eoblock.py` |
| Kernel interfaces | list of interfaces, kobjects, net devices | `add` and `del` through `mgmt`, module load and unload | `modules/kmod/` |
| Support | none that matters | logging, assertions, AVL tree, vectors | `lib/eob_log.c`, `lib/libavl`, `lib/libvec`, ... |

**Interaction.** Every `iface0` command is a process of its own, on any host that
sees the device. The processes share nothing but the device: no lock, no
daemon, no generation number. A header command reads the header (up to ten
passes, until the checksum fits), changes its copy and writes it back. A send
writes a packet over the block of the destination node; a receive reads the
block of its own node. The library calls down to `pread`, `pwritev`, `preadv`
with `O_SYNC`.

**What is hard.** Transfers of different processes interleave; a read that
overlaps a write is torn. The read-modify-write of the header is not atomic. A
transfer may fail before or after it took effect, or end early. Lengths and
node ids come from the command line and are checked in some places only. The
list under `hazards` in `PROJECT.json` gives each hazard with its line.

**What makes the parts correct.**

* Header: whoever reads it acts on a header that was there, never on a mixture;
  a complete header is there whenever nobody writes; nodes get into the table
  and out of it only by commands; commands end.
* Mailboxes: what is received was sent, to this node, by the reported source;
  what was sent last can be received.
* Layout: transfers that belong to different owners share no byte.
* Device as a whole: a write destroys nobody's mail but that in its own bytes; a
  program tells success from failure and returns what it opened.
* Tunnel: what a station is given was sent to it, whole, once and in order; a
  packet that stays in the file is delivered.
* Kernel interfaces: the list holds exactly the live interfaces, and nothing
  reaches one that was freed.

## 2. Modules

| Module | What it is |
|---|---|
| `EobLayout` | sizes, offsets and extents of transfers |
| `EobHdr` | `struct eob_header` and what each command computes from it, as operators |
| `EobHeader` | the header protocol: processes that run the header commands on one device |
| `EobRegistry` | abstract: a header that changes all at once; commands work on snapshots |
| `EobMailbox` | the mailbox protocol: senders and receivers |
| `EobPostbox` | abstract: a register per node |
| `Iface` | the program `iface` and other clients on one device: header and blocks together (extends `EobHdr`) |
| `FTunnel` | the file tunnel: two nodes of three processes each |
| `LossyLink` | abstract: two stations and a link that loses, but does not alter, repeat or reorder |
| `EobSysfs` | the kernel module: interfaces, their list, directories and net devices |
| `MCEobHeader`, `MCEobMailbox`, `MCIface`, `MCFTunnel`, `MCEobSysfs` | instances for TLC |
| `EobLayout_proofs`, `EobHdr_proofs` | theorems and lemmas about the layout and the header operators, used by the modules below |
| `EobHeader_proofs`, `EobRegistry_proofs` | the header protocol; that it implements the registry |
| `EobMailbox_proofs`, `Iface_proofs`, `FTunnel_proofs`, `EobSysfs_proofs` | the same for the other components |

Definitions whose comment begins with "Mutant" are the faulty variants that show
that each property can fail; no specification uses them.

### EobHeader

One process slot runs one command at a time; `pc` says where it is, `cmd` which
command, `buf` is its `struct eob_header`, `pass` the counter of the read loop.
`disk` is the header on the device.

* *Reading* (`ReadGeo`, `ReadTab`, `ReadSum`): the fixed fields, the table and
  the checksum are copied one after the other, which is the coarsest cut that
  lets a reader see each part of a different header. The buffer is kept from
  pass to pass, as in the code. `ReadAccept`, `ReadAgain` and `ReadGivesUp` are
  the ways out of one pass, `ReadFail` the failed `pread`. `eob_read_header` and
  `eob_device_read_header` are the same code and the same actions.
* *Deciding*: one action for each outcome of each command. `eob_device_init_hdr`
  rewrites the header if forced or if the read gave up, keeping the node table
  of the last read whatever its checksum.
* *Writing* (`WriteGeo`, `WriteTab`, `WriteSum`): in the same three parts.
  Writers exclude each other: the header lies in one page and one sector, and
  the kernel writes to a page under its lock. Readers are not excluded. `WriteFail` fails
  with nothing written; `WriteSum` may report an error although all was written
  (the flush of `O_SYNC` failed). A header that is half written at rest is not
  modelled: 512 bytes are one sector.
* *History*: `stable` is the header of the last finished write, `window` the
  values of `stable` since a command began, `calm` whether a good header stayed
  put during a pass, `granted` and `acked` the adds begun and reported.

The checksum is ideal: it *is* the preamble it was computed from. `crc32` could
collide; no property is about that. Table entries from `MAX_CLUSTER_SIZE` up lie
in `__padding`, outside the checksum, and are modelled (`PadSlots`). Node ids
stay within the 512 bytes of the struct: -5, the magic, up to the end of the
padding. A removal does not check its index, so -1 to -5 are the fixed fields.
Block sizes are powers of two, where `P2PHASE` is the remainder.

### EobMailbox

A packet is a head (source, length), `Cap` data cells and a tail (checksum). A
block is transferred in the pieces that `PieceOf` gives; transfers of different
processes interleave between pieces. One piece stands for transfers that are
atomic for the others (a 512-byte block, hosts that share a disk); several for
blocks of several sectors or pages, and for a reader that copies from the page
cache while a writer copies into it.

* *Sending*: the length is held against the block (`VirtCells`), not against the
  room for data (`Cap`). A message one cell too long covers the tail; one that
  is longer also runs past the packet on the stack, after which the process goes on
  (`eob_device_send`) or dies (`eob_device_send_overrun`). `WriteStops` is a
  failed or a short `pwritev`; the short one is reported as success.
* *Receiving*: `ReadPiece`, then `Decode`. `ReadShort` is a `preadv` that ends at
  the end of the device: the buffer is shortened and the code looks past its
  end, at `Junk`, which is taken never to be a checksum that fits. `ReadFails`
  is a failed `preadv` or a failed `VERIFY`. A length of zero aborts the
  receiver (`eob_iovec_alloc_wait`).

The two packet sizes that can be sent (512 and 4096) differ in `Cap` and
`PieceOf` only; other sizes end in `NOT_IMPLEMENTED`. Destinations are the nodes
that some receiver reads. Allocation failures are left out. The string wrappers
add a terminating zero and an assertion about it.

### Iface

Processes run the subcommands of `iface` from their arguments to their exit
code, and clients of the library with 4096-byte blocks (`lib send`, `lib recv`), on one device whose
header and sectors are in one state. `at` is where a process is (arguments,
header read, header write, block transfer), `fds` what it holds open, `exit`
how its last command ended.

* `Start` stands for `main` and option parsing: a command line is the record of
  what the options give. `Usage` and `OpenFails` are the ways to end before the
  device is open; `iface_hdr_*` are the header commands, `OpenHeader`,
  `WriteHeader` the open with `eob_device_init_hdr`, `Send*` and `Recv*` the rest
  of `iface_send` and `iface_recv`.
* A header or block transfer is one step. `EobHeader` shows that a read which
  succeeds returns a header that was there, and `EobMailbox` what pieces do to
  a block. A read may also give up while another process is about to write.
* A 512-byte sector holds the head of a packet (source, text), the tail of one
  (the text its checksum fits), zeros or rubbish. Rubbish is what
  `eob_device_write_header` writes behind the header: it clears its buffer only
  if `dev->hdr`, which is empty during an open, has a long physical block.
* Ids and counts are cut to eight bits, as in `struct eob_hw_addr`. Texts may
  fill the 480 bytes for data, run over the tail, past the packet on the stack, or
  be refused. A use of an unset string or of the overrun stack either kills the process
  ("crash") or not.
* A packet is a record of node, block size and head (`Packet`). `mail` is the
  history that matters: packets reported as sent and reached by no later write;
  `posted` has all that were sent, `out` what a receive gave.
* Blocks of two sizes overlap without the library noticing: the block of node 8
  for 512-byte blocks begins where that of node 1 for 4096-byte blocks does, and node
  15 has the last sector of it. A send of the same text to 8 and to 15 looks to
  the other kind of client like a packet for node 1. `PrintedWasSent` therefore
  promises a packet that was sent to a block which begins at the same byte;
  with one block size, that is the node (`OneSizePrintsOwnMail`).

### FTunnel

`file` is a sequence of 512-byte cells, what one `os.read` returns. An open with
`"w+b"` truncates it and is a step of its own; the write after it fills the gap
with zeros. The disk loop reads cell by cell and looks for a packet after each
(`DiskRead`); at the end of the file it turns without a change, so it has no step
there. The queue of a node is kept as two, one per kind of event: one process puts each
kind, and the order between the kinds is that of two unsynchronised processes.
The crc fits a packet whose cells are all its own. Packets are no longer than a
region: the tun device has an MTU of 1500. A file whose length is no multiple of 512 only shifts where
a read stops.

### EobSysfs

A write to `mgmt` goes through the steps of `eoblock_iface_mgmt_store`;
descriptors do so at once, as nothing locks them. `list_add_tail` and `list_del`
are a read of the neighbours and a write. Allocation, sysfs and
`register_netdev` may fail. Freed memory is not given out again, and a use of it,
a `BUG_ON`, a call into an unloaded module or a transmit without
`ndo_start_xmit` stop the model (`crashed`). Requests are token strings of lexems: every
syntax error of the parser is among them. `raced` and `failedOpen` are history.

## 3. Runs

| Run | Instance | Shows |
|---|---|---|
| `paths` | 2 processes, 10 commands, 4 devices, I/O errors, 3 commands per behaviour | `QuiescentHeaderIntact`; `CommandsAdvance`: each step of a command leaves it fewer steps, those of the others leave it as many; `ImplementsRegistry`: the torn transfers implement `EobRegistry`; every action and error path happens |
| `race` | 3 processes, 4 commands, 2 table entries, 4 commands per behaviour | `AcceptedWasCurrent`, `CalmPassAccepts`, `NoPhantomNodes`, `UndisturbedOpenKeepsHeader` |
| `serial` | 1 process, 11 commands, I/O errors, 6 commands per behaviour | `AcknowledgedAddsHold`, `UnforcedAddTakesFreeSlot`: what add reports is true as long as commands do not overlap |
| `live` | 2 processes, fairness | `CommandsReturn` |
| `lost` | 2 processes, 2 adds | **violated** `AcknowledgedAddsHold` |
| `atomic` | 2 senders, 1 receiver, one piece, faults | `RecvAuthentic`, `QuietMailboxHoldsLast`, `ImplementsPostbox` |
| `torn` | 2 senders, 1 receiver, three pieces, messages of every length class, faults | `RecvIntegrity` |
| `source` | head apart from data | **violated** `RecvAuthentic` |
| `iface` | 2 processes, 29 command lines, 3 devices, faults, 3 commands per behaviour | `MailOnlyOverwritten`: sent mail is there until a write to its own bytes; `PrintedWasSent`: an exit code of 0 means a text that was sent to a block that begins where this node's does; `CountCoversNodes`: the nodes in the table are below `nodes_count` as long as no open rewrote the header; `DescriptorsReturned` |
| `recvfile` | 2 processes, a send and receives to stdout and to a file | **violated** `RecvIntoFileSucceeds` |
| `tunnel` | 2 nodes, packets of 2, 1, 2 cells one way and 2 the other, fairness | `ImplementsLossyLink`; `FreshReaderDelivers`: a packet that is in the region when the disk loop starts on it reaches the interface, or is truncated away |
| `sysfs` | 2 descriptors, 4 names, 15 requests, 4 writes, 2 loads, faults | `DirectoryIsLive`; `FreedUseNeedsCause`: freed memory is met only after overlapping writes or a failed `eob_device_open`; `CalmListIsSound`: otherwise list, directories and net devices agree |

**Bounds.** `MaxPass` is 2 (10 in the code): two passes are what it takes for a
pass to fail and the next to succeed, and for a read to give up. `MaxCommands`
bounds a behaviour; with 3 or 4 commands each process can be overtaken by two
others, or by one that returns and begins again. `MaxCluster` is 1 or 2 (32): one entry to lose and one
to lose it to; `PadSlots` is 1 where entries outside the checksum matter. Sizes
are the real ones. `Cap` is 2: a message can be shorter than the data part, fill
it, run over the tail, run over the end, or be too long for the block. Mailbox runs
need no bound on the number of sends: `sent` is a set of finitely many triples.

In `iface` three commands are enough for a packet, a write that may destroy it
and a receive, or for two commands in the steps of a third; 16 sectors hold two
blocks of 4096 and the 512-byte blocks below them. In `tunnel` a region has
three cells: a reader can be inside a packet when the file is truncated and
written again, and see cells of two packets. In `sysfs` four writes are an add,
two commands at once on what it made, and one that meets the result; three
addresses are two interfaces at once and one more after a removal or a failed
addition; the names are of 4, 15, 16 and 256 characters and the paths of 256 and 257, at the two limits.

The header runs do not check for deadlock: the users may stop after
`MaxCommands`; so may those of `iface` and `sysfs`, where a crash ends the model
too, and the tunnel stops when a disk loop waits at the end of the file. The mailbox runs do.

**Symmetry.** Processes that differ in nothing but their name are permuted in
`paths`, `race`, `torn` and `iface`, descriptors and addresses in `sysfs`; none of
these checks liveness.

**Fairness** (`live`). Weak fairness of each process's steps: a running process
is scheduled. Strong fairness of `WriteGeo`: the page lock is handed over in
turn, so a process that waits for it gets it although others take it in between. Beginning
commands is not fair: users need not type.
In `tunnel`, weak fairness of the disk loop and of a write that has begun, strong
fairness of taking either kind of event: the queue is served in the order of
arrival, so an event of one kind is reached although events of the other kind
are served in between. Reading the tun device is not fair. `CommandsReturn` is checked with `MaxCommands = 3`.

## 4. Findings

* `lost`: two adds at once both report success, one node is missing (`liboblock.c:1142`).
* `source`: the source address is outside the checksum (`liboblock.c:551`).
* `recvfile`: a message received into a file ends in an abort, because the count of
  the write is taken for an error code (`iface.c:202`).

Seen while modelling, without a run of their own:

* `remove -n -1` clears an odd `nodes_count` (`liboblock.c:1185`).
* A message longer than the room for data is accepted and cannot be received
  (`liboblock.c:569`; the texts "tail" and "stack" of `iface`).
* A device opened with `-F` or with a header that is bad gets `nodes_count` 0
  unless `-c` is given, with its table kept (`liboblock.c:664`); this is why
  `CountCoversNodes` speaks of headers no open has rewritten.
* `eob_device_open` refuses every path that exists (`liboblock.c:845`).
* The help text of `mgmt`, "add iface_name <device, partition, file>"
  (`eoblock_sysfs.c:177`), is not what the parser takes: the device has to be
  given as `dev=<path>`.
* A removed interface keeps its net device, so adding the name again fails; that
  failure leaves a freed interface on the list (`eoblock_sysfs.c:317`).
* `init -F` takes an argument (`iface.c:573`), `dump -j` aborts (`iface.c:342`).
* A disk loop at the end of a truncated file waits until somebody writes beyond
  where it stands (`eoblock.py:150`).

## 5. Proofs

Proved for all values of the constants that the named assumptions allow: any
number of processes, nodes, commands, any sizes. Every safety property that a
passing run checks is a theorem; section 3 shows each on an instance first.

| Module | Theorem | Property | Hypothesis beyond the assumptions on constants |
|---|---|---|---|
| `EobHeader_proofs` | `TypeCorrect`, `AcceptedHeaders`, `CalmReads`, `QuiescentHeader` | `TypeOK`, `AcceptedWasCurrent`, `CalmPassAccepts`, `QuiescentHeaderIntact` | |
| | `NoPhantoms`, `OpensKeepHeaders`, `CommandsShrink` | `NoPhantomNodes`, `UndisturbedOpenKeepsHeader`, `CommandsAdvance` | |
| | `SerialAddsHold`, `SerialAddsTakeFreeSlots` | `AcknowledgedAddsHold`, `UnforcedAddTakesFreeSlot` | one process (`OneProcess`); the run `lost` shows that it is needed |
| `EobRegistry_proofs` | `HeaderImplementsRegistry` | `ImplementsRegistry` | |
| `EobMailbox_proofs` | `TypeCorrect`, `DataIntegrity` | `TypeOK`, `RecvIntegrity` | |
| | `SourceAuthenticity` | `RecvAuthentic` | one piece; the run `source` shows that it is needed |
| | `LastPacketStays` | `QuietMailboxHoldsLast` | one piece, messages that fit and are not empty |
| | `MailboxIsRegister` | `ImplementsPostbox` | one piece, messages that fit |
| `Iface_proofs` | `TypeCorrect`, `DescriptorsAreReturned`, `MailStays`, `PrintedTextsWereSent` | `TypeOK`, `DescriptorsReturned`, `MailOnlyOverwritten`, `PrintedWasSent` | |
| | `CountsCover` | `CountCoversNodes` | the count of a good header on the initial device covers its nodes |
| | `OneSizePrintsOwnMail` | what is printed was sent to this very node | all commands use one block size |
| `FTunnel_proofs` | `TypeCorrect`, `TunnelImplementsLink` | `TypeOK`, `ImplementsLossyLink` | |
| `EobSysfs_proofs` | `TypeCorrect`, `DirectoriesAreLive`, `FreedUseHasCause`, `CalmListsAreSound` | `TypeOK`, `DirectoryIsLive`, `FreedUseNeedsCause`, `CalmListIsSound` | |
| `EobLayout_proofs` | `BlocksDisjoint`, `HeaderWriteClearsBlocks` | | |

**EobLayout_proofs.** `BlocksDisjoint`: blocks of different nodes share no byte,
which is why `EobMailbox` may give each a variable. `HeaderWriteClearsBlocks`: a header write stays clear of the blocks exactly if the
physical block is no larger than the header; with the default of 4096 it does not.

**EobHeader_proofs**, from `HdrConstants`, `HeaderInputs`, `HeaderDisks`,
`HeaderConstants`. The invariant is `TypeInv` (types, and which `pc` belongs to
which command) with `ProtocolInv`:

* `LockInv`: the process inside a write is the writer, and the only one;
* `DiskInv`: during a write the device holds the new header up to the point
  reached and `stable` after it; otherwise it is `stable`;
* `IntactInv`: `stable` and every header about to be written carry a checksum
  that fits, or none;
* `WindowInv`: `stable` is in the window of every running command;
* `SnapshotInv`: what passes the checks in a buffer has the preamble of a header of the window;
* `CalmInv`: a calm pass has read its parts from the header that is there.

`AcceptedWasCurrent` is not inductive by itself: that a checksum which fits
belongs to a header of the window needs `SnapshotInv`, which needs `WindowInv`
and `DiskInv`: even in the middle of a write the checksum on the device is the
one of `stable`, because the checksum is written last.

`NoPhantoms` follows the tables wherever they are, in `stable`, on the device
and in every buffer (`PhantomInv`): a torn table is still made of known entries,
as a table is one part. `OpensKeepHeaders` needs to know what a read that
nothing disturbed has in hand (`ReadInv`) and that an open is about to write only
if it was disturbed or the header was bad (`OpenInv`). A writer that puts back
the very header that is there disturbs nobody (`Harmless`), which is the case
that makes the invariant hard to guess. The serial theorems use `SerialInv`: what
the one process is about to write is the last table with its own node changed
(`AloneInv`), and `acked` is in the table (`AckInv`).

**EobRegistry_proofs.** A step simulation: beginning is `Call`, returning
without a write is `Keep`, the write of the checksum is `Replace`, everything
else is invisible. `RegistryInv` says what a command can know at each place. The
hard part is an open that gave up reading: the table it writes back comes from
a header nobody has verified. It is the table of a header of its window, or of
one that is being written and has its table, but not yet its checksum, on the
device (`Seen`). In the second case the page is locked, so by the time the open
gets to write, that header is complete and in the window (`SeenUnlocked`).

**EobMailbox_proofs**, from `MailboxConstants`.

* `TypeCorrect`, with the fact that a writer writes to a mailbox.
* `DataIntegrity`, for every `PieceOf`, `Cap` and set of messages. The invariant
  (`IntegrityInv`, `TailOk`) follows the checksum: what is in the tail of a
  block, of a packet on its way or of a buffer is a data cell, the zero of an
  empty block, or the checksum of data sent to this node. A packet that
  decodes has its data for checksum, and that is neither of the first two.
* `SourceAuthenticity`: blocks and buffers hold whole packets (`WholeInv`).
* `LastPacketStays` (`LastInv`). A message that runs over the tail shows that
  the assumption on messages is needed.
* `MailboxIsRegister`: a step simulation from `WholeInv` and `PostInv`; the write
  of the block is `Post`, the read of it `Fetch`.

**Iface_proofs**, from `IfaceInputs` and the assumptions of `EobHdr`. `StepMoves`
says once what any step does (a command goes on or exits, and only a header
write, a send and a receive do more). `StoreInv` has two halves: every packet of
`mail` is on the device with head and tail (`Stands`), and every head on the
device came from a packet sent to a block that begins there (`SentTo`). The
first needs `BlocksDisjoint` and the sectors that a transfer covers
(`DisjointBlocks`, `DisjointHeader`), the second is why `PrintedWasSent` cannot
speak of the tail: it may come from another packet. `CoverInv` adds the headers
that are about to be written, which were computed from headers that may be gone.

**FTunnel_proofs.** `TunnelInv`: the queue of the interface holds the next packets
in order (`QueueInv`); a cell of a region is zero or of a packet the peer has
written, and is newer than all that was found there so long as the disk loop
may still take it (`RegionInv`, `LoopInv`); what was found is in order
(`FoundInv`). The acknowledgement is what makes the cells new again: it comes
between finding a packet and looking for the next.

**EobSysfs_proofs**, from `SysfsConstants`. `TypeInv` carries that nothing points
to memory that was not given out (`WriteOk`, `LinksUsed`); `DirInv` that
`kobject_del` comes before `kfree` for every write at once. `CalmInv` describes
the list during undisturbed writes: it is a ring in both directions through
exactly the interfaces that sysfs shows and no write has in hand (`SoundList`,
`Linked`), and a write knows its neighbours (`Knows`). That a walk from the head
meets all of the list is stated over subsets closed under `next`, so no
induction on its length is needed.

**What proving has changed in the models.** `EobSysfs.TypeOK` was false with three
writers: a removal can find poisoned pointers in an interface that another removal
has just cut out, and crashes there (`DelRead`). The cases of
`eoblock_iface_mgmt_cb` overlapped. `PrintedWasSent` said "to this node", which
the overlap of two block sizes refutes; the run now has the sends that show it.

**Only model-checked.** `CommandsReturn` and `FreshReaderDelivers`: liveness under
fairness is out of the prover's reach. Of the first, `CommandsShrink` proves what
is not fairness: a command has at most 4 * `MaxPass` + 4 steps of its own. The three
violations are counterexamples of TLC.

## 6. Not modelled

* Option strings, printing and logging; the subcommand `test`, which is the test suite.
* Allocation failure in the library; crc32 collisions; half-written headers at rest.
* `eob_device_open`, `eob_device_open_disk` and the udev lookups: the first
  refuses every existing path, so the others never run.
* Setting up the tun device (`FTunnel.open`).
* Of the kernel module: `setup_id`, a number nothing reads; `eob_open_blk`,
  `add_eob_device`, `remove_eob_device` and the array of devices, whose calls are
  commented out; the disk and debug helpers, which only print.
* The AVL tree and the vectors (third-party, no part of the protocols).

## 7. Plan

All modules of the plan are written and all their safety properties proved.
Worth doing next:

1. With one process the header commands are atomic: a specification without
   snapshots that `EobRegistry` implements under `OneProcess`.
2. The steps between `EobHeader` and `Iface`: `Iface` takes a header read as one
   step that may give up; `HeaderImplementsRegistry` is the reason it may.
3. A bound for the disk loop of the tunnel, as `CommandsAdvance` is for the
   header commands: how many of its steps lie between a packet in the region and
   the queue.

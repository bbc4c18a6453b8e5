---------------------------- MODULE MCEobHeader ----------------------------
(***************************************************************************)
(* Instances of EobHeader for TLC.  Sizes are the real ones (512, 4096);   *)
(* the cluster is cut down to one or two covered entries and one entry in  *)
(* the padding, which is what tells covered from uncovered entries apart.  *)
(***************************************************************************)
EXTENDS EobHeader, TLC

CONSTANTS ip1, ip2

(* The processes are alike. *)
Symmetry == Permutations(Procs)

Command(op) == [NoCmd EXCEPT !.op = op]

AddCmd(n, ip, force) ==
    [NoCmd EXCEPT !.op = "add", !.node = n, !.ip = ip, !.force = force]

RemCmd(n) == [NoCmd EXCEPT !.op = "rem", !.node = n]

InitCmd(count, virt, phys) ==
    [NoCmd EXCEPT !.op = "init", !.count = count, !.virt = virt, !.phys = phys]

OpenCmd(count, virt, phys, force) ==
    [NoCmd EXCEPT !.op = "open", !.count = count, !.virt = virt,
                  !.phys = phys, !.force = force]

Deinit == Command("deinit")
Dump == Command("dump")

Formatted(count, virt, phys) == InitHeader(InitCmd(count, virt, phys))

(* A device formatted by an earlier version of the library. *)
OldVersion ==
    eob_header_chksum_calc(
        [Formatted(1, 512, 512) EXCEPT !.geo.version = 1, !.tab[0] = ip2])

(* Bytes that happen to look like a table, under no checksum. *)
Rubbish == [ZeroHeader EXCEPT !.tab[0] = ip2]

(* A node is registered on a formatted device. *)
WithNode(n, ip) ==
    AddedHeader(AddCmd(n, ip, FALSE), Formatted(MaxCluster, 512, 512))

(* Every command, each path of its code: sizes that abort, geometries that do
   not fit, a node past nodes_count, an entry in the padding. *)
AllCommands ==
    {InitCmd(0, 512, 512), InitCmd(1, 0, 512), InitCmd(1, 512, 0),
     Deinit, Dump,
     AddCmd(0, ip1, FALSE), AddCmd(1, ip2, TRUE), RemCmd(0),
     OpenCmd(0, 512, 512, FALSE), OpenCmd(2, 512, 512, TRUE)}

AllDisks == {ZeroHeader, OldVersion, Rubbish, WithNode(0, ip2)}

(* Commands that race on one formatted device: writers of different nodes, of
   the same node, a reader, and an open that rewrites what it cannot read. *)
RacingCommands ==
    {AddCmd(0, ip1, FALSE), AddCmd(1, ip2, FALSE), RemCmd(0),
     OpenCmd(1, 512, 512, FALSE)}

(* The registry as the man page uses it: nodes are added and removed. *)
TableCommands ==
    {AddCmd(0, ip1, FALSE), AddCmd(0, ip2, FALSE), AddCmd(1, ip2, FALSE),
     AddCmd(1, ip1, TRUE), RemCmd(0), RemCmd(1)}

SerialCommands ==
    TableCommands \cup {InitCmd(2, 512, 512), Deinit, Dump,
                        OpenCmd(2, 512, 512, FALSE), OpenCmd(2, 512, 512, TRUE)}

LiveCommands ==
    {AddCmd(0, ip1, FALSE), Deinit, OpenCmd(1, 512, 512, FALSE)}

AddsOnly == {AddCmd(0, ip1, FALSE), AddCmd(1, ip2, FALSE)}

FormattedDisk == {Formatted(2, 512, 512)}
TwoDisks == {ZeroHeader, WithNode(0, ip1)}
=============================================================================

------------------------------ MODULE MCIface ------------------------------
(***************************************************************************)
(* Instances of Iface for TLC: blocks of 512 and of 4096 bytes on the same *)
(* device, two nodes, texts of every class of length.                      *)
(***************************************************************************)
EXTENDS Iface, TLC

CONSTANTS ip1

Symmetry == Permutations(Procs)

SomeTexts == {"full", "tail", "stack", "big"}
TextLengths == [full |-> 479, tail |-> 480, stack |-> 511, big |-> 512]

Line(sub) == [NoIface EXCEPT !.sub = sub]

InitLine(virt, phys) ==
    [Line("init") EXCEPT !.count = 1, !.virt = virt, !.phys = phys]

AddLine(n, ip) == [Line("add") EXCEPT !.node = n, !.ip = ip]
RemoveLine(n) == [Line("remove") EXCEPT !.node = n]

SendLine(src, dst, text) ==
    [Line("send") EXCEPT !.node = src, !.dst = dst, !.text = text,
                         !.virt = 512, !.phys = 512]

RecvLine(n, file) ==
    [Line("recv") EXCEPT !.node = n, !.file = file, !.virt = 512, !.phys = 512]

LibSend(src, dst, size) ==
    [Line("lib send") EXCEPT !.node = src, !.dst = dst, !.text = "full",
                             !.virt = size, !.phys = size]

LibRecv(n, size) ==
    [Line("lib recv") EXCEPT !.node = n, !.virt = size, !.phys = size]

Formatted(virt, phys) == InitHeader(HdrCmd(InitLine(virt, phys)))

(* Arguments that end a command early, every class of text and id, and 512-byte
   blocks where one of 4096 bytes begins and ends (nodes 8 and 15, and 1). *)
AllLines ==
    {Line("help"), Line("usage"), Line("dump"), Line("dump -j"), Line("deinit"),
     [Line("dump") EXCEPT !.dev = "missing"],
     [SendLine(0, 1, "full") EXCEPT !.file = "missing"],
     [SendLine(0, 1, "full") EXCEPT !.file = "path", !.dev = "missing"],
     [SendLine(0, 1, "full") EXCEPT !.file = "path", !.dev = "-"],
     [RecvLine(1, "-") EXCEPT !.dev = "-"],
     InitLine(512, 512), InitLine(0, 0), InitLine(512, 1024),
     AddLine(0, ip1), AddLine(1, Absent), RemoveLine(0),
     SendLine(257, 256, "full"), SendLine(1, 0, "tail"), SendLine(1, 0, "stack"),
     SendLine(1, 0, "big"),
     [SendLine(0, 1, "full") EXCEPT !.force = TRUE, !.count = 257],
     RecvLine(0, "-"), RecvLine(1, "path"),
     SendLine(0, 8, "full"), SendLine(0, 15, "full"),
     LibSend(1, 0, 4096), LibSend(0, 1, 4096), LibRecv(0, 4096),
     [LibRecv(1, 4096) EXCEPT !.force = TRUE]}

Disks == {ZeroHeader, Formatted(512, 512), Formatted(0, 0)}

FileLines == {SendLine(0, 1, "full"), RecvLine(1, "-"), RecvLine(1, "path")}

GoodDisk == {Formatted(512, 512)}
=============================================================================

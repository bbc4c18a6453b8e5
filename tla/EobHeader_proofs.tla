--------------------------- MODULE EobHeader_proofs ---------------------------
(***************************************************************************)
(* Proofs about EobHeader, for any number of processes, any cluster size,  *)
(* any max_pass, any commands and any initial device.                      *)
(***************************************************************************)
EXTENDS EobHeader, EobHdr_proofs, TLAPS

-----------------------------------------------------------------------------
(* What the header operators return *)

(* Every header a command writes is a header whose checksum fits. *)
LEMMA WrittenHeaders ==
    ASSUME NEW c \in Commands, NEW h \in Header
    PROVE  /\ InitHeader(c) \in Header
           /\ eob_header_chksum_is_ok(InitHeader(c))
           /\ RewrittenHeader(c, h) \in Header
           /\ eob_header_chksum_is_ok(RewrittenHeader(c, h))
           /\ RewrittenHeader(c, h).tab = h.tab
           /\ c.op = "add" => /\ AddedHeader(c, h) \in Header
                              /\ eob_header_chksum_is_ok(AddedHeader(c, h))
           /\ c.op = "rem" => /\ RemovedHeader(c, h) \in Header
                              /\ eob_header_chksum_is_ok(RemovedHeader(c, h))
  BY HeadersWritten, HeaderInputs

-----------------------------------------------------------------------------
(* Types *)

(* What the types rest on: a running command is one of Commands, and a read
   that is about to start has a pass left. *)
ControlInv ==
    \A p \in Procs :
        /\ pc[p] = "idle" => pass[p] = 0
        /\ pc[p] # "idle" => cmd[p] \in Commands
        /\ pc[p] = "rgeo" => pass[p] < MaxPass

TypeInv == TypeOK /\ ControlInv

LEMMA NoCmdType == NoCmd \in Cmd
  BY DEF NoCmd, Cmd, Ops, Entry

(* Replacing one part of a header gives a header. *)
LEMMA HeaderParts ==
    ASSUME NEW g \in Header, NEW h \in Header
    PROVE  /\ [g EXCEPT !.geo = h.geo] \in Header
           /\ [g EXCEPT !.tab = h.tab] \in Header
           /\ [g EXCEPT !.sum = h.sum] \in Header
  BY DEF Header

(* Returning from a command keeps the types of the process's variables. *)
LEMMA ReturnType ==
    ASSUME TypeInv, NEW p \in Procs, NEW r \in Results, Return(p, r),
           UNCHANGED <<device, stable, granted, started>>,
           acked' \subseteq Int \X Entry
    PROVE  TypeInv'
<1>1. NoCmd \in Cmd /\ ZeroHeader \in Header
  BY NoCmdType, ZeroHeaderType
<1>2. TypeOK'
  BY <1>1, HeaderConstants DEF TypeInv, TypeOK, Return, PcAll, device
<1>3. ControlInv'
  BY DEF TypeInv, TypeOK, ControlInv, Return
<1> QED
  BY <1>2, <1>3 DEF TypeInv

(* Moving on inside a command, too. *)
LEMMA GotoType ==
    ASSUME TypeInv, NEW p \in Procs, NEW label \in PcAll, NEW h \in Header,
           Goto(p, label, h), UNCHANGED <<device, history>>,
           pc[p] # "idle", label # "idle",
           label = "rgeo" => pass[p] < MaxPass
    PROVE  TypeInv'
<1>1. TypeOK'
  BY DEF TypeInv, TypeOK, Goto, device, history
<1>2. ControlInv'
  BY DEF TypeInv, TypeOK, ControlInv, Goto
<1> QED
  BY <1>1, <1>2 DEF TypeInv

(* Beginning a command, too. *)
LEMMA BeginType ==
    ASSUME TypeInv, NEW p \in Procs, NEW c \in Commands,
           NEW label \in PcAll \ {"idle"}, NEW h \in Header,
           Begin(p, c, label, h)
    PROVE  TypeInv'
<1>1. c \in Cmd /\ (c.op = "add" => <<c.node, c.ip>> \in Int \X Entry)
  BY HeaderInputs DEF Cmd
<1>2. TypeOK'
  BY <1>1, HeaderConstants DEF TypeInv, TypeOK, Begin, device
<1>3. ControlInv'
  BY HeaderConstants DEF TypeInv, TypeOK, ControlInv, Begin
<1> QED
  BY <1>2, <1>3 DEF TypeInv

(* A step of a header write, too. *)
LEMMA DisturbType ==
    ASSUME TypeInv, NEW p \in Procs, NEW label \in PcWriting, NEW d \in Header,
           Disturb(p, label, d), pc[p] # "idle",
           writer' \in Procs \cup {NoProc}
    PROVE  TypeInv'
<1>1. TypeOK'
  BY DEF TypeInv, TypeOK, Disturb, PcAll, PcWriting
<1>2. ControlInv'
  BY DEF TypeInv, TypeOK, ControlInv, Disturb, PcWriting
<1> QED
  BY <1>1, <1>2 DEF TypeInv

(* The adds in effect after a write are pairs of a node and an entry. *)
LEMMA AckedType ==
    ASSUME TypeInv, NEW p \in Procs, NEW r \in Results
    PROVE  /\ AckedAfter(p, r) \subseteq Int \X Entry
           /\ \A n : Forget(n) \subseteq Int \X Entry
<1>1. cmd[p].node \in Int /\ cmd[p].ip \in Entry
  BY DEF TypeInv, TypeOK, Cmd
<1>2. \A n : Forget(n) \subseteq Int \X Entry
  BY DEF TypeInv, TypeOK, Forget
<1>3. acked \subseteq Int \X Entry
  BY DEF TypeInv, TypeOK
<1>4. <<cmd[p].node, cmd[p].ip>> \in Int \X Entry
  BY <1>1
<1>5. AckedAfter(p, r) \in {{}, Forget(cmd[p].node), acked,
                            Forget(cmd[p].node) \cup {<<cmd[p].node, cmd[p].ip>>}}
  BY DEF AckedAfter
<1> QED
  BY <1>2, <1>3, <1>4, <1>5

(* Every step keeps the types. *)
LEMMA TypeStep == TypeInv /\ [Next]_vars => TypeInv'
<1> SUFFICES ASSUME TypeInv, [Next]_vars
             PROVE  TypeInv'
  OBVIOUS
<1>0. CASE UNCHANGED vars
  BY <1>0 DEF TypeInv, TypeOK, ControlInv, vars
<1>h. \A p \in Procs : buf[p] \in Header /\ cmd[p] \in Cmd /\ pass[p] \in 0 .. MaxPass
  BY DEF TypeInv, TypeOK
<1>d. disk \in Header
  BY DEF TypeInv, TypeOK
<1>a. acked \subseteq Int \X Entry
  BY DEF TypeInv, TypeOK
<1>z. ZeroHeader \in Header
  BY ZeroHeaderType
<1>1. ASSUME NEW p \in Procs, BeginCommand(p)
      PROVE  TypeInv'
  <2>1. CASE eob_hdr_init(p)
    <3>1. PICK c \in Commands : Begin(p, c, "wgeo", InitHeader(c))
      BY <2>1 DEF eob_hdr_init
    <3>2. InitHeader(c) \in Header
      BY <1>z, WrittenHeaders
    <3> QED
      BY <3>1, <3>2, BeginType DEF PcAll
  <2>2. CASE eob_hdr_init_abort(p)
    BY <2>2, HeaderConstants
       DEF eob_hdr_init_abort, TypeInv, TypeOK, ControlInv, Results, device
  <2>3. CASE eob_hdr_deinit(p)
    <3>1. PICK c \in Commands : Begin(p, c, "wgeo", ZeroHeader)
      BY <2>3 DEF eob_hdr_deinit
    <3> QED
      BY <3>1, <1>z, BeginType DEF PcAll
  <2>4. CASE BeginRead(p)
    <3>1. PICK c \in Commands : Begin(p, c, "rgeo", ZeroHeader)
      BY <2>4 DEF BeginRead
    <3> QED
      BY <3>1, <1>z, BeginType DEF PcAll, PcReading
  <2> QED
    BY <1>1, <2>1, <2>2, <2>3, <2>4 DEF BeginCommand
<1>2. ASSUME NEW p \in Procs, Work(p)
      PROVE  TypeInv'
  <2>h. buf[p] \in Header /\ cmd[p] \in Cmd /\ pass[p] \in 0 .. MaxPass
    BY <1>h
  <2>c. pc[p] # "idle" => cmd[p] \in Commands
    BY DEF TypeInv, ControlInv
  <2>l. PcAll = {"idle", "accepted", "rewrite", "wgeo", "rgeo", "rtab", "rsum",
                 "check", "wtab", "wsum"}
    BY DEF PcAll, PcReading, PcWriting
  <2>r. Results = {"OK", "IO", "CHKSUM", "VER_MISM", "INVAL", "abort"}
    BY DEF Results
  <2>1. CASE ReadGeo(p)
    <3>1. [buf[p] EXCEPT !.geo = disk.geo] \in Header
      BY <2>h, <1>d, HeaderParts
    <3>2. Current(disk) \in BOOLEAN
      BY <1>d DEF Current, eob_header_chksum_is_ok, Header, Geo
    <3>3. buf' \in [Procs -> Header]
      BY <2>1, <3>1 DEF ReadGeo, TypeInv, TypeOK
    <3>4. pass' \in [Procs -> 0 .. MaxPass]
      BY <2>1, HeaderConstants DEF ReadGeo, TypeInv, TypeOK, ControlInv
    <3>5. calm' \in [Procs -> BOOLEAN]
      BY <2>1, <3>2 DEF ReadGeo, TypeInv, TypeOK
    <3>6. pc' \in [Procs -> PcAll]
      BY <2>1, <2>l DEF ReadGeo, TypeInv, TypeOK
    <3>7. ControlInv'
      BY <2>1 DEF ReadGeo, TypeInv, TypeOK, ControlInv
    <3> QED
      BY <2>1, <3>3, <3>4, <3>5, <3>6, <3>7 DEF ReadGeo, TypeInv, TypeOK, device
  <2>2. CASE ReadTab(p)
    <3>1. [buf[p] EXCEPT !.tab = disk.tab] \in Header
      BY <2>h, <1>d, HeaderParts
    <3> QED
      BY <2>2, <3>1, <2>l, GotoType DEF ReadTab
  <2>3. CASE ReadSum(p)
    <3>1. [buf[p] EXCEPT !.sum = disk.sum] \in Header
      BY <2>h, <1>d, HeaderParts
    <3> QED
      BY <2>3, <3>1, <2>l, GotoType DEF ReadSum
  <2>4. CASE ReadFail(p)
    BY <2>4, <2>r, <1>a, ReturnType DEF ReadFail
  <2>5. CASE ReadAccept(p)
    BY <2>5, <2>h, <2>l, GotoType DEF ReadAccept
  <2>6. CASE ReadAgain(p)
    BY <2>6, <2>h, <2>l, GotoType DEF ReadAgain
  <2>7. CASE ReadGivesUp(p)
    <3>1. ReadError(p) \in Results
      BY <2>r DEF ReadError
    <3>2. CASE Goto(p, "rewrite", buf[p]) /\ UNCHANGED history
      BY <2>7, <3>2, <2>h, <2>l, GotoType DEF ReadGivesUp
    <3>3. CASE Return(p, ReadError(p)) /\ UNCHANGED <<stable, granted, acked, started>>
      BY <2>7, <3>1, <3>3, <1>a, ReturnType DEF ReadGivesUp
    <3> QED
      BY <2>7, <3>2, <3>3 DEF ReadGivesUp
  <2>8. CASE eob_hdr_dump(p)
    BY <2>8, <2>r, <1>a, ReturnType DEF eob_hdr_dump
  <2>9. ASSUME NEW h \in Header, pc[p] = "accepted", WriteOrAbort(p, h),
               UNCHANGED device
        PROVE  TypeInv'
    <3>1. CASE Goto(p, "wgeo", h) /\ UNCHANGED history
      BY <2>9, <3>1, <2>l, GotoType
    <3>2. CASE Return(p, "abort") /\ UNCHANGED <<stable, granted, acked, started>>
      BY <2>9, <3>2, <2>r, <1>a, ReturnType
    <3> QED
      BY <2>9, <3>1, <3>2 DEF WriteOrAbort
  <2>10. CASE eob_hdr_add_device(p)
    <3>1. AddedHeader(cmd[p], buf[p]) \in Header
      BY <2>10, <2>c, <2>h, WrittenHeaders DEF eob_hdr_add_device
    <3> QED
      BY <2>10, <3>1, <2>9 DEF eob_hdr_add_device
  <2>11. CASE eob_hdr_add_device_refused(p)
    BY <2>11, <2>r, <1>a, ReturnType DEF eob_hdr_add_device_refused
  <2>12. CASE eob_hdr_rem_device(p)
    <3>1. RemovedHeader(cmd[p], buf[p]) \in Header
      BY <2>12, <2>c, <2>h, WrittenHeaders DEF eob_hdr_rem_device
    <3> QED
      BY <2>12, <3>1, <2>9 DEF eob_hdr_rem_device
  <2>13. CASE eob_hdr_rem_device_absent(p)
    BY <2>13, <2>r, AckedType, ReturnType DEF eob_hdr_rem_device_absent
  <2>14. CASE eob_device_init_hdr(p)
    BY <2>14, <2>r, <1>a, ReturnType DEF eob_device_init_hdr
  <2>15. CASE eob_device_init_hdr_rewrite(p)
    <3>1. RewrittenHeader(cmd[p], buf[p]) \in Header
      BY <2>15, <2>c, <2>h, WrittenHeaders DEF eob_device_init_hdr_rewrite
    <3> QED
      BY <2>15, <3>1, <2>l, GotoType DEF eob_device_init_hdr_rewrite
  <2>16. CASE WriteGeo(p)
    <3>1. [disk EXCEPT !.geo = buf[p].geo] \in Header
      BY <2>h, <1>d, HeaderParts
    <3> QED
      BY <2>16, <3>1, DisturbType DEF WriteGeo, PcWriting
  <2>17. CASE WriteTab(p)
    <3>1. [disk EXCEPT !.tab = buf[p].tab] \in Header
      BY <2>h, <1>d, HeaderParts
    <3>2. writer' \in Procs \cup {NoProc}
      BY <2>17 DEF WriteTab, TypeInv, TypeOK
    <3> QED
      BY <2>17, <3>1, <3>2, DisturbType DEF WriteTab, PcWriting
  <2>18. CASE WriteSum(p)
    <3>1. [disk EXCEPT !.sum = buf[p].sum] \in Header
      BY <2>h, <1>d, HeaderParts
    <3>2. PICK r \in {"OK", "IO"} :
             /\ pc' = [pc EXCEPT ![p] = "idle"]
             /\ cmd' = [cmd EXCEPT ![p] = NoCmd]
             /\ pass' = [pass EXCEPT ![p] = 0]
             /\ buf' = [buf EXCEPT ![p] = ZeroHeader]
             /\ res' = [res EXCEPT ![p] = r]
             /\ acked' = AckedAfter(p, r)
      BY <2>18 DEF WriteSum
    <3>3. acked' \subseteq Int \X Entry
      BY <3>2, <2>r, AckedType
    <3>4. NoCmd \in Cmd
      BY NoCmdType
    <3>5. window' \in [Procs -> SUBSET Header]
      BY <2>18, <2>h DEF WriteSum, TypeInv, TypeOK
    <3>6. TypeOK'
      BY <2>18, <3>1, <3>2, <3>3, <3>4, <3>5, <2>h, <2>l, <2>r, <1>z, HeaderConstants
         DEF WriteSum, TypeInv, TypeOK
    <3>7. ControlInv'
      BY <3>2 DEF TypeInv, TypeOK, ControlInv
    <3> QED
      BY <3>6, <3>7 DEF TypeInv
  <2>19. CASE WriteFail(p)
    BY <2>19, <2>r, <1>a, ReturnType DEF WriteFail
  <2> QED
    BY <1>2, <2>1, <2>2, <2>3, <2>4, <2>5, <2>6, <2>7, <2>8, <2>10, <2>11, <2>12,
       <2>13, <2>14, <2>15, <2>16, <2>17, <2>18, <2>19 DEF Work
<1> QED
  BY <1>0, <1>1, <1>2 DEF Next

(* The initial states have the types. *)
LEMMA TypeInit == Init => TypeInv
<1> SUFFICES ASSUME Init
             PROVE  TypeInv
  OBVIOUS
<1>1. NoCmd \in Cmd /\ ZeroHeader \in Header /\ disk \in Header
  BY NoCmdType, ZeroHeaderType, HeaderDisks DEF Init
<1>2. TypeOK
  BY <1>1, HeaderConstants DEF Init, TypeOK, PcAll, Results
<1>3. ControlInv
  BY DEF Init, ControlInv
<1> QED
  BY <1>2, <1>3 DEF TypeInv

(* Every reachable state is well typed: in particular no read starts a pass
   beyond max_pass, and every header in memory and on the device is one. *)
THEOREM TypeCorrect == Spec => []TypeOK
<1>1. Spec => []TypeInv
  BY TypeInit, TypeStep, PTL DEF Spec
<1>2. TypeInv => TypeOK
  BY DEF TypeInv
<1> QED
  BY <1>1, <1>2, PTL

-----------------------------------------------------------------------------
(* The header protocol: what holds between the device, its last complete
   header and the processes at work on it *)

(* A process is inside a header write exactly if it holds the page. *)
LockInv == \A p \in Procs : pc[p] \in PcWriting <=> writer = p

(* The device differs from the last complete header only by what the process
   inside a write has written so far; the checksum comes last. *)
DiskInv ==
    /\ writer = NoProc => disk = stable
    /\ \A p \in Procs :
          /\ pc[p] = "wtab" => disk = [stable EXCEPT !.geo = buf[p].geo]
          /\ pc[p] = "wsum" => disk = [buf[p] EXCEPT !.sum = stable.sum]

Intact(h) == h.sum = NoSum \/ eob_header_chksum_is_ok(h)

(* Complete headers, and those about to be written, are intact. *)
IntactInv ==
    /\ Intact(stable)
    /\ \A p \in Procs : pc[p] \in PcWriting \cup {"wgeo"} => Intact(buf[p])

(* The last complete header is among those seen by a running command. *)
WindowInv ==
    \A p \in Procs :
        /\ pc[p] = "idle" => window[p] = {}
        /\ pc[p] # "idle" => stable \in window[p]

(* The preamble of h was the device's, checksum and all, since p began. *)
WasThere(p, h) ==
    \E g \in window[p] : eob_header_chksum_is_ok(g) /\ Preamble(g) = Preamble(h)

SnapshotInv ==
    \A p \in Procs :
        /\ pc[p] = "check" /\ Current(buf[p]) => WasThere(p, buf[p])
        /\ pc[p] = "accepted" => Accepts(buf[p]) /\ WasThere(p, buf[p])

(* During a calm pass, what was read so far is what is on the device. *)
CalmAt(label, h) ==
    /\ label = "rtab" => Current(disk) /\ h.geo = disk.geo
    /\ label = "rsum" => Current(disk) /\ h.geo = disk.geo /\ h.tab = disk.tab
    /\ label = "check" => Current(disk) /\ h = disk

CalmInv == \A p \in Procs : calm[p] => CalmAt(pc[p], buf[p])

ProtocolInv ==
    LockInv /\ DiskInv /\ IntactInv /\ WindowInv /\ SnapshotInv /\ CalmInv

(* Headers with the same preamble have the same fixed fields. *)
LEMMA PreambleParts ==
    ASSUME NEW g \in Header, NEW h \in Header, Preamble(g) = Preamble(h)
    PROVE  g.geo = h.geo
  BY DEF Preamble

(* Returning from a command without having written keeps the protocol. *)
LEMMA ReturnProtocol ==
    ASSUME TypeInv, ProtocolInv, NEW p \in Procs, NEW r,
           Return(p, r), pc[p] \notin PcWriting, UNCHANGED <<device, stable>>
    PROVE  ProtocolInv'
<1>1. LockInv'
  BY DEF ProtocolInv, LockInv, Return, device, TypeInv, TypeOK, PcWriting
<1>2. DiskInv'
  BY DEF ProtocolInv, DiskInv, Return, device, TypeInv, TypeOK
<1>3. IntactInv'
  BY DEF ProtocolInv, IntactInv, Return, TypeInv, TypeOK, PcWriting
<1>4. WindowInv'
  BY DEF ProtocolInv, WindowInv, Return, TypeInv, TypeOK
<1>5. SnapshotInv'
  BY DEF ProtocolInv, SnapshotInv, WasThere, Return, TypeInv, TypeOK
<1>6. CalmInv'
  BY DEF ProtocolInv, CalmInv, CalmAt, Return, device, TypeInv, TypeOK
<1> QED
  BY <1>1, <1>2, <1>3, <1>4, <1>5, <1>6 DEF ProtocolInv

(* So does moving on outside a write, if the new place may be taken. *)
LEMMA GotoProtocol ==
    ASSUME TypeInv, ProtocolInv, NEW p \in Procs, NEW label, NEW h,
           Goto(p, label, h), UNCHANGED <<device, history>>,
           pc[p] \notin PcWriting \cup {"idle"},
           label \notin PcWriting \cup {"idle"},
           label = "wgeo" => Intact(h),
           label = "check" /\ Current(h) => WasThere(p, h),
           label = "accepted" => Accepts(h) /\ WasThere(p, h),
           calm[p] => CalmAt(label, h)
    PROVE  ProtocolInv'
<1>1. LockInv'
  BY DEF ProtocolInv, LockInv, Goto, device, TypeInv, TypeOK, PcWriting
<1>2. DiskInv'
  BY DEF ProtocolInv, DiskInv, Goto, device, history, TypeInv, TypeOK, PcWriting
<1>3. IntactInv'
  BY DEF ProtocolInv, IntactInv, Goto, history, TypeInv, TypeOK, PcWriting
<1>4. WindowInv'
  BY DEF ProtocolInv, WindowInv, Goto, history, TypeInv, TypeOK
<1>5. SnapshotInv'
  BY DEF ProtocolInv, SnapshotInv, WasThere, Goto, history, TypeInv, TypeOK
<1>6. CalmInv'
  BY DEF ProtocolInv, CalmInv, CalmAt, Goto, device, history, TypeInv, TypeOK
<1> QED
  BY <1>1, <1>2, <1>3, <1>4, <1>5, <1>6 DEF ProtocolInv

(* So does beginning a command. *)
LEMMA BeginProtocol ==
    ASSUME TypeInv, ProtocolInv, NEW p \in Procs, NEW c, NEW h,
           NEW label \in {"rgeo", "wgeo"}, Begin(p, c, label, h),
           label = "wgeo" => Intact(h)
    PROVE  ProtocolInv'
<1>1. LockInv'
  BY DEF ProtocolInv, LockInv, Begin, device, TypeInv, TypeOK, PcWriting
<1>2. DiskInv'
  BY DEF ProtocolInv, DiskInv, Begin, device, TypeInv, TypeOK
<1>3. IntactInv'
  BY DEF ProtocolInv, IntactInv, Begin, TypeInv, TypeOK, PcWriting
<1>4. WindowInv'
  BY DEF ProtocolInv, WindowInv, Begin, TypeInv, TypeOK
<1>5. SnapshotInv'
  BY DEF ProtocolInv, SnapshotInv, WasThere, Begin, TypeInv, TypeOK
<1>6. CalmInv'
  BY DEF ProtocolInv, CalmInv, CalmAt, Begin, device, TypeInv, TypeOK
<1> QED
  BY <1>1, <1>2, <1>3, <1>4, <1>5, <1>6 DEF ProtocolInv

(* The three steps of a header write keep the protocol. *)
LEMMA WriteProtocol ==
    ASSUME TypeInv, ProtocolInv, NEW p \in Procs,
           WriteGeo(p) \/ WriteTab(p) \/ WriteSum(p)
    PROVE  ProtocolInv'
<1>h. /\ disk \in Header /\ stable \in Header
      /\ \A q \in Procs : buf[q] \in Header
  BY DEF TypeInv, TypeOK
<1>p. NoProc \notin Procs
  BY HeaderConstants
<1>1. CASE WriteGeo(p)
  <2>1. LockInv'
    BY <1>1, <1>p DEF ProtocolInv, LockInv, WriteGeo, Disturb, TypeInv, TypeOK, PcWriting
  <2>2. DiskInv'
    <3>1. \A q \in Procs : q # p => pc[q] \notin PcWriting
      BY <1>1, <1>p DEF ProtocolInv, LockInv, WriteGeo
    <3>2. disk' = [stable EXCEPT !.geo = buf[p].geo]
      BY <1>1 DEF ProtocolInv, DiskInv, WriteGeo, Disturb
    <3> QED
      BY <1>1, <1>p, <3>1, <3>2 DEF DiskInv, WriteGeo, Disturb, TypeInv, TypeOK, PcWriting
  <2>3. IntactInv'
    BY <1>1 DEF ProtocolInv, IntactInv, WriteGeo, Disturb, TypeInv, TypeOK, PcWriting
  <2>4. WindowInv'
    BY <1>1 DEF ProtocolInv, WindowInv, WriteGeo, Disturb, TypeInv, TypeOK
  <2>5. SnapshotInv'
    BY <1>1 DEF ProtocolInv, SnapshotInv, WasThere, WriteGeo, Disturb, TypeInv, TypeOK
  <2>6. CalmInv'
    BY <1>1 DEF CalmInv, WriteGeo, Disturb
  <2> QED
    BY <2>1, <2>2, <2>3, <2>4, <2>5, <2>6 DEF ProtocolInv
<1>2. CASE WriteTab(p)
  <2>w. writer = p /\ \A q \in Procs : q # p => pc[q] \notin PcWriting
    BY <1>2 DEF ProtocolInv, LockInv, WriteTab, PcWriting
  <2>1. LockInv'
    BY <1>2, <2>w DEF ProtocolInv, LockInv, WriteTab, Disturb, TypeInv, TypeOK, PcWriting
  <2>2. DiskInv'
    <3>1. disk = [stable EXCEPT !.geo = buf[p].geo]
      BY <1>2 DEF ProtocolInv, DiskInv, WriteTab
    <3>2. disk' = [disk EXCEPT !.tab = buf[p].tab]
      BY <1>2 DEF WriteTab, Disturb
    <3>3. disk' = [buf[p] EXCEPT !.sum = stable.sum]
      BY <1>h, <3>1, <3>2 DEF Header
    <3> QED
      BY <1>2, <1>p, <2>w, <3>3 DEF DiskInv, WriteTab, Disturb, TypeInv, TypeOK, PcWriting
  <2>3. IntactInv'
    BY <1>2 DEF ProtocolInv, IntactInv, WriteTab, Disturb, TypeInv, TypeOK, PcWriting
  <2>4. WindowInv'
    BY <1>2 DEF ProtocolInv, WindowInv, WriteTab, Disturb, TypeInv, TypeOK
  <2>5. SnapshotInv'
    BY <1>2 DEF ProtocolInv, SnapshotInv, WasThere, WriteTab, Disturb, TypeInv, TypeOK
  <2>6. CalmInv'
    BY <1>2 DEF CalmInv, WriteTab, Disturb
  <2> QED
    BY <2>1, <2>2, <2>3, <2>4, <2>5, <2>6 DEF ProtocolInv
<1>3. CASE WriteSum(p)
  <2>w. writer = p /\ \A q \in Procs : q # p => pc[q] \notin PcWriting
    BY <1>3 DEF ProtocolInv, LockInv, WriteSum, PcWriting
  <2>a. /\ pc' = [pc EXCEPT ![p] = "idle"]
        /\ buf' = [buf EXCEPT ![p] = ZeroHeader]
        /\ writer' = NoProc
        /\ stable' = buf[p]
        /\ disk' = [disk EXCEPT !.sum = buf[p].sum]
        /\ calm' = [q \in Procs |-> FALSE]
        /\ window' = [q \in Procs |-> IF pc[q] = "idle" \/ q = p THEN {}
                                      ELSE window[q] \cup {buf[p]}]
    BY <1>3 DEF WriteSum
  <2>1. LockInv'
    BY <2>a, <2>w, <1>p DEF LockInv, TypeInv, TypeOK, PcWriting
  <2>2. DiskInv'
    <3>1. disk = [buf[p] EXCEPT !.sum = stable.sum]
      BY <1>3 DEF ProtocolInv, DiskInv, WriteSum
    <3>2. disk' = buf[p]
      BY <1>h, <2>a, <3>1 DEF Header
    <3> QED
      BY <2>a, <2>w, <3>2 DEF DiskInv, TypeInv, TypeOK, PcWriting
  <2>3. IntactInv'
    <3>1. Intact(buf[p])
      BY <1>3 DEF ProtocolInv, IntactInv, WriteSum, PcWriting
    <3> QED
      BY <2>a, <3>1 DEF ProtocolInv, IntactInv, TypeInv, TypeOK, PcWriting
  <2>4. WindowInv'
    BY <2>a DEF ProtocolInv, WindowInv, TypeInv, TypeOK
  <2>5. SnapshotInv'
    BY <2>a DEF ProtocolInv, SnapshotInv, WasThere, TypeInv, TypeOK
  <2>6. CalmInv'
    BY <2>a DEF CalmInv
  <2> QED
    BY <2>1, <2>2, <2>3, <2>4, <2>5, <2>6 DEF ProtocolInv
<1> QED
  BY <1>1, <1>2, <1>3

(* Every step keeps the protocol. *)
LEMMA ProtocolStep == TypeInv /\ ProtocolInv /\ [Next]_vars => ProtocolInv'
<1> SUFFICES ASSUME TypeInv, ProtocolInv, [Next]_vars
             PROVE  ProtocolInv'
  OBVIOUS
<1>0. CASE UNCHANGED vars
  BY <1>0 DEF ProtocolInv, LockInv, DiskInv, IntactInv, WindowInv, SnapshotInv,
              WasThere, CalmInv, CalmAt, vars
<1>h. /\ disk \in Header /\ stable \in Header
      /\ \A q \in Procs : buf[q] \in Header
  BY DEF TypeInv, TypeOK
<1>z. ZeroHeader \in Header /\ Intact(ZeroHeader)
  BY ZeroHeaderType DEF Intact
<1>1. ASSUME NEW p \in Procs, BeginCommand(p)
      PROVE  ProtocolInv'
  <2>1. CASE eob_hdr_init(p)
    <3>1. PICK c \in Commands : Begin(p, c, "wgeo", InitHeader(c))
      BY <2>1 DEF eob_hdr_init
    <3>2. Intact(InitHeader(c))
      BY <1>z, WrittenHeaders DEF Intact
    <3> QED
      BY <3>1, <3>2, BeginProtocol
  <2>2. CASE eob_hdr_init_abort(p)
    BY <2>2 DEF eob_hdr_init_abort, device, ProtocolInv, LockInv, DiskInv, IntactInv,
                WindowInv, SnapshotInv, WasThere, CalmInv, CalmAt
  <2>3. CASE eob_hdr_deinit(p)
    <3>1. PICK c \in Commands : Begin(p, c, "wgeo", ZeroHeader)
      BY <2>3 DEF eob_hdr_deinit
    <3> QED
      BY <3>1, <1>z, BeginProtocol
  <2>4. CASE BeginRead(p)
    <3>1. PICK c \in Commands : Begin(p, c, "rgeo", ZeroHeader)
      BY <2>4 DEF BeginRead
    <3> QED
      BY <3>1, BeginProtocol
  <2> QED
    BY <1>1, <2>1, <2>2, <2>3, <2>4 DEF BeginCommand
<1>2. ASSUME NEW p \in Procs, Work(p)
      PROVE  ProtocolInv'
  <2>h. buf[p] \in Header
    BY <1>h
  <2>c. pc[p] # "idle" => cmd[p] \in Commands
    BY DEF TypeInv, ControlInv
  <2>k. calm[p] => CalmAt(pc[p], buf[p])
    BY DEF ProtocolInv, CalmInv
  <2>1. CASE ReadGeo(p)
    <3>1. LockInv'
      BY <2>1 DEF ProtocolInv, LockInv, ReadGeo, device, TypeInv, TypeOK, PcWriting
    <3>2. DiskInv'
      BY <2>1 DEF ProtocolInv, DiskInv, ReadGeo, device, TypeInv, TypeOK
    <3>3. IntactInv'
      BY <2>1 DEF ProtocolInv, IntactInv, ReadGeo, TypeInv, TypeOK, PcWriting
    <3>4. WindowInv'
      BY <2>1 DEF ProtocolInv, WindowInv, ReadGeo, TypeInv, TypeOK
    <3>5. SnapshotInv'
      BY <2>1 DEF ProtocolInv, SnapshotInv, WasThere, ReadGeo, TypeInv, TypeOK
    <3>6. CalmInv'
      <4>1. buf'[p].geo = disk.geo
        BY <2>1, <2>h DEF ReadGeo, TypeInv, TypeOK, Header
      <4>2. disk' = disk
        BY <2>1 DEF ReadGeo, device
      <4> QED
        BY <2>1, <4>1, <4>2 DEF ProtocolInv, CalmInv, CalmAt, ReadGeo, TypeInv, TypeOK
    <3> QED
      BY <3>1, <3>2, <3>3, <3>4, <3>5, <3>6 DEF ProtocolInv
  <2>2. CASE ReadTab(p)
    <3> DEFINE h == [buf[p] EXCEPT !.tab = disk.tab]
    <3>1. h.geo = buf[p].geo /\ h.tab = disk.tab
      BY <2>h DEF Header
    <3>2. calm[p] => CalmAt("rsum", h)
      BY <2>2, <2>k, <3>1 DEF ReadTab, CalmAt
    <3>3. /\ Goto(p, "rsum", h)
          /\ UNCHANGED <<device, history>>
          /\ pc[p] = "rtab"
      BY <2>2 DEF ReadTab
    <3> HIDE DEF h
    <3> QED
      BY <3>2, <3>3, GotoProtocol DEF PcWriting
  <2>3. CASE ReadSum(p)
    <3> DEFINE h == [buf[p] EXCEPT !.sum = disk.sum]
    <3>1. h.geo = buf[p].geo /\ h.tab = buf[p].tab /\ h.sum = disk.sum /\ h \in Header
      BY <2>h, <1>h DEF Header
    <3>2. calm[p] => CalmAt("check", h)
      BY <2>3, <2>k, <1>h, <3>1 DEF ReadSum, CalmAt, Header
    <3>3. disk.sum = stable.sum
      <4>1. writer = NoProc \/ \E w \in Procs : pc[w] \in PcWriting
        BY DEF ProtocolInv, LockInv, TypeInv, TypeOK
      <4> QED
        BY <4>1, <1>h DEF ProtocolInv, DiskInv, PcWriting, Header
    <3>4. stable \in window[p]
      BY <2>3 DEF ReadSum, ProtocolInv, WindowInv
    <3>5. Current(h) => WasThere(p, h)
      <4> SUFFICES ASSUME Current(h)
                   PROVE  WasThere(p, h)
        OBVIOUS
      <4>1. h.sum = Preamble(h)
        BY DEF Current, eob_header_chksum_is_ok
      <4>2. Preamble(h) # NoSum
        BY <3>1, PreambleType, HdrConstants
      <4>3. stable.sum # NoSum
        BY <3>1, <3>3, <4>1, <4>2
      <4>4. eob_header_chksum_is_ok(stable)
        BY <4>3 DEF ProtocolInv, IntactInv, Intact
      <4>5. Preamble(stable) = Preamble(h)
        BY <3>1, <3>3, <4>1, <4>4 DEF eob_header_chksum_is_ok
      <4> QED
        BY <3>4, <4>4, <4>5 DEF WasThere
    <3>6. /\ Goto(p, "check", h)
          /\ UNCHANGED <<device, history>>
          /\ pc[p] = "rsum"
      BY <2>3 DEF ReadSum
    <3> HIDE DEF h
    <3> QED
      BY <3>2, <3>5, <3>6, GotoProtocol DEF PcWriting
  <2>4. CASE ReadFail(p)
    BY <2>4, ReturnProtocol DEF ReadFail, PcWriting
  <2>5. CASE ReadAccept(p)
    <3>1. Accepts(buf[p]) /\ WasThere(p, buf[p])
      BY <2>5 DEF ReadAccept, ProtocolInv, SnapshotInv, Accepts
    <3>2. CalmAt("accepted", buf[p])
      BY DEF CalmAt
    <3> QED
      BY <2>5, <3>1, <3>2, GotoProtocol DEF ReadAccept, PcWriting
  <2>6. CASE ReadAgain(p)
    <3>1. CalmAt("rgeo", buf[p])
      BY DEF CalmAt
    <3> QED
      BY <2>6, <3>1, GotoProtocol DEF ReadAgain, PcWriting
  <2>7. CASE ReadGivesUp(p)
    <3>1. CalmAt("rewrite", buf[p])
      BY DEF CalmAt
    <3>2. CASE Goto(p, "rewrite", buf[p]) /\ UNCHANGED history
      BY <2>7, <3>1, <3>2, GotoProtocol DEF ReadGivesUp, PcWriting
    <3>3. CASE Return(p, ReadError(p)) /\ UNCHANGED <<stable, granted, acked, started>>
      BY <2>7, <3>3, ReturnProtocol DEF ReadGivesUp, PcWriting
    <3> QED
      BY <2>7, <3>2, <3>3 DEF ReadGivesUp
  <2>8. CASE eob_hdr_dump(p)
    BY <2>8, ReturnProtocol DEF eob_hdr_dump, PcWriting
  <2>9. ASSUME NEW h \in Header, pc[p] = "accepted", WriteOrAbort(p, h), Intact(h),
               UNCHANGED device
        PROVE  ProtocolInv'
    <3>1. CalmAt("wgeo", h)
      BY DEF CalmAt
    <3>2. CASE Goto(p, "wgeo", h) /\ UNCHANGED history
      BY <2>9, <3>1, <3>2, GotoProtocol DEF PcWriting
    <3>3. CASE Return(p, "abort") /\ UNCHANGED <<stable, granted, acked, started>>
      BY <2>9, <3>3, ReturnProtocol DEF PcWriting
    <3> QED
      BY <2>9, <3>2, <3>3 DEF WriteOrAbort
  <2>10. CASE eob_hdr_add_device(p)
    <3>1. AddedHeader(cmd[p], buf[p]) \in Header /\ Intact(AddedHeader(cmd[p], buf[p]))
      BY <2>10, <2>c, <2>h, WrittenHeaders DEF eob_hdr_add_device, Intact
    <3> QED
      BY <2>10, <3>1, <2>9 DEF eob_hdr_add_device
  <2>11. CASE eob_hdr_add_device_refused(p)
    BY <2>11, ReturnProtocol DEF eob_hdr_add_device_refused, PcWriting
  <2>12. CASE eob_hdr_rem_device(p)
    <3>1. RemovedHeader(cmd[p], buf[p]) \in Header /\ Intact(RemovedHeader(cmd[p], buf[p]))
      BY <2>12, <2>c, <2>h, WrittenHeaders DEF eob_hdr_rem_device, Intact
    <3> QED
      BY <2>12, <3>1, <2>9 DEF eob_hdr_rem_device
  <2>13. CASE eob_hdr_rem_device_absent(p)
    BY <2>13, ReturnProtocol DEF eob_hdr_rem_device_absent, PcWriting
  <2>14. CASE eob_device_init_hdr(p)
    BY <2>14, ReturnProtocol DEF eob_device_init_hdr, PcWriting
  <2>15. CASE eob_device_init_hdr_rewrite(p)
    <3> DEFINE h == RewrittenHeader(cmd[p], buf[p])
    <3>1. Intact(h)
      BY <2>15, <2>c, <2>h, WrittenHeaders DEF eob_device_init_hdr_rewrite, Intact
    <3>2. CalmAt("wgeo", h)
      BY DEF CalmAt
    <3>3. /\ Goto(p, "wgeo", h)
          /\ UNCHANGED <<device, history>>
          /\ pc[p] \in {"rewrite", "accepted"}
      BY <2>15 DEF eob_device_init_hdr_rewrite
    <3> HIDE DEF h
    <3> QED
      BY <3>1, <3>2, <3>3, GotoProtocol DEF PcWriting
  <2>16. CASE WriteGeo(p) \/ WriteTab(p) \/ WriteSum(p)
    BY <2>16, WriteProtocol
  <2>17. CASE WriteFail(p)
    BY <2>17, ReturnProtocol DEF WriteFail, PcWriting
  <2> QED
    BY <1>2, <2>1, <2>2, <2>3, <2>4, <2>5, <2>6, <2>7, <2>8, <2>10, <2>11, <2>12,
       <2>13, <2>14, <2>15, <2>16, <2>17 DEF Work
<1> QED
  BY <1>0, <1>1, <1>2 DEF Next

(* The initial states satisfy it. *)
LEMMA ProtocolInit == Init => ProtocolInv
<1> SUFFICES ASSUME Init
             PROVE  ProtocolInv
  OBVIOUS
<1>1. LockInv /\ DiskInv
  BY HeaderConstants DEF Init, LockInv, DiskInv, PcWriting
<1>2. IntactInv
  BY HeaderDisks DEF Init, IntactInv, Intact, PcWriting
<1>3. WindowInv /\ SnapshotInv /\ CalmInv
  BY DEF Init, WindowInv, SnapshotInv, CalmInv
<1> QED
  BY <1>1, <1>2, <1>3 DEF ProtocolInv

(* The protocol holds in every reachable state. *)
LEMMA Protocol == Spec => [](TypeInv /\ ProtocolInv)
<1>1. Init => TypeInv /\ ProtocolInv
  BY TypeInit, ProtocolInit
<1>2. (TypeInv /\ ProtocolInv) /\ [Next]_vars => (TypeInv /\ ProtocolInv)'
  BY TypeStep, ProtocolStep
<1> QED
  BY <1>1, <1>2, PTL DEF Spec

-----------------------------------------------------------------------------
(* A header that eob_read_header accepts was the header of the device since
   the command began, however many processes write meanwhile. *)
THEOREM AcceptedHeaders == Spec => []AcceptedWasCurrent
<1>1. TypeInv /\ ProtocolInv => AcceptedWasCurrent
  <2> SUFFICES ASSUME TypeInv, ProtocolInv, NEW p \in Procs, pc[p] = "accepted"
               PROVE  \E h \in window[p] : Accepts(h) /\ Preamble(h) = Preamble(buf[p])
    BY DEF AcceptedWasCurrent
  <2>1. Accepts(buf[p]) /\ WasThere(p, buf[p])
    BY DEF ProtocolInv, SnapshotInv
  <2>2. PICK g \in window[p] :
           eob_header_chksum_is_ok(g) /\ Preamble(g) = Preamble(buf[p])
    BY <2>1 DEF WasThere
  <2>3. g \in Header /\ buf[p] \in Header
    BY DEF TypeInv, TypeOK
  <2>4. g.geo = buf[p].geo
    BY <2>2, <2>3, PreambleParts
  <2> QED
    BY <2>1, <2>2, <2>4 DEF Accepts, Current
<1> QED
  BY <1>1, Protocol, PTL

(* A pass of eob_read_header that no write overlaps accepts a good header. *)
THEOREM CalmReads == Spec => []CalmPassAccepts
<1>1. TypeInv /\ ProtocolInv => CalmPassAccepts
  BY DEF ProtocolInv, CalmInv, CalmAt, CalmPassAccepts
<1> QED
  BY <1>1, Protocol, PTL

(* With no write under way the device holds one complete header. *)
THEOREM QuiescentHeader == Spec => []QuiescentHeaderIntact
<1>1. ProtocolInv => QuiescentHeaderIntact
  BY DEF ProtocolInv, DiskInv, IntactInv, Intact, QuiescentHeaderIntact
<1> QED
  BY <1>1, Protocol, PTL

-----------------------------------------------------------------------------
(* Commands come to an end *)

LEMMA StepsFromIs ==
    ASSUME NEW k \in 0 .. MaxPass
    PROVE  /\ StepsFrom("idle", k) = 0 /\ StepsFrom("wsum", k) = 1 /\ StepsFrom("wtab", k) = 2
           /\ StepsFrom("wgeo", k) = 3 /\ StepsFrom("accepted", k) = 4
           /\ StepsFrom("rewrite", k) = 4
           /\ StepsFrom("rgeo", k) = 4 + 4 * (MaxPass - k)
           /\ StepsFrom("check", k) = 5 + 4 * (MaxPass - k)
           /\ StepsFrom("rsum", k) = 6 + 4 * (MaxPass - k)
           /\ StepsFrom("rtab", k) = 7 + 4 * (MaxPass - k)
           /\ \A label \in PcAll \ {"idle"} : StepsFrom(label, k) > 0
<1>1. /\ StepsFrom("idle", k) = 0 /\ StepsFrom("wsum", k) = 1 /\ StepsFrom("wtab", k) = 2
      /\ StepsFrom("wgeo", k) = 3 /\ StepsFrom("accepted", k) = 4
      /\ StepsFrom("rewrite", k) = 4
      /\ StepsFrom("rgeo", k) = 4 + 4 * (MaxPass - k)
      /\ StepsFrom("check", k) = 5 + 4 * (MaxPass - k)
      /\ StepsFrom("rsum", k) = 6 + 4 * (MaxPass - k)
      /\ StepsFrom("rtab", k) = 7 + 4 * (MaxPass - k)
  BY DEF StepsFrom
<1>2. MaxPass - k \in Nat
  BY HeaderConstants
<1> QED
  BY <1>1, <1>2 DEF PcAll, PcReading, PcWriting

(* A step from one place to the other, outside the count of passes. *)
LEMMA GotoAdvances ==
    ASSUME TypeInv, NEW p \in Procs, NEW label, NEW h, Goto(p, label, h)
    PROVE  /\ pc'[p] = label /\ pass'[p] = pass[p]
           /\ \A q \in Procs \ {p} : pc'[q] = pc[q] /\ pass'[q] = pass[q]
  BY DEF Goto, TypeInv, TypeOK

LEMMA ReturnAdvances ==
    ASSUME TypeInv, NEW p \in Procs, NEW r, Return(p, r)
    PROVE  /\ pc'[p] = "idle" /\ pass'[p] = 0
           /\ \A q \in Procs \ {p} : pc'[q] = pc[q] /\ pass'[q] = pass[q]
  BY DEF Return, TypeInv, TypeOK

LEMMA WorkAdvances ==
    ASSUME TypeInv, NEW p \in Procs, Work(p)
    PROVE  /\ StepsFrom(pc'[p], pass'[p]) < StepsFrom(pc[p], pass[p])
           /\ \A q \in Procs \ {p} : pc'[q] = pc[q] /\ pass'[q] = pass[q]
<1> DEFINE Others == \A q \in Procs \ {p} : pc'[q] = pc[q] /\ pass'[q] = pass[q]
           Nearer == StepsFrom(pc'[p], pass'[p]) < StepsFrom(pc[p], pass[p])
<1>t. /\ pass[p] \in 0 .. MaxPass /\ pc[p] \in PcAll /\ MaxPass \in Nat \ {0}
      /\ pc[p] = "rgeo" => pass[p] < MaxPass
  BY HeaderConstants DEF TypeInv, TypeOK, ControlInv
<1>r. ASSUME NEW r, Return(p, r), pc[p] # "idle"
      PROVE  Nearer /\ Others
  <2>1. pc'[p] = "idle" /\ pass'[p] = 0 /\ Others
    BY <1>r, ReturnAdvances
  <2>2. StepsFrom("idle", 0) = 0
    BY <1>t, StepsFromIs
  <2>3. StepsFrom(pc[p], pass[p]) > 0
    BY <1>r, <1>t, StepsFromIs
  <2> QED
    BY <2>1, <2>2, <2>3
<1>g. ASSUME NEW label, NEW h, Goto(p, label, h),
             \/ pc[p] = "rtab" /\ label = "rsum"
             \/ pc[p] = "rsum" /\ label = "check"
             \/ pc[p] = "check" /\ label \in {"rgeo", "accepted", "rewrite"}
             \/ pc[p] \in {"accepted", "rewrite"} /\ label = "wgeo"
      PROVE  Nearer /\ Others
  <2>1. pc'[p] = label /\ pass'[p] = pass[p] /\ Others
    BY <1>g, GotoAdvances
  <2> QED
    BY <1>g, <1>t, <2>1, StepsFromIs
<1>w. ASSUME NEW h, pc[p] = "accepted", WriteOrAbort(p, h)
      PROVE  Nearer /\ Others
  BY <1>g, <1>r, <1>w DEF WriteOrAbort
<1>d. ASSUME NEW label, NEW d, Disturb(p, label, d),
             \/ pc[p] = "wgeo" /\ label = "wtab"
             \/ pc[p] = "wtab" /\ label = "wsum"
      PROVE  Nearer /\ Others
  <2>1. pc'[p] = label /\ pass' = pass /\ Others
    BY <1>d DEF Disturb, TypeInv, TypeOK
  <2> QED
    BY <1>d, <1>t, <2>1, StepsFromIs
<1>1. CASE ReadGeo(p)
  <2>1. pc[p] = "rgeo" /\ pc'[p] = "rtab" /\ pass'[p] = pass[p] + 1 /\ Others
    BY <1>1 DEF ReadGeo, TypeInv, TypeOK
  <2>2. pass[p] + 1 \in 0 .. MaxPass
    BY <1>t, <2>1
  <2> QED
    BY <1>t, <2>1, <2>2, StepsFromIs
<1>2. CASE ReadTab(p)
  BY <1>2, <1>g DEF ReadTab
<1>3. CASE ReadSum(p)
  BY <1>3, <1>g DEF ReadSum
<1>4. CASE ReadFail(p)
  BY <1>4, <1>r DEF ReadFail
<1>5. CASE ReadAccept(p)
  BY <1>5, <1>g DEF ReadAccept
<1>6. CASE ReadAgain(p)
  BY <1>6, <1>g DEF ReadAgain
<1>7. CASE ReadGivesUp(p)
  BY <1>7, <1>g, <1>r DEF ReadGivesUp
<1>8. CASE eob_hdr_dump(p)
  BY <1>8, <1>r DEF eob_hdr_dump
<1>9. CASE eob_hdr_add_device(p)
  BY <1>9, <1>w DEF eob_hdr_add_device
<1>10. CASE eob_hdr_add_device_refused(p)
  BY <1>10, <1>r DEF eob_hdr_add_device_refused
<1>11. CASE eob_hdr_rem_device(p)
  BY <1>11, <1>w DEF eob_hdr_rem_device
<1>12. CASE eob_hdr_rem_device_absent(p)
  BY <1>12, <1>r DEF eob_hdr_rem_device_absent
<1>13. CASE eob_device_init_hdr(p)
  BY <1>13, <1>r DEF eob_device_init_hdr
<1>14. CASE eob_device_init_hdr_rewrite(p)
  BY <1>14, <1>g DEF eob_device_init_hdr_rewrite
<1>15. CASE WriteGeo(p)
  BY <1>15, <1>d DEF WriteGeo
<1>16. CASE WriteTab(p)
  BY <1>16, <1>d DEF WriteTab
<1>17. CASE WriteSum(p)
  <2>1. pc[p] = "wsum" /\ pc'[p] = "idle" /\ pass'[p] = 0 /\ Others
    BY <1>17 DEF WriteSum, TypeInv, TypeOK
  <2>2. StepsFrom("idle", 0) = 0
    BY <1>t, StepsFromIs
  <2>3. StepsFrom("wsum", pass[p]) = 1
    BY <1>t, StepsFromIs
  <2> QED
    BY <2>1, <2>2, <2>3
<1>18. CASE WriteFail(p)
  BY <1>18, <1>r DEF WriteFail
<1> QED
  BY <1>1, <1>2, <1>3, <1>4, <1>5, <1>6, <1>7, <1>8, <1>9, <1>10, <1>11, <1>12,
     <1>13, <1>14, <1>15, <1>16, <1>17, <1>18 DEF Work

(* No command can be kept busy: whatever the others do to the header, each
   step of a command leaves it fewer steps, of at most 4 * max_pass + 4, and
   the steps of the others leave it as many. *)
THEOREM CommandsShrink == Spec => CommandsAdvance
<1>1. \A p : StepsLeft(p)' = StepsFrom(pc'[p], pass'[p])
  BY DEF StepsLeft, StepsFrom
<1>2. TypeInv => [\A p \in Procs : Work(p) =>
          /\ StepsLeft(p)' < StepsLeft(p)
          /\ \A q \in Procs \ {p} : StepsLeft(q)' = StepsLeft(q)]_vars
  BY <1>1, WorkAdvances DEF StepsLeft
<1> QED
  BY <1>2, Protocol, PTL DEF CommandsAdvance

-----------------------------------------------------------------------------
(* No phantom nodes *)

(* Every entry of the table t is empty, was asked for by an add of g, or was
   on the device at first. *)
Known(t, g) ==
    \A n \in Slots :
        \/ t[n] = Absent
        \/ <<n, t[n]>> \in g
        \/ \E h \in InitialDisks : h.tab[n] = t[n]

(* So it is with the last complete table, the one on the device, and those in
   the memory of the processes, torn or not; an add that runs was counted. *)
PhantomInv ==
    /\ Known(stable.tab, granted) /\ Known(disk.tab, granted)
    /\ \A p \in Procs :
          /\ Known(buf[p].tab, granted)
          /\ (pc[p] # "idle" /\ cmd[p].op = "add")
                => <<cmd[p].node, cmd[p].ip>> \in granted

(* The tables that a step may leave in the memory of p. *)
TablesOf(p) ==
    {ZeroTab, disk.tab, buf[p].tab}
    \cup {[buf[p].tab EXCEPT ![n] = Absent] : n \in Slots}
    \cup (IF pc[p] # "idle" /\ cmd[p].op = "add"
          THEN {[buf[p].tab EXCEPT ![cmd[p].node] = cmd[p].ip]} ELSE {})

LEMMA TablesKnown ==
    ASSUME TypeInv, PhantomInv, NEW p \in Procs, NEW t \in TablesOf(p)
    PROVE  Known(t, granted)
<1>1. /\ Known(buf[p].tab, granted) /\ Known(disk.tab, granted)
      /\ buf[p].tab \in [Slots -> Entry]
  BY DEF PhantomInv, TypeInv, TypeOK, Header
<1>2. CASE t \in {ZeroTab, disk.tab, buf[p].tab}
  BY <1>1, <1>2 DEF Known, ZeroTab
<1>3. ASSUME NEW n \in Slots, t = [buf[p].tab EXCEPT ![n] = Absent]
      PROVE  Known(t, granted)
  BY <1>1, <1>3 DEF Known
<1>4. CASE /\ pc[p] # "idle" /\ cmd[p].op = "add"
           /\ t = [buf[p].tab EXCEPT ![cmd[p].node] = cmd[p].ip]
  <2>1. <<cmd[p].node, cmd[p].ip>> \in granted
    BY <1>4 DEF PhantomInv
  <2> QED
    BY <1>1, <1>4, <2>1 DEF Known
<1> QED
  BY <1>2, <1>3, <1>4 DEF TablesOf

(* What a step does to tables and adds. *)
Handles(p) ==
    /\ granted \subseteq granted'
    /\ stable'.tab \in {stable.tab, buf[p].tab}
    /\ disk'.tab \in {disk.tab, buf[p].tab}
    /\ buf'[p].tab \in TablesOf(p)
    /\ \A q \in Procs \ {p} : /\ pc'[q] = pc[q] /\ cmd'[q] = cmd[q]
                              /\ buf'[q] = buf[q]
    /\ \/ pc'[p] = "idle"
       \/ pc[p] # "idle" /\ cmd'[p] = cmd[p]
       \/ cmd'[p].op = "add" => <<cmd'[p].node, cmd'[p].ip>> \in granted'

LEMMA ReturnHandles ==
    ASSUME TypeInv, NEW p \in Procs, NEW r, Return(p, r),
           UNCHANGED <<device, stable, granted>>
    PROVE  Handles(p)
<1>1. buf'[p].tab = ZeroTab
  BY DEF Return, TypeInv, TypeOK, ZeroHeader
<1>2. pc'[p] = "idle"
  BY DEF Return, TypeInv, TypeOK
<1>3. \A q \in Procs \ {p} : /\ pc'[q] = pc[q] /\ cmd'[q] = cmd[q]
                             /\ buf'[q] = buf[q]
  BY DEF Return, TypeInv, TypeOK
<1> QED
  BY <1>1, <1>2, <1>3 DEF Handles, TablesOf, device

LEMMA GotoHandles ==
    ASSUME TypeInv, NEW p \in Procs, NEW label, NEW h, Goto(p, label, h),
           pc[p] # "idle", UNCHANGED <<device, history>>, h.tab \in TablesOf(p)
    PROVE  Handles(p)
<1>1. buf'[p].tab \in TablesOf(p) /\ cmd'[p] = cmd[p]
  BY DEF Goto, TypeInv, TypeOK
<1>2. \A q \in Procs \ {p} : /\ pc'[q] = pc[q] /\ cmd'[q] = cmd[q]
                             /\ buf'[q] = buf[q]
  BY DEF Goto, TypeInv, TypeOK
<1> QED
  BY <1>1, <1>2 DEF Handles, device, history

LEMMA BeginHandles ==
    ASSUME TypeInv, NEW p \in Procs, NEW c \in Commands, NEW label, NEW h,
           Begin(p, c, label, h), h.tab = ZeroTab
    PROVE  Handles(p)
<1>1. buf'[p].tab = ZeroTab /\ cmd'[p] = c
  BY DEF Begin, TypeInv, TypeOK
<1>2. \A q \in Procs \ {p} : /\ pc'[q] = pc[q] /\ cmd'[q] = cmd[q]
                             /\ buf'[q] = buf[q]
  BY DEF Begin, TypeInv, TypeOK
<1>3. /\ granted \subseteq granted' /\ disk' = disk /\ stable' = stable
      /\ c.op = "add" => <<c.node, c.ip>> \in granted'
  BY DEF Begin, device
<1> QED
  BY <1>1, <1>2, <1>3 DEF Handles, TablesOf

LEMMA StepHandles ==
    ASSUME TypeInv, NEW p \in Procs, BeginCommand(p) \/ Work(p)
    PROVE  Handles(p)
<1>h. buf[p] \in Header /\ disk \in Header /\ cmd[p] \in Cmd
  BY DEF TypeInv, TypeOK
<1>b. buf[p].tab \in TablesOf(p) /\ disk.tab \in TablesOf(p)
  BY DEF TablesOf
<1>z. ZeroHeader.tab = ZeroTab
  BY DEF ZeroHeader
<1>1. CASE eob_hdr_init(p)
  <2>1. PICK c \in Commands : Begin(p, c, "wgeo", InitHeader(c))
    BY <1>1 DEF eob_hdr_init
  <2>2. InitHeader(c).tab = ZeroTab
    BY <1>h, HeaderInputs, TablesWritten
  <2> QED
    BY <2>1, <2>2, BeginHandles
<1>2. CASE eob_hdr_init_abort(p)
  BY <1>2, <1>b DEF eob_hdr_init_abort, Handles, device
<1>3. CASE eob_hdr_deinit(p)
  BY <1>3, <1>z, BeginHandles DEF eob_hdr_deinit
<1>4. CASE BeginRead(p)
  BY <1>4, <1>z, BeginHandles DEF BeginRead
<1>5. CASE ReadGeo(p)
  <2>1. buf'[p].tab = buf[p].tab
    BY <1>5, <1>h DEF ReadGeo, TypeInv, TypeOK, Header
  <2>2. \A q \in Procs \ {p} : pc'[q] = pc[q] /\ buf'[q] = buf[q]
    BY <1>5 DEF ReadGeo, TypeInv, TypeOK
  <2> QED
    BY <1>5, <1>b, <2>1, <2>2 DEF ReadGeo, Handles, device
<1>6. CASE ReadTab(p)
  <2>1. [buf[p] EXCEPT !.tab = disk.tab].tab = disk.tab
    BY <1>h DEF Header
  <2> QED
    BY <1>6, <1>b, <2>1, GotoHandles DEF ReadTab
<1>7. CASE ReadSum(p)
  <2>1. [buf[p] EXCEPT !.sum = disk.sum].tab = buf[p].tab
    BY <1>h DEF Header
  <2> QED
    BY <1>7, <1>b, <2>1, GotoHandles DEF ReadSum
<1>8. CASE ReadFail(p)
  BY <1>8, ReturnHandles DEF ReadFail
<1>9. CASE ReadAccept(p)
  BY <1>9, <1>b, GotoHandles DEF ReadAccept
<1>10. CASE ReadAgain(p)
  BY <1>10, <1>b, GotoHandles DEF ReadAgain
<1>11. CASE ReadGivesUp(p)
  BY <1>11, <1>b, GotoHandles, ReturnHandles DEF ReadGivesUp
<1>12. CASE eob_hdr_dump(p)
  BY <1>12, ReturnHandles DEF eob_hdr_dump
<1>13. ASSUME NEW h, pc[p] = "accepted", WriteOrAbort(p, h), UNCHANGED device,
              h.tab \in TablesOf(p)
       PROVE  Handles(p)
  BY <1>13, GotoHandles, ReturnHandles DEF WriteOrAbort
<1>14. CASE eob_hdr_add_device(p)
  <2>1. AddedHeader(cmd[p], buf[p]).tab
          = [buf[p].tab EXCEPT ![cmd[p].node] = cmd[p].ip]
    BY <1>h, TablesWritten
  <2>2. AddedHeader(cmd[p], buf[p]).tab \in TablesOf(p)
    BY <1>14, <2>1 DEF eob_hdr_add_device, TablesOf
  <2> QED
    BY <1>13, <1>14, <2>2 DEF eob_hdr_add_device
<1>15. CASE eob_hdr_add_device_refused(p)
  BY <1>15, ReturnHandles DEF eob_hdr_add_device_refused
<1>16. CASE eob_hdr_rem_device(p)
  <2>1. \/ RemovedHeader(cmd[p], buf[p]).tab = buf[p].tab
        \/ /\ cmd[p].node \in Slots
           /\ RemovedHeader(cmd[p], buf[p]).tab
                = [buf[p].tab EXCEPT ![cmd[p].node] = Absent]
    BY <1>h, TablesWritten
  <2>2. RemovedHeader(cmd[p], buf[p]).tab \in TablesOf(p)
    BY <2>1 DEF TablesOf
  <2> QED
    BY <1>13, <1>16, <2>2 DEF eob_hdr_rem_device
<1>17. CASE eob_hdr_rem_device_absent(p)
  BY <1>17, ReturnHandles DEF eob_hdr_rem_device_absent
<1>18. CASE eob_device_init_hdr(p)
  BY <1>18, ReturnHandles DEF eob_device_init_hdr
<1>19. CASE eob_device_init_hdr_rewrite(p)
  <2>1. RewrittenHeader(cmd[p], buf[p]).tab = buf[p].tab
    BY <1>h, HeadersWritten
  <2> QED
    BY <1>19, <1>b, <2>1, GotoHandles DEF eob_device_init_hdr_rewrite
<1>20. ASSUME NEW label \in PcWriting, NEW d, Disturb(p, label, d),
              pc[p] # "idle", d.tab \in {disk.tab, buf[p].tab}
       PROVE  Handles(p)
  <2>1. \A q \in Procs \ {p} : pc'[q] = pc[q]
    BY <1>20 DEF Disturb, TypeInv, TypeOK
  <2> QED
    BY <1>20, <1>b, <2>1 DEF Disturb, Handles
<1>21. CASE WriteGeo(p)
  <2>1. [disk EXCEPT !.geo = buf[p].geo].tab = disk.tab
    BY <1>h DEF Header
  <2> QED
    BY <1>20, <1>21, <2>1 DEF WriteGeo, PcWriting
<1>22. CASE WriteTab(p)
  <2>1. [disk EXCEPT !.tab = buf[p].tab].tab = buf[p].tab
    BY <1>h DEF Header
  <2> QED
    BY <1>20, <1>22, <2>1 DEF WriteTab, PcWriting
<1>23. CASE WriteSum(p)
  <2>1. /\ pc' = [pc EXCEPT ![p] = "idle"]
        /\ cmd' = [cmd EXCEPT ![p] = NoCmd]
        /\ buf' = [buf EXCEPT ![p] = ZeroHeader]
        /\ stable' = buf[p]
        /\ disk' = [disk EXCEPT !.sum = buf[p].sum]
        /\ granted' = granted
    BY <1>23 DEF WriteSum
  <2>2. disk'.tab = disk.tab
    BY <1>h, <2>1 DEF Header
  <2>3. buf'[p].tab = ZeroTab /\ pc'[p] = "idle"
    BY <1>z, <2>1 DEF TypeInv, TypeOK
  <2>4. \A q \in Procs \ {p} : /\ pc'[q] = pc[q] /\ cmd'[q] = cmd[q]
                               /\ buf'[q] = buf[q]
    BY <2>1 DEF TypeInv, TypeOK
  <2> QED
    BY <2>1, <2>2, <2>3, <2>4 DEF Handles, TablesOf
<1>24. CASE WriteFail(p)
  BY <1>24, ReturnHandles DEF WriteFail
<1> QED
  BY <1>1, <1>2, <1>3, <1>4, <1>5, <1>6, <1>7, <1>8, <1>9, <1>10, <1>11,
     <1>12, <1>14, <1>15, <1>16, <1>17, <1>18, <1>19, <1>21, <1>22, <1>23,
     <1>24 DEF BeginCommand, Work

LEMMA PhantomStep == TypeInv /\ PhantomInv /\ [Next]_vars => PhantomInv'
<1> SUFFICES ASSUME TypeInv, PhantomInv, [Next]_vars
             PROVE  PhantomInv'
  OBVIOUS
<1>1. CASE UNCHANGED vars
  BY <1>1 DEF vars, PhantomInv, Known
<1>2. ASSUME NEW p \in Procs, BeginCommand(p) \/ Work(p)
      PROVE  PhantomInv'
  <2>1. Handles(p)
    BY <1>2, StepHandles
  <2>2. \A t : Known(t, granted) => Known(t, granted')
    BY <2>1 DEF Handles, Known
  <2>3. Known(buf'[p].tab, granted')
    BY <2>1, <2>2, TablesKnown DEF Handles
  <2>4. \A q \in Procs : Known(buf'[q].tab, granted')
    BY <2>1, <2>2, <2>3 DEF Handles, PhantomInv
  <2>5. Known(stable'.tab, granted') /\ Known(disk'.tab, granted')
    BY <2>1, <2>2 DEF Handles, PhantomInv
  <2>6. ASSUME NEW q \in Procs, pc'[q] # "idle", cmd'[q].op = "add"
        PROVE  <<cmd'[q].node, cmd'[q].ip>> \in granted'
    BY <2>1, <2>6 DEF Handles, PhantomInv
  <2> QED
    BY <2>4, <2>5, <2>6 DEF PhantomInv, Known
<1> QED
  BY <1>1, <1>2 DEF Next

(* However reads, rewrites and removals of several processes are interleaved,
   a node is in the table of a complete header only if an add asked for it or
   the device had it at first. *)
THEOREM NoPhantoms == Spec => []NoPhantomNodes
<1>1. Init => PhantomInv
  BY DEF Init, PhantomInv, Known, ZeroHeader, ZeroTab
<1>2. TypeInv /\ PhantomInv /\ [Next]_vars => PhantomInv'
  BY PhantomStep
<1>3. PhantomInv => NoPhantomNodes
  BY DEF PhantomInv, Known, NoPhantomNodes
<1> QED
  BY <1>1, <1>2, <1>3, Protocol, PTL DEF Spec

-----------------------------------------------------------------------------
(* Undisturbed reads *)

(* No write that is under way changes the header. *)
Harmless == \A w \in Procs : pc[w] \in PcWriting => buf[w] = stable

(* Since the command of p began, the device has had one header only, and has
   it still. *)
Quiet(p) == window[p] \subseteq {stable} /\ Harmless

(* What a read has by then: parts of that header, or all of it. *)
ReadAt(label, h) ==
    /\ label = "rtab" => h.geo = stable.geo
    /\ label = "rsum" => h.geo = stable.geo /\ h.tab = stable.tab
    /\ label \in {"check", "accepted", "rewrite"} => h = stable

ReadInv ==
    \A p \in Procs : pc[p] # "idle" /\ Quiet(p) => ReadAt(pc[p], buf[p])

(* An open without force that goes on to write the header has not been quiet,
   or the header is a bad one. *)
OpenInv ==
    \A p \in Procs :
        (pc[p] # "idle" /\ cmd[p].op = "open" /\ ~cmd[p].force)
            => /\ (pc[p] \in {"rewrite", "wgeo"} /\ Quiet(p)) => ~Accepts(stable)
               /\ (pc[p] \in PcWriting /\ window[p] \subseteq {stable})
                     => ~Accepts(stable)

(* The process p alone has moved, outside a header write. *)
Aside(p) ==
    /\ stable' = stable
    /\ pc[p] \notin PcWriting /\ pc'[p] \notin PcWriting
    /\ \A q \in Procs \ {p} : /\ pc'[q] = pc[q] /\ cmd'[q] = cmd[q]
                              /\ buf'[q] = buf[q] /\ window'[q] = window[q]

LEMMA QuietAside ==
    ASSUME NEW p \in Procs, Aside(p)
    PROVE  Harmless' = Harmless
  BY DEF Aside, Harmless

(* If the device is quiet it holds the last complete header. *)
LEMMA QuietDisk ==
    ASSUME TypeInv, ProtocolInv, Harmless
    PROVE  disk = stable
<1>1. stable \in Header /\ \A w \in Procs : buf[w] \in Header
  BY DEF TypeInv, TypeOK
<1>2. CASE writer = NoProc
  BY <1>2 DEF ProtocolInv, DiskInv
<1>3. ASSUME NEW w \in Procs, writer = w
      PROVE  disk = stable
  <2>1. pc[w] \in PcWriting /\ buf[w] = stable
    BY <1>3 DEF ProtocolInv, LockInv, Harmless
  <2>2. [stable EXCEPT !.geo = stable.geo] = stable
    BY <1>1 DEF Header
  <2>3. [stable EXCEPT !.sum = stable.sum] = stable
    BY <1>1 DEF Header
  <2> QED
    BY <2>1, <2>2, <2>3 DEF ProtocolInv, DiskInv, PcWriting
<1> QED
  BY <1>2, <1>3 DEF TypeInv, TypeOK

(* A step aside keeps the two invariants if p may be where it goes. *)
LEMMA AsideReads ==
    ASSUME TypeInv, ReadInv, OpenInv, NEW p \in Procs, Aside(p),
           \/ pc'[p] = "idle"
           \/ /\ (window'[p] \subseteq {stable} /\ Harmless)
                    => ReadAt(pc'[p], buf'[p])
              /\ (/\ cmd'[p].op = "open" /\ ~cmd'[p].force
                  /\ pc'[p] \in {"rewrite", "wgeo"}
                  /\ window'[p] \subseteq {stable} /\ Harmless)
                    => ~Accepts(stable)
    PROVE  ReadInv' /\ OpenInv'
<1>1. stable' = stable /\ (Harmless' <=> Harmless) /\ pc'[p] \notin PcWriting
  BY QuietAside DEF Aside
<1>2. \A q \in Procs \ {p} :
          /\ pc'[q] = pc[q] /\ cmd'[q] = cmd[q]
          /\ buf'[q] = buf[q] /\ window'[q] = window[q]
  BY DEF Aside
<1>3. \A q \in Procs : Quiet(q)' <=> (window'[q] \subseteq {stable} /\ Harmless)
  BY <1>1 DEF Quiet
<1>4. Accepts(stable)' <=> Accepts(stable)
  BY <1>1 DEF Accepts, Current, eob_header_chksum_is_ok, Preamble
<1>5. ReadInv'
  <2> SUFFICES ASSUME NEW q \in Procs, pc'[q] # "idle", Quiet(q)'
               PROVE  ReadAt(pc'[q], buf'[q])
    BY <1>1 DEF ReadInv, ReadAt
  <2>1. CASE q = p
    BY <1>3, <2>1
  <2>2. CASE q # p
    BY <1>2, <1>3, <2>2 DEF ReadInv, Quiet
  <2> QED
    BY <2>1, <2>2
<1>6. OpenInv'
  <2> SUFFICES ASSUME NEW q \in Procs, pc'[q] # "idle", cmd'[q].op = "open",
                      ~cmd'[q].force
               PROVE  /\ (pc'[q] \in {"rewrite", "wgeo"} /\ Quiet(q)')
                            => ~Accepts(stable)
                      /\ (pc'[q] \in PcWriting /\ window'[q] \subseteq {stable})
                            => ~Accepts(stable)
    BY <1>1, <1>4 DEF OpenInv, PcWriting
  <2>1. CASE q = p
    BY <1>1, <1>3, <2>1
  <2>2. CASE q # p
    BY <1>2, <1>3, <2>2 DEF OpenInv, Quiet
  <2> QED
    BY <2>1, <2>2
<1> QED
  BY <1>5, <1>6

LEMMA ReturnAside ==
    ASSUME TypeInv, NEW p \in Procs, NEW r, Return(p, r),
           pc[p] \notin PcWriting, UNCHANGED stable
    PROVE  Aside(p) /\ pc'[p] = "idle"
  BY DEF Return, Aside, TypeInv, TypeOK, PcWriting

LEMMA GotoAside ==
    ASSUME TypeInv, NEW p \in Procs, NEW label, NEW h, Goto(p, label, h),
           pc[p] \notin PcWriting, label \notin PcWriting, UNCHANGED history
    PROVE  /\ Aside(p) /\ pc'[p] = label /\ buf'[p] = h /\ cmd'[p] = cmd[p]
           /\ window' = window
<1>1. pc'[p] = label /\ buf'[p] = h /\ cmd' = cmd /\ window' = window /\ stable' = stable
  BY DEF Goto, history, TypeInv, TypeOK
<1>2. \A q \in Procs \ {p} : pc'[q] = pc[q] /\ buf'[q] = buf[q]
  BY DEF Goto, TypeInv, TypeOK
<1> QED
  BY <1>1, <1>2 DEF Aside

LEMMA BeginAside ==
    ASSUME TypeInv, NEW p \in Procs, NEW c, NEW label \in {"rgeo", "wgeo"},
           NEW h, Begin(p, c, label, h)
    PROVE  Aside(p) /\ pc'[p] = label /\ cmd'[p] = c
<1>1. pc'[p] = label /\ cmd'[p] = c /\ stable' = stable /\ pc[p] = "idle"
  BY DEF Begin, TypeInv, TypeOK
<1>2. \A q \in Procs \ {p} : /\ pc'[q] = pc[q] /\ cmd'[q] = cmd[q]
                             /\ buf'[q] = buf[q] /\ window'[q] = window[q]
  BY DEF Begin, TypeInv, TypeOK
<1> QED
  BY <1>1, <1>2 DEF Aside, PcWriting

(* The steps of a header write keep them. *)
LEMMA WriteReads ==
    ASSUME TypeInv, ProtocolInv, ReadInv, OpenInv, NEW p \in Procs,
           WriteGeo(p) \/ WriteTab(p) \/ WriteSum(p)
    PROVE  ReadInv' /\ OpenInv'
<1>p. NoProc \notin Procs
  BY HeaderConstants
<1>1. CASE WriteGeo(p) \/ WriteTab(p)
  <2>1. /\ UNCHANGED <<cmd, buf, stable, window>>
        /\ \A q \in Procs \ {p} : pc'[q] = pc[q]
        /\ pc'[p] \in PcWriting
    BY <1>1 DEF WriteGeo, WriteTab, Disturb, TypeInv, TypeOK, PcWriting
  <2>2. Harmless' => Harmless
    BY <2>1 DEF Harmless
  <2>3. \A q \in Procs : Quiet(q)' => Quiet(q)
    BY <2>1, <2>2 DEF Quiet
  <2>4. ReadInv'
    <3> SUFFICES ASSUME NEW q \in Procs, pc'[q] # "idle", Quiet(q)'
                 PROVE  ReadAt(pc'[q], buf[q])
      BY <2>1 DEF ReadInv, ReadAt
    <3>1. CASE q = p
      BY <2>1, <3>1 DEF ReadAt, PcWriting
    <3>2. CASE q # p
      BY <2>1, <2>3, <3>2 DEF ReadInv
    <3> QED
      BY <3>1, <3>2
  <2>5. ASSUME cmd[p].op = "open", ~cmd[p].force, window[p] \subseteq {stable}
        PROVE  ~Accepts(stable)
    <3>1. CASE WriteGeo(p)
      <4>1. pc[p] = "wgeo" /\ writer = NoProc
        BY <3>1 DEF WriteGeo
      <4>2. Harmless
        BY <4>1, <1>p DEF Harmless, ProtocolInv, LockInv
      <4> QED
        BY <2>5, <4>1, <4>2 DEF OpenInv, Quiet
    <3>2. CASE WriteTab(p)
      BY <2>5, <3>2 DEF WriteTab, OpenInv, PcWriting
    <3> QED
      BY <1>1, <3>1, <3>2
  <2>6. OpenInv'
    <3>1. Accepts(stable)' <=> Accepts(stable)
      BY <2>1 DEF Accepts, Current, eob_header_chksum_is_ok, Preamble
    <3> SUFFICES ASSUME NEW q \in Procs, pc'[q] # "idle", cmd[q].op = "open",
                        ~cmd[q].force
                 PROVE  /\ (pc'[q] \in {"rewrite", "wgeo"} /\ Quiet(q)')
                              => ~Accepts(stable)
                        /\ (pc'[q] \in PcWriting /\ window[q] \subseteq {stable})
                              => ~Accepts(stable)
      BY <2>1, <3>1 DEF OpenInv, PcWriting
    <3>2. CASE q = p
      BY <2>1, <2>5, <3>2 DEF PcWriting
    <3>3. CASE q # p
      BY <2>1, <2>3, <3>3 DEF OpenInv
    <3> QED
      BY <3>2, <3>3
  <2> QED
    BY <2>4, <2>6
<1>2. CASE WriteSum(p)
  <2>1. /\ pc' = [pc EXCEPT ![p] = "idle"]
        /\ cmd' = [cmd EXCEPT ![p] = NoCmd]
        /\ buf' = [buf EXCEPT ![p] = ZeroHeader]
        /\ stable' = buf[p]
        /\ window' = [q \in Procs |-> IF pc[q] = "idle" \/ q = p THEN {}
                                      ELSE window[q] \cup {buf[p]}]
    BY <1>2 DEF WriteSum
  <2>2. pc[p] = "wsum" /\ \A q \in Procs \ {p} : pc[q] \notin PcWriting
    BY <1>2 DEF ProtocolInv, LockInv, WriteSum, PcWriting
  <2>3. ASSUME NEW q \in Procs, pc'[q] # "idle", window'[q] \subseteq {stable'}
        PROVE  /\ q # p /\ pc'[q] = pc[q] /\ pc[q] \notin PcWriting
               /\ cmd'[q] = cmd[q] /\ buf'[q] = buf[q]
               /\ Quiet(q) /\ stable' = stable
    <3>1. q # p
      BY <2>1, <2>3 DEF TypeInv, TypeOK
    <3>2. pc'[q] = pc[q] /\ cmd'[q] = cmd[q] /\ buf'[q] = buf[q]
      BY <2>1, <3>1 DEF TypeInv, TypeOK
    <3>3. window'[q] = window[q] \cup {buf[p]} /\ stable \in window[q]
      BY <2>1, <2>3, <3>1, <3>2 DEF ProtocolInv, WindowInv
    <3>4. stable = buf[p]
      BY <2>1, <2>3, <3>3
    <3>5. window[q] \subseteq {stable}
      BY <2>1, <2>3, <3>3, <3>4
    <3>6. Harmless
      BY <2>2, <3>4 DEF Harmless
    <3> QED
      BY <2>1, <2>2, <3>1, <3>2, <3>4, <3>5, <3>6 DEF Quiet
  <2>4. ReadInv'
    <3> SUFFICES ASSUME NEW q \in Procs, pc'[q] # "idle", Quiet(q)'
                 PROVE  ReadAt(pc[q], buf[q])' 
      BY DEF ReadInv
    <3>1. window'[q] \subseteq {stable'}
      BY DEF Quiet
    <3>2. /\ pc'[q] = pc[q] /\ buf'[q] = buf[q] /\ Quiet(q) /\ stable' = stable
      BY <2>3, <3>1
    <3>3. ReadAt(pc[q], buf[q])
      BY <3>2 DEF ReadInv
    <3> QED
      BY <3>2, <3>3 DEF ReadAt
  <2>5. OpenInv'
    <3> SUFFICES ASSUME NEW q \in Procs, pc'[q] # "idle", cmd'[q].op = "open",
                        ~cmd'[q].force, pc'[q] \in {"rewrite", "wgeo"} \cup PcWriting,
                        window'[q] \subseteq {stable'}
                 PROVE  ~Accepts(stable)'
      BY DEF OpenInv, Quiet
    <3>1. /\ pc'[q] = pc[q] /\ pc[q] \notin PcWriting
          /\ cmd'[q] = cmd[q] /\ Quiet(q) /\ stable' = stable
      BY <2>3
    <3>2. ~Accepts(stable)
      BY <3>1 DEF OpenInv
    <3> QED
      BY <3>1, <3>2 DEF Accepts, Current, eob_header_chksum_is_ok, Preamble
  <2> QED
    BY <2>4, <2>5
<1> QED
  BY <1>1, <1>2

LEMMA ReadStep ==
    TypeInv /\ ProtocolInv /\ ReadInv /\ OpenInv /\ [Next]_vars
        => ReadInv' /\ OpenInv'
<1> SUFFICES ASSUME TypeInv, ProtocolInv, ReadInv, OpenInv, [Next]_vars
             PROVE  ReadInv' /\ OpenInv'
  OBVIOUS
<1>0. CASE UNCHANGED vars
  BY <1>0 DEF vars, ReadInv, OpenInv, Quiet, Harmless, ReadAt, Accepts,
     Current, eob_header_chksum_is_ok, Preamble
<1>1. ASSUME NEW p \in Procs, BeginCommand(p)
      PROVE  ReadInv' /\ OpenInv'
  <2>1. ASSUME NEW c \in Commands, NEW label \in {"rgeo", "wgeo"}, NEW h,
               Begin(p, c, label, h), label = "wgeo" => c.op # "open"
        PROVE  ReadInv' /\ OpenInv'
    <3>1. Aside(p) /\ pc'[p] = label /\ cmd'[p] = c
      BY <2>1, BeginAside
    <3>2. ReadAt(pc'[p], buf'[p])
      BY <3>1 DEF ReadAt
    <3> QED
      BY <2>1, <3>1, <3>2, AsideReads
  <2>2. CASE eob_hdr_init(p)
    BY <2>1, <2>2 DEF eob_hdr_init
  <2>3. CASE eob_hdr_deinit(p)
    BY <2>1, <2>3 DEF eob_hdr_deinit
  <2>4. CASE BeginRead(p)
    BY <2>1, <2>4 DEF BeginRead
  <2>5. CASE eob_hdr_init_abort(p)
    BY <2>5 DEF eob_hdr_init_abort, ReadInv, OpenInv, Quiet, Harmless, ReadAt,
       Accepts, Current, eob_header_chksum_is_ok, Preamble
  <2> QED
    BY <1>1, <2>2, <2>3, <2>4, <2>5 DEF BeginCommand
<1>2. ASSUME NEW p \in Procs, Work(p)
      PROVE  ReadInv' /\ OpenInv'
  <2>h. buf[p] \in Header /\ disk \in Header /\ stable \in Header
    BY DEF TypeInv, TypeOK
  <2>q. Harmless => disk = stable
    BY QuietDisk
  <2>r. ASSUME NEW r, Return(p, r), pc[p] \notin PcWriting, UNCHANGED stable
        PROVE  ReadInv' /\ OpenInv'
    BY <2>r, ReturnAside, AsideReads
  <2>g. ASSUME NEW label \in PcAll \ PcWriting, NEW h, Goto(p, label, h),
               pc[p] \notin PcWriting, UNCHANGED history,
               Quiet(p) => ReadAt(label, h),
               (/\ label \in {"rewrite", "wgeo"} /\ Quiet(p)
                /\ cmd[p].op = "open" /\ ~cmd[p].force)
                  => ~Accepts(stable)
        PROVE  ReadInv' /\ OpenInv'
    <3>1. /\ Aside(p) /\ pc'[p] = label /\ buf'[p] = h /\ cmd'[p] = cmd[p]
          /\ window' = window
      BY <2>g, GotoAside
    <3>2. (window'[p] \subseteq {stable} /\ Harmless) <=> Quiet(p)
      BY <3>1 DEF Quiet
    <3> QED
      BY <2>g, <3>1, <3>2, AsideReads
  <2>l. /\ PcAll \ PcWriting = {"idle", "accepted", "rewrite", "wgeo", "rgeo",
                                "rtab", "rsum", "check"}
        /\ PcWriting = {"wtab", "wsum"}
    BY DEF PcAll, PcReading, PcWriting
  <2>w. \A h : ReadAt("wgeo", h) /\ ReadAt("rgeo", h)
    BY DEF ReadAt
  <2>1. CASE ReadGeo(p)
    <3>1. /\ pc'[p] = "rtab" /\ buf'[p] = [buf[p] EXCEPT !.geo = disk.geo]
          /\ window' = window /\ stable' = stable /\ cmd' = cmd
          /\ \A q \in Procs \ {p} : pc'[q] = pc[q] /\ buf'[q] = buf[q]
          /\ pc[p] = "rgeo"
      BY <2>1 DEF ReadGeo, TypeInv, TypeOK
    <3>2. Aside(p)
      BY <3>1 DEF Aside, PcWriting
    <3>3. Harmless => ReadAt("rtab", buf'[p])
      BY <2>h, <2>q, <3>1 DEF ReadAt, Header
    <3> QED
      BY <3>1, <3>2, <3>3, AsideReads
  <2>2. CASE ReadTab(p)
    <3> DEFINE h == [buf[p] EXCEPT !.tab = disk.tab]
    <3>1. h.geo = buf[p].geo /\ h.tab = disk.tab
      BY <2>h DEF Header
    <3>2. /\ Goto(p, "rsum", h) /\ UNCHANGED history /\ pc[p] = "rtab"
      BY <2>2 DEF ReadTab
    <3> HIDE DEF h
    <3>3. Quiet(p) => ReadAt("rsum", h)
      BY <2>q, <3>1, <3>2 DEF ReadInv, ReadAt, Quiet
    <3> QED
      BY <2>g, <2>l, <3>2, <3>3
  <2>3. CASE ReadSum(p)
    <3> DEFINE h == [buf[p] EXCEPT !.sum = disk.sum]
    <3>1. h \in Header /\ h.geo = buf[p].geo /\ h.tab = buf[p].tab /\ h.sum = disk.sum
      BY <2>h DEF Header
    <3>2. /\ Goto(p, "check", h) /\ UNCHANGED history /\ pc[p] = "rsum"
      BY <2>3 DEF ReadSum
    <3> HIDE DEF h
    <3>3. ASSUME Quiet(p)
          PROVE  h = stable
      <4>1. h.geo = stable.geo /\ h.tab = stable.tab /\ h.sum = stable.sum
        BY <2>q, <3>1, <3>2, <3>3 DEF ReadInv, ReadAt, Quiet
      <4> QED
        BY <2>h, <3>1, <4>1 DEF Header
    <3>4. Quiet(p) => ReadAt("check", h)
      BY <3>3 DEF ReadAt
    <3> QED
      BY <2>g, <2>l, <3>2, <3>4
  <2>4. CASE ReadFail(p)
    BY <2>4, <2>r, <2>l DEF ReadFail
  <2>5. CASE ReadAccept(p)
    <3>1. /\ Goto(p, "accepted", buf[p]) /\ UNCHANGED history /\ pc[p] = "check"
      BY <2>5 DEF ReadAccept
    <3>2. Quiet(p) => ReadAt("accepted", buf[p])
      BY <3>1 DEF ReadInv, ReadAt
    <3> QED
      BY <2>g, <2>l, <3>1, <3>2
  <2>6. CASE ReadAgain(p)
    BY <2>6, <2>g, <2>l, <2>w DEF ReadAgain
  <2>7. CASE ReadGivesUp(p)
    <3>1. pc[p] = "check" /\ ~Accepts(buf[p])
      BY <2>7 DEF ReadGivesUp
    <3>2. Quiet(p) => buf[p] = stable
      BY <3>1 DEF ReadInv, ReadAt
    <3>3. CASE Goto(p, "rewrite", buf[p]) /\ UNCHANGED history
      <4>1. Quiet(p) => ReadAt("rewrite", buf[p])
        BY <3>2 DEF ReadAt
      <4> QED
        BY <2>g, <2>l, <3>1, <3>2, <3>3, <4>1
    <3>4. CASE Return(p, ReadError(p)) /\ UNCHANGED <<stable, granted, acked, started>>
      BY <2>r, <2>l, <3>1, <3>4
    <3> QED
      BY <2>7, <3>3, <3>4 DEF ReadGivesUp
  <2>8. CASE eob_hdr_dump(p)
    BY <2>8, <2>r, <2>l DEF eob_hdr_dump
  <2>9. ASSUME NEW h, pc[p] = "accepted", WriteOrAbort(p, h), cmd[p].op # "open"
        PROVE  ReadInv' /\ OpenInv'
    <3>1. CASE Goto(p, "wgeo", h) /\ UNCHANGED history
      BY <2>9, <2>g, <2>l, <2>w, <3>1
    <3>2. CASE Return(p, "abort") /\ UNCHANGED <<stable, granted, acked, started>>
      BY <2>9, <2>r, <2>l, <3>2
    <3> QED
      BY <2>9, <3>1, <3>2 DEF WriteOrAbort
  <2>10. CASE eob_hdr_add_device(p)
    BY <2>9, <2>10 DEF eob_hdr_add_device
  <2>11. CASE eob_hdr_add_device_refused(p)
    BY <2>11, <2>r, <2>l DEF eob_hdr_add_device_refused
  <2>12. CASE eob_hdr_rem_device(p)
    BY <2>9, <2>12 DEF eob_hdr_rem_device
  <2>13. CASE eob_hdr_rem_device_absent(p)
    BY <2>13, <2>r, <2>l DEF eob_hdr_rem_device_absent
  <2>14. CASE eob_device_init_hdr(p)
    BY <2>14, <2>r, <2>l DEF eob_device_init_hdr
  <2>15. CASE eob_device_init_hdr_rewrite(p)
    <3>1. /\ Goto(p, "wgeo", RewrittenHeader(cmd[p], buf[p]))
          /\ UNCHANGED history
          /\ \/ pc[p] = "rewrite"
             \/ pc[p] = "accepted" /\ cmd[p].force
      BY <2>15 DEF eob_device_init_hdr_rewrite
    <3>2. (Quiet(p) /\ cmd[p].op = "open" /\ ~cmd[p].force) => ~Accepts(stable)
      BY <3>1 DEF OpenInv
    <3> QED
      BY <2>g, <2>l, <2>w, <3>1, <3>2
  <2>16. CASE WriteGeo(p) \/ WriteTab(p) \/ WriteSum(p)
    BY <2>16, WriteReads
  <2>17. CASE WriteFail(p)
    BY <2>17, <2>r, <2>l DEF WriteFail
  <2> QED
    BY <1>2, <2>1, <2>2, <2>3, <2>4, <2>5, <2>6, <2>7, <2>8, <2>10, <2>11, <2>12,
       <2>13, <2>14, <2>15, <2>16, <2>17 DEF Work
<1> QED
  BY <1>0, <1>1, <1>2 DEF Next

LEMMA ReadsFollow == Spec => [](TypeInv /\ ProtocolInv /\ ReadInv /\ OpenInv)
<1>1. Init => ReadInv /\ OpenInv
  BY DEF Init, ReadInv, OpenInv
<1>2. TypeInv /\ ProtocolInv /\ ReadInv /\ OpenInv /\ [Next]_vars
          => ReadInv' /\ OpenInv'
  BY ReadStep
<1> QED
  BY <1>1, <1>2, Protocol, PTL DEF Spec

(* An open without force that finishes a rewrite has seen a bad header or two
   different ones since it began, whatever the interleaving: max_pass reads
   torn by writers never make it replace a header that stays. *)
THEOREM OpensKeepHeaders == Spec => UndisturbedOpenKeepsHeader
<1>1. ASSUME TypeInv, ProtocolInv, OpenInv, NEW p \in Procs,
             pc[p] = "wsum", cmd[p].op = "open", ~cmd[p].force
      PROVE  \/ \E h \in window[p] : ~Accepts(h)
             \/ \E g, h \in window[p] : g # h
  <2>1. stable \in window[p]
    BY <1>1 DEF ProtocolInv, WindowInv
  <2>2. window[p] \subseteq {stable} => ~Accepts(stable)
    BY <1>1 DEF OpenInv, PcWriting
  <2> QED
    BY <2>1, <2>2
<1>2. TypeInv /\ ProtocolInv /\ OpenInv /\ [Next]_vars
        => [\A p \in Procs :
              pc[p] = "wsum" /\ pc'[p] = "idle" /\ cmd[p].op = "open" /\ ~cmd[p].force
              => \/ \E h \in window[p] : ~Accepts(h)
                 \/ \E g, h \in window[p] : g # h]_vars
  BY <1>1
<1> QED
  BY <1>2, ReadsFollow, PTL DEF Spec, UndisturbedOpenKeepsHeader

-----------------------------------------------------------------------------
(* Commands one after the other *)

OneProcess == \A p, q \in Procs : p = q

(* What the command c may be about to write: the last complete table with its
   own change. *)
WriteAt(c, h) ==
    /\ c.op # "dump"
    /\ c.op = "add" => /\ c.node \in Slots
                       /\ h.tab = [stable.tab EXCEPT ![c.node] = c.ip]
                       /\ ~c.force => stable.tab[c.node] = Absent
    /\ c.op = "rem" => \/ h.tab = stable.tab /\ c.node \notin Slots
                       \/ /\ c.node \in Slots
                          /\ h.tab = [stable.tab EXCEPT ![c.node] = Absent]
    /\ c.op = "open" => h.tab = stable.tab

(* The adds that were reported OK are in the table. *)
AckInv == \A a \in acked : a[1] \in Slots /\ stable.tab[a[1]] = a[2]

(* The only process finds one header during its command, and writes what the
   command is for. *)
AloneInv ==
    \A p \in Procs :
        /\ window[p] \subseteq {stable}
        /\ pc[p] = "rewrite" => cmd[p].op = "open"
        /\ pc[p] \in {"wgeo"} \cup PcWriting => WriteAt(cmd[p], buf[p])

SerialInv == AckInv /\ AloneInv

(* The one process that has read has what is on the device. *)
LEMMA ReadAlone ==
    ASSUME OneProcess, ReadInv, AloneInv, NEW p \in Procs,
           pc[p] \in {"accepted", "rewrite"}
    PROVE  buf[p] = stable
<1>1. \A q \in Procs : q = p
  BY DEF OneProcess
<1>2. Harmless
  BY <1>1 DEF Harmless, PcWriting
<1>3. Quiet(p)
  BY <1>2 DEF Quiet, AloneInv
<1> QED
  BY <1>3 DEF ReadInv, ReadAt

(* Returning without a write, going on outside a write. *)
LEMMA ReturnAlone ==
    ASSUME TypeInv, OneProcess, SerialInv, NEW p \in Procs, NEW r, Return(p, r),
           UNCHANGED stable, acked' \subseteq acked
    PROVE  SerialInv'
<1>1. \A q \in Procs : q = p
  BY DEF OneProcess
<1>2. pc'[p] = "idle" /\ window'[p] = {}
  BY DEF Return, TypeInv, TypeOK
<1>3. AckInv'
  BY DEF SerialInv, AckInv
<1>4. AloneInv'
  BY <1>1, <1>2 DEF AloneInv, PcWriting
<1> QED
  BY <1>3, <1>4 DEF SerialInv

LEMMA GotoAlone ==
    ASSUME TypeInv, OneProcess, SerialInv, NEW p \in Procs, NEW label, NEW h,
           Goto(p, label, h), UNCHANGED history,
           label = "rewrite" => cmd[p].op = "open",
           label \in {"wgeo"} \cup PcWriting => WriteAt(cmd[p], h)
    PROVE  SerialInv'
<1>1. \A q \in Procs : q = p
  BY DEF OneProcess
<1>2. pc'[p] = label /\ buf'[p] = h /\ cmd' = cmd /\ window' = window /\ stable' = stable
  BY DEF Goto, history, TypeInv, TypeOK
<1>3. AckInv'
  BY DEF SerialInv, AckInv, history
<1>4. AloneInv'
  BY <1>1, <1>2 DEF SerialInv, AloneInv, WriteAt
<1> QED
  BY <1>3, <1>4 DEF SerialInv

LEMMA BeginAlone ==
    ASSUME TypeInv, OneProcess, SerialInv, NEW p \in Procs, NEW c, NEW label,
           NEW h, Begin(p, c, label, h), label \in {"rgeo", "wgeo"},
           label = "wgeo" => c.op \in {"init", "deinit"}
    PROVE  SerialInv'
<1>1. \A q \in Procs : q = p
  BY DEF OneProcess
<1>2. /\ pc'[p] = label /\ cmd'[p] = c /\ window'[p] = {stable}
      /\ stable' = stable /\ acked' = acked
  BY DEF Begin, TypeInv, TypeOK
<1>3. AckInv'
  BY <1>2 DEF SerialInv, AckInv
<1>4. AloneInv'
  BY <1>1, <1>2 DEF AloneInv, WriteAt, PcWriting
<1> QED
  BY <1>3, <1>4 DEF SerialInv

(* The end of a write: the adds that hold are the ones counted. *)
LEMMA WriteSumAlone ==
    ASSUME TypeInv, OneProcess, SerialInv, NEW p \in Procs, WriteSum(p)
    PROVE  SerialInv'
<1>1. \A q \in Procs : q = p
  BY DEF OneProcess
<1>2. PICK r \in {"OK", "IO"} : acked' = AckedAfter(p, r)
  BY DEF WriteSum
<1>3. stable' = buf[p] /\ pc'[p] = "idle" /\ window'[p] = {}
  BY DEF WriteSum, TypeInv, TypeOK
<1>4. AloneInv'
  BY <1>1, <1>3 DEF AloneInv, PcWriting
<1>5. WriteAt(cmd[p], buf[p])
  BY DEF WriteSum, SerialInv, AloneInv, PcWriting
<1>6. stable.tab \in [Slots -> Entry] /\ cmd[p] \in Cmd
  BY DEF TypeInv, TypeOK, Header
<1>7. AckInv'
  <2>0. \A a \in acked : a[1] \in Slots /\ stable.tab[a[1]] = a[2]
    BY DEF SerialInv, AckInv
  <2>1. CASE cmd[p].op \in {"init", "deinit"}
    <3>1. acked' = {}
      BY <1>2, <2>1 DEF AckedAfter
    <3> QED
      BY <3>1 DEF AckInv
  <2>2. CASE cmd[p].op = "add"
    <3>1. acked' \subseteq Forget(cmd[p].node) \cup {<<cmd[p].node, cmd[p].ip>>}
      BY <1>2, <2>2 DEF AckedAfter
    <3>2. /\ cmd[p].node \in Slots
          /\ stable'.tab = [stable.tab EXCEPT ![cmd[p].node] = cmd[p].ip]
      BY <1>3, <1>5, <2>2 DEF WriteAt
    <3> QED
      BY <1>6, <2>0, <3>1, <3>2 DEF AckInv, Forget
  <2>3. CASE cmd[p].op = "rem"
    <3>1. acked' = Forget(cmd[p].node)
      BY <1>2, <2>3 DEF AckedAfter
    <3>2. \/ stable'.tab = stable.tab
          \/ /\ cmd[p].node \in Slots
             /\ stable'.tab = [stable.tab EXCEPT ![cmd[p].node] = Absent]
      BY <1>3, <1>5, <2>3 DEF WriteAt
    <3> QED
      BY <1>6, <2>0, <3>1, <3>2 DEF AckInv, Forget
  <2>4. CASE cmd[p].op = "open"
    <3>1. acked' = acked
      BY <1>2, <2>4 DEF AckedAfter
    <3>2. stable'.tab = stable.tab
      BY <1>3, <1>5, <2>4 DEF WriteAt
    <3> QED
      BY <2>0, <3>1, <3>2 DEF AckInv
  <2> QED
    BY <1>5, <1>6, <2>1, <2>2, <2>3, <2>4 DEF WriteAt, Cmd, Ops
<1> QED
  BY <1>4, <1>7 DEF SerialInv

LEMMA SerialStep ==
    ASSUME OneProcess
    PROVE  TypeInv /\ ReadInv /\ SerialInv /\ [Next]_vars => SerialInv'
<1> SUFFICES ASSUME TypeInv, ReadInv, SerialInv, [Next]_vars
             PROVE  SerialInv'
  OBVIOUS
<1>0. CASE UNCHANGED vars
  BY <1>0 DEF vars, SerialInv, AckInv, AloneInv, WriteAt
<1>1. ASSUME NEW p \in Procs, BeginCommand(p)
      PROVE  SerialInv'
  <2>1. CASE eob_hdr_init(p)
    BY <2>1, BeginAlone DEF eob_hdr_init
  <2>2. CASE eob_hdr_deinit(p)
    BY <2>2, BeginAlone DEF eob_hdr_deinit
  <2>3. CASE BeginRead(p)
    BY <2>3, BeginAlone DEF BeginRead
  <2>4. CASE eob_hdr_init_abort(p)
    BY <2>4 DEF eob_hdr_init_abort, SerialInv, AckInv, AloneInv, WriteAt
  <2> QED
    BY <1>1, <2>1, <2>2, <2>3, <2>4 DEF BeginCommand
<1>2. ASSUME NEW p \in Procs, Work(p)
      PROVE  SerialInv'
  <2>h. /\ buf[p] \in Header /\ stable \in Header /\ cmd[p] \in Cmd
        /\ pc[p] # "idle" => cmd[p] \in Commands
    BY DEF TypeInv, TypeOK, ControlInv
  <2>b. pc[p] \in {"accepted", "rewrite"} => buf[p] = stable
    BY ReadAlone DEF SerialInv
  <2>l. "rsum" \notin {"wgeo"} \cup PcWriting /\ "check" \notin {"wgeo"} \cup PcWriting
        /\ "accepted" \notin {"wgeo"} \cup PcWriting
        /\ "rgeo" \notin {"wgeo"} \cup PcWriting
        /\ "rewrite" \notin {"wgeo"} \cup PcWriting
    BY DEF PcWriting
  <2>1. CASE ReadGeo(p)
    <3>1. /\ pc'[p] = "rtab" /\ UNCHANGED <<stable, acked, window, cmd>>
          /\ \A q \in Procs : q = p
      BY <2>1 DEF ReadGeo, TypeInv, TypeOK, OneProcess
    <3> QED
      BY <3>1 DEF SerialInv, AckInv, AloneInv, PcWriting
  <2>2. CASE ReadTab(p)
    BY <2>2, <2>l, GotoAlone DEF ReadTab
  <2>3. CASE ReadSum(p)
    BY <2>3, <2>l, GotoAlone DEF ReadSum
  <2>4. CASE ReadFail(p)
    BY <2>4, ReturnAlone DEF ReadFail
  <2>5. CASE ReadAccept(p)
    BY <2>5, <2>l, GotoAlone DEF ReadAccept
  <2>6. CASE ReadAgain(p)
    BY <2>6, <2>l, GotoAlone DEF ReadAgain
  <2>7. CASE ReadGivesUp(p)
    <3>1. CASE cmd[p].op = "open" /\ Goto(p, "rewrite", buf[p]) /\ UNCHANGED history
      BY <2>l, <3>1, GotoAlone
    <3>2. CASE Return(p, ReadError(p)) /\ UNCHANGED <<stable, granted, acked, started>>
      BY <3>2, ReturnAlone
    <3> QED
      BY <2>7, <3>1, <3>2 DEF ReadGivesUp
  <2>8. CASE eob_hdr_dump(p)
    BY <2>8, ReturnAlone DEF eob_hdr_dump
  <2>9. ASSUME NEW h, WriteOrAbort(p, h), WriteAt(cmd[p], h)
        PROVE  SerialInv'
    <3>1. CASE Goto(p, "wgeo", h) /\ UNCHANGED history
      BY <2>9, <3>1, GotoAlone
    <3>2. CASE Return(p, "abort") /\ UNCHANGED <<stable, granted, acked, started>>
      BY <3>2, ReturnAlone
    <3> QED
      BY <2>9, <3>1, <3>2 DEF WriteOrAbort
  <2>10. CASE eob_hdr_add_device(p)
    <3>1. /\ pc[p] = "accepted" /\ cmd[p].op = "add"
          /\ ~AddRefused(cmd[p], stable)
          /\ WriteOrAbort(p, AddedHeader(cmd[p], stable))
      BY <2>b, <2>10 DEF eob_hdr_add_device
    <3>2. cmd[p].node \in Slots
      <4>1. cmd[p].node \in Slots \cup (-5 .. -1)
        BY <2>h, <3>1, HeaderInputs
      <4>2. ~(cmd[p].node < 0)
        BY <3>1 DEF AddRefused, NodeIdTooLarge
      <4> QED
        BY <4>1, <4>2
    <3>3. ~cmd[p].force => stable.tab[cmd[p].node] = Absent
      BY <3>1, <3>2 DEF AddRefused, EOB_NODE_IS_PRESENT
    <3>4. AddedHeader(cmd[p], stable).tab
            = [stable.tab EXCEPT ![cmd[p].node] = cmd[p].ip]
      BY <2>h, TablesWritten
    <3>5. WriteAt(cmd[p], AddedHeader(cmd[p], stable))
      BY <3>1, <3>2, <3>3, <3>4 DEF WriteAt
    <3> QED
      BY <2>9, <3>1, <3>5
  <2>11. CASE eob_hdr_add_device_refused(p)
    BY <2>11, ReturnAlone DEF eob_hdr_add_device_refused
  <2>12. CASE eob_hdr_rem_device(p)
    <3>1. /\ pc[p] = "accepted" /\ cmd[p].op = "rem"
          /\ WriteOrAbort(p, RemovedHeader(cmd[p], stable))
      BY <2>b, <2>12 DEF eob_hdr_rem_device
    <3>2. \/ RemovedHeader(cmd[p], stable).tab = stable.tab /\ cmd[p].node \notin Slots
          \/ /\ cmd[p].node \in Slots
             /\ RemovedHeader(cmd[p], stable).tab
                  = [stable.tab EXCEPT ![cmd[p].node] = Absent]
      BY <2>h, TablesWritten
    <3>3. WriteAt(cmd[p], RemovedHeader(cmd[p], stable))
      BY <3>1, <3>2 DEF WriteAt
    <3> QED
      BY <2>9, <3>1, <3>3
  <2>13. CASE eob_hdr_rem_device_absent(p)
    <3>1. acked' \subseteq acked /\ Return(p, "OK") /\ stable' = stable
      BY <2>13 DEF eob_hdr_rem_device_absent, Forget
    <3> QED
      BY <3>1, ReturnAlone
  <2>14. CASE eob_device_init_hdr(p)
    BY <2>14, ReturnAlone DEF eob_device_init_hdr
  <2>15. CASE eob_device_init_hdr_rewrite(p)
    <3>1. /\ Goto(p, "wgeo", RewrittenHeader(cmd[p], stable))
          /\ UNCHANGED history /\ cmd[p].op = "open"
      BY <2>b, <2>15 DEF eob_device_init_hdr_rewrite, SerialInv, AloneInv
    <3>2. RewrittenHeader(cmd[p], stable).tab = stable.tab
      BY <2>h, HeadersWritten
    <3>3. WriteAt(cmd[p], RewrittenHeader(cmd[p], stable))
      BY <3>1, <3>2 DEF WriteAt
    <3> QED
      BY <3>1, <3>3, GotoAlone
  <2>16. CASE WriteGeo(p) \/ WriteTab(p)
    <3>1. /\ pc'[p] \in PcWriting /\ pc[p] \in {"wgeo"} \cup PcWriting
          /\ UNCHANGED <<stable, acked, window, cmd, buf>>
          /\ \A q \in Procs : q = p
      BY <2>16 DEF WriteGeo, WriteTab, Disturb, TypeInv, TypeOK, OneProcess,
         PcWriting
    <3> QED
      BY <3>1 DEF SerialInv, AckInv, AloneInv, WriteAt, PcWriting
  <2>17. CASE WriteSum(p)
    BY <2>17, WriteSumAlone
  <2>18. CASE WriteFail(p)
    BY <2>18, ReturnAlone DEF WriteFail
  <2> QED
    BY <1>2, <2>1, <2>2, <2>3, <2>4, <2>5, <2>6, <2>7, <2>8, <2>10, <2>11, <2>12,
       <2>13, <2>14, <2>15, <2>16, <2>17, <2>18 DEF Work
<1> QED
  BY <1>0, <1>1, <1>2 DEF Next

LEMMA Serial ==
    ASSUME OneProcess
    PROVE  Spec => [](TypeInv /\ ProtocolInv /\ SerialInv)
<1>1. Init => SerialInv
  BY DEF Init, SerialInv, AckInv, AloneInv, PcWriting
<1>2. TypeInv /\ ReadInv /\ SerialInv /\ [Next]_vars => SerialInv'
  BY SerialStep
<1> QED
  BY <1>1, <1>2, ReadsFollow, PTL DEF Spec

(* With one process every add that was reported OK stays in the table until a
   command removes or replaces it: eob_hdr_add_device and the others lose
   updates only by running at once. *)
THEOREM SerialAddsHold ==
    ASSUME OneProcess
    PROVE  Spec => []AcknowledgedAddsHold
<1>1. SerialInv => AcknowledgedAddsHold
  BY DEF SerialInv, AckInv, AcknowledgedAddsHold
<1> QED
  BY <1>1, Serial, PTL

(* With one process an add without force never replaces a node. *)
THEOREM SerialAddsTakeFreeSlots ==
    ASSUME OneProcess
    PROVE  Spec => UnforcedAddTakesFreeSlot
<1>1. SerialInv /\ [Next]_vars
        => [\A p \in Procs :
              pc[p] = "wsum" /\ pc'[p] = "idle" /\ cmd[p].op = "add" /\ ~cmd[p].force
              => stable.tab[cmd[p].node] = Absent]_vars
  BY DEF SerialInv, AloneInv, WriteAt, PcWriting
<1> QED
  BY <1>1, Serial, PTL DEF Spec, UnforcedAddTakesFreeSlot
=============================================================================

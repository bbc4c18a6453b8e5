-------------------------- MODULE EobSysfs_proofs --------------------------
(***************************************************************************)
(* Proofs about EobSysfs, for any number of descriptors, interfaces,       *)
(* requests, writes and loads, with or without faults.                     *)
(***************************************************************************)
EXTENDS EobSysfs, TLAPS

-----------------------------------------------------------------------------
(* The inductive invariants *)

(* Where a write has an interface in hand. *)
Holding == {"file", "tail", "link", "open", "del", "unlink", "del kobj", "free"}

(* A write that is under way has a name; the interface it has in hand, and the
   neighbour it found, is memory that was given out before. *)
WriteOk(s, m) ==
    /\ s \in WriteStates
    /\ s.at # "idle" => s.name \in Names
    /\ s.at \in Holding => s.iface \in Ifaces
    /\ s.iface \in Ifaces => m[s.iface] # "unused"
    /\ s.to \in Ifaces => m[s.to] # "unused"

(* The list holds memory that was given out only, so that AddKobject never
   takes what the list, a directory or a write still points to. *)
LinksUsed ==
    \A i \in Ifaces \cup {ListHead} :
        next[i] \in Ifaces => mem[next[i]] # "unused"

TypeInv ==
    /\ TypeOK
    /\ prev[ListHead] # Poison
    /\ \A w \in Writers : WriteOk(store[w], mem)
    /\ LinksUsed

(* kobject_del comes before kfree, and an unload takes every directory. *)
DirInv ==
    /\ DirectoryIsLive
    /\ \A i \in dir : name[i] \in Names
    /\ \A w \in Writers : store[w].at = "free" => store[w].iface \notin dir
    /\ module # "in" => dir = {}

(* The list through the members of L: nx and pv are inverse to each other, and
   whoever follows nx from the head meets all of L. *)
SoundList(L, nx, pv) ==
    /\ \A i \in L \cup {ListHead} :
          /\ nx[i] \in L \cup {ListHead} /\ pv[i] \in L \cup {ListHead}
          /\ pv[nx[i]] = i /\ nx[pv[i]] = i
    /\ \A S \in SUBSET L :
          (\A i \in S \cup {ListHead} : nx[i] \in S \cup {ListHead}) => S = L

(* Where a write has its interface in sysfs and not on the list. *)
Unlisted == {"file", "tail", "link", "del kobj"}

LinkedIn(d, st) == d \ {st[w].iface : w \in {v \in Writers : st[v].at \in Unlisted}}

Linked == LinkedIn(dir, store)

(* What a write that nothing disturbs knows of the list. *)
Knows(w) ==
    LET s == store[w] IN
    /\ s.at \in Unlisted \cup {"open", "del", "unlink"} => s.iface \in dir
    /\ s.at = "free" => mem[s.iface] = "live"
    /\ s.at \in {"file", "tail", "link", "open"} => name[s.iface] = s.name
    /\ s.at = "link" => s.from = prev[ListHead]
    /\ s.at = "find" => s.from \in Linked \cup {ListHead}
    /\ s.at = "unlink" => s.from = prev[s.iface] /\ s.to = next[s.iface]

(* Undisturbed writes come one at a time, only while the module is loaded; the
   list is sound at each of their steps, and an interface on it has its net
   device as soon as the write that adds it has opened it. *)
CalmInv ==
    ~raced /\ ~failedOpen =>
        /\ crashed # "freed"
        /\ \A v, w \in Writers :
              store[v].at # "idle" /\ store[w].at # "idle" => v = w
        /\ module # "in" => \A w \in Writers : store[w].at = "idle"
        /\ \A w \in Writers : Knows(w)
        /\ module = "in" => SoundList(Linked, next, prev)
        /\ \A i \in Linked :
              \/ netdev[name[i]] # "none"
              \/ \E w \in Writers : store[w].at = "open" /\ store[w].iface = i

-----------------------------------------------------------------------------
(* Types *)

LEMMA Addresses == ListHead \notin Ifaces /\ Poison \notin Ifaces \cup {ListHead}
  BY SysfsConstants

LEMMA Bounds == MaxWrites \in Nat /\ MaxLoads \in Nat
  BY Zenon, SysfsConstants

LEMMA IdleOk == ASSUME NEW m PROVE WriteOk(Idle, m)
  BY Addresses DEF WriteOk, Idle, WriteStates, Pcs, Holding

(* The writes after one of them changed its state. *)
LEMMA StoreUpdate ==
    ASSUME TypeInv, NEW w \in Writers, NEW s, WriteOk(s, mem'),
           store' = [store EXCEPT ![w] = s],
           \A i \in Ifaces : mem[i] # "unused" => mem'[i] # "unused"
    PROVE  /\ store' \in [Writers -> WriteStates]
           /\ \A v \in Writers : WriteOk(store'[v], mem')
           /\ \A v \in Writers : store'[v].at # "idle" => store'[v].name \in Names
<1>1. store \in [Writers -> WriteStates]
  BY DEF TypeInv, TypeOK
<1>2. \A v \in Writers : WriteOk(store'[v], mem')
  <2> TAKE v \in Writers
  <2>1. CASE v = w
    BY <1>1, <2>1
  <2>2. CASE v # w
    <3>1. store'[v] = store[v] /\ WriteOk(store[v], mem)
      BY <1>1, <2>2 DEF TypeInv
    <3> QED
      BY <3>1 DEF WriteOk
  <2> QED
    BY <2>1, <2>2
<1>3. store' \in [Writers -> WriteStates]
  BY <1>1 DEF WriteOk
<1> QED
  BY <1>2, <1>3 DEF WriteOk

(* A crash changes nothing else. *)
LEMMA CrashType ==
    ASSUME TypeInv, NEW what \in Crashes, Crash(what)
    PROVE  TypeInv'
<1>1. TypeOK'
  BY DEF Crash, TypeInv, TypeOK
<1> QED
  BY <1>1 DEF Crash, TypeInv, LinksUsed

LEMMA TypeInit == Init => TypeInv
<1> SUFFICES ASSUME Init PROVE TypeInv
  OBVIOUS
<1>1. \A w \in Writers : store[w] = Idle /\ WriteOk(Idle, mem)
  BY IdleOk DEF Init
<1>2. store \in [Writers -> WriteStates]
  BY IdleOk DEF Init, WriteOk
<1>3. /\ name \in [Ifaces -> Names \cup {""}]
      /\ next \in [Ifaces \cup {ListHead} -> Ifaces \cup {ListHead, Poison}]
      /\ prev \in [Ifaces \cup {ListHead} -> Ifaces \cup {ListHead, Poison}]
      /\ mem \in [Ifaces -> {"unused", "live", "freed"}]
      /\ netdev \in [Names -> {"none", "down", "up"}]
      /\ reply \in [Writers -> Errors \cup {"OK", "none"}]
  BY DEF Init
<1>5. writes \in 0 .. MaxWrites /\ loads \in 0 .. MaxLoads
  <2>1. writes = 0 /\ loads = 0
    BY DEF Init
  <2> QED
    BY <2>1, Bounds
<1>6. \A w \in Writers : store[w].at # "idle" => store[w].name \in Names
  BY <1>1 DEF WriteOk
<1>7. TypeOK
  BY <1>2, <1>3, <1>5, <1>6 DEF Init, TypeOK
<1>4. LinksUsed
  BY Addresses DEF Init, LinksUsed
<1> QED
  BY <1>1, <1>7, <1>4, Addresses DEF Init, TypeInv

(* What every write step of the model leaves typed, once the state of the write
   is known. *)
LEMMA StepType ==
    ASSUME TypeInv, NEW w \in Writers, NEW s, WriteOk(s, mem'),
           store' = [store EXCEPT ![w] = s],
           \A i \in Ifaces : mem[i] # "unused" => mem'[i] # "unused",
           mem' \in [Ifaces -> {"unused", "live", "freed"}],
           name' \in [Ifaces -> Names \cup {""}],
           dir' \subseteq Ifaces,
           next' \in [Ifaces \cup {ListHead} -> Ifaces \cup {ListHead, Poison}],
           prev' \in [Ifaces \cup {ListHead} -> Ifaces \cup {ListHead, Poison}],
           prev'[ListHead] # Poison, LinksUsed',
           netdev' \in [Names -> {"none", "down", "up"}],
           reply' \in [Writers -> Errors \cup {"OK", "none"}],
           writes' \in 0 .. MaxWrites, UNCHANGED <<module, loads, crashed>>,
           raced' \in BOOLEAN, failedOpen' \in BOOLEAN
    PROVE  TypeInv'
<1>1. /\ store' \in [Writers -> WriteStates]
      /\ \A v \in Writers : WriteOk(store'[v], mem')
      /\ \A v \in Writers : store'[v].at # "idle" => store'[v].name \in Names
  BY StoreUpdate
<1>2. TypeOK'
  BY <1>1 DEF TypeOK, TypeInv
<1> QED
  BY <1>1, <1>2 DEF TypeInv

(* Every step of a write keeps the types. *)
LEMMA StoreStepType ==
    ASSUME TypeInv, NEW w \in Writers, StoreStep(w)
    PROVE  TypeInv'
<1> DEFINE s == store[w]
<1>t. s \in WriteStates /\ WriteOk(s, mem)
  BY DEF TypeInv, TypeOK
<1>f. "freed" \in Crashes /\ "BUG_ON" \in Crashes
  BY DEF Crashes
<1> USE Addresses
<1>1. CASE AddKobject(w)
  <2>1. CASE UNCHANGED <<mem, name, dir>> /\ \E res \in Errors : Return(w, res)
    <3>1. /\ store' = [store EXCEPT ![w] = Idle] /\ WriteOk(Idle, mem')
          /\ reply' \in [Writers -> Errors \cup {"OK", "none"}]
      BY <2>1, IdleOk DEF Return, TypeInv, TypeOK
    <3> QED
      BY <1>1, <2>1, <3>1, StepType DEF AddKobject, Constant, TypeInv, TypeOK, LinksUsed
  <2>2. ASSUME NEW i \in Ifaces, mem[i] = "unused",
               mem' = [mem EXCEPT ![i] = "live"],
               name' = [name EXCEPT ![i] = s.name],
               dir' = dir \cup {i},
               store' = [store EXCEPT ![w].at = "file", ![w].iface = i],
               UNCHANGED reply
        PROVE  TypeInv'
    <3>1. WriteOk([s EXCEPT !.at = "file", !.iface = i], mem')
      BY <1>t, <1>1, <2>2 DEF AddKobject, At, WriteOk, WriteStates, Pcs, TypeInv, TypeOK
    <3>2. store' = [store EXCEPT ![w] = [s EXCEPT !.at = "file", !.iface = i]]
      BY <2>2
    <3>3. /\ mem' \in [Ifaces -> {"unused", "live", "freed"}] /\ dir' \subseteq Ifaces
          /\ name' \in [Ifaces -> Names \cup {""}]
          /\ \A j \in Ifaces : mem[j] # "unused" => mem'[j] # "unused"
          /\ LinksUsed'
      BY <1>t, <1>1, <2>2 DEF AddKobject, TypeInv, TypeOK, LinksUsed, WriteStates
    <3> HIDE DEF s
    <3> QED
      BY <1>1, <2>2, <3>1, <3>2, <3>3, StepType DEF AddKobject, Constant, TypeInv, TypeOK
  <2> QED
    BY <1>1, <2>1, <2>2 DEF AddKobject, Errors
<1>2. CASE AddKobjectLeaving(w)
  <2>1. CASE Crash("freed")
    BY <1>f, <2>1, CrashType
  <2>2. CASE Return(w, "ENOENT") /\ UNCHANGED <<mem, name, dir, next, prev, netdev, failedOpen>> /\ Constant
    BY <2>2, IdleOk, StepType DEF Return, Constant, Errors, TypeInv, TypeOK, LinksUsed
  <2> QED
    BY <1>2, <2>1, <2>2 DEF AddKobjectLeaving
<1>3. CASE AddFile(w)
  <2>1. PICK t : WriteOk(t, mem) /\ store' = [store EXCEPT ![w] = t]
    <3>1. CASE Goto(w, "tail")
      BY <1>t, <1>3, <3>1 DEF AddFile, At, Goto, WriteOk, WriteStates, Pcs, Holding
    <3>2. CASE store' = [store EXCEPT ![w].at = "del kobj", ![w].res = "ENOMEM"]
      <4>1. WriteOk([s EXCEPT !.at = "del kobj", !.res = "ENOMEM"], mem)
        BY <1>t, <1>3 DEF AddFile, At, WriteOk, WriteStates, Pcs, Holding, Errors
      <4> QED
        BY <3>2, <4>1
    <3> QED
      BY <1>3, <3>1, <3>2 DEF AddFile
  <2> QED
    BY <1>3, <2>1, StepType DEF AddFile, Constant, TypeInv, TypeOK, LinksUsed
<1>4. CASE AddTail(w)
  <2>1. WriteOk([s EXCEPT !.at = "link", !.from = prev[ListHead]], mem)
    BY <1>t, <1>4 DEF AddTail, At, WriteOk, WriteStates, Pcs, Holding, TypeInv, TypeOK
  <2>2. store' = [store EXCEPT ![w] = [s EXCEPT !.at = "link", !.from = prev[ListHead]]]
    BY <1>4 DEF AddTail
  <2> HIDE DEF s
  <2> QED
    BY <1>4, <2>1, <2>2, StepType DEF AddTail, Constant, TypeInv, TypeOK, LinksUsed
<1>5. CASE AddLink(w)
  <2>1. CASE Freed(s.from)
    BY <1>5, <1>f, <2>1, CrashType DEF AddLink
  <2>2. CASE ~Freed(s.from)
    <3>1. WriteOk([s EXCEPT !.at = "open"], mem)
      BY <1>t, <1>5 DEF AddLink, At, WriteOk, WriteStates, Pcs, Holding
    <3>2. store' = [store EXCEPT ![w] = [s EXCEPT !.at = "open"]]
      BY <1>5, <2>2 DEF AddLink, Goto
    <3>3. s.iface \in Ifaces /\ s.from \in Ifaces \cup {ListHead} /\ mem[s.iface] # "unused"
      BY <1>t, <1>5 DEF AddLink, At, WriteOk, WriteStates, Holding
    <3>4. /\ next' = [next EXCEPT ![s.iface] = ListHead, ![s.from] = s.iface]
          /\ prev' = [prev EXCEPT ![s.iface] = s.from, ![ListHead] = s.iface]
          /\ UNCHANGED <<mem, name, dir, netdev, reply, failedOpen, module, writes, loads, crashed, raced>>
      BY <1>5, <2>2 DEF AddLink, Constant
    <3>5. /\ next' \in [Ifaces \cup {ListHead} -> Ifaces \cup {ListHead, Poison}]
          /\ prev' \in [Ifaces \cup {ListHead} -> Ifaces \cup {ListHead, Poison}]
          /\ prev'[ListHead] # Poison /\ LinksUsed'
      BY <3>3, <3>4 DEF TypeInv, TypeOK, LinksUsed
    <3> HIDE DEF s
    <3> QED
      BY <3>1, <3>2, <3>4, <3>5, StepType DEF TypeInv, TypeOK
  <2> QED
    BY <2>1, <2>2
<1>6. CASE eob_device_open(w)
  <2>1. CASE NameLen[s.name] >= IFNAMSIZ
    BY <1>6, <1>f, <2>1, CrashType DEF eob_device_open
  <2>2. CASE ~(NameLen[s.name] >= IFNAMSIZ)
    <3>1. PICK t : WriteOk(t, mem) /\ store' = [store EXCEPT ![w] = t]
      <4>1. WriteOk([s EXCEPT !.at = "del kobj", !.res = "ENODEV"], mem)
        BY <1>t, <1>6 DEF eob_device_open, At, WriteOk, WriteStates, Pcs, Holding, Errors
      <4> QED
        BY <1>6, <2>2, <4>1, IdleOk DEF eob_device_open, Return
    <3>2. /\ netdev' \in [Names -> {"none", "down", "up"}] /\ failedOpen' \in BOOLEAN
          /\ reply' \in [Writers -> Errors \cup {"OK", "none"}]
      BY <1>6, <2>2 DEF eob_device_open, Return, TypeInv, TypeOK
    <3>3. UNCHANGED <<mem, name, dir, next, prev, module, writes, loads, crashed, raced>>
      BY <1>6, <2>2 DEF eob_device_open, Constant
    <3> QED
      BY <3>1, <3>2, <3>3, StepType DEF TypeInv, TypeOK, LinksUsed
  <2> QED
    BY <2>1, <2>2
<1>7. CASE Find(w)
  <2> DEFINE j == next[s.from]
  <2>1. CASE Freed(s.from) \/ j = Poison \/ (j # Poison /\ Freed(j))
    BY <1>7, <1>f, <2>1, CrashType DEF Find
  <2>2. CASE ~(Freed(s.from) \/ j = Poison \/ (j # Poison /\ Freed(j)))
    <3>1. j \in Ifaces \cup {ListHead} /\ (j \in Ifaces => mem[j] # "unused")
      BY <1>t, <2>2 DEF TypeInv, TypeOK, LinksUsed, WriteStates
    <3>2. PICK t : WriteOk(t, mem) /\ store' = [store EXCEPT ![w] = t]
      <4>1. j # ListHead => /\ WriteOk([s EXCEPT !.at = "del", !.iface = j], mem)
                            /\ WriteOk([s EXCEPT !.from = j], mem)
        BY <1>t, <1>7, <3>1 DEF Find, At, WriteOk, WriteStates, Pcs, Holding
      <4> QED
        BY <1>7, <2>2, <4>1, IdleOk DEF Find, Return
    <3>3. reply' \in [Writers -> Errors \cup {"OK", "none"}]
      BY <1>7, <2>2 DEF Find, Return, Errors, TypeInv, TypeOK
    <3>4. UNCHANGED <<mem, name, dir, next, prev, netdev, failedOpen, module, writes, loads, crashed, raced>>
      BY <1>7, <2>2 DEF Find, Constant
    <3> QED
      BY <3>2, <3>3, <3>4, StepType DEF TypeInv, TypeOK, LinksUsed
  <2> QED
    BY <2>1, <2>2
<1>8. CASE DelRead(w)
  <2>1. CASE Freed(s.iface) \/ Poison \in {next[s.iface], prev[s.iface]}
    BY <1>8, <1>f, <2>1, CrashType DEF DelRead
  <2>2. CASE ~(Freed(s.iface) \/ Poison \in {next[s.iface], prev[s.iface]})
    <3> DEFINE t == [s EXCEPT !.at = "unlink", !.from = prev[s.iface], !.to = next[s.iface]]
    <3>1. WriteOk(t, mem)
      BY <1>t, <1>8, <2>2 DEF DelRead, At, WriteOk, WriteStates, Pcs, Holding, TypeInv, TypeOK, LinksUsed
    <3>2. store' = [store EXCEPT ![w] = t]
      BY <1>8, <2>2 DEF DelRead
    <3>3. UNCHANGED <<mem, name, dir, next, prev, netdev, failedOpen, module, writes, loads, crashed, raced>> /\ UNCHANGED reply
      BY <1>8, <2>2 DEF DelRead, Constant
    <3> HIDE DEF t
    <3> QED
      BY <3>1, <3>2, <3>3, StepType DEF TypeInv, TypeOK, LinksUsed
  <2> QED
    BY <2>1, <2>2
<1>9. CASE DelUnlink(w)
  <2>1. CASE Freed(s.from) \/ Freed(s.to) \/ Freed(s.iface)
    BY <1>9, <1>f, <2>1, CrashType DEF DelUnlink
  <2>2. CASE ~(Freed(s.from) \/ Freed(s.to) \/ Freed(s.iface))
    <3> DEFINE t == [s EXCEPT !.at = "del kobj"]
    <3>1. WriteOk(t, mem)
      BY <1>t, <1>9 DEF DelUnlink, At, WriteOk, WriteStates, Pcs, Holding
    <3>2. store' = [store EXCEPT ![w] = t]
      BY <1>9, <2>2 DEF DelUnlink, Goto
    <3>3. /\ s.iface \in Ifaces /\ s.from \in Ifaces \cup {ListHead}
          /\ s.to \in Ifaces \cup {ListHead} /\ (s.to \in Ifaces => mem[s.to] # "unused")
      BY <1>t, <1>9 DEF DelUnlink, At, WriteOk, WriteStates, Holding
    <3>4. /\ next' = [next EXCEPT ![s.from] = s.to, ![s.iface] = Poison]
          /\ prev' = [prev EXCEPT ![s.to] = s.from, ![s.iface] = Poison]
          /\ UNCHANGED <<mem, name, dir, netdev, reply, failedOpen, module, writes, loads, crashed, raced>>
      BY <1>9, <2>2 DEF DelUnlink, Constant
    <3>5. /\ next' \in [Ifaces \cup {ListHead} -> Ifaces \cup {ListHead, Poison}]
          /\ prev' \in [Ifaces \cup {ListHead} -> Ifaces \cup {ListHead, Poison}]
          /\ prev'[ListHead] # Poison /\ LinksUsed'
      BY <3>3, <3>4 DEF TypeInv, TypeOK, LinksUsed
    <3> HIDE DEF t
    <3> QED
      BY <3>1, <3>2, <3>4, <3>5, StepType DEF TypeInv, TypeOK
  <2> QED
    BY <2>1, <2>2
<1>10. CASE KobjectDel(w)
  <2>1. CASE Freed(s.iface)
    BY <1>10, <1>f, <2>1, CrashType DEF KobjectDel
  <2>2. CASE ~Freed(s.iface)
    <3>1. WriteOk([s EXCEPT !.at = "free"], mem)
      BY <1>t, <1>10 DEF KobjectDel, At, WriteOk, WriteStates, Pcs, Holding
    <3>2. store' = [store EXCEPT ![w] = [s EXCEPT !.at = "free"]] /\ dir' \subseteq Ifaces
      BY <1>10, <2>2 DEF KobjectDel, Goto, TypeInv, TypeOK
    <3>3. UNCHANGED <<mem, name, next, prev, netdev, reply, failedOpen, module, writes, loads, crashed, raced>>
      BY <1>10, <2>2 DEF KobjectDel, Constant
    <3> QED
      BY <3>1, <3>2, <3>3, StepType DEF TypeInv, TypeOK, LinksUsed
  <2> QED
    BY <2>1, <2>2
<1>11. CASE Free(w)
  <2>1. CASE Freed(s.iface)
    BY <1>11, <1>f, <2>1, CrashType DEF Free
  <2>2. CASE ~Freed(s.iface)
    <3>1. /\ store' = [store EXCEPT ![w] = Idle] /\ WriteOk(Idle, mem')
          /\ reply' = [reply EXCEPT ![w] = s.res]
          /\ mem' = [mem EXCEPT ![s.iface] = "freed"]
          /\ UNCHANGED <<dir, name, next, prev, netdev, failedOpen, module, writes, loads, crashed, raced>>
      BY <1>11, <2>2, IdleOk DEF Free, Return, Constant
    <3>2. s.iface \in Ifaces /\ s.res \in Errors \cup {"OK"}
      BY <1>11, <1>t DEF Free, At, WriteOk, WriteStates, Holding
    <3>3. /\ mem' \in [Ifaces -> {"unused", "live", "freed"}] /\ LinksUsed'
          /\ \A j \in Ifaces : mem[j] # "unused" => mem'[j] # "unused"
          /\ reply' \in [Writers -> Errors \cup {"OK", "none"}]
      BY <3>1, <3>2 DEF TypeInv, TypeOK, LinksUsed
    <3> QED
      BY <3>1, <3>3, StepType DEF TypeInv, TypeOK
  <2> QED
    BY <2>1, <2>2
<1> QED
  BY <1>1, <1>2, <1>3, <1>4, <1>5, <1>6, <1>7, <1>8, <1>9, <1>10, <1>11 DEF StoreStep

(* What the parser lets through has a name. *)
LEMMA RequestName ==
    ASSUME NEW r \in Requests, eoblock_iface_mgmt_cb(r) \in {"add", "del"}
    PROVE  r.name \in Names
<1>1. r.name \in Names \cup {""}
  BY Zenon, SysfsConstants
<1>2. r.name = "" => eoblock_iface_mgmt_cb(r) = "EINVAL"
  BY DEF eoblock_iface_mgmt_cb
<1> QED
  BY <1>1, <1>2

(* A write to mgmt begins: it ends at once, or has a name and nothing else. *)
LEMMA StoreBegins ==
    ASSUME NEW w \in Writers, NEW r \in Requests, eoblock_iface_mgmt_store(w, r)
    PROVE  /\ \/ store' = [store EXCEPT ![w] = Idle]
              \/ \E at \in {"add", "find"} :
                    /\ r.name \in Names
                    /\ store' = [store EXCEPT ![w] =
                                    [Idle EXCEPT !.at = at, !.name = r.name]]
           /\ \/ UNCHANGED reply
              \/ \E res \in Errors : reply' = [reply EXCEPT ![w] = res]
<1> DEFINE what == eoblock_iface_mgmt_cb(r)
<1>1. CASE \E res \in {"EINVAL", "ENOMEM"} : Return(w, res)
  BY <1>1 DEF Return, Errors
<1>2. CASE what = "add" /\ UNCHANGED reply
           /\ store' = [store EXCEPT ![w] = [Idle EXCEPT !.at = "add", !.name = r.name]]
  BY <1>2, RequestName
<1>3. CASE what = "del" /\ UNCHANGED reply
           /\ store' = [store EXCEPT ![w] = [Idle EXCEPT !.at = "find", !.name = r.name]]
  BY <1>3, RequestName
<1> HIDE DEF what
<1> QED
  BY <1>1, <1>2, <1>3 DEF eoblock_iface_mgmt_store, what

LEMMA TypeStep == TypeInv /\ [Next]_vars => TypeInv'
<1> SUFFICES ASSUME TypeInv, [Next]_vars PROVE TypeInv'
  OBVIOUS
<1> USE Addresses
<1>0. CASE UNCHANGED vars
  <2>1. TypeOK'
    BY <1>0 DEF vars, TypeInv, TypeOK
  <2> QED
    BY <1>0, <2>1 DEF vars, TypeInv, LinksUsed
<1>1. ASSUME NEW w \in Writers, StoreStep(w)
      PROVE  TypeInv'
  BY <1>1, StoreStepType
<1>2. ASSUME NEW w \in Writers, NEW r \in Requests, eoblock_iface_mgmt_store(w, r)
      PROVE  TypeInv'
  <2>1. PICK t : WriteOk(t, mem) /\ store' = [store EXCEPT ![w] = t]
    <3>1. ASSUME NEW at \in {"add", "find"}, r.name \in Names
          PROVE  WriteOk([Idle EXCEPT !.at = at, !.name = r.name], mem)
      BY <3>1 DEF WriteOk, Idle, WriteStates, Pcs, Holding
    <3> QED
      BY <1>2, <3>1, IdleOk, StoreBegins
  <2>2. reply' \in [Writers -> Errors \cup {"OK", "none"}]
    <3>1. UNCHANGED reply \/ \E res \in Errors : reply' = [reply EXCEPT ![w] = res]
      BY <1>2, StoreBegins
    <3> QED
      BY <3>1 DEF TypeInv, TypeOK
  <2>3. writes' \in 0 .. MaxWrites
    <3>1. writes < MaxWrites /\ writes' = writes + 1
      BY <1>2 DEF eoblock_iface_mgmt_store
    <3>2. writes \in 0 .. MaxWrites
      BY DEF TypeInv, TypeOK
    <3> QED
      BY <3>1, <3>2, Bounds
  <2>4. raced' \in BOOLEAN
    <3>1. raced' = (raced \/ module = "leaving" \/ \E v \in Writers : store[v].at # "idle")
      BY <1>2 DEF eoblock_iface_mgmt_store
    <3> QED
      BY <3>1
  <2>5. UNCHANGED <<module, mem, name, dir, next, prev, netdev, loads, crashed, failedOpen>>
    BY <1>2 DEF eoblock_iface_mgmt_store
  <2> QED
    BY <2>1, <2>2, <2>3, <2>4, <2>5, StepType DEF TypeInv, TypeOK, LinksUsed
<1>3. ASSUME NEW n \in Names,
             eob_net_device_open(n) \/ eob_device_release(n) \/ Transmit(n)
      PROVE  TypeInv'
  <2>1. CASE \E what \in Crashes : Crash(what)
    BY <2>1, CrashType
  <2>2. CASE NetOnly /\ netdev' \in [Names -> {"none", "down", "up"}]
    <3>1. TypeOK'
      BY <2>2 DEF NetOnly, TypeInv, TypeOK
    <3> QED
      BY <2>2, <3>1 DEF NetOnly, TypeInv, LinksUsed
  <2> QED
    BY <1>3, <2>1, <2>2 DEF eob_net_device_open, eob_device_release, Transmit, Crashes, TypeInv, TypeOK
<1>4. CASE oeblock_init
  <2>1. /\ next' \in [Ifaces \cup {ListHead} -> Ifaces \cup {ListHead, Poison}]
        /\ prev' \in [Ifaces \cup {ListHead} -> Ifaces \cup {ListHead, Poison}]
        /\ prev'[ListHead] # Poison /\ LinksUsed'
    BY <1>4 DEF oeblock_init, LinksUsed
  <2>2. loads' \in 0 .. MaxLoads /\ module' \in {"out", "in", "leaving"}
    <3>1. loads < MaxLoads /\ loads' = loads + 1 /\ module' = "in"
      BY <1>4 DEF oeblock_init
    <3>2. loads \in 0 .. MaxLoads
      BY DEF TypeInv, TypeOK
    <3> QED
      BY <3>1, <3>2, Bounds
  <2>3. TypeOK'
    BY <1>4, <2>1, <2>2 DEF oeblock_init, TypeInv, TypeOK
  <2> QED
    BY <1>4, <2>1, <2>3 DEF oeblock_init, TypeInv
<1>5. CASE eoblock_sysfs_cleanup
  <2>1. TypeOK'
    BY <1>5 DEF eoblock_sysfs_cleanup, TypeInv, TypeOK
  <2> QED
    BY <1>5, <2>1 DEF eoblock_sysfs_cleanup, TypeInv, LinksUsed
<1>6. CASE oeblock_exit
  <2>1. TypeOK'
    BY <1>6 DEF oeblock_exit, TypeInv, TypeOK
  <2> QED
    BY <1>6, <2>1 DEF oeblock_exit, TypeInv, LinksUsed
<1> QED
  BY <1>0, <1>1, <1>2, <1>3, <1>4, <1>5, <1>6 DEF Next

(* The state of the module, of its interfaces and of every write to mgmt is
   well formed, however the writes, the net devices and loading interleave. *)
THEOREM TypeCorrect == Spec => []TypeOK
<1>1. Spec => []TypeInv
  BY TypeInit, TypeStep, PTL DEF Spec
<1>2. TypeInv => TypeOK
  BY DEF TypeInv
<1> QED
  BY <1>1, <1>2, PTL

-----------------------------------------------------------------------------
(* Directories *)

(* A step of a write changes the state of no other write. *)
LEMMA OthersStay ==
    ASSUME TypeInv, NEW w \in Writers, StoreStep(w), NEW v \in Writers, v # w
    PROVE  store'[v] = store[v]
<1>s. store \in [Writers -> WriteStates]
  BY DEF TypeInv, TypeOK
<1>1. CASE \E t : store' = [store EXCEPT ![w] = t]
  BY <1>s, <1>1
<1>2. CASE store' = store
  BY <1>2
<1> QED
  BY <1>1, <1>2
  DEF StoreStep, AddKobject, AddKobjectLeaving, AddFile, AddTail, AddLink,
      eob_device_open, Find, DelRead, DelUnlink, KobjectDel, Free,
      Return, Goto, Crash

(* A step that leaves memory and directories alone, and brings no write to its
   kfree. *)
LEMMA DirFrame ==
    ASSUME DirInv, UNCHANGED <<mem, name, dir, module>>,
           \A v \in Writers : store'[v].at = "free" => store'[v] = store[v]
    PROVE  DirInv'
  BY DEF DirInv, DirectoryIsLive

LEMMA DirInit == Init => DirInv
  BY DEF Init, DirInv, DirectoryIsLive, Idle

LEMMA DirStep == TypeInv /\ DirInv /\ [Next]_vars => DirInv'
<1> SUFFICES ASSUME TypeInv, DirInv, [Next]_vars PROVE DirInv'
  OBVIOUS
<1>s. store \in [Writers -> WriteStates]
  BY DEF TypeInv, TypeOK
<1>0. CASE UNCHANGED vars
  BY <1>0, DirFrame DEF vars
<1>c. ASSUME NEW what, Crash(what)
      PROVE  DirInv'
  BY <1>c, DirFrame DEF Crash
<1>1. ASSUME NEW w \in Writers, StoreStep(w)
      PROVE  DirInv'
  <2>o. \A v \in Writers : v # w => store'[v] = store[v]
    BY <1>1, OthersStay
  <2>f. ASSUME store'[w].at # "free", UNCHANGED <<mem, name, dir, module>>
        PROVE  DirInv'
    BY <2>o, <2>f, DirFrame
  <2>i. ASSUME store' = [store EXCEPT ![w] = Idle]
        PROVE  store'[w].at # "free"
    BY <2>i, <1>s DEF Idle
  <2>w. WriteOk(store[w], mem) /\ store[w] \in WriteStates
    BY <1>s DEF TypeInv
  <2>1. CASE AddKobject(w)
    <3>1. CASE UNCHANGED <<mem, name, dir>> /\ \E res \in Errors : Return(w, res)
      BY <2>1, <3>1, <2>f, <2>i DEF AddKobject, Return, Constant
    <3>2. ASSUME NEW i \in Ifaces, mem[i] = "unused",
                 ~(\E j \in dir : name[j] = store[w].name),
                 mem' = [mem EXCEPT ![i] = "live"],
                 name' = [name EXCEPT ![i] = store[w].name],
                 dir' = dir \cup {i},
                 store' = [store EXCEPT ![w].at = "file", ![w].iface = i]
          PROVE  DirInv'
      <4>1. i \notin dir /\ dir \subseteq Ifaces
        BY <3>2 DEF DirInv, DirectoryIsLive, TypeInv, TypeOK
      <4>2. /\ \A j \in dir : mem'[j] = mem[j] /\ name'[j] = name[j]
            /\ mem'[i] = "live" /\ name'[i] = store[w].name
        BY <3>2, <4>1 DEF TypeInv, TypeOK
      <4>3. DirectoryIsLive'
        BY <3>2, <4>1, <4>2 DEF DirInv, DirectoryIsLive
      <4>4. \A v \in Writers : store'[v].at = "free" => store'[v].iface \notin dir'
        <5> SUFFICES ASSUME NEW v \in Writers, store'[v].at = "free"
                     PROVE  store'[v].iface \notin dir'
          OBVIOUS
        <5>1. v # w
          BY <3>2, <1>s DEF WriteStates
        <5>2. store'[v] = store[v] /\ mem[store[v].iface] # "unused"
          BY <5>1, <2>o DEF TypeInv, WriteOk, Holding
        <5> QED
          BY <3>2, <5>2 DEF DirInv
      <4>5. store[w].name \in Names
        BY <2>1, <2>w DEF AddKobject, At, WriteOk
      <4>6. \A j \in dir' : name'[j] \in Names
        BY <3>2, <4>2, <4>5 DEF DirInv
      <4>7. module' = module /\ module = "in"
        BY <2>1 DEF AddKobject, Constant
      <4> QED
        BY <4>3, <4>4, <4>6, <4>7 DEF DirInv
    <3> QED
      BY <2>1, <3>1, <3>2 DEF AddKobject, Errors
  <2>2. CASE AddKobjectLeaving(w)
    BY <2>2, <1>c, <2>f, <2>i DEF AddKobjectLeaving, Return, Constant
  <2>3. CASE AddFile(w)
    <3>1. store'[w].at # "free"
      BY <2>3, <1>s DEF AddFile, Goto, WriteStates
    <3> QED
      BY <2>3, <3>1, <2>f DEF AddFile, Constant
  <2>4. CASE AddTail(w)
    <3>1. store'[w].at # "free"
      BY <2>4, <1>s DEF AddTail, WriteStates
    <3> QED
      BY <2>4, <3>1, <2>f DEF AddTail, Constant
  <2>5. CASE AddLink(w)
    <3>1. CASE Goto(w, "open") /\ UNCHANGED <<mem, name, dir, module>>
      <4>1. store'[w].at # "free"
        BY <3>1, <1>s DEF Goto, WriteStates
      <4> QED
        BY <3>1, <4>1, <2>f
    <3> QED
      BY <2>5, <3>1, <1>c DEF AddLink, Constant
  <2>6. CASE eob_device_open(w)
    <3>1. CASE /\ UNCHANGED <<mem, name, dir, module>>
               /\ \/ store' = [store EXCEPT ![w] = Idle]
                  \/ store' = [store EXCEPT ![w].at = "del kobj", ![w].res = "ENODEV"]
      <4>1. store'[w].at # "free"
        BY <3>1, <1>s, <2>i DEF WriteStates
      <4> QED
        BY <3>1, <4>1, <2>f
    <3> QED
      BY <2>6, <3>1, <1>c DEF eob_device_open, Return, Constant
  <2>7. CASE Find(w)
    <3>1. CASE /\ UNCHANGED <<mem, name, dir, module>>
               /\ \/ store' = [store EXCEPT ![w] = Idle]
                  \/ \E j : store' = [store EXCEPT ![w] = [@ EXCEPT !.at = "del", !.iface = j]]
                  \/ \E j : store' = [store EXCEPT ![w] = [@ EXCEPT !.from = j]]
      <4>0. store[w].at = "find"
        BY <2>7 DEF Find, At
      <4>1. store'[w].at # "free"
        BY <3>1, <4>0, <1>s, <2>i DEF WriteStates
      <4> QED
        BY <3>1, <4>1, <2>f
    <3> QED
      BY <2>7, <3>1, <1>c DEF Find, Return, Constant
  <2>8. CASE DelRead(w)
    <3>1. CASE /\ UNCHANGED <<mem, name, dir, module>>
               /\ \E a, b : store' = [store EXCEPT ![w].at = "unlink", ![w].from = a, ![w].to = b]
      <4>1. store'[w].at # "free"
        BY <3>1, <1>s DEF WriteStates
      <4> QED
        BY <3>1, <4>1, <2>f
    <3> QED
      BY <2>8, <3>1, <1>c DEF DelRead, Constant
  <2>9. CASE DelUnlink(w)
    <3>1. CASE Goto(w, "del kobj") /\ UNCHANGED <<mem, name, dir, module>>
      <4>1. store'[w].at # "free"
        BY <3>1, <1>s DEF Goto, WriteStates
      <4> QED
        BY <3>1, <4>1, <2>f
    <3> QED
      BY <2>9, <3>1, <1>c DEF DelUnlink, Constant
  <2>10. CASE KobjectDel(w)
    <3>1. CASE /\ Goto(w, "free") /\ dir' = dir \ {store[w].iface}
               /\ UNCHANGED <<mem, name, module>>
      <4>1. store'[w].iface = store[w].iface
        BY <3>1, <1>s DEF Goto, WriteStates
      <4>2. \A v \in Writers : store'[v].at = "free" => store'[v].iface \notin dir'
        BY <2>o, <3>1, <4>1 DEF DirInv
      <4> QED
        BY <3>1, <4>2 DEF DirInv, DirectoryIsLive
    <3> QED
      BY <2>10, <3>1, <1>c DEF KobjectDel, Constant
  <2>11. CASE Free(w)
    <3>1. CASE /\ store' = [store EXCEPT ![w] = Idle] /\ UNCHANGED <<dir, name, module>>
               /\ mem' = [mem EXCEPT ![store[w].iface] = "freed"]
      <4>1. store[w].iface \notin dir
        BY <2>11 DEF Free, At, DirInv
      <4>2. \A i \in dir : mem'[i] = mem[i]
        BY <3>1, <4>1 DEF TypeInv, TypeOK
      <4>3. DirectoryIsLive'
        BY <3>1, <4>2 DEF DirInv, DirectoryIsLive
      <4>4. \A v \in Writers : store'[v].at = "free" => store'[v].iface \notin dir'
        BY <2>o, <2>i, <3>1 DEF DirInv
      <4> QED
        BY <3>1, <4>3, <4>4 DEF DirInv
    <3> QED
      BY <2>11, <3>1, <1>c DEF Free, Return, Constant
  <2> QED
    BY <1>1, <2>1, <2>2, <2>3, <2>4, <2>5, <2>6, <2>7, <2>8, <2>9, <2>10, <2>11 DEF StoreStep
<1>2. ASSUME NEW w \in Writers, NEW r \in Requests, eoblock_iface_mgmt_store(w, r)
      PROVE  DirInv'
  <2>1. \A v \in Writers : store'[v].at = "free" => store'[v] = store[v]
    <3>1. CASE store' = [store EXCEPT ![w] = Idle]
      BY <3>1, <1>s DEF Idle
    <3>2. ASSUME NEW at \in {"add", "find"},
                 store' = [store EXCEPT ![w] = [Idle EXCEPT !.at = at, !.name = r.name]]
          PROVE  \A v \in Writers : store'[v].at = "free" => store'[v] = store[v]
      BY <3>2, <1>s DEF Idle
    <3> QED
      BY <1>2, <3>1, <3>2, StoreBegins
  <2> QED
    BY <1>2, <2>1, DirFrame DEF eoblock_iface_mgmt_store
<1>3. ASSUME NEW n \in Names,
             eob_net_device_open(n) \/ eob_device_release(n) \/ Transmit(n)
      PROVE  DirInv'
  BY <1>3, <1>c, DirFrame DEF eob_net_device_open, eob_device_release, Transmit, NetOnly
<1>4. CASE oeblock_init
  BY <1>4 DEF oeblock_init, DirInv, DirectoryIsLive
<1>5. CASE eoblock_sysfs_cleanup
  BY <1>5 DEF eoblock_sysfs_cleanup, DirInv, DirectoryIsLive
<1>6. CASE oeblock_exit
  BY <1>6 DEF oeblock_exit, DirInv, DirectoryIsLive
<1> QED
  BY <1>0, <1>1, <1>2, <1>3, <1>4, <1>5, <1>6 DEF Next

(* However many writes to mgmt overlap, with each other or with an unload, a
   directory in ifaces/ has live memory behind it and a name of its own. *)
THEOREM DirectoriesAreLive == Spec => []DirectoryIsLive
<1>1. Spec => [](TypeInv /\ DirInv)
  BY TypeInit, TypeStep, DirInit, DirStep, PTL DEF Spec
<1>2. DirInv => DirectoryIsLive
  BY DEF DirInv
<1> QED
  BY <1>1, <1>2, PTL

-----------------------------------------------------------------------------
(* The list *)

(* A part of the list that the walk from the head does not leave is all of it. *)
LEMMA WholeList ==
    ASSUME NEW L, NEW nx, NEW pv, SoundList(L, nx, pv), NEW S, S \subseteq L,
           \A j \in S \cup {ListHead} : nx[j] \in S \cup {ListHead}
    PROVE  S = L
  BY DEF SoundList

LEMMA ListEmpty ==
    ASSUME NEW f, f[ListHead] = ListHead
    PROVE  SoundList({}, f, f)
  BY DEF SoundList

(* list_add_tail *)
LEMMA ListAdd ==
    ASSUME NEW L \in SUBSET Ifaces, NEW nx, NEW pv, SoundList(L, nx, pv),
           nx \in [Ifaces \cup {ListHead} -> Ifaces \cup {ListHead, Poison}],
           pv \in [Ifaces \cup {ListHead} -> Ifaces \cup {ListHead, Poison}],
           NEW i \in Ifaces, i \notin L, NEW from, from = pv[ListHead]
    PROVE  SoundList(L \cup {i}, [nx EXCEPT ![i] = ListHead, ![from] = i],
                     [pv EXCEPT ![i] = from, ![ListHead] = i])
<1> DEFINE M == L \cup {i}
           ny == [nx EXCEPT ![i] = ListHead, ![from] = i]
           py == [pv EXCEPT ![i] = from, ![ListHead] = i]
<1>1. from \in L \cup {ListHead} /\ nx[from] = ListHead /\ from # i /\ i # ListHead
  BY Addresses DEF SoundList
<1>2. /\ ny[i] = ListHead /\ ny[from] = i
      /\ \A j \in L \cup {ListHead} : j # from => ny[j] = nx[j]
      /\ py[i] = from /\ py[ListHead] = i
      /\ \A j \in L : py[j] = pv[j]
  BY <1>1, Addresses
<1>3. \A j \in M \cup {ListHead} :
         /\ ny[j] \in M \cup {ListHead} /\ py[j] \in M \cup {ListHead}
         /\ py[ny[j]] = j /\ ny[py[j]] = j
  <2> HIDE DEF ny, py
  <2> QED
    BY <1>1, <1>2, Addresses DEF SoundList
<1>4. ASSUME NEW S \in SUBSET M,
             \A j \in S \cup {ListHead} : ny[j] \in S \cup {ListHead}
      PROVE  S = M
  <2> HIDE DEF ny, py
  <2>1. \A j \in (S \ {i}) \cup {ListHead} : nx[j] \in (S \ {i}) \cup {ListHead}
    BY <1>1, <1>2, <1>4 DEF SoundList
  <2>2. S \ {i} = L
    <3> DEFINE T == S \ {i}
    <3>1. T \subseteq L /\ \A j \in T \cup {ListHead} : nx[j] \in T \cup {ListHead}
      BY <2>1
    <3> HIDE DEF T
    <3>2. T = L
      BY <3>1, WholeList
    <3> QED
      BY <3>2 DEF T
  <2>3. i \in S
    BY <1>1, <1>2, <1>4, <2>2
  <2> QED
    BY <2>2, <2>3
<1> HIDE DEF M, ny, py
<1>5. SoundList(M, ny, py)
  BY <1>3, <1>4 DEF SoundList
<1> QED
  BY <1>5 DEF M, ny, py

(* list_del *)
LEMMA ListDel ==
    ASSUME NEW L \in SUBSET Ifaces, NEW nx, NEW pv, SoundList(L, nx, pv),
           nx \in [Ifaces \cup {ListHead} -> Ifaces \cup {ListHead, Poison}],
           pv \in [Ifaces \cup {ListHead} -> Ifaces \cup {ListHead, Poison}],
           NEW i \in L, NEW from, from = pv[i], NEW to, to = nx[i]
    PROVE  SoundList(L \ {i}, [nx EXCEPT ![from] = to, ![i] = Poison],
                     [pv EXCEPT ![to] = from, ![i] = Poison])
<1> DEFINE M == L \ {i}
           ny == [nx EXCEPT ![from] = to, ![i] = Poison]
           py == [pv EXCEPT ![to] = from, ![i] = Poison]
<1>1. /\ from \in L \cup {ListHead} /\ to \in L \cup {ListHead}
      /\ nx[from] = i /\ pv[to] = i /\ i # ListHead /\ i \in Ifaces
  BY Addresses DEF SoundList
<1>2. from # i /\ to # i
  <2>1. ASSUME from = i \/ to = i
        PROVE  FALSE
    <3>1. \A j \in M \cup {ListHead} : nx[j] \in M \cup {ListHead}
      BY <1>1, <2>1 DEF SoundList
    <3> HIDE DEF M
    <3>2. M = L
      <4>1. M \subseteq L
        BY DEF M
      <4> QED
        BY <3>1, <4>1, WholeList
    <3> QED
      BY <3>2 DEF M
  <2> QED
    BY <2>1
<1>3. /\ ny[from] = to /\ py[to] = from
      /\ \A j \in M \cup {ListHead} : j # from => ny[j] = nx[j]
      /\ \A j \in M \cup {ListHead} : j # to => py[j] = pv[j]
  BY <1>1, <1>2
<1>4. \A j \in M \cup {ListHead} :
         /\ ny[j] \in M \cup {ListHead} /\ py[j] \in M \cup {ListHead}
         /\ py[ny[j]] = j /\ ny[py[j]] = j
  <2> HIDE DEF ny, py
  <2> QED
    BY <1>1, <1>2, <1>3 DEF SoundList
<1>5. ASSUME NEW S \in SUBSET M,
             \A j \in S \cup {ListHead} : ny[j] \in S \cup {ListHead}
      PROVE  S = M
  <2> HIDE DEF ny, py
  <2>1. CASE from \in S \cup {ListHead}
    <3>1. \A j \in (S \cup {i}) \cup {ListHead} : nx[j] \in (S \cup {i}) \cup {ListHead}
      BY <1>1, <1>3, <1>5, <2>1 DEF SoundList
    <3>2. S \cup {i} = L
      <4> DEFINE T == S \cup {i}
      <4>1. T \subseteq L /\ \A j \in T \cup {ListHead} : nx[j] \in T \cup {ListHead}
        BY <3>1
      <4> HIDE DEF T
      <4>2. T = L
        BY <4>1, WholeList
      <4> QED
        BY <4>2 DEF T
    <3> QED
      BY <3>2
  <2>2. CASE from \notin S \cup {ListHead}
    <3>1. \A j \in S \cup {ListHead} : nx[j] \in S \cup {ListHead}
      BY <1>3, <1>5, <2>2
    <3>2. S = L
      BY <3>1 DEF SoundList
    <3> QED
      BY <3>2
  <2> QED
    BY <2>1, <2>2
<1> HIDE DEF M, ny, py
<1>6. SoundList(M, ny, py)
  BY <1>4, <1>5 DEF SoundList
<1> QED
  BY <1>6 DEF M, ny, py

(* The members of a sound list are the ones a walk meets. *)
LEMMA ListWalk ==
    ASSUME NEW L \in SUBSET Ifaces, SoundList(L, next, prev)
    PROVE  Listed = L
<1>1. ASSUME NEW i \in L, NEW S \in SUBSET Ifaces,
             \A j \in S \cup {ListHead} : next[j] \in S \cup {ListHead, Poison}
      PROVE  i \in S
  <2>1. \A j \in (S \cap L) \cup {ListHead} : next[j] \in (S \cap L) \cup {ListHead}
    BY <1>1, Addresses DEF SoundList
  <2>2. S \cap L = L
    <3> DEFINE T == S \cap L
    <3>1. T \subseteq L /\ \A j \in T \cup {ListHead} : next[j] \in T \cup {ListHead}
      BY <2>1
    <3> HIDE DEF T
    <3>2. T = L
      BY <3>1 DEF SoundList
    <3> QED
      BY <3>2 DEF T
  <2> QED
    BY <2>2
<1>2. \A j \in L \cup {ListHead} : next[j] \in L \cup {ListHead, Poison}
  BY DEF SoundList
<1> QED
  BY <1>1, <1>2 DEF Listed

-----------------------------------------------------------------------------
(* Undisturbed writes *)

(* With at most one write under way, only its interface may be off the list. *)
LEMMA LinkedSolo ==
    ASSUME NEW d, NEW st, NEW w \in Writers,
           \A v \in Writers : v # w => st[v].at = "idle"
    PROVE  LinkedIn(d, st) = IF st[w].at \in Unlisted THEN d \ {st[w].iface} ELSE d
<1>1. \A v \in Writers : st[v].at \in Unlisted => v = w
  BY DEF Unlisted
<1> QED
  BY <1>1 DEF LinkedIn

LEMMA LinkedIdle ==
    ASSUME NEW d, NEW st, \A v \in Writers : st[v].at = "idle"
    PROVE  LinkedIn(d, st) = d
  BY DEF LinkedIn, Unlisted

(* CalmInv after a step of the only write under way. *)
LEMMA CalmSolo ==
    ASSUME NEW w \in Writers, \A v \in Writers : v # w => store'[v].at = "idle",
           crashed' # "freed", module' = "in", Knows(w)',
           NEW L,
           L = IF store'[w].at \in Unlisted THEN dir' \ {store'[w].iface} ELSE dir',
           SoundList(L, next', prev'),
           \A i \in L : \/ netdev'[name'[i]] # "none"
                        \/ store'[w].at = "open" /\ store'[w].iface = i
    PROVE  CalmInv'
<1>1. Linked' = L
  BY LinkedSolo DEF Linked
<1>2. \A v \in Writers : Knows(v)'
  <2> TAKE v \in Writers
  <2>1. CASE v # w
    BY <2>1 DEF Knows, Unlisted
  <2> QED
    BY <2>1
<1> QED
  BY <1>1, <1>2 DEF CalmInv

(* CalmInv after a step that leaves list, directories and writes alone. *)
LEMMA CalmFrame ==
    ASSUME DirInv, CalmInv, crashed' # "freed" \/ crashed' = crashed,
           UNCHANGED <<module, mem, name, dir, next, prev, store, raced, failedOpen>>,
           \A n \in Names : netdev'[n] = "none" => netdev[n] = "none"
    PROVE  CalmInv'
<1>1. Linked' = Linked /\ \A w \in Writers : Knows(w)' = Knows(w)
  BY DEF Linked, Knows
<1>2. \A i \in Linked : name[i] \in Names
  BY DEF Linked, LinkedIn, DirInv
<1> QED
  BY <1>1, <1>2 DEF CalmInv

LEMMA CalmInit == Init => CalmInv
<1> SUFFICES ASSUME Init PROVE CalmInv
  OBVIOUS
<1>1. \A w \in Writers : store[w].at = "idle"
  BY DEF Init, Idle
<1>2. Linked = {}
  BY <1>1, LinkedIdle DEF Linked, Init
<1> QED
  BY <1>1, <1>2 DEF CalmInv, Init, Knows, Unlisted

(* A step of a write that nothing disturbs. *)
LEMMA CalmStoreStep ==
    ASSUME TypeInv, DirInv, CalmInv, NEW w \in Writers, StoreStep(w),
           ~raced, ~failedOpen, ~failedOpen'
    PROVE  CalmInv'
<1> DEFINE s == store[w]
           L == IF s.at \in Unlisted THEN dir \ {s.iface} ELSE dir
<1>w. WriteOk(s, mem) /\ s \in WriteStates /\ store \in [Writers -> WriteStates]
  BY DEF TypeInv, TypeOK
<1>a. s.at # "idle" /\ crashed = "no"
  BY DEF StoreStep, AddKobject, AddKobjectLeaving, AddFile, AddTail, AddLink,
         eob_device_open, Find, DelRead, DelUnlink, KobjectDel, Free, At
<1>o. \A v \in Writers : v # w => store[v].at = "idle" /\ store'[v].at = "idle"
  BY <1>a, OthersStay DEF CalmInv
<1>m. module = "in"
  BY <1>a DEF CalmInv
<1>l. Linked = L
  BY <1>o, LinkedSolo DEF Linked
<1>k. /\ Knows(w) /\ SoundList(L, next, prev) /\ L \subseteq dir /\ dir \subseteq Ifaces
      /\ \A i \in L : \/ netdev[name[i]] # "none"
                      \/ s.at = "open" /\ s.iface = i
  <2>1. Knows(w) /\ SoundList(L, next, prev)
    BY <1>l, <1>m DEF CalmInv
  <2>2. \A i \in L : \/ netdev[name[i]] # "none"
                     \/ \E v \in Writers : store[v].at = "open" /\ store[v].iface = i
    BY <1>l DEF CalmInv
  <2>3. \A v \in Writers : store[v].at = "open" => v = w
    BY <1>o
  <2>4. L \subseteq dir /\ dir \subseteq Ifaces
    BY DEF TypeInv, TypeOK
  <2> QED
    BY <2>1, <2>2, <2>3, <2>4
<1>d. \A i \in dir \cup {ListHead} : ~Freed(i)
  BY Addresses DEF Freed, DirInv, DirectoryIsLive
<1>t. /\ next \in [Ifaces \cup {ListHead} -> Ifaces \cup {ListHead, Poison}]
      /\ prev \in [Ifaces \cup {ListHead} -> Ifaces \cup {ListHead, Poison}]
  BY DEF TypeInv, TypeOK
<1> HIDE DEF L
<1>c. ASSUME NEW what, what # "freed", Crash(what)
      PROVE  CalmInv'
  BY <1>c, CalmFrame DEF Crash
<1>i. ASSUME store' = [store EXCEPT ![w] = Idle], L = dir',
             UNCHANGED <<module, next, prev, crashed>>,
             \A i \in L : netdev'[name'[i]] # "none"
      PROVE  CalmInv'
  <2>1. store'[w].at = "idle"
    BY <1>i, <1>w DEF Idle
  <2>2. Knows(w)'
    BY <2>1 DEF Knows, Unlisted
  <2>3. store'[w].at \notin Unlisted
    BY <2>1 DEF Unlisted
  <2> QED
    BY <1>i, <1>a, <1>m, <1>o, <1>k, <2>2, <2>3, CalmSolo
<1>1. CASE AddKobject(w)
  <2>1. L = dir /\ s.at = "add"
    BY <1>1 DEF AddKobject, At, L, Unlisted
  <2>2. CASE UNCHANGED <<mem, name, dir>> /\ \E res \in Errors : Return(w, res)
    BY <1>1, <1>k, <1>i, <2>1, <2>2 DEF AddKobject, Return, Constant
  <2>3. ASSUME NEW i \in Ifaces, mem[i] = "unused",
               name' = [name EXCEPT ![i] = store[w].name],
               dir' = dir \cup {i},
               store' = [store EXCEPT ![w].at = "file", ![w].iface = i]
        PROVE  CalmInv'
    <3>1. i \notin dir /\ \A j \in dir : name'[j] = name[j]
      BY <2>3, <1>k DEF DirInv, DirectoryIsLive, TypeInv, TypeOK
    <3>2. store'[w].at = "file" /\ store'[w].iface = i /\ store'[w].name = s.name
      BY <2>3, <1>w DEF WriteStates
    <3>3. name'[i] = s.name
      BY <2>3 DEF TypeInv, TypeOK
    <3>4. L = dir' \ {store'[w].iface} /\ store'[w].at \in Unlisted
      BY <2>1, <2>3, <3>1, <3>2 DEF Unlisted
    <3>5. Knows(w)'
      BY <2>3, <3>2, <3>3 DEF Knows
    <3>6. UNCHANGED <<module, next, prev, crashed, netdev>>
      BY <1>1 DEF AddKobject, Constant
    <3>7. \A j \in L : netdev'[name'[j]] # "none"
      BY <1>k, <2>1, <3>1, <3>6
    <3> QED
      BY <1>a, <1>m, <1>o, <1>k, <3>4, <3>5, <3>6, <3>7, CalmSolo
  <2> QED
    BY <1>1, <2>2, <2>3 DEF AddKobject, Errors
<1>2. CASE AddKobjectLeaving(w)
  BY <1>2, <1>m DEF AddKobjectLeaving
<1>3. CASE AddFile(w)
  <2>1. L = dir \ {s.iface} /\ s.at = "file"
    BY <1>3 DEF AddFile, At, L, Unlisted
  <2>2. store'[w].at \in {"tail", "del kobj"} /\ store'[w].iface = s.iface /\ store'[w].name = s.name
    BY <1>3, <1>w DEF AddFile, Goto, WriteStates
  <2>3. UNCHANGED <<module, name, dir, next, prev, crashed, netdev>>
    BY <1>3 DEF AddFile, Constant
  <2>4. Knows(w)'
    BY <1>k, <2>1, <2>2, <2>3 DEF Knows, Unlisted
  <2>5. L = dir' \ {store'[w].iface} /\ store'[w].at \in Unlisted
    BY <2>1, <2>2, <2>3 DEF Unlisted
  <2> QED
    BY <1>a, <1>m, <1>o, <1>k, <2>1, <2>3, <2>4, <2>5, CalmSolo
<1>4. CASE AddTail(w)
  <2>1. L = dir \ {s.iface} /\ s.at = "tail"
    BY <1>4 DEF AddTail, At, L, Unlisted
  <2>2. /\ store'[w].at = "link" /\ store'[w].iface = s.iface /\ store'[w].name = s.name
        /\ store'[w].from = prev[ListHead]
    BY <1>4, <1>w DEF AddTail, WriteStates
  <2>3. UNCHANGED <<module, name, dir, next, prev, crashed, netdev>>
    BY <1>4 DEF AddTail, Constant
  <2>4. Knows(w)'
    BY <1>k, <2>1, <2>2, <2>3 DEF Knows, Unlisted
  <2>5. L = dir' \ {store'[w].iface} /\ store'[w].at \in Unlisted
    BY <2>1, <2>2, <2>3 DEF Unlisted
  <2> QED
    BY <1>a, <1>m, <1>o, <1>k, <2>1, <2>3, <2>4, <2>5, CalmSolo
<1>5. CASE AddLink(w)
  <2>1. L = dir \ {s.iface} /\ s.at = "link" /\ s.iface \in dir /\ s.from = prev[ListHead]
    BY <1>5, <1>k DEF AddLink, At, L, Unlisted, Knows
  <2>2. ~Freed(s.from)
    BY <1>d, <1>k, <2>1 DEF SoundList
  <2>3. /\ next' = [next EXCEPT ![s.iface] = ListHead, ![s.from] = s.iface]
        /\ prev' = [prev EXCEPT ![s.iface] = s.from, ![ListHead] = s.iface]
        /\ Goto(w, "open") /\ UNCHANGED <<module, name, dir, crashed, netdev>>
    BY <1>5, <2>2 DEF AddLink, Constant
  <2>4. store'[w].at = "open" /\ store'[w].iface = s.iface /\ store'[w].name = s.name
    BY <2>3, <1>w DEF Goto, WriteStates
  <2>5. Knows(w)'
    BY <1>k, <2>1, <2>3, <2>4 DEF Knows, Unlisted
  <2>6. L \cup {s.iface} = dir' /\ store'[w].at \notin Unlisted
    BY <2>1, <2>3, <2>4 DEF Unlisted
  <2>7. SoundList(L \cup {s.iface}, next', prev')
    <3>1. L \in SUBSET Ifaces /\ s.iface \in Ifaces /\ s.iface \notin L
      BY <1>k, <2>1
    <3> HIDE DEF s
    <3> QED
      BY <1>k, <1>t, <2>1, <2>3, <3>1, ListAdd
  <2>8. \A i \in dir' : \/ netdev'[name'[i]] # "none"
                        \/ store'[w].at = "open" /\ store'[w].iface = i
    BY <1>k, <2>1, <2>3, <2>4
  <2>9. SoundList(dir', next', prev')
    BY <2>6, <2>7
  <2> QED
    BY <1>a, <1>m, <1>o, <2>3, <2>5, <2>6, <2>8, <2>9, CalmSolo
<1>6. CASE eob_device_open(w)
  <2>1. L = dir /\ s.at = "open" /\ s.iface \in dir /\ name[s.iface] = s.name
    BY <1>6, <1>k DEF eob_device_open, At, L, Unlisted, Knows
  <2>2. CASE Crash("BUG_ON")
    BY <2>2, <1>c
  <2>3. CASE /\ netdev' = [netdev EXCEPT ![s.name] = "down"]
             /\ Return(w, "OK") /\ UNCHANGED <<module, name, dir, next, prev, crashed>>
    <3>1. \A i \in L : name[i] \in Names
      BY <1>k DEF DirInv
    <3>2. s.name \in Names /\ netdev \in [Names -> {"none", "down", "up"}]
      BY <1>w, <1>a DEF WriteOk, TypeInv, TypeOK
    <3>3. netdev'[s.name] = "down" /\ \A n \in Names : n # s.name => netdev'[n] = netdev[n]
      BY <2>3, <3>2
    <3>4. \A i \in L : netdev'[name'[i]] # "none"
      BY <1>k, <2>1, <2>3, <3>1, <3>3
    <3> QED
      BY <2>1, <2>3, <3>4, <1>i DEF Return
  <2> QED
    BY <1>6, <2>2, <2>3 DEF eob_device_open, Constant
<1>7. CASE Find(w)
  <2> DEFINE j == next[s.from]
  <2>1. L = dir /\ s.at = "find"
    BY <1>7 DEF Find, At, L, Unlisted
  <2>2. s.from \in L \cup {ListHead} /\ j \in L \cup {ListHead}
    BY <1>k, <1>l, <2>1 DEF Knows, SoundList
  <2>3. ~(Freed(s.from) \/ j = Poison \/ (j # Poison /\ Freed(j)))
    BY <1>d, <1>k, <2>1, <2>2, Addresses
  <2>4. UNCHANGED <<module, mem, name, dir, next, prev, netdev, crashed>>
    BY <1>7, <2>3 DEF Find, Constant
  <2>5. CASE Return(w, "ENOENT")
    BY <1>k, <2>1, <2>4, <2>5, <1>i DEF Return
  <2>6. CASE /\ j # ListHead
             /\ \/ store' = [store EXCEPT ![w] = [@ EXCEPT !.at = "del", !.iface = j]]
                \/ store' = [store EXCEPT ![w] = [@ EXCEPT !.from = j]]
    <3>1. \/ store'[w].at = "del" /\ store'[w].iface = j
          \/ store'[w].at = "find" /\ store'[w].from = j
      BY <1>w, <2>1, <2>6 DEF WriteStates
    <3>2. L = dir' /\ store'[w].at \notin Unlisted
      BY <2>1, <2>4, <3>1 DEF Unlisted
    <3>3. Linked' = dir'
      BY <1>o, <3>2, LinkedSolo DEF Linked
    <3>4. Knows(w)'
      BY <2>1, <2>2, <2>4, <2>6, <3>1, <3>3 DEF Knows, Unlisted
    <3> QED
      BY <1>a, <1>m, <1>o, <1>k, <2>1, <2>4, <3>2, <3>4, CalmSolo
  <2> QED
    BY <1>7, <2>3, <2>5, <2>6 DEF Find
<1>8. CASE DelRead(w)
  <2>1. L = dir /\ s.at = "del" /\ s.iface \in dir
    BY <1>8, <1>k DEF DelRead, At, L, Unlisted, Knows
  <2>2. ~(Freed(s.iface) \/ Poison \in {next[s.iface], prev[s.iface]})
    BY <1>d, <1>k, <2>1, Addresses DEF SoundList
  <2>3. store' = [store EXCEPT ![w].at = "unlink", ![w].from = prev[s.iface], ![w].to = next[s.iface]]
    BY <1>8, <2>2 DEF DelRead
  <2>u. UNCHANGED <<module, mem, name, dir, next, prev, netdev, crashed>>
    BY <1>8, <2>2 DEF DelRead, Constant
  <2>4. /\ store'[w].at = "unlink" /\ store'[w].iface = s.iface
        /\ store'[w].from = prev[s.iface] /\ store'[w].to = next[s.iface]
    BY <1>w, <2>3 DEF WriteStates
  <2>5. Knows(w)'
    BY <2>1, <2>u, <2>4 DEF Knows, Unlisted
  <2>6. L = dir' /\ store'[w].at \notin Unlisted
    BY <2>1, <2>u, <2>4 DEF Unlisted
  <2> QED
    BY <1>a, <1>m, <1>o, <1>k, <2>1, <2>u, <2>5, <2>6, CalmSolo
<1>9. CASE DelUnlink(w)
  <2>1. /\ L = dir /\ s.at = "unlink" /\ s.iface \in dir
        /\ s.from = prev[s.iface] /\ s.to = next[s.iface]
    BY <1>9, <1>k DEF DelUnlink, At, L, Unlisted, Knows
  <2>2. ~(Freed(s.from) \/ Freed(s.to) \/ Freed(s.iface))
    BY <1>d, <1>k, <2>1 DEF SoundList
  <2>3. /\ next' = [next EXCEPT ![s.from] = s.to, ![s.iface] = Poison]
        /\ prev' = [prev EXCEPT ![s.to] = s.from, ![s.iface] = Poison]
        /\ Goto(w, "del kobj") /\ UNCHANGED <<module, name, dir, crashed, netdev>>
    BY <1>9, <2>2 DEF DelUnlink, Constant
  <2>4. store'[w].at = "del kobj" /\ store'[w].iface = s.iface
    BY <2>3, <1>w DEF Goto, WriteStates
  <2>5. Knows(w)'
    BY <2>1, <2>3, <2>4 DEF Knows, Unlisted
  <2>6. L \ {s.iface} = dir' \ {store'[w].iface} /\ store'[w].at \in Unlisted
    BY <2>1, <2>3, <2>4 DEF Unlisted
  <2>7. SoundList(L \ {s.iface}, next', prev')
    <3>1. L \in SUBSET Ifaces /\ s.iface \in L
      BY <1>k, <2>1
    <3> HIDE DEF s
    <3> QED
      BY <1>k, <1>t, <2>1, <2>3, <3>1, ListDel
  <2>8. \A i \in L \ {s.iface} : netdev'[name'[i]] # "none"
    BY <1>k, <2>1, <2>3
  <2> DEFINE M == L \ {s.iface}
  <2>9. M = dir' \ {store'[w].iface} /\ SoundList(M, next', prev')
    BY <2>6, <2>7
  <2>10. \A i \in M : netdev'[name'[i]] # "none"
    BY <2>8
  <2>11. crashed' # "freed" /\ module' = "in"
    BY <1>a, <1>m, <2>3
  <2> HIDE DEF M
  <2> QED
    BY <1>o, <2>5, <2>6, <2>9, <2>10, <2>11, CalmSolo
<1>10. CASE KobjectDel(w)
  <2>1. L = dir \ {s.iface} /\ s.at = "del kobj" /\ s.iface \in dir
    BY <1>10, <1>k DEF KobjectDel, At, L, Unlisted, Knows
  <2>2. /\ dir' = dir \ {s.iface} /\ Goto(w, "free")
        /\ UNCHANGED <<module, mem, name, next, prev, crashed, netdev>>
    BY <1>10, <1>d, <2>1 DEF KobjectDel, Constant
  <2>3. store'[w].at = "free" /\ store'[w].iface = s.iface /\ mem[s.iface] = "live"
    BY <2>1, <2>2, <1>w DEF Goto, WriteStates, DirInv, DirectoryIsLive
  <2>4. Knows(w)'
    BY <2>2, <2>3 DEF Knows, Unlisted
  <2>5. L = dir' /\ store'[w].at \notin Unlisted
    BY <2>1, <2>2, <2>3 DEF Unlisted
  <2> QED
    BY <1>a, <1>m, <1>o, <1>k, <2>1, <2>2, <2>4, <2>5, CalmSolo
<1>11. CASE Free(w)
  <2>1. L = dir /\ s.at = "free" /\ mem[s.iface] = "live"
    BY <1>11, <1>k DEF Free, At, L, Unlisted, Knows
  <2>2. Return(w, s.res) /\ UNCHANGED <<module, dir, name, next, prev, crashed, netdev>>
    BY <1>11, <2>1 DEF Free, Constant, Freed
  <2> QED
    BY <1>k, <1>i, <2>1, <2>2 DEF Return
<1> QED
  BY <1>1, <1>2, <1>3, <1>4, <1>5, <1>6, <1>7, <1>8, <1>9, <1>10, <1>11 DEF StoreStep

LEMMA CalmStep == TypeInv /\ DirInv /\ CalmInv /\ [Next]_vars => CalmInv'
<1> SUFFICES ASSUME TypeInv, DirInv, CalmInv, [Next]_vars, ~raced', ~failedOpen'
             PROVE  CalmInv'
  BY DEF CalmInv
<1>0. CASE UNCHANGED vars
  BY <1>0, CalmFrame DEF vars
<1>b. ASSUME NEW w \in Writers, StoreStep(w)
      PROVE  raced' = raced /\ (failedOpen' = failedOpen \/ failedOpen')
  BY <1>b DEF StoreStep, AddKobject, AddKobjectLeaving, AddFile, AddTail, AddLink,
      eob_device_open, Find, DelRead, DelUnlink, KobjectDel, Free, Constant, Crash
<1>1. ASSUME NEW w \in Writers, StoreStep(w)
      PROVE  CalmInv'
  BY <1>1, <1>b, CalmStoreStep
<1>i. ASSUME \A w \in Writers : store'[w].at = "idle", dir' = {}, crashed' # "freed",
             module' = "in" => SoundList({}, next', prev')
      PROVE  CalmInv'
  <2>1. Linked' = {}
    BY <1>i, LinkedIdle DEF Linked
  <2>2. \A w \in Writers : Knows(w)'
    BY <1>i DEF Knows, Unlisted
  <2> QED
    BY <1>i, <2>1, <2>2 DEF CalmInv
<1>2. ASSUME NEW w \in Writers, NEW r \in Requests, eoblock_iface_mgmt_store(w, r)
      PROVE  CalmInv'
  <2>1. /\ ~raced /\ ~failedOpen /\ module = "in" /\ crashed = "no"
        /\ \A v \in Writers : store[v].at = "idle"
    <3>1. /\ raced' = (raced \/ module = "leaving" \/ \E v \in Writers : store[v].at # "idle")
          /\ module # "out" /\ crashed = "no" /\ failedOpen' = failedOpen
      BY <1>2 DEF eoblock_iface_mgmt_store, At
    <3>2. module \in {"out", "in", "leaving"}
      BY DEF TypeInv, TypeOK
    <3> QED
      BY <3>1, <3>2
  <2>2. UNCHANGED <<module, mem, name, dir, next, prev, netdev, crashed>>
    BY <1>2 DEF eoblock_iface_mgmt_store
  <2>3. /\ \A v \in Writers : v # w => store'[v] = store[v]
        /\ store'[w].at \in {"idle", "add", "find"} /\ store'[w].from = ListHead
    <3>1. store \in [Writers -> WriteStates]
      BY DEF TypeInv, TypeOK
    <3>2. CASE store' = [store EXCEPT ![w] = Idle]
      BY <3>1, <3>2 DEF Idle
    <3>3. ASSUME NEW at \in {"add", "find"},
                 store' = [store EXCEPT ![w] = [Idle EXCEPT !.at = at, !.name = r.name]]
          PROVE  <2>3
      BY <3>1, <3>3 DEF Idle
    <3> QED
      BY <1>2, <3>2, <3>3, StoreBegins
  <2>4. Linked = dir
    BY <2>1, LinkedIdle DEF Linked
  <2>5. SoundList(dir, next, prev) /\ \A i \in dir : netdev[name[i]] # "none"
    BY <2>1, <2>4 DEF CalmInv
  <2>6. Knows(w)'
    BY <2>3 DEF Knows, Unlisted
  <2>7. store'[w].at \notin Unlisted
    BY <2>3 DEF Unlisted
  <2> QED
    BY <2>1, <2>2, <2>3, <2>5, <2>6, <2>7, CalmSolo
<1>3. ASSUME NEW n \in Names,
             eob_net_device_open(n) \/ eob_device_release(n) \/ Transmit(n)
      PROVE  CalmInv'
  <2>1. CASE \E what \in {"unloaded", "no ndo_start_xmit"} : Crash(what)
    BY <2>1, CalmFrame DEF Crash
  <2>2. CASE NetOnly /\ \E up \in {"up", "down"} : netdev' = [netdev EXCEPT ![n] = up]
    <3>1. PICK up \in {"up", "down"} : netdev' = [netdev EXCEPT ![n] = up]
      BY <2>2
    <3>2. netdev \in [Names -> {"none", "down", "up"}]
      BY DEF TypeInv, TypeOK
    <3>3. \A m \in Names : netdev'[m] = "none" => netdev[m] = "none"
      BY <3>1, <3>2
    <3> QED
      BY <2>2, <3>3, CalmFrame DEF NetOnly
  <2> QED
    BY <1>3, <2>1, <2>2 DEF eob_net_device_open, eob_device_release, Transmit
<1>4. CASE oeblock_init
  <2>1. /\ ~raced /\ ~failedOpen /\ module = "out" /\ crashed' = "no" /\ dir' = dir /\ store' = store
        /\ next'[ListHead] = ListHead /\ prev' = next'
    BY <1>4 DEF oeblock_init
  <2>2. SoundList({}, next', prev')
    BY <2>1, ListEmpty
  <2> QED
    BY <2>1, <2>2, <1>i DEF CalmInv, DirInv
<1>5. CASE eoblock_sysfs_cleanup
  <2>1. /\ raced' = (raced \/ \E w \in Writers : store[w].at # "idle")
        /\ crashed' = "no" /\ module' = "leaving" /\ dir' = {} /\ store' = store
    BY <1>5 DEF eoblock_sysfs_cleanup
  <2> QED
    BY <2>1, <1>i
<1>6. CASE oeblock_exit
  <2>1. /\ module = "leaving" /\ \A w \in Writers : store[w].at = "idle"
        /\ crashed' = "no" /\ module' = "out" /\ dir' = dir /\ store' = store
    BY <1>6 DEF oeblock_exit
  <2> QED
    BY <2>1, <1>i DEF DirInv
<1> QED
  BY <1>0, <1>1, <1>2, <1>3, <1>4, <1>5, <1>6 DEF Next

LEMMA AllInvariants == Spec => [](TypeInv /\ DirInv /\ CalmInv)
  BY TypeInit, TypeStep, DirInit, DirStep, CalmInit, CalmStep, PTL DEF Spec

(* The kernel uses freed memory only after two writes, or a write and an unload,
   overlapped, or after an eob_device_open that failed left its interface on
   the list: no sequence of adds and removes that avoids both reaches it. *)
THEOREM FreedUseHasCause == Spec => []FreedUseNeedsCause
<1>1. CalmInv => FreedUseNeedsCause
  BY DEF CalmInv, FreedUseNeedsCause
<1> QED
  BY <1>1, AllInvariants, PTL

(* Between writes that did not overlap and found their devices the list is
   sound in both directions, and holds the interfaces sysfs shows. *)
THEOREM CalmListsAreSound == Spec => []CalmListIsSound
<1>1. TypeInv /\ DirInv /\ CalmInv => CalmListIsSound
  <2> SUFFICES ASSUME TypeInv, DirInv, CalmInv, module = "in", ~raced, ~failedOpen,
                      \A w \in Writers : store[w].at = "idle"
               PROVE  /\ Listed = dir
                      /\ \A i \in Listed \cup {ListHead} :
                            next[i] # Poison /\ prev[next[i]] = i
                      /\ \A i \in Listed : mem[i] = "live" /\ netdev[name[i]] # "none"
    BY DEF CalmListIsSound
  <2>1. Linked = dir
    BY LinkedIdle DEF Linked
  <2>2. /\ SoundList(dir, next, prev) /\ dir \in SUBSET Ifaces
        /\ \A i \in dir : netdev[name[i]] # "none"
    BY <2>1 DEF CalmInv, TypeInv, TypeOK
  <2>3. Listed = dir
    BY <2>2, ListWalk
  <2> QED
    BY <2>2, <2>3, Addresses DEF SoundList, DirInv, DirectoryIsLive
<1> QED
  BY <1>1, AllInvariants, PTL
=============================================================================

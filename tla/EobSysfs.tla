------------------------------ MODULE EobSysfs ------------------------------
(***************************************************************************)
(* The kernel module: processes write to /sys/kernel/eoblock/mgmt to add   *)
(* and remove interfaces, each with a directory in sysfs, an entry on the  *)
(* list eoblock_ifaces and a net device.  Nothing locks the list, and      *)
(* sysfs runs writes through different descriptors at once.  Memory that   *)
(* was freed is never used again by the allocator; a use of it stops the   *)
(* model, as a kernel that goes on is in no defined state.                 *)
(***************************************************************************)
EXTENDS Naturals, Sequences

CONSTANTS
    Writers,      \* descriptors of mgmt
    Ifaces,       \* addresses kcalloc may give a struct eoblock_iface_base
    ListHead,     \* the list head eoblock_ifaces
    Poison,       \* LIST_POISON1, LIST_POISON2
    NameLen,      \* NameLen[n]: characters of interface name n
    DevLen,       \* DevLen[d]: characters of device path d
    Requests,     \* what is written to mgmt
    MaxWrites,    \* bound: writes to mgmt
    MaxLoads,     \* bound: loads of the module
    Faults        \* may allocation, sysfs and register_netdev fail?

Names == DOMAIN NameLen

sizeof_name == 256    \* char name[256]
IFNAMSIZ == 16        \* char name[IFNAMSIZ] of struct net_device

VARIABLES
    module,     \* "out", "in", "leaving" (eoblock_sysfs_cleanup has begun)
    mem,        \* mem[i]: is the memory of interface i unused, live or freed?
    name,       \* name[i]: iface->name
    dir,        \* interfaces whose kobject has a directory in ifaces/
    next, prev, \* struct list_head of the list and of each interface
    netdev,     \* netdev[n]: "none", or the net device n is "down" or "up"
    store,      \* where each write is in eoblock_iface_mgmt_store
    reply,      \* what the last write of each descriptor returned
    writes, loads,
    crashed,    \* what stopped the kernel, or "no"
    raced,      \* history: two writes, or a write and an unload, overlapped
    failedOpen  \* history: eob_device_open failed

vars == <<module, mem, name, dir, next, prev, netdev, store, reply, writes,
          loads, crashed, raced, failedOpen>>

Idle == [at |-> "idle", name |-> "", iface |-> ListHead, from |-> ListHead,
         to |-> ListHead, res |-> "OK"]

Init ==
    /\ module = "out"
    /\ mem = [i \in Ifaces |-> "unused"]
    /\ name = [i \in Ifaces |-> ""]
    /\ dir = {}
    /\ next = [i \in Ifaces \cup {ListHead} |-> ListHead]
    /\ prev = [i \in Ifaces \cup {ListHead} |-> ListHead]
    /\ netdev = [n \in Names |-> "none"]
    /\ store = [w \in Writers |-> Idle]
    /\ reply = [w \in Writers |-> "none"]
    /\ writes = 0 /\ loads = 0
    /\ crashed = "no" /\ raced = FALSE /\ failedOpen = FALSE

-----------------------------------------------------------------------------
(* Parsing.  A request is its verb, the name after it ("" if there is none)
   and the token strings after that, each the sequence of its lexems; Nil is a
   token string without a character, which ends the parameters. *)

Nil == <<"">>

Parameters(rest) == {i \in 1 .. Len(rest) : \A j \in 1 .. i : rest[j] # Nil}

(* The parameters are pairs dev=path; the last one counts. *)
ParametersOk(rest) ==
    /\ Parameters(rest) # {}
    /\ \A i \in Parameters(rest) : Len(rest[i]) = 2 /\ rest[i][1] = "dev"

DevName(rest) ==
    LET i == CHOOSE k \in Parameters(rest) :
                 \A j \in Parameters(rest) : j <= k
    IN  rest[i][2]

(* Mutant: del does not ask for a name. *)
eoblock_iface_mgmt_cb_unnamed(r) ==
    CASE r.verb = "add" /\ r.name # "" /\ ParametersOk(r.rest) -> "add"
      [] r.verb = "del" /\ r.rest = <<>> -> "del"
      [] OTHER -> "EINVAL"

eoblock_iface_mgmt_cb(r) ==
    CASE r.verb = "add" /\ r.name # "" /\ ParametersOk(r.rest) -> "add"
      [] r.verb = "del" /\ r.name # "" /\ r.rest = <<>> -> "del"
      [] OTHER -> "EINVAL"

-----------------------------------------------------------------------------
(* Steps of a write *)

At(w, at) == crashed = "no" /\ store[w].at = at

Goto(w, at) == store' = [store EXCEPT ![w].at = at]

Return(w, res) ==
    /\ store' = [store EXCEPT ![w] = Idle]
    /\ reply' = [reply EXCEPT ![w] = res]

Crash(what) ==
    /\ crashed' = what
    /\ UNCHANGED <<module, mem, name, dir, next, prev, netdev, store, reply,
                   writes, loads, raced, failedOpen>>

Constant == UNCHANGED <<module, writes, loads, crashed, raced>>

Freed(i) == i # ListHead /\ mem[i] = "freed"

(* eoblock_iface_mgmt_store: the buffer is copied and parsed. *)
eoblock_iface_mgmt_store(w, r) ==
    /\ At(w, "idle") /\ module # "out" /\ writes < MaxWrites
    /\ writes' = writes + 1
    /\ raced' = (raced \/ module = "leaving"
                       \/ \E v \in Writers : store[v].at # "idle")
    /\ LET what == eoblock_iface_mgmt_cb(r) IN
       \/ /\ what = "EINVAL" /\ Return(w, "EINVAL")
       \/ /\ what = "add"
          /\ IF NameLen[r.name] >= sizeof_name
                \/ DevLen[DevName(r.rest)] > sizeof_name
             THEN Return(w, "EINVAL")
             ELSE /\ store' = [store EXCEPT ![w] = [Idle EXCEPT
                                     !.at = "add", !.name = r.name]]
                  /\ UNCHANGED reply
       \/ /\ what = "del"
          /\ store' = [store EXCEPT ![w] = [Idle EXCEPT
                             !.at = "find", !.name = r.name]]
          /\ UNCHANGED reply
       \/ Faults /\ Return(w, "ENOMEM")
    /\ UNCHANGED <<module, mem, name, dir, next, prev, netdev, loads, crashed,
                   failedOpen>>

-----------------------------------------------------------------------------
(* eoblock_add_iface_kobj *)

(* kobject_init_and_add: sysfs refuses a name the directory has. *)
AddKobject(w) ==
    /\ At(w, "add") /\ module = "in"
    /\ IF \E i \in dir : name[i] = store[w].name
       THEN Return(w, "EEXIST") /\ UNCHANGED <<mem, name, dir>>
       ELSE \/ \E i \in Ifaces :
                  /\ mem[i] = "unused"
                  /\ mem' = [mem EXCEPT ![i] = "live"]
                  /\ name' = [name EXCEPT ![i] = store[w].name]
                  /\ dir' = dir \cup {i}
                  /\ store' = [store EXCEPT ![w].at = "file", ![w].iface = i]
                  /\ UNCHANGED reply
            \/ Faults /\ Return(w, "ENOMEM") /\ UNCHANGED <<mem, name, dir>>
    /\ UNCHANGED <<next, prev, netdev, failedOpen>> /\ Constant

(* The directory ifaces/ is being removed: its kobject may be freed. *)
AddKobjectLeaving(w) ==
    /\ At(w, "add") /\ module = "leaving"
    /\ \/ Crash("freed")
       \/ /\ Return(w, "ENOENT")
          /\ UNCHANGED <<mem, name, dir, next, prev, netdev, failedOpen>>
          /\ Constant

(* Mutant: the interface is on the list before its file exists. *)
AddFile_listed(w) ==
    /\ At(w, "file")
    /\ \/ /\ Goto(w, "tail") /\ UNCHANGED <<next, prev>>
       \/ /\ Faults
          /\ store' = [store EXCEPT ![w].at = "del kobj", ![w].res = "ENOMEM"]
          /\ next' = [next EXCEPT ![prev[ListHead]] = store[w].iface]
          /\ prev' = [prev EXCEPT ![ListHead] = store[w].iface]
    /\ UNCHANGED <<mem, name, dir, netdev, reply, failedOpen>>
    /\ Constant

(* sysfs_create_file, which needs the directory of the interface *)
AddFile(w) ==
    /\ At(w, "file")
    /\ \/ store[w].iface \in dir /\ Goto(w, "tail")
       \/ /\ Faults \/ store[w].iface \notin dir
          /\ store' = [store EXCEPT ![w].at = "del kobj", ![w].res = "ENOMEM"]
    /\ UNCHANGED <<mem, name, dir, next, prev, netdev, reply, failedOpen>>
    /\ Constant

(* list_add_tail reads the end of the list, *)
AddTail(w) ==
    /\ At(w, "tail")
    /\ store' = [store EXCEPT ![w].at = "link", ![w].from = prev[ListHead]]
    /\ UNCHANGED <<mem, name, dir, next, prev, netdev, reply, failedOpen>>
    /\ Constant

(* and __list_add links the interface behind it. *)
AddLink(w) ==
    /\ At(w, "link")
    /\ IF Freed(store[w].from) THEN Crash("freed")
       ELSE /\ next' = [next EXCEPT ![store[w].iface] = ListHead,
                                    ![store[w].from] = store[w].iface]
            /\ prev' = [prev EXCEPT ![store[w].iface] = store[w].from,
                                    ![ListHead] = store[w].iface]
            /\ Goto(w, "open")
            /\ UNCHANGED <<mem, name, dir, netdev, reply, failedOpen>>
            /\ Constant

(* eob_device_open: alloc_netdev has a BUG_ON for a name that does not fit,
   register_netdev refuses a name that is taken. *)
eob_device_open(w) ==
    /\ At(w, "open")
    /\ IF NameLen[store[w].name] >= IFNAMSIZ THEN Crash("BUG_ON")
       ELSE /\ \/ /\ netdev[store[w].name] = "none"
                  /\ netdev' = [netdev EXCEPT ![store[w].name] = "down"]
                  /\ Return(w, "OK") /\ UNCHANGED failedOpen
               \/ /\ Faults \/ netdev[store[w].name] # "none"
                  /\ store' = [store EXCEPT ![w].at = "del kobj",
                                            ![w].res = "ENODEV"]
                  /\ failedOpen' = TRUE /\ UNCHANGED <<netdev, reply>>
            /\ UNCHANGED <<mem, name, dir, next, prev>>
            /\ Constant

-----------------------------------------------------------------------------
(* eoblock_remove_iface *)

(* One turn of list_for_each_entry: from is the entry before. *)
Find(w) ==
    LET i == store[w].from
        j == next[i]
    IN
    /\ At(w, "find")
    /\ IF Freed(i) \/ j = Poison \/ (j # Poison /\ Freed(j)) THEN Crash("freed")
       ELSE /\ IF j = ListHead THEN Return(w, "ENOENT")
               ELSE /\ store' = [store EXCEPT ![w] =
                          IF name[j] = store[w].name
                          THEN [@ EXCEPT !.at = "del", !.iface = j]
                          ELSE [@ EXCEPT !.from = j]]
                    /\ UNCHANGED reply
            /\ UNCHANGED <<mem, name, dir, next, prev, netdev, failedOpen>>
            /\ Constant

(* eob_device_close does nothing.  list_del reads the neighbours, *)
DelRead(w) ==
    LET i == store[w].iface IN
    /\ At(w, "del")
    /\ IF Freed(i) \/ Poison \in {next[i], prev[i]} THEN Crash("freed")
       ELSE /\ store' = [store EXCEPT ![w].at = "unlink", ![w].from = prev[i],
                                      ![w].to = next[i]]
            /\ UNCHANGED <<mem, name, dir, next, prev, netdev, reply,
                           failedOpen>>
            /\ Constant

(* and links them to each other. *)
DelUnlink(w) ==
    LET s == store[w] IN
    /\ At(w, "unlink")
    /\ IF Freed(s.from) \/ Freed(s.to) \/ Freed(s.iface) THEN Crash("freed")
       ELSE /\ next' = [next EXCEPT ![s.from] = s.to, ![s.iface] = Poison]
            /\ prev' = [prev EXCEPT ![s.to] = s.from, ![s.iface] = Poison]
            /\ Goto(w, "del kobj")
            /\ UNCHANGED <<mem, name, dir, netdev, reply, failedOpen>>
            /\ Constant

-----------------------------------------------------------------------------
(* The end of a removal and of a failed addition *)

(* Mutant: the memory is freed first. *)
KobjectDel_late(w) ==
    /\ At(w, "del kobj")
    /\ IF Freed(store[w].iface) THEN Crash("freed")
       ELSE /\ mem' = [mem EXCEPT ![store[w].iface] = "freed"]
            /\ Goto(w, "free")
            /\ UNCHANGED <<dir, name, next, prev, netdev, reply, failedOpen>>
            /\ Constant

(* Mutant: the kobject frees the interface it is part of. *)
KobjectDel_freeing(w) ==
    /\ At(w, "del kobj")
    /\ IF Freed(store[w].iface) THEN Crash("freed")
       ELSE /\ dir' = dir \ {store[w].iface}
            /\ mem' = [mem EXCEPT ![store[w].iface] = "freed"]
            /\ Goto(w, "free")
            /\ UNCHANGED <<name, next, prev, netdev, reply, failedOpen>>
            /\ Constant

(* kobject_del waits for readers of dev_name in the directory. *)
KobjectDel(w) ==
    /\ At(w, "del kobj")
    /\ IF Freed(store[w].iface) THEN Crash("freed")
       ELSE /\ dir' = dir \ {store[w].iface}
            /\ Goto(w, "free")
            /\ UNCHANGED <<mem, name, next, prev, netdev, reply, failedOpen>>
            /\ Constant

(* kobject_put, kfree *)
Free(w) ==
    /\ At(w, "free")
    /\ IF Freed(store[w].iface) THEN Crash("freed")
       ELSE /\ mem' = [mem EXCEPT ![store[w].iface] = "freed"]
            /\ Return(w, store[w].res)
            /\ UNCHANGED <<dir, name, next, prev, netdev, failedOpen>>
            /\ Constant

-----------------------------------------------------------------------------
(* The net devices *)

NetOnly ==
    UNCHANGED <<module, mem, name, dir, next, prev, store, reply, writes, loads,
                crashed, raced, failedOpen>>

(* ndo_open: eob_net_device_open opens the file; if that fails, or the device
   is up already, nothing changes. *)
eob_net_device_open(n) ==
    /\ crashed = "no" /\ netdev[n] = "down"
    /\ IF module = "out" THEN Crash("unloaded")
       ELSE netdev' = [netdev EXCEPT ![n] = "up"] /\ NetOnly

(* ndo_stop *)
eob_device_release(n) ==
    /\ crashed = "no" /\ netdev[n] = "up"
    /\ IF module = "out" THEN Crash("unloaded")
       ELSE netdev' = [netdev EXCEPT ![n] = "down"] /\ NetOnly

(* The stack sends a packet: eob_device_ops has no ndo_start_xmit. *)
Transmit(n) ==
    /\ crashed = "no" /\ netdev[n] = "up"
    /\ Crash(IF module = "out" THEN "unloaded" ELSE "no ndo_start_xmit")

-----------------------------------------------------------------------------
(* Loading and unloading.  A load that fails leaves nothing behind that
   another one would meet. *)

oeblock_init ==
    /\ crashed = "no" /\ module = "out" /\ loads < MaxLoads
    /\ module' = "in" /\ loads' = loads + 1
    /\ next' = [i \in Ifaces \cup {ListHead} |-> ListHead]
    /\ prev' = [i \in Ifaces \cup {ListHead} |-> ListHead]
    /\ UNCHANGED <<mem, name, dir, netdev, store, reply, writes, crashed, raced,
                   failedOpen>>

(* oeblock_exit: removing ifaces/ takes the directories in it along, *)
eoblock_sysfs_cleanup ==
    /\ crashed = "no" /\ module = "in"
    /\ module' = "leaving" /\ dir' = {}
    /\ raced' = (raced \/ \E w \in Writers : store[w].at # "idle")
    /\ UNCHANGED <<mem, name, next, prev, netdev, store, reply, writes, loads,
                   crashed, failedOpen>>

(* and removing mgmt waits for the writes to it.  Interfaces and their net
   devices are left as they are. *)
oeblock_exit ==
    /\ crashed = "no" /\ module = "leaving"
    /\ \A w \in Writers : store[w].at = "idle"
    /\ module' = "out"
    /\ UNCHANGED <<mem, name, dir, next, prev, netdev, store, reply, writes,
                   loads, crashed, raced, failedOpen>>

-----------------------------------------------------------------------------

StoreStep(w) ==
    \/ AddKobject(w) \/ AddKobjectLeaving(w) \/ AddFile(w) \/ AddTail(w)
    \/ AddLink(w) \/ eob_device_open(w)
    \/ Find(w) \/ DelRead(w) \/ DelUnlink(w) \/ KobjectDel(w) \/ Free(w)

Next ==
    \/ \E w \in Writers :
          StoreStep(w) \/ \E r \in Requests : eoblock_iface_mgmt_store(w, r)
    \/ \E n \in Names :
          eob_net_device_open(n) \/ eob_device_release(n) \/ Transmit(n)
    \/ oeblock_init \/ eoblock_sysfs_cleanup \/ oeblock_exit

Spec == Init /\ [][Next]_vars

ASSUME SysfsConstants ==
    /\ ListHead \notin Ifaces /\ Poison \notin Ifaces \cup {ListHead}
    /\ \A n \in Names : NameLen[n] \in Nat
    /\ \A d \in DOMAIN DevLen : DevLen[d] \in Nat
    /\ \A r \in Requests : r.name \in Names \cup {""}
    /\ MaxWrites \in Nat /\ MaxLoads \in Nat /\ Faults \in BOOLEAN

-----------------------------------------------------------------------------
(* Types *)
Pcs == {"idle", "add", "file", "tail", "link", "open", "find", "del", "unlink",
        "del kobj", "free"}

Errors == {"EINVAL", "EEXIST", "ENOENT", "ENOMEM", "ENODEV"}

Crashes == {"freed", "BUG_ON", "unloaded", "no ndo_start_xmit"}

WriteStates ==
    [at : Pcs, name : Names \cup {""}, iface : Ifaces \cup {ListHead},
     from : Ifaces \cup {ListHead}, to : Ifaces \cup {ListHead},
     res : Errors \cup {"OK"}]

TypeOK ==
    /\ module \in {"out", "in", "leaving"}
    /\ mem \in [Ifaces -> {"unused", "live", "freed"}]
    /\ name \in [Ifaces -> Names \cup {""}]
    /\ dir \subseteq Ifaces
    /\ next \in [Ifaces \cup {ListHead} -> Ifaces \cup {ListHead, Poison}]
    /\ prev \in [Ifaces \cup {ListHead} -> Ifaces \cup {ListHead, Poison}]
    /\ netdev \in [Names -> {"none", "down", "up"}]
    /\ store \in [Writers -> WriteStates]
    /\ \A w \in Writers : store[w].at # "idle" => store[w].name \in Names
    /\ reply \in [Writers -> Errors \cup {"OK", "none"}]
    /\ writes \in 0 .. MaxWrites /\ loads \in 0 .. MaxLoads
    /\ crashed \in Crashes \cup {"no"}
    /\ raced \in BOOLEAN /\ failedOpen \in BOOLEAN

(* A directory in ifaces/ always has a live interface behind it and no two
   have the same name, however the writes to mgmt overlap: reading dev_name
   (eoblock_iface_dev_name_show) never meets freed memory. *)
DirectoryIsLive ==
    \A i \in dir :
        /\ mem[i] = "live"
        /\ \A j \in dir : name[i] = name[j] => i = j

(* Freed memory is used only after writes overlapped, or after an
   eob_device_open that failed: writes one after the other that find their
   device keep the list intact, errors of sysfs included. *)
FreedUseNeedsCause == crashed = "freed" => raced \/ failedOpen

(* The interfaces a walk of the list meets. *)
Listed ==
    {i \in Ifaces :
        \A S \in SUBSET Ifaces :
            (\A j \in S \cup {ListHead} : next[j] \in S \cup {ListHead, Poison})
                => i \in S}

(* Between writes that did not overlap and found their devices, list,
   directory and net devices agree: the list is sound in both directions, its
   interfaces are the ones sysfs shows, and each has a net device. *)
CalmListIsSound ==
    (/\ crashed = "no" /\ module = "in" /\ ~raced /\ ~failedOpen
     /\ \A w \in Writers : store[w].at = "idle")
    => /\ Listed = dir
       /\ \A i \in Listed \cup {ListHead} :
             next[i] # Poison /\ prev[next[i]] = i
       /\ \A i \in Listed : mem[i] = "live" /\ netdev[name[i]] # "none"
=============================================================================

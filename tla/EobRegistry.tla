----------------------------- MODULE EobRegistry -----------------------------
(***************************************************************************)
(* What the header commands promise, without the transfers.  The device    *)
(* holds one header `reg' that changes all at once.  A command sees one    *)
(* snapshot of it, taken since the command began, decides on the snapshot  *)
(* alone, and replaces the whole header or leaves it.  With one client the *)
(* snapshot is the header itself: the commands are atomic.  With several   *)
(* clients a replacement may be based on a header that is no longer there. *)
(***************************************************************************)
EXTENDS EobHdr

CONSTANTS Procs, IOErrors

VARIABLES
    reg,     \* the header
    req,     \* the command of each client
    rep,     \* the last reply to each client
    since    \* the values of reg since each client's command began

rvars == <<reg, req, rep, since>>

RInit ==
    /\ reg \in InitialDisks
    /\ req = [p \in Procs |-> NoCmd]
    /\ rep = [p \in Procs |-> "OK"]
    /\ since = [p \in Procs |-> {}]

(* What p may act on: a preamble that was there and passes the checks.  The
   entries outside the checksum are not promised: they may be anything. *)
Snapshots(p) ==
    UNION {{[g EXCEPT !.tab = t] :
                t \in {u \in [Slots -> Entry] : \A i \in Covered : u[i] = g.tab[i]}} :
           g \in {h \in since[p] : Accepts(h)}}

(* The replies of a command that leaves the header, decided on snapshot b. *)
KeepReply(c, b) ==
    CASE c.op = "dump" -> {"OK"}
      [] c.op = "add" ->
             IF AddRefused(c, b) THEN {"INVAL"}
             ELSE IF b.geo.phys < EOB_HDR_SIZE THEN {"abort"} ELSE {}
      [] c.op = "rem" ->
             IF ~EOB_NODE_IS_PRESENT(b, c.node) THEN {"OK"}
             ELSE IF RemovedHeader(c, b).geo.phys < EOB_HDR_SIZE
                  THEN {"abort"} ELSE {}
      [] c.op = "open" /\ ~c.force ->
             {IF GeometryMismatch(c, b) THEN "INVAL" ELSE "OK"}
      [] OTHER -> {}

(* A command decides on a snapshot. *)
Decided(p) == UNION {KeepReply(req[p], b) : b \in Snapshots(p)}

(* Or its read gives up; a version is reported only if it was there. *)
Unread(p) ==
    {r \in {"CHKSUM", "VER_MISM"} :
        /\ req[p].op \in {"add", "rem", "dump"}
        /\ r = "VER_MISM" => \E h \in since[p] : Current(h) /\ ~Accepts(h)}

(* Or a transfer fails. *)
Failed == {r \in {"IO"} : IOErrors}

KeepReplies(p) == Decided(p) \cup Unread(p) \cup Failed

(* The headers a command may put in place of the one that is there. *)
Replacements(p) ==
    LET c == req[p]
    IN  CASE c.op = "init" -> {InitHeader(c)}
          [] c.op = "deinit" -> {ZeroHeader}
          [] c.op = "add" ->
                 {AddedHeader(c, b) : b \in {s \in Snapshots(p) : ~AddRefused(c, s)}}
          [] c.op = "rem" ->
                 {RemovedHeader(c, b) :
                     b \in {s \in Snapshots(p) : EOB_NODE_IS_PRESENT(s, c.node)}}
          [] c.op = "open" -> {RewrittenHeader(c, h) : h \in since[p]}
          [] OTHER -> {}

Answer(p, r) ==
    /\ req' = [req EXCEPT ![p] = NoCmd]
    /\ rep' = [rep EXCEPT ![p] = r]

Call(p) ==
    /\ since[p] = {}
    /\ \E c \in Commands : req' = [req EXCEPT ![p] = c]
    /\ since' = [since EXCEPT ![p] = {reg}]
    /\ UNCHANGED <<reg, rep>>

CallAborts(p) ==
    /\ since[p] = {}
    /\ \E c \in Commands : c.op = "init" /\ ~InitSizesOk(c)
    /\ rep' = [rep EXCEPT ![p] = "abort"]
    /\ UNCHANGED <<reg, req, since>>

Keep(p) ==
    /\ since[p] # {}
    /\ \E r \in KeepReplies(p) : Answer(p, r)
    /\ since' = [since EXCEPT ![p] = {}]
    /\ UNCHANGED reg

Replace(p) ==
    /\ since[p] # {}
    /\ reg' \in Replacements(p)
    /\ \E r \in {"OK"} \cup Failed : Answer(p, r)
    /\ since' = [q \in Procs |-> IF since[q] = {} \/ q = p THEN {}
                                 ELSE since[q] \cup {reg'}]

RNext == \E p \in Procs : Call(p) \/ CallAborts(p) \/ Keep(p) \/ Replace(p)

RSpec == RInit /\ [][RNext]_rvars
=============================================================================

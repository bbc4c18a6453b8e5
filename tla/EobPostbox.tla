----------------------------- MODULE EobPostbox -----------------------------
(***************************************************************************)
(* What a mailbox promises when a block is transferred whole: one register *)
(* per node.  Posting replaces its contents, whoever posts and whether or  *)
(* not the old contents were read; a receiver takes a copy of them at one  *)
(* moment and is answered with that copy.                                  *)
(***************************************************************************)
EXTENDS Sequences

CONSTANTS Nodes, Receivers, NodeOf, Dsts, Messages, Faults

VARIABLES
    slot,    \* <<>>, or the source and the data of the packet posted last
    got,     \* the copy a receiver took, in a set; {} before it took one
    reply    \* the last answer to each receiver

pvars == <<slot, got, reply>>

Unanswered == [call |-> "none", res |-> "OK"]

PInit ==
    /\ slot = [n \in Dsts |-> <<>>]
    /\ got = [p \in Receivers |-> {}]
    /\ reply = [p \in Receivers |-> Unanswered]

(* A post of no data leaves the mailbox empty. *)
Post(n) ==
    /\ \E src \in Nodes, m \in Messages :
          slot' = [slot EXCEPT ![n] = IF m = <<>> THEN <<>> ELSE <<src, m>>]
    /\ UNCHANGED <<got, reply>>

Ask(p) ==
    /\ got[p] = {}
    /\ reply' = [reply EXCEPT ![p] = Unanswered]
    /\ UNCHANGED <<slot, got>>

Fetch(p) ==
    /\ got[p] = {}
    /\ got' = [got EXCEPT ![p] = {slot[NodeOf[p]]}]
    /\ UNCHANGED <<slot, reply>>

(* An empty mailbox ends the receiver. *)
Answer(p) ==
    /\ \E copy \in got[p] :
          reply' = [reply EXCEPT ![p] =
                       IF copy = <<>> THEN [call |-> "recv", res |-> "abort"]
                       ELSE [call |-> "recv", res |-> "OK",
                             src |-> copy[1], data |-> copy[2]]]
    /\ got' = [got EXCEPT ![p] = {}]
    /\ UNCHANGED slot

Fail(p) ==
    /\ Faults
    /\ got[p] = {}
    /\ \E res \in {"IO", "abort"} :
          reply' = [reply EXCEPT ![p] = [call |-> "recv", res |-> res]]
    /\ UNCHANGED <<slot, got>>

PNext ==
    \/ \E n \in Dsts : Post(n)
    \/ \E p \in Receivers : Ask(p) \/ Fetch(p) \/ Answer(p) \/ Fail(p)

PSpec == PInit /\ [][PNext]_pvars
=============================================================================

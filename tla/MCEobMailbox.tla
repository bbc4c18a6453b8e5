---------------------------- MODULE MCEobMailbox ----------------------------
(***************************************************************************)
(* Instances of EobMailbox for TLC: two senders on different nodes and one *)
(* receiver; packets with room for two cells of data.                      *)
(***************************************************************************)
EXTENDS EobMailbox, TLC

CONSTANTS a, b, s1, s2, r

(* s1 and s2 are processes of different nodes, r is of the node of s1. *)
ThreeProcs == [p \in Procs |-> IF p = s2 THEN 2 ELSE 1]

(* All of one node: the senders are alike. *)
OneNode == [p \in Procs |-> 1]
Symmetry == Permutations(Senders)

(* A block whose transfers are atomic for the others. *)
OnePiece == [c \in Cells |-> 0]

(* The head apart from data and tail: reading takes no page lock, so a write
   may fall between any two bytes of a read. *)
HeadApart == [c \in Cells |-> IF c = HeadCell THEN 0 ELSE 1]

(* Three pieces: a cut after the head and one inside the data. *)
ThreePieces == [c \in Cells |-> IF c < 2 THEN c ELSE 2]

FittingMessages == {<<a>>, <<b>>, <<a, b>>}

(* No data, data that fits, data that runs over the tail and past the packet,
   and data longer than the block. *)
AllMessages ==
    {<<>>, <<a, b>>, <<b, b>>, <<a, a, b, a>>, <<a, a, a, a, a>>}

SameLength == {<<a>>, <<b>>}
=============================================================================

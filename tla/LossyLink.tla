----------------------------- MODULE LossyLink -----------------------------
(***************************************************************************)
(* What the file tunnel promises: two stations, and a link in each         *)
(* direction that may lose messages but neither alters, repeats nor        *)
(* reorders them.                                                          *)
(***************************************************************************)
EXTENDS Naturals, Sequences

CONSTANT
    Message(_, _)   \* Message(n, k): the k-th message of station n

VARIABLES
    sent,    \* sent[n]: how many messages station n has accepted
    got      \* got[n]: the messages handed to station n, in order

linkVars == <<sent, got>>

Stations == {1, 2}
Other(n) == 3 - n

LinkInit ==
    /\ sent = [n \in Stations |-> 0]
    /\ got = [n \in Stations |-> <<>>]

Accept(n) ==
    /\ sent' = [sent EXCEPT ![n] = @ + 1]
    /\ UNCHANGED got

(* Neither the k-th message nor a later one has been handed over yet. *)
Unseen(n, k) ==
    \A i \in k .. sent[Other(n)] :
        \A j \in 1 .. Len(got[n]) : got[n][j] # Message(Other(n), i)

HandOver(n) ==
    /\ \E k \in 1 .. sent[Other(n)] :
          /\ Unseen(n, k)
          /\ got' = [got EXCEPT ![n] = Append(@, Message(Other(n), k))]
    /\ UNCHANGED sent

LinkNext == \E n \in Stations : Accept(n) \/ HandOver(n)

LinkSpec == LinkInit /\ [][LinkNext]_linkVars
=============================================================================

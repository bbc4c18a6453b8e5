----------------------------- MODULE MCEobSysfs -----------------------------
(***************************************************************************)
(* Instances of EobSysfs for TLC: two descriptors of mgmt, two names.      *)
(***************************************************************************)
EXTENDS EobSysfs, TLC

Symmetry == Permutations(Writers) \cup Permutations(Ifaces)

NameLengths == [a |-> 4, b |-> 15, c |-> 16, x |-> 256]
DevLengths == [d |-> 256, e |-> 257]

Request(verb, n, rest) == [verb |-> verb, name |-> n, rest |-> rest]

Add(n, d) == Request("add", n, <<<<"dev", d>>>>)
Del(n) == Request("del", n, <<>>)

(* Every path of the parser: no name, an unknown verb, no value, too many
   values, an unknown parameter, the form of the help text (a path without
   dev=), names and paths too long, parameters given twice. *)
BadRequests ==
    {Request("del", "", <<>>), Request("mod", "a", <<>>),
     Request("del", "a", <<<<"b">>>>),
     Request("add", "a", <<>>), Request("add", "a", <<<<"d">>>>),
     Request("add", "a", <<<<"dev", "d", "e">>>>),
     Request("add", "a", <<<<"disk", "d">>>>),
     Request("add", "a", <<Nil, <<"dev", "d">>>>),
     Add("x", "d"), Add("a", "e")}

AllRequests ==
    BadRequests \cup {Request("add", "a", <<<<"dev", "e">>, <<"dev", "d">>>>),
                      Add("b", "d"), Add("c", "d"), Del("a"), Del("b")}
=============================================================================

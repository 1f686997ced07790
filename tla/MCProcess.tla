------------------------------- MODULE MCProcess -------------------------------
(***************************************************************************)
(* Process on a small instance, for TLC.                                   *)
(***************************************************************************)
EXTENDS Process

Iface(up, loopback, addrs) == [up |-> up, loopback |-> loopback, addrs |-> addrs]
Addr(ip, v4) == [ip |-> ip, v4 |-> v4, loopback |-> FALSE]
Loopback == Iface(TRUE, TRUE, {[ip |-> <<9>>, v4 |-> TRUE, loopback |-> TRUE]})

\* A host name, and the addresses ..10 and ..1: the first of the two begins
\* with the second.
MCAddresses == << <<7>>, <<1, 0>>, <<1>> >>
MCLookupIP == (<<7>> :> {<<2>>}) @@ (<<1, 0>> :> {<<1, 0>>}) @@ (<<1>> :> {<<1>>})

\* The machines of ..10, of ..1, of the host name, and one nobody lists,
\* with an interface that is down and one with an IPv6 address.
MCMachines ==
    {{Loopback, Iface(TRUE, FALSE, {Addr(<<1, 0>>, TRUE)})},
     {Loopback, Iface(TRUE, FALSE, {Addr(<<1>>, TRUE)})},
     {Loopback, Iface(TRUE, FALSE, {Addr(<<2>>, TRUE)})},
     {Loopback, Iface(FALSE, FALSE, {Addr(<<1>>, TRUE)}),
                Iface(TRUE, FALSE, {Addr(<<1, 0>>, FALSE)})}}

MCLine == {<<"put", "k", "v">>, <<"put", "k">>}

===============================================================================

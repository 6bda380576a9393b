--------------------------- MODULE MCBlockFilters ---------------------------
(***************************************************************************)
(* A small instance of the filters.  Addresses and methods (or topics) are *)
(* a, b and m; the second or third block of a chain is one of OneBlocks,   *)
(* the others call b with no method.                                       *)
(***************************************************************************)
EXTENDS BlockFilters

LargeFirst == <<4, 2>>

Call(address, method) == [address |-> address, method |-> method]
Log(address, topic) == [address |-> address, topic |-> topic]
Trace(calls, logs) == [calls |-> calls, logs |-> logs]
Filter(addresses, signatures) == [addresses |-> addresses, signatures |-> signatures]

OtherBlock == <<Trace({Call("b", Nil)}, {})>>

\* The address and the method in one call, in two calls of one transaction, in two
\* transactions, in a call and a log; calls and logs without method and topic.
OneBlocks ==
    {<< >>,
     <<Trace({Call("a", "m")}, {})>>,
     <<Trace({Call("a", Nil), Call("b", "m")}, {})>>,
     <<Trace({Call("a", Nil)}, {}), Trace({Call("b", "m")}, {})>>,
     <<Trace({Call("b", Nil)}, {Log("a", "m")}), Trace({Call("b", "m")}, {})>>,
     <<Trace({Call("b", Nil)}, {Log("a", Nil), Log("b", "m")})>>,
     <<Trace({Call("a", "m")}, {}), Trace({Call("b", Nil)}, {Log("b", "m")})>>}

SmallChains ==
    {[n \in 1..4 |-> IF n = at THEN block ELSE OtherBlock] : at \in 2..3, block \in OneBlocks}

OneFilters ==
    {Filter({"a"}, {}), Filter({}, {"m"}), Filter({"a"}, {"m"}), Filter({"a", "b"}, {"m"}),
     Filter({}, {"empty"}), Filter({"a"}, {"empty", "m"}), Filter({"m"}, {}),
     Filter({"b"}, {"a"})}

Message(kind, calls, logs, sendAll) ==
    [kind |-> kind, calls |-> calls, logs |-> logs, sendAll |-> sendAll]

\* One address and one method, and an index that holds both apart.
AddressAndMethod == {Message("combined", {Filter({"a"}, {"m"})}, {}, FALSE)}

Piece(addresses, signatures, parts) ==
    [addresses |-> addresses, signatures |-> signatures, parts |-> parts]

Flags(calls, logs, sendAll, headerOnly) ==
    [kind |-> "flags", calls |-> calls, logs |-> logs, sendAll |-> sendAll,
     headerOnly |-> headerOnly]

SmallRequests ==
    {Message("combined", {f}, {}, FALSE) : f \in OneFilters} \cup
    {Message("combined", {}, {f}, FALSE) : f \in OneFilters} \cup
    {Message("combined", {Filter({"a"}, {"m"})}, {Filter({"b"}, {"m"})}, s) : s \in BOOLEAN} \cup
    {Message("combined", {}, {}, s) : s \in BOOLEAN} \cup
    {Message("calls", {Filter({"a"}, {"m"})}, {}, FALSE), Message("calls", {}, {}, FALSE),
     Message("logs", {}, {Filter({}, {})}, FALSE), [kind |-> "header"]} \cup
    {Flags({}, {}, FALSE, h) : h \in BOOLEAN} \cup
    {Flags({Piece({"a"}, {}, 2), Piece({}, {}, 0)}, {}, FALSE, h) : h \in BOOLEAN} \cup
    {Flags({}, {Piece({}, {}, 0)}, FALSE, FALSE),
     Flags({Piece({"a"}, {}, 1)}, {}, FALSE, FALSE),
     Flags({}, {Piece({}, {}, 2)}, TRUE, FALSE)}
=============================================================================

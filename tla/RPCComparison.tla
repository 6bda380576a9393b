--------------------------- MODULE RPCComparison ---------------------------
(***************************************************************************)
(* "tools compare-blocks-rpc": a block of the console reader beside the    *)
(* same block fetched from the node's endpoint.  CompareFirehoseToRPC      *)
(* strips from the first what an endpoint does not know, and from both     *)
(* what each side numbers in its own way, and wants the rest to be equal.  *)
(*                                                                         *)
(* The block is one that Normalization executed; the endpoint shows the    *)
(* transactions and the receipts of that execution, with the statuses of   *)
(* Byzantium and later.  Headers are left out, and so are system calls,    *)
(* which no endpoint shows and stripFirehoseBlock keeps: a block with any  *)
(* differs whatever else it holds, and those compared here have none.      *)
(***************************************************************************)
EXTENDS Normalization, RPCBlock

\* The executed block as the endpoint shows it.
Shown ==
    LET executed(i) == CHOOSE t \in ToSet(trxs) : t.index = i - 1
        shown(t) == [hash |-> t.hash, to |-> t.to, index |-> t.index,
                     status |-> IF t.calls[1].statusFailed THEN "0x0" ELSE "0x1",
                     logs |-> MapSeq(t.receipt, LAMBDA l : l.data)]
    IN  [hash |-> 1, num |-> 1, parent |-> 0,
         trxs |-> [i \in 1..Len(trxs) |-> shown(executed(i))]]

Receipts(b) ==
    [hash \in {t.hash : t \in ToSet(b.trxs)} |->
        RPCReceipt(b, CHOOSE i \in 1..Len(b.trxs) : b.trxs[i].hash = hash)]

\* Ordinals, calls and the indexes of logs within their transaction are dropped.
StripLogMutant(l) == [data |-> l.data, blockIndex |-> l.blockIndex, index |-> l.index]
StripLog(l) == [data |-> l.data, blockIndex |-> l.blockIndex]

StripTrace(t, withoutTo) ==
    [hash |-> t.hash, index |-> t.index, status |-> t.status,
     to |-> IF t.hash \in withoutTo THEN NoAddress ELSE t.to,
     logs |-> MapSeq(t.receipt, StripLog)]

CompareFirehoseToRPC(traces, b) ==
    LET fetched == RpcToEthBlock(b, Receipts(b)) IN
    MapSeq(traces, LAMBDA t : StripTrace(t, HashesWithoutTo(b))) =
        MapSeq(fetched.trxs, LAMBDA t : StripTrace(t, {}))

\* The two ways to a block without system calls agree: block-wide log numbers,
\* receipts, transaction order and statuses are the same whether read from the lines
\* of the node or fetched from its endpoint, but for the status of a reverted
\* transaction, which no endpoint tells from a failed one and the comparison does not
\* strip.
ComparisonFlagsReverts ==
    (Normalized /\ ~features.combine) =>
        CompareFirehoseToRPC(Out, Shown) =
            (\A t \in ToSet(Out) : t.status # "REVERTED")
=============================================================================

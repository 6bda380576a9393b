------------------------------ MODULE RPCBlock ------------------------------
(***************************************************************************)
(* Blocks as the JSON-RPC endpoint of a node shows them, and what          *)
(* block/converter.go makes of them: RpcToEthBlock turns a block and the   *)
(* receipts of its transactions into a block of detail level BASE, without *)
(* calls.  Header fields, gas and signatures are left out.                 *)
(*                                                                         *)
(* A block of the endpoint is a record of hash, num, parent and trxs; a    *)
(* transaction of hash, to, index, status and logs (their data).           *)
(***************************************************************************)
EXTENDS EthBlock, SequencesExt

\* A receipt has no status before Byzantium.
RPCStatus == {"none", "0x0", "0x1"}

\* How many logs the block holds before its i-th transaction.
LogsBefore(b, i) == Len(FlattenSeq([j \in 1..(i - 1) |-> b.trxs[j].logs]))

\* What eth_getTransactionReceipt answers for the i-th transaction of a block:
\* logs are numbered through the whole block.
RPCReceipt(b, i) ==
    [block |-> b.hash, trx |-> b.trxs[i].hash, status |-> b.trxs[i].status,
     logs |-> [k \in 1..Len(b.trxs[i].logs) |->
                  [data |-> b.trxs[i].logs[k], logIndex |-> LogsBefore(b, i) + k - 1]]]

ToFirehoseReceiptStatus(status) ==
    CASE status = "0x0" -> "FAILED"
      [] status = "0x1" -> "SUCCEEDED"
      [] status = "none" -> "UNKNOWN"

\* Each log takes the next ordinal.
ToFirehoseLogs(logs, ordinal) ==
    [k \in 1..Len(logs) |->
        [data |-> logs[k].data, index |-> logs[k].logIndex,
         blockIndex |-> logs[k].logIndex, ord |-> ordinal + k - 1]]

\* A trace takes one ordinal, then one for each log of its receipt, then one.  A
\* receipt that is not in the map leaves an empty one in the trace.
ConvertTrxMutant(trx, receipts, ordinal) ==
    LET found == trx.hash \in DOMAIN receipts
        logs == IF found THEN receipts[trx.hash].logs ELSE << >>
    IN  [hash |-> trx.hash, to |-> trx.to, index |-> trx.index, begin |-> ordinal,
         receipt |-> ToFirehoseLogs(logs, ordinal + 1),
         status |-> IF found THEN ToFirehoseReceiptStatus(receipts[trx.hash].status)
                    ELSE "UNKNOWN",
         end |-> ordinal + 1]

ConvertTrx(trx, receipts, ordinal) ==
    LET found == trx.hash \in DOMAIN receipts
        logs == IF found THEN receipts[trx.hash].logs ELSE << >>
    IN  [hash |-> trx.hash, to |-> trx.to, index |-> trx.index, begin |-> ordinal,
         receipt |-> ToFirehoseLogs(logs, ordinal + 1),
         status |-> IF found THEN ToFirehoseReceiptStatus(receipts[trx.hash].status)
                    ELSE "UNKNOWN",
         end |-> ordinal + 1 + Len(logs)]

ToFirehoseTraces(trxs, receipts) ==
    LET traces[i \in 1..Len(trxs)] ==
            ConvertTrx(trxs[i], receipts, IF i = 1 THEN 0 ELSE traces[i-1].end + 1)
    IN  traces

RpcToEthBlock(b, receipts) ==
    [hash |-> b.hash, num |-> b.num, parent |-> b.parent, ver |-> 3,
     detailLevel |-> "BASE", trxs |-> ToFirehoseTraces(b.trxs, receipts)]

\* hashesWithoutTo, the other result of RpcToEthBlock: contract creations.
HashesWithoutTo(b) ==
    {b.trxs[i].hash : i \in {j \in 1..Len(b.trxs) : b.trxs[j].to = NoAddress}}

\* "tools fix-ordinals": number the traces and the logs of their receipts again.
FixOrdinals(traces) ==
    LET fixed[i \in 1..Len(traces)] ==
            LET first == IF i = 1 THEN 0 ELSE fixed[i-1].end + 1 IN
            [traces[i] EXCEPT
                !.begin = first,
                !.receipt = [k \in 1..Len(@) |-> [@[k] EXCEPT !.ord = first + k]],
                !.end = first + Len(traces[i].receipt) + 1]
    IN  fixed
=============================================================================

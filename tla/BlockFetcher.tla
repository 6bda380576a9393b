---------------------------- MODULE BlockFetcher ----------------------------
(***************************************************************************)
(* blockfetcher/rpc.go against a node whose chain moves on, reorganises    *)
(* and falls back, and whose endpoint fails: BlockFetcher.Fetch, called by *)
(* the block poller of firehose-core for one height after another, and the *)
(* loop of "tools poll-rpc-blocks", which shares FetchReceipts.            *)
(*                                                                         *)
(* A height is asked for with eth_getBlockByNumber and each receipt, by    *)
(* the hash of its transaction, with a call of its own; nothing ties the   *)
(* answers together but the hope that the chain stayed what it was.        *)
(* Sleeps leave no trace in the state: the next attempt may come at once.  *)
(***************************************************************************)
EXTENDS RPCBlock, LibNum, FiniteSets, Functions

CONSTANTS
    Nil,
    Programs,    \* which of "fetch" and "poll" to run
    Heights,     \* heights the poller may ask for
    Bodies,      \* sequences of [status, logs]: what a mined block may execute
    TrxHashes,   \* transactions waiting to be mined
    Workers,     \* receipts fetched at once: llerrgroup.New(10)
    Retries,     \* attempts for one receipt: derr.RetryContext(ctx, 10, ...)
    MaxHeight,   \* bound on the height of the chain
    MaxMined,    \* bound on the blocks ever mined
    MaxReorgs,   \* bound on the times the chain loses blocks
    MaxFaults    \* bound on the calls the endpoint fails

ASSUME FetcherAssumption ==
    /\ Programs \subseteq {"fetch", "poll"}
    /\ Heights \subseteq Nat \ {0} /\ FirstStreamable \in {0, 1}
    /\ TrxHashes \subseteq Nat
    /\ Bodies \subseteq Seq([status: RPCStatus, logs: Seq(LogData)])
    /\ {Workers, Retries} \subseteq Nat \ {0}
    /\ {MaxHeight, MaxMined, MaxReorgs, MaxFaults} \subseteq Nat

VARIABLES
    chain,      \* the node's canonical chain, from height 1
    mined,      \* blocks mined so far, of this chain or of abandoned ones
    lost,       \* blocks that were once on the chain and that it lost
    faults,     \* calls the endpoint failed so far
    canceled,   \* the context was canceled
    program,    \* "fetch" or "poll"
    at,         \* "idle", "head", "block" or "receipts"
    blockNum,   \* the height being fetched
    latest,     \* BlockFetcher.latest
    rpcBlock,   \* the answer of GetBlockByNumber
    kept,       \* history: the chain has never lost it since
    calls,      \* the receipts' goroutines: "todo", "running", "done", "failed"
    attempts,   \* calls that failed, for each receipt
    receipts,   \* the map under construction
    result,     \* what the last Fetch returned
    printed,    \* the blocks "poll-rpc-blocks" printed
    reorgs,     \* history: times the chain lost blocks
    seen        \* history: reorgs when the height of the chain was last answered

chainVars == <<chain, mined, lost, reorgs>>
jobVars == <<rpcBlock, kept, calls, attempts, receipts>>
vars == <<chainVars, faults, canceled, program, at, blockNum, latest, jobVars,
          result, printed, seen>>

Init ==
    /\ chain = << >> /\ mined = 0 /\ lost = {} /\ faults = 0 /\ canceled = FALSE
    /\ program \in Programs
    /\ at = IF program = "poll" THEN "head" ELSE "idle"
    /\ blockNum = 1 /\ latest = 0
    /\ rpcBlock = Nil /\ kept = TRUE /\ calls = << >> /\ attempts = << >> /\ receipts = << >>
    /\ result = Nil /\ printed = << >>
    /\ reorgs = 0 /\ seen = 0

-----------------------------------------------------------------------------
(***************************************************************************)
(* The node.                                                               *)
(***************************************************************************)
ChainTrxs == UNION {{b.trxs[i].hash : i \in 1..Len(b.trxs)} : b \in ToSet(chain)}

Mine(body, hashes) ==
    /\ Len(chain) < MaxHeight /\ mined < MaxMined
    /\ chain' = Append(chain,
           [hash |-> mined + 1, num |-> Len(chain) + 1,
            parent |-> IF chain = << >> THEN 0 ELSE Last(chain).hash,
            trxs |-> [i \in 1..Len(body) |->
                [hash |-> hashes[i], to |-> NoAddress, index |-> i - 1,
                 status |-> body[i].status, logs |-> body[i].logs]]])
    /\ mined' = mined + 1
    /\ UNCHANGED <<lost, faults, canceled, program, at, blockNum, latest, jobVars, result,
                   printed, reorgs, seen>>

\* A reorganisation drops the last blocks, and so does an answer from another
\* node that is behind; other blocks may follow.
LoseBlocks(height) ==
    /\ height < Len(chain) /\ reorgs < MaxReorgs
    /\ chain' = SubSeq(chain, 1, height)
    /\ lost' = lost \cup (ToSet(chain) \ ToSet(chain'))
    /\ reorgs' = reorgs + 1
    /\ kept' = (kept /\ (at = "receipts" => rpcBlock \in ToSet(chain')))
    /\ UNCHANGED <<mined, faults, canceled, program, at, blockNum, latest, rpcBlock, calls,
                   attempts, receipts, result, printed, seen>>

\* The chain takes back a block that it lost: the other branch did not last, or the
\* node that was behind has caught up.
Restore(b) ==
    /\ b \notin ToSet(chain) /\ Len(chain) < MaxHeight /\ b.num = Len(chain) + 1
    /\ b.parent = (IF chain = << >> THEN 0 ELSE Last(chain).hash)
    /\ {t.hash : t \in ToSet(b.trxs)} \cap ChainTrxs = {}
    /\ chain' = Append(chain, b)
    /\ UNCHANGED <<mined, lost, faults, canceled, program, at, blockNum, latest, jobVars,
                   result, printed, reorgs, seen>>

Cancel ==
    /\ ~canceled /\ canceled' = TRUE
    /\ UNCHANGED <<chainVars, faults, program, at, blockNum, latest, jobVars, result,
                   printed, seen>>

\* A call with a canceled context fails; any other may, and some must.
CallFails ==
    \/ canceled /\ UNCHANGED faults
    \/ ~canceled /\ faults < MaxFaults /\ faults' = faults + 1

CallAnswers == ~canceled /\ UNCHANGED faults

-----------------------------------------------------------------------------
(***************************************************************************)
(* Fetch and the loop of poll-rpc-blocks, up to the receipts.              *)
(***************************************************************************)
Fetching == program = "fetch"

\* Fetch returns an error; poll-rpc-blocks waits and starts over.
Fails ==
    /\ at' = IF Fetching THEN "idle" ELSE "head"
    /\ result' = IF Fetching
                 THEN [ok |-> FALSE, num |-> blockNum, at |-> at, canceled |-> canceled,
                       faults |-> faults', lost |-> reorgs > seen]
                 ELSE Nil
    /\ rpcBlock' = Nil /\ kept' = TRUE /\ calls' = << >> /\ attempts' = << >> /\ receipts' = << >>

IsBlockAvailableMutant(n) == n <= latest + 1
IsBlockAvailable(n) == n <= latest

StartFetch(n) ==
    /\ Fetching /\ at = "idle" /\ ~canceled
    /\ blockNum' = n
    /\ at' = IF IsBlockAvailable(n) THEN "block" ELSE "head"
    /\ result' = Nil
    /\ UNCHANGED <<chainVars, faults, canceled, program, latest, jobVars, printed, seen>>

\* Fetch wants a head at or above the height, and keeps what it was told in
\* latest; poll-rpc-blocks wants a block above it, and its "latest, err :=" keeps
\* nothing, so that it asks before each block.
FarEnoughMutant(head) == head >= blockNum
FarEnough(head) == IF Fetching THEN head >= blockNum ELSE head > blockNum

LatestBlockNum ==
    /\ at = "head" /\ CallAnswers
    /\ at' = IF FarEnough(Len(chain)) THEN "block" ELSE "head"
    /\ latest' = IF Fetching THEN Len(chain) ELSE latest
    /\ seen' = reorgs
    /\ UNCHANGED <<chainVars, canceled, program, blockNum, jobVars, result, printed>>

\* The client answers 0 with its error, and Fetch assigns both.
LatestBlockNumFails ==
    /\ at = "head" /\ CallFails
    /\ latest' = 0
    /\ Fails
    /\ UNCHANGED <<chainVars, canceled, program, blockNum, printed, seen>>

GetBlockByNumber ==
    /\ at = "block" /\ CallAnswers /\ blockNum <= Len(chain)
    /\ at' = "receipts"
    /\ rpcBlock' = chain[blockNum] /\ kept' = TRUE
    /\ calls' = [i \in 1..Len(rpcBlock'.trxs) |-> "todo"]
    /\ attempts' = [i \in 1..Len(rpcBlock'.trxs) |-> 0]
    /\ receipts' = << >>
    /\ UNCHANGED <<chainVars, canceled, program, blockNum, latest, result, printed, seen>>

GetBlockByNumberFails ==
    /\ at = "block"
    /\ CallFails \/ (CallAnswers /\ blockNum > Len(chain))
    /\ Fails
    /\ UNCHANGED <<chainVars, canceled, program, blockNum, latest, printed, seen>>

-----------------------------------------------------------------------------
(***************************************************************************)
(* FetchReceipts: the loop starts one goroutine for each transaction, at   *)
(* most Workers at once, and stops starting them at the first error; each  *)
(* asks for its receipt until it has one or has tried Retries times.       *)
(***************************************************************************)
In(state) == {i \in 1..Len(calls) : calls[i] = state}

\* The receipt the endpoint knows for a transaction, as a set: none when no
\* block of the chain holds it.
ReceiptsOf(hash) ==
    UNION {{RPCReceipt(b, i) : i \in {j \in 1..Len(b.trxs) : b.trxs[j].hash = hash}} :
           b \in ToSet(chain)}

GoReceipt(i) ==
    /\ at = "receipts" /\ calls[i] = "todo"
    /\ In("failed") = {} /\ Cardinality(In("running")) < Workers
    /\ \A j \in 1..(i - 1) : calls[j] # "todo"
    /\ calls' = [calls EXCEPT ![i] = "running"]
    /\ UNCHANGED <<chainVars, faults, canceled, program, at, blockNum, latest, rpcBlock,
                   kept, attempts, receipts, result, printed, seen>>

\* The transaction whose receipt the i-th goroutine asks for: "hash := tx.Hash"
\* is there so that it is not the one the loop has come to.
WantedMutant(i) == rpcBlock.trxs[Cardinality({j \in 1..Len(calls) : calls[j] # "todo"})].hash
Wanted(i) == rpcBlock.trxs[i].hash

TransactionReceipt(i) ==
    /\ at = "receipts" /\ calls[i] = "running" /\ CallAnswers
    /\ \E receipt \in ReceiptsOf(Wanted(i)) :
           receipts' = [h \in DOMAIN receipts \cup {rpcBlock.trxs[i].hash} |->
                           IF h = rpcBlock.trxs[i].hash THEN receipt ELSE receipts[h]]
    /\ calls' = [calls EXCEPT ![i] = "done"]
    /\ UNCHANGED <<chainVars, canceled, program, at, blockNum, latest, rpcBlock, kept,
                   attempts, result, printed, seen>>

\* A missing receipt is an error like any other; RetryContext gives up at once
\* when the context is done.  Attempts are not counted beyond Retries.
TriedEnoughMutant(tries) == canceled
TriedEnough(tries) == canceled \/ tries >= Retries

TransactionReceiptFails(i) ==
    LET tries == attempts[i] + 1 IN
    /\ at = "receipts" /\ calls[i] = "running"
    /\ CallFails \/ (CallAnswers /\ ReceiptsOf(Wanted(i)) = {})
    /\ attempts' = [attempts EXCEPT ![i] = IF @ < Retries THEN tries ELSE @]
    /\ calls' = [calls EXCEPT ![i] = IF TriedEnough(tries) THEN "failed" ELSE "running"]
    /\ UNCHANGED <<chainVars, canceled, program, at, blockNum, latest, rpcBlock, kept,
                   receipts, result, printed, seen>>

WaitFails ==
    /\ at = "receipts" /\ In("running") = {} /\ In("failed") # {}
    /\ UNCHANGED faults
    /\ Fails
    /\ UNCHANGED <<chainVars, canceled, program, blockNum, latest, printed, seen>>

-----------------------------------------------------------------------------
(***************************************************************************)
(* The answer of Fetch, and the BLOCK line of poll-rpc-blocks.             *)
(***************************************************************************)

EthBlockLIBNum(num) ==
    IF num <= FirstStreamable + Irreversible THEN FirstStreamable ELSE num - Irreversible

AllFetchedMutant == In("running") = {}
AllFetched == \A i \in 1..Len(calls) : calls[i] = "done"

Fetched ==
    /\ at = "receipts" /\ AllFetched
    /\ rpcBlock' = Nil /\ kept' = TRUE /\ calls' = << >> /\ attempts' = << >> /\ receipts' = << >>
    /\ UNCHANGED <<chainVars, faults, canceled, program, latest, seen>>

\* The block made of what was fetched.  The other fields are history: what it was
\* made of, how high the chain was, and how often it had lost blocks by now and
\* when its height was answered.
Answer(lib) ==
    [ok |-> TRUE, block |-> RpcToEthBlock(rpcBlock, receipts), lib |-> lib,
     from |-> rpcBlock, receipts |-> receipts, whole |-> kept,
     height |-> Len(chain), reorgs |-> reorgs, seen |-> seen]

ReturnBlock ==
    /\ Fetching /\ Fetched
    /\ result' = Answer(EthBlockLIBNum(rpcBlock.num))
    /\ at' = "idle"
    /\ UNCHANGED <<blockNum, printed>>

PrintBlock ==
    /\ ~Fetching /\ Fetched
    /\ printed' = Append(printed, Answer(blockNum - 1))
    /\ blockNum' = blockNum + 1
    /\ at' = "head"
    /\ UNCHANGED result

ProgramStep ==
    \/ LatestBlockNum \/ LatestBlockNumFails
    \/ GetBlockByNumber \/ GetBlockByNumberFails
    \/ \E i \in 1..Len(calls) :
           GoReceipt(i) \/ TransactionReceipt(i) \/ TransactionReceiptFails(i)
    \/ WaitFails \/ ReturnBlock \/ PrintBlock

Next ==
    \/ \E body \in Bodies :
           \E hashes \in [1..Len(body) -> TrxHashes \ ChainTrxs] :
               IsInjective(hashes) /\ Mine(body, hashes)
    \/ \E height \in 0..(MaxHeight - 1) : LoseBlocks(height)
    \/ \E b \in lost : Restore(b)
    \/ Cancel
    \/ \E n \in Heights : StartFetch(n)
    \/ ProgramStep

\* The program runs: it makes its next call, and a call ends, in an answer or in
\* an error.  The chain, the failures and the poller's requests owe nothing.
Spec == Init /\ [][Next]_vars /\ WF_vars(ProgramStep)

-----------------------------------------------------------------------------
Answers == {a \in {result} : a # Nil /\ a.ok} \cup ToSet(printed)

\* Besides the types: a last irreversible block is neither after its block nor
\* before the first streamable one.
TypeOK ==
    /\ program \in {"fetch", "poll"} /\ at \in {"idle", "head", "block", "receipts"}
    /\ canceled \in BOOLEAN
    /\ blockNum \in Nat /\ latest \in 0..MaxHeight
    /\ faults \in 0..MaxFaults /\ reorgs \in 0..MaxReorgs /\ seen \in 0..reorgs
    /\ Len(chain) <= MaxHeight /\ mined \in 0..MaxMined
    /\ at = "receipts" <=> rpcBlock # Nil
    /\ calls \in Seq({"todo", "running", "done", "failed"})
    /\ attempts \in Seq(0..Retries) /\ Len(attempts) = Len(calls)
    /\ DOMAIN receipts \subseteq TrxHashes
    /\ \A a \in Answers : a.lib \in FirstStreamable..a.block.num

\* A fetched block has the receipts that were made with it, whatever the order in
\* which they arrived, unless the chain lost the block before the last of them:
\* the hash of the block in the receipts is never looked at.
ReceiptsOfTheBlock ==
    \A a \in Answers : a.whole =>
        \A i \in 1..Len(a.from.trxs) :
            LET hash == a.from.trxs[i].hash IN
            hash \in DOMAIN a.receipts => a.receipts[hash] = RPCReceipt(a.from, i)

\* No transaction of a fetched block is left without a receipt, so that a status is
\* unknown only before Byzantium.
NoReceiptIsMissing ==
    \A a \in Answers : DOMAIN a.receipts = {t.hash : t \in ToSet(a.from.trxs)}

Ordinals(traces) ==
    FlattenSeq([i \in 1..Len(traces) |->
        <<traces[i].begin>> \o [k \in 1..Len(traces[i].receipt) |-> traces[i].receipt[k].ord]
        \o <<traces[i].end>>])

\* The ordinals of a fetched block number its traces and their logs 0, 1, 2, ...
\* in order, so that fix-ordinals has nothing to change in it.
OrdinalsInOrder ==
    \A a \in Answers :
        LET ordinals == Ordinals(a.block.trxs) IN
        /\ ordinals = [k \in 1..Len(ordinals) |-> k - 1]
        /\ FixOrdinals(a.block.trxs) = a.block.trxs

\* Fetch returns an error only when the context was canceled, when the chain lost
\* blocks since Fetch was told its height, or when the endpoint failed: once for
\* the height or the block, Retries times for a receipt.  latest, which outlives
\* the calls, never makes it ask for a block that was not there.
FetchFailsForAReason ==
    (result # Nil /\ ~result.ok) =>
        \/ result.canceled \/ result.lost
        \/ result.faults >= (IF result.at = "receipts" THEN Retries ELSE 1)

\* poll-rpc-blocks prints one height after another, each the child of the one
\* before unless the chain lost blocks in between, and only below the head: the
\* block it announces as final, one below, then has a grandchild.
PrintedBlocksLink ==
    \A k \in 1..Len(printed) :
        /\ printed[k].block.num = k
        /\ printed[k].height > k \/ printed[k].reorgs > printed[k].seen
        /\ k > 1 => \/ printed[k].block.parent = printed[k-1].block.hash
                    \/ printed[k].reorgs > printed[k-1].seen

\* Once the height is there, or once the context is canceled, Fetch ends, in a
\* block or in an error.
FetchEnds ==
    (Fetching /\ (canceled \/ at \in {"block", "receipts"})) ~> (at = "idle")
=============================================================================

------------------------- MODULE BlockFetcherProofs -------------------------
(***************************************************************************)
(* Proofs about BlockFetcher, for any blocks, any number of workers and    *)
(* retries, and any reorganisations and failures: a fetched block has all  *)
(* of its receipts, and they are its own; its ordinals are in order; a     *)
(* fetch fails for a reason only; and the poller prints a chain.           *)
(***************************************************************************)
EXTENDS BlockFetcher, PostprocessProofs

-----------------------------------------------------------------------------
(***************************************************************************)
(* The chain.                                                              *)
(***************************************************************************)
TrxType ==
    [hash: Nat, to: {NoAddress}, index: Int, status: RPCStatus, logs: Seq(LogData)]

BlockType == [hash: Nat, num: Nat, parent: Nat, trxs: Seq(TrxType)]

\* A transaction is in one place of one block of the chain c.
Distinct(c) ==
    \A h, k \in 1..Len(c) :
        \A i \in 1..Len(c[h].trxs), j \in 1..Len(c[k].trxs) :
            c[h].trxs[i].hash = c[k].trxs[j].hash => h = k /\ i = j

\* What the chain lost, it may take back.
ChainInv ==
    /\ chain \in Seq(BlockType) /\ Distinct(chain)
    /\ mined \in Nat
    /\ lost \subseteq BlockType
    /\ \A b \in lost : \A i, j \in 1..Len(b.trxs) : b.trxs[i].hash = b.trxs[j].hash => i = j

\* A block as a body is mined.
Mined(body, hashes) ==
    [hash |-> mined + 1, num |-> Len(chain) + 1,
     parent |-> IF chain = << >> THEN 0 ELSE Last(chain).hash,
     trxs |-> [i \in 1..Len(body) |->
         [hash |-> hashes[i], to |-> NoAddress, index |-> i - 1,
          status |-> body[i].status, logs |-> body[i].logs]]]

ExecutionType == [status: RPCStatus, logs: Seq(LogData)]

LEMMA BodiesAreSequences == Bodies \subseteq Seq(ExecutionType) /\ TrxHashes \subseteq Nat
BY FetcherAssumption DEF ExecutionType

LEMMA MinedIsBlock ==
    ASSUME chain \in Seq(BlockType), mined \in Nat, NEW body \in Bodies,
           NEW hashes \in [1..Len(body) -> TrxHashes]
    PROVE  Mined(body, hashes) \in BlockType
<1> DEFINE b == Mined(body, hashes)
<1>1. body \in Seq(ExecutionType) /\ TrxHashes \subseteq Nat
  BY BodiesAreSequences
<1>2. b.trxs \in Seq(TrxType)
  <2>1. ASSUME NEW i \in 1..Len(body)
        PROVE  [hash |-> hashes[i], to |-> NoAddress, index |-> i - 1,
                status |-> body[i].status, logs |-> body[i].logs] \in TrxType
    <3>1. body[i] \in ExecutionType
      BY <1>1
    <3>2. body[i].status \in RPCStatus /\ body[i].logs \in Seq(LogData)
      BY <3>1 DEF ExecutionType
    <3>3. hashes[i] \in Nat
      BY <1>1
    <3> QED BY <3>2, <3>3 DEF TrxType
  <2>2. b.trxs \in [1..Len(body) -> TrxType]
    BY <2>1 DEF Mined
  <2>3. Len(body) \in Nat
    BY <1>1
  <2>4. b.trxs \in UNION {[1..n -> TrxType] : n \in Nat}
    BY <2>2, <2>3, Zenon
  <2> QED BY <2>4, SeqDef, Zenon
<1>3. b.hash \in Nat /\ b.num \in Nat
  BY DEF Mined
<1>4. b.parent \in Nat
  <2>1. CASE chain = << >>
    BY <2>1 DEF Mined
  <2>2. CASE chain # << >>
    <3>1. Len(chain) \in 1..Len(chain)
      BY <2>2
    <3>2. Last(chain) \in BlockType
      BY <3>1 DEF Last
    <3>3. Last(chain).hash \in Nat
      BY <3>2 DEF BlockType
    <3> QED BY <2>2, <3>3 DEF Mined
  <2> QED BY <2>1, <2>2
<1> QED BY <1>2, <1>3, <1>4 DEF BlockType, Mined

LEMMA AppendIsDistinct ==
    ASSUME NEW c \in Seq(BlockType), Distinct(c), NEW b \in BlockType,
           \A i, j \in 1..Len(b.trxs) : b.trxs[i].hash = b.trxs[j].hash => i = j,
           \A h \in 1..Len(c) : \A i \in 1..Len(c[h].trxs), j \in 1..Len(b.trxs) :
               c[h].trxs[i].hash # b.trxs[j].hash
    PROVE  Distinct(Append(c, b))
<1> DEFINE d == Append(c, b)
<1>1. /\ Len(d) = Len(c) + 1 /\ d[Len(c) + 1] = b /\ Len(c) \in Nat
      /\ \A h \in 1..Len(c) : d[h] = c[h]
  OBVIOUS
<1> HIDE DEF d
<1>2. ASSUME NEW h \in 1..Len(d), NEW k \in 1..Len(d),
             NEW i \in 1..Len(d[h].trxs), NEW j \in 1..Len(d[k].trxs),
             d[h].trxs[i].hash = d[k].trxs[j].hash
      PROVE  h = k /\ i = j
  <2>1. CASE h \in 1..Len(c) /\ k \in 1..Len(c)
    BY <1>1, <1>2, <2>1, SMTT(30) DEF Distinct
  <2>2. CASE h = Len(c) + 1 /\ k = Len(c) + 1
    BY <1>1, <1>2, <2>2
  <2>3. CASE h \in 1..Len(c) /\ k = Len(c) + 1
    BY <1>1, <1>2, <2>3, SMTT(30)
  <2>4. CASE h = Len(c) + 1 /\ k \in 1..Len(c)
    BY <1>1, <1>2, <2>4, SMTT(30)
  <2> QED BY <1>1, <2>1, <2>2, <2>3, <2>4
<1> QED BY <1>2 DEF Distinct, d

LEMMA AppendedElements ==
    ASSUME NEW S, NEW c \in Seq(S), NEW e \in S
    PROVE  ToSet(Append(c, e)) = ToSet(c) \cup {e}
<1> DEFINE d == Append(c, e)
<1>1. /\ DOMAIN d = 1..(Len(c) + 1) /\ DOMAIN c = 1..Len(c) /\ Len(c) \in Nat
      /\ d[Len(c) + 1] = e /\ \A h \in 1..Len(c) : d[h] = c[h]
  OBVIOUS
<1> HIDE DEF d
<1>2. ToSet(c) \cup {e} \subseteq ToSet(d)
  BY <1>1 DEF ToSet
<1>3. ASSUME NEW x \in ToSet(d) PROVE x \in ToSet(c) \cup {e}
  <2>1. PICK h \in 1..(Len(c) + 1) : x = d[h]
    BY <1>1 DEF ToSet
  <2>2. CASE h = Len(c) + 1
    BY <1>1, <2>1, <2>2
  <2>3. CASE h \in 1..Len(c)
    BY <1>1, <2>1, <2>3 DEF ToSet
  <2> QED BY <1>1, <2>2, <2>3
<1> QED BY <1>2, <1>3 DEF d

LEMMA ChainTrxsAreThere ==
    ASSUME chain \in Seq(BlockType)
    PROVE  \A h \in 1..Len(chain) : \A i \in 1..Len(chain[h].trxs) :
               chain[h].trxs[i].hash \in ChainTrxs
<1>1. \A h \in 1..Len(chain) : chain[h] \in ToSet(chain)
  BY DEF ToSet
<1> QED BY <1>1 DEF ChainTrxs

LEMMA MineKeepsChain ==
    ASSUME ChainInv, NEW body \in Bodies, NEW hashes \in [1..Len(body) -> TrxHashes \ ChainTrxs],
           IsInjective(hashes), Mine(body, hashes)
    PROVE  ChainInv'
<1> DEFINE b == Mined(body, hashes)
<1>1. /\ chain' = Append(chain, b) /\ mined' = mined + 1 /\ lost' = lost
      /\ mined \in Nat /\ chain \in Seq(BlockType)
  BY DEF ChainInv, Mine, Mined
<1>2. b \in BlockType
  BY <1>1, MinedIsBlock
<1>3. \A i \in 1..Len(body) : b.trxs[i].hash = hashes[i]
  BY DEF Mined
<1>4. Len(b.trxs) = Len(body)
  <2>1. Len(body) \in Nat
    BY FetcherAssumption
  <2> QED BY <2>1 DEF Mined
<1>5. \A h \in 1..Len(chain) : \A i \in 1..Len(chain[h].trxs) :
          chain[h].trxs[i].hash \in ChainTrxs
  BY <1>1, ChainTrxsAreThere
<1>6. \A i, j \in 1..Len(body) : hashes[i] = hashes[j] => i = j
  BY DEF IsInjective
<1> HIDE DEF b
<1>7. Distinct(chain')
  <2>1. \A i, j \in 1..Len(b.trxs) : b.trxs[i].hash = b.trxs[j].hash => i = j
    BY <1>3, <1>4, <1>6
  <2>2. \A h \in 1..Len(chain) : \A i \in 1..Len(chain[h].trxs), j \in 1..Len(b.trxs) :
            chain[h].trxs[i].hash # b.trxs[j].hash
    BY <1>3, <1>4, <1>5
  <2> QED BY <1>1, <1>2, <2>1, <2>2, AppendIsDistinct DEF ChainInv
<1> QED BY <1>1, <1>2, <1>7 DEF ChainInv

LEMMA LoseBlocksKeepsChain ==
    ASSUME ChainInv, NEW height \in 0..(MaxHeight - 1), LoseBlocks(height)
    PROVE  ChainInv'
<1>1. /\ chain' = SubSeq(chain, 1, height) /\ mined' = mined /\ mined \in Nat
      /\ height \in Nat /\ height < Len(chain) /\ chain \in Seq(BlockType)
      /\ lost' \subseteq lost \cup ToSet(chain)
  BY FetcherAssumption DEF LoseBlocks, ChainInv
<1>2. /\ Len(chain') = height /\ \A h \in 1..height : chain'[h] = chain[h]
      /\ chain' \in Seq(BlockType)
  BY <1>1
<1>3. Distinct(chain')
  <2>1. Distinct(chain)
    BY DEF ChainInv
  <2>2. ASSUME NEW h \in 1..height, NEW k \in 1..height,
               NEW i \in 1..Len(chain'[h].trxs), NEW j \in 1..Len(chain'[k].trxs),
               chain'[h].trxs[i].hash = chain'[k].trxs[j].hash
        PROVE  h = k /\ i = j
    <3>1. h \in 1..Len(chain) /\ k \in 1..Len(chain)
      BY <1>1
    <3>2. chain'[h] = chain[h] /\ chain'[k] = chain[k]
      BY <1>2
    <3>3. /\ i \in 1..Len(chain[h].trxs) /\ j \in 1..Len(chain[k].trxs)
          /\ chain[h].trxs[i].hash = chain[k].trxs[j].hash
      BY <2>2, <3>2
    <3> QED BY <2>1, <3>1, <3>3, Zenon DEF Distinct
  <2>3. Len(chain') = height
    BY <1>2
  <2> QED BY <2>2, <2>3, Zenon DEF Distinct
<1>4. ASSUME NEW b \in lost'
      PROVE  b \in BlockType /\ \A i, j \in 1..Len(b.trxs) :
                 b.trxs[i].hash = b.trxs[j].hash => i = j
  <2>1. CASE b \in lost
    BY <2>1 DEF ChainInv
  <2>2. CASE b \in ToSet(chain)
    <3>1. PICK h \in 1..Len(chain) : b = chain[h]
      BY <1>1, <2>2 DEF ToSet
    <3> QED BY <1>1, <3>1 DEF ChainInv, Distinct
  <2> QED BY <1>1, <2>1, <2>2
<1> QED BY <1>1, <1>2, <1>3, <1>4 DEF ChainInv

\* A block that comes back changes the chain as a new one does.
LEMMA RestoreAppends ==
    ASSUME ChainInv, NEW b \in lost, Restore(b)
    PROVE  /\ b \in BlockType /\ chain' = Append(chain, b) /\ b.num = Len(chain) + 1
           /\ b.parent = (IF chain = << >> THEN 0 ELSE chain[Len(chain)].hash)
           /\ UNCHANGED <<mined, lost, faults, canceled, program, at, blockNum, latest,
                          rpcBlock, kept, calls, attempts, receipts, result, printed,
                          reorgs, seen>>
BY DEF ChainInv, Restore, jobVars, Last

LEMMA RestoreKeepsChain ==
    ASSUME ChainInv, NEW b \in lost, Restore(b)
    PROVE  ChainInv'
<1>1. /\ b \in BlockType /\ chain' = Append(chain, b) /\ UNCHANGED <<mined, lost>>
      /\ chain \in Seq(BlockType)
  BY RestoreAppends DEF ChainInv
<1>2. \A h \in 1..Len(chain) : \A i \in 1..Len(chain[h].trxs) :
          chain[h].trxs[i].hash \in ChainTrxs
  BY <1>1, ChainTrxsAreThere
<1>3. \A j \in 1..Len(b.trxs) : b.trxs[j].hash \notin ChainTrxs
  <2>1. b.trxs \in Seq(TrxType)
    BY <1>1 DEF BlockType
  <2>2. \A j \in 1..Len(b.trxs) : b.trxs[j] \in ToSet(b.trxs)
    BY <2>1 DEF ToSet
  <2>3. {t.hash : t \in ToSet(b.trxs)} \cap ChainTrxs = {}
    BY DEF Restore
  <2> QED BY <2>2, <2>3
<1>4. Distinct(chain')
  <2>1. \A h \in 1..Len(chain) : \A i \in 1..Len(chain[h].trxs), j \in 1..Len(b.trxs) :
            chain[h].trxs[i].hash # b.trxs[j].hash
    BY <1>2, <1>3
  <2> QED BY <1>1, <2>1, AppendIsDistinct DEF ChainInv
<1> QED BY <1>1, <1>4 DEF ChainInv

LEMMA ChainStep ==
    ASSUME ChainInv, [Next]_vars
    PROVE  ChainInv'
<1>1. CASE UNCHANGED chainVars
  BY <1>1 DEF ChainInv, chainVars
<1>2. ASSUME NEW body \in Bodies, NEW hashes \in [1..Len(body) -> TrxHashes \ ChainTrxs],
             IsInjective(hashes) /\ Mine(body, hashes)
      PROVE  ChainInv'
  BY <1>2, MineKeepsChain
<1>3. ASSUME NEW height \in 0..(MaxHeight - 1), LoseBlocks(height)
      PROVE  ChainInv'
  BY <1>3, LoseBlocksKeepsChain
<1>8. ASSUME NEW b \in lost, Restore(b)
      PROVE  ChainInv'
  BY <1>8, RestoreKeepsChain
<1>4. CASE Cancel \/ (\E n \in Heights : StartFetch(n)) \/ UNCHANGED vars
  BY <1>1, <1>4 DEF Cancel, StartFetch, vars
<1>5. CASE LatestBlockNum \/ LatestBlockNumFails \/ GetBlockByNumber \/ GetBlockByNumberFails
  BY <1>1, <1>5 DEF LatestBlockNum, LatestBlockNumFails, GetBlockByNumber,
                    GetBlockByNumberFails
<1>6. CASE \E i \in 1..Len(calls) :
               GoReceipt(i) \/ TransactionReceipt(i) \/ TransactionReceiptFails(i)
  BY <1>1, <1>6 DEF GoReceipt, TransactionReceipt, TransactionReceiptFails
<1>7. CASE WaitFails \/ ReturnBlock \/ PrintBlock
  BY <1>1, <1>7 DEF WaitFails, ReturnBlock, PrintBlock, Fetched
<1> QED BY <1>2, <1>3, <1>4, <1>5, <1>6, <1>7, <1>8 DEF Next, ProgramStep

-----------------------------------------------------------------------------
(***************************************************************************)
(* The receipts of one block.                                              *)
(***************************************************************************)
States == {"todo", "running", "done", "failed"}

\* Receipts are those of the calls that are done, and were made with the block if the
\* chain never lost it.
Job(b, done, got, whole) ==
    /\ b \in BlockType
    /\ done \in Seq(States) /\ Len(done) = Len(b.trxs)
    /\ DOMAIN got = {b.trxs[i].hash : i \in {j \in 1..Len(b.trxs) : done[j] = "done"}}
    /\ whole =>
           \A i \in 1..Len(b.trxs) :
               b.trxs[i].hash \in DOMAIN got => got[b.trxs[i].hash] = RPCReceipt(b, i)

JobInv == at = "receipts" =>
    /\ Job(rpcBlock, calls, receipts, kept)
    /\ kept => rpcBlock \in ToSet(chain)

\* The receipt of a transaction of a block in the chain is that block's.
LEMMA ReceiptOfWanted ==
    ASSUME ChainInv, NEW b \in ToSet(chain), NEW i \in 1..Len(b.trxs),
           NEW receipt \in ReceiptsOf(b.trxs[i].hash)
    PROVE  receipt = RPCReceipt(b, i)
<1>1. PICK c \in ToSet(chain) : \E j \in 1..Len(c.trxs) :
          c.trxs[j].hash = b.trxs[i].hash /\ receipt = RPCReceipt(c, j)
  BY DEF ReceiptsOf
<1>2. PICK j \in 1..Len(c.trxs) : c.trxs[j].hash = b.trxs[i].hash /\ receipt = RPCReceipt(c, j)
  BY <1>1
<1>3. chain \in Seq(BlockType)
  BY DEF ChainInv
<1>4. PICK h \in 1..Len(chain) : b = chain[h]
  BY <1>3 DEF ToSet
<1>5. PICK k \in 1..Len(chain) : c = chain[k]
  BY <1>3 DEF ToSet
<1>6. h = k /\ i = j
  BY <1>2, <1>4, <1>5, SMTT(30) DEF ChainInv, Distinct
<1> QED BY <1>2, <1>4, <1>5, <1>6

LEMMA GoReceiptKeepsJob ==
    ASSUME JobInv, NEW i \in 1..Len(calls), GoReceipt(i)
    PROVE  JobInv'
<1>1. /\ at = "receipts" /\ calls[i] = "todo" /\ calls' = [calls EXCEPT ![i] = "running"]
      /\ UNCHANGED <<chain, at, rpcBlock, kept, receipts>>
  BY DEF GoReceipt, chainVars
<1>2. calls \in Seq(States) /\ Len(calls) = Len(rpcBlock.trxs) /\ "running" \in States
  BY <1>1 DEF JobInv, Job, States
<1>3. /\ calls' \in Seq(States) /\ Len(calls') = Len(calls)
      /\ \A j \in 1..Len(calls) : calls'[j] = IF j = i THEN "running" ELSE calls[j]
  BY <1>1, <1>2, ExceptSeq
<1>4. {j \in 1..Len(rpcBlock.trxs) : calls'[j] = "done"} =
          {j \in 1..Len(rpcBlock.trxs) : calls[j] = "done"}
  BY <1>1, <1>2, <1>3
<1> QED BY <1>1, <1>2, <1>3, <1>4 DEF JobInv, Job

LEMMA ReceiptFailsKeepsJob ==
    ASSUME JobInv, NEW i \in 1..Len(calls), TransactionReceiptFails(i)
    PROVE  JobInv'
<1>1. PICK state \in {"failed", "running"} :
          /\ at = "receipts" /\ calls[i] = "running" /\ calls' = [calls EXCEPT ![i] = state]
          /\ UNCHANGED <<chain, at, rpcBlock, kept, receipts>>
  BY DEF TransactionReceiptFails, chainVars
<1>2. calls \in Seq(States) /\ Len(calls) = Len(rpcBlock.trxs) /\ state \in States
  BY <1>1 DEF JobInv, Job, States
<1>3. /\ calls' \in Seq(States) /\ Len(calls') = Len(calls)
      /\ \A j \in 1..Len(calls) : calls'[j] = IF j = i THEN state ELSE calls[j]
  BY <1>1, <1>2, ExceptSeq
<1>4. {j \in 1..Len(rpcBlock.trxs) : calls'[j] = "done"} =
          {j \in 1..Len(rpcBlock.trxs) : calls[j] = "done"}
  BY <1>1, <1>2, <1>3
<1> QED BY <1>1, <1>2, <1>3, <1>4 DEF JobInv, Job

LEMMA ReceiptKeepsJob ==
    ASSUME ChainInv, JobInv, NEW i \in 1..Len(calls), TransactionReceipt(i)
    PROVE  JobInv'
<1> DEFINE hash == rpcBlock.trxs[i].hash
<1>1. /\ at = "receipts" /\ calls[i] = "running" /\ calls' = [calls EXCEPT ![i] = "done"]
      /\ UNCHANGED <<chain, at, rpcBlock, kept>>
  BY DEF TransactionReceipt, chainVars
<1>2. PICK receipt \in ReceiptsOf(hash) :
          receipts' = [h \in DOMAIN receipts \cup {hash} |->
                          IF h = hash THEN receipt ELSE receipts[h]]
  BY DEF TransactionReceipt, Wanted
<1>3. /\ calls \in Seq(States) /\ Len(calls) = Len(rpcBlock.trxs) /\ "done" \in States
      /\ i \in 1..Len(rpcBlock.trxs)
  BY <1>1 DEF JobInv, Job, States
<1>4. /\ calls' \in Seq(States) /\ Len(calls') = Len(calls)
      /\ \A j \in 1..Len(calls) : calls'[j] = IF j = i THEN "done" ELSE calls[j]
  BY <1>1, <1>3, ExceptSeq
<1>5. DOMAIN receipts' =
          {rpcBlock.trxs[k].hash : k \in {j \in 1..Len(rpcBlock.trxs) : calls'[j] = "done"}}
  <2>1. DOMAIN receipts =
          {rpcBlock.trxs[k].hash : k \in {j \in 1..Len(rpcBlock.trxs) : calls[j] = "done"}}
    BY <1>1 DEF JobInv, Job
  <2>2. {j \in 1..Len(rpcBlock.trxs) : calls'[j] = "done"} =
            {j \in 1..Len(rpcBlock.trxs) : calls[j] = "done"} \cup {i}
    BY <1>3, <1>4
  <2>3. DOMAIN receipts' = DOMAIN receipts \cup {hash}
    BY <1>2
  <2> QED BY <2>1, <2>2, <2>3
<1>6. ASSUME kept, NEW k \in 1..Len(rpcBlock.trxs),
             rpcBlock.trxs[k].hash \in DOMAIN receipts'
      PROVE  receipts'[rpcBlock.trxs[k].hash] = RPCReceipt(rpcBlock, k)
  <2>1. CASE rpcBlock.trxs[k].hash = hash
    <3>1. receipt \in ReceiptsOf(rpcBlock.trxs[k].hash)
      BY <2>1
    <3>2. rpcBlock \in ToSet(chain)
      BY <1>1, <1>6 DEF JobInv
    <3>3. receipt = RPCReceipt(rpcBlock, k)
      BY <3>1, <3>2, ReceiptOfWanted
    <3> QED BY <1>2, <2>1, <3>3
  <2>2. CASE rpcBlock.trxs[k].hash # hash
    <3>1. rpcBlock.trxs[k].hash \in DOMAIN receipts
      BY <1>2, <1>6, <2>2
    <3>2. receipts[rpcBlock.trxs[k].hash] = RPCReceipt(rpcBlock, k)
      BY <1>1, <1>6, <3>1 DEF JobInv, Job
    <3> QED BY <1>2, <2>2, <3>1, <3>2
  <2> QED BY <2>1, <2>2
<1> QED BY <1>1, <1>3, <1>4, <1>5, <1>6 DEF JobInv, Job

LEMMA GetBlockMakesJob ==
    ASSUME ChainInv, GetBlockByNumber, blockNum \in Nat \ {0}
    PROVE  JobInv'
<1>1. /\ rpcBlock' = chain[blockNum] /\ blockNum <= Len(chain)
      /\ calls' = [i \in 1..Len(rpcBlock'.trxs) |-> "todo"] /\ receipts' = << >>
      /\ UNCHANGED chain
  BY DEF GetBlockByNumber, chainVars
<1>2. chain \in Seq(BlockType)
  BY DEF ChainInv
<1>3. rpcBlock' \in BlockType /\ rpcBlock' \in ToSet(chain)
  <2>1. blockNum \in 1..Len(chain)
    BY <1>1, <1>2
  <2> QED BY <1>1, <1>2, <2>1 DEF ToSet
<1>4. calls' \in Seq(States) /\ Len(calls') = Len(rpcBlock'.trxs)
  <2>1. Len(rpcBlock'.trxs) \in Nat
    BY <1>3 DEF BlockType
  <2> QED BY <1>1, <2>1 DEF States
<1>5. {j \in 1..Len(rpcBlock'.trxs) : calls'[j] = "done"} = {} /\ DOMAIN receipts' = {}
  BY <1>1
<1> QED BY <1>1, <1>3, <1>4, <1>5 DEF JobInv, Job

\* The height asked for is one of a block.
LEMMA NumStep ==
    ASSUME blockNum \in Nat \ {0}, [Next]_vars
    PROVE  blockNum' \in Nat \ {0}
<1>1. CASE UNCHANGED blockNum
  BY <1>1
<1>2. CASE \E n \in Heights : StartFetch(n)
  BY <1>2, FetcherAssumption DEF StartFetch
<1>3. CASE PrintBlock
  BY <1>3 DEF PrintBlock
<1>4. CASE \/ \E body \in Bodies : \E hashes \in [1..Len(body) -> TrxHashes \ ChainTrxs] :
                  IsInjective(hashes) /\ Mine(body, hashes)
           \/ \E height \in 0..(MaxHeight - 1) : LoseBlocks(height)
           \/ (\E b \in lost : Restore(b))
           \/ Cancel \/ UNCHANGED vars
  BY <1>1, <1>4 DEF Mine, LoseBlocks, Restore, Cancel, vars
<1>5. CASE LatestBlockNum \/ LatestBlockNumFails \/ GetBlockByNumber \/ GetBlockByNumberFails
  BY <1>1, <1>5 DEF LatestBlockNum, LatestBlockNumFails, GetBlockByNumber,
                    GetBlockByNumberFails
<1>6. CASE \E i \in 1..Len(calls) :
               GoReceipt(i) \/ TransactionReceipt(i) \/ TransactionReceiptFails(i)
  BY <1>1, <1>6 DEF GoReceipt, TransactionReceipt, TransactionReceiptFails
<1>7. CASE WaitFails \/ ReturnBlock
  BY <1>1, <1>7 DEF WaitFails, ReturnBlock
<1> QED BY <1>2, <1>3, <1>4, <1>5, <1>6, <1>7 DEF Next, ProgramStep

LEMMA JobStep ==
    ASSUME ChainInv, JobInv, blockNum \in Nat \ {0}, [Next]_vars
    PROVE  JobInv'
<1>1. CASE UNCHANGED <<chain, at, rpcBlock, kept, calls, receipts>>
  BY <1>1 DEF JobInv
<1>2. CASE at' # "receipts"
  BY <1>2 DEF JobInv
<1>3. ASSUME UNCHANGED <<at, rpcBlock, kept, calls, receipts>>, ToSet(chain) \subseteq ToSet(chain')
      PROVE  JobInv'
  BY <1>3 DEF JobInv
<1>11. chain \in Seq(BlockType)
  BY DEF ChainInv
<1>12. ASSUME NEW body \in Bodies, NEW hashes \in [1..Len(body) -> TrxHashes \ ChainTrxs],
              IsInjective(hashes) /\ Mine(body, hashes)
       PROVE  JobInv'
  <2>1. /\ UNCHANGED <<at, rpcBlock, kept, calls, receipts>>
        /\ chain' = Append(chain, Mined(body, hashes)) /\ mined \in Nat
    BY <1>12 DEF Mine, Mined, jobVars, ChainInv
  <2>2. Mined(body, hashes) \in BlockType
    BY <1>11, <2>1, MinedIsBlock
  <2> QED BY <1>3, <1>11, <2>1, <2>2, AppendedElements
<1>13. ASSUME NEW b \in lost, Restore(b)
       PROVE  JobInv'
  <2>1. /\ UNCHANGED <<at, rpcBlock, kept, calls, receipts>>
        /\ chain' = Append(chain, b) /\ b \in BlockType
    BY <1>13, RestoreAppends
  <2> QED BY <1>3, <1>11, <2>1, AppendedElements
<1>4. ASSUME NEW height \in 0..(MaxHeight - 1), LoseBlocks(height)
      PROVE  JobInv'
  <2> SUFFICES ASSUME at' = "receipts" PROVE JobInv'
    BY <1>2
  <2>1. UNCHANGED <<at, rpcBlock, calls, receipts>>
    BY <1>4 DEF LoseBlocks
  <2>2. Job(rpcBlock, calls, receipts, kept)
    BY <2>1 DEF JobInv
  <2>3. kept' => kept /\ rpcBlock \in ToSet(chain')
    BY <1>4, <2>1 DEF LoseBlocks
  <2> QED BY <2>1, <2>2, <2>3 DEF JobInv, Job
<1>5. CASE Cancel \/ UNCHANGED vars
  BY <1>1, <1>5 DEF Cancel, vars, chainVars, jobVars
<1>6. CASE (\E n \in Heights : StartFetch(n)) \/ LatestBlockNum
  BY <1>2, <1>6 DEF StartFetch, LatestBlockNum
<1>7. CASE LatestBlockNumFails \/ GetBlockByNumberFails \/ WaitFails
  BY <1>2, <1>7 DEF LatestBlockNumFails, GetBlockByNumberFails, WaitFails, Fails
<1>8. CASE GetBlockByNumber
  BY <1>8, GetBlockMakesJob
<1>9. ASSUME NEW i \in 1..Len(calls),
             GoReceipt(i) \/ TransactionReceipt(i) \/ TransactionReceiptFails(i)
      PROVE  JobInv'
  BY <1>9, GoReceiptKeepsJob, ReceiptKeepsJob, ReceiptFailsKeepsJob
<1>10. CASE ReturnBlock \/ PrintBlock
  BY <1>2, <1>10 DEF ReturnBlock, PrintBlock
<1> QED BY <1>4, <1>5, <1>6, <1>7, <1>8, <1>9, <1>10, <1>12, <1>13 DEF Next, ProgramStep

-----------------------------------------------------------------------------
(***************************************************************************)
(* The answers.                                                            *)
(***************************************************************************)
GoodAnswer(a) ==
    /\ DOMAIN a.receipts = {t.hash : t \in ToSet(a.from.trxs)}
    /\ a.whole =>
           \A i \in 1..Len(a.from.trxs) :
               a.from.trxs[i].hash \in DOMAIN a.receipts =>
                   a.receipts[a.from.trxs[i].hash] = RPCReceipt(a.from, i)

AnswerInv ==
    /\ \E S : printed \in Seq(S)
    /\ \A a \in Answers : GoodAnswer(a)

LEMMA AnswerIsGood ==
    ASSUME JobInv, Fetched, NEW lib
    PROVE  GoodAnswer(Answer(lib))
<1> DEFINE a == Answer(lib)
<1>1. a.receipts = receipts /\ a.from = rpcBlock /\ a.whole = kept
  BY DEF Answer
<1>2. Job(rpcBlock, calls, receipts, kept)
  BY DEF JobInv, Fetched
<1>3. \A i \in 1..Len(rpcBlock.trxs) : calls[i] = "done"
  BY <1>2 DEF Fetched, AllFetched, Job
<1>4. rpcBlock.trxs \in Seq(TrxType)
  BY <1>2 DEF Job, BlockType
<1>5. {j \in 1..Len(rpcBlock.trxs) : calls[j] = "done"} = DOMAIN rpcBlock.trxs
  BY <1>3, <1>4
<1>6. DOMAIN receipts = {rpcBlock.trxs[i].hash : i \in DOMAIN rpcBlock.trxs}
  BY <1>2, <1>5 DEF Job
<1>7. {rpcBlock.trxs[i].hash : i \in DOMAIN rpcBlock.trxs} =
          {t.hash : t \in ToSet(rpcBlock.trxs)}
  BY DEF ToSet
<1> HIDE DEF a
<1>8. DOMAIN a.receipts = {t.hash : t \in ToSet(a.from.trxs)}
  BY <1>1, <1>6, <1>7
<1>9. ASSUME a.whole, NEW i \in 1..Len(a.from.trxs),
             a.from.trxs[i].hash \in DOMAIN a.receipts
      PROVE  a.receipts[a.from.trxs[i].hash] = RPCReceipt(a.from, i)
  BY <1>1, <1>2, <1>9 DEF Job
<1>10. GoodAnswer(a)
  BY <1>8, <1>9 DEF GoodAnswer
<1> QED BY <1>10 DEF a

LEMMA AnswerStep ==
    ASSUME JobInv, AnswerInv, [Next]_vars
    PROVE  AnswerInv'
<1>1. CASE UNCHANGED <<result, printed>>
  BY <1>1 DEF AnswerInv, Answers
<1>2. ASSUME printed' = printed, result' = Nil \/ ~result'.ok
      PROVE  AnswerInv'
  BY <1>2 DEF AnswerInv, Answers
<1>3. CASE \/ \E body \in Bodies : \E hashes \in [1..Len(body) -> TrxHashes \ ChainTrxs] :
                  IsInjective(hashes) /\ Mine(body, hashes)
           \/ \E height \in 0..(MaxHeight - 1) : LoseBlocks(height)
           \/ (\E b \in lost : Restore(b))
           \/ Cancel \/ UNCHANGED vars
  BY <1>1, <1>3 DEF Mine, LoseBlocks, Restore, Cancel, vars
<1>4. CASE \E n \in Heights : StartFetch(n)
  BY <1>2, <1>4 DEF StartFetch
<1>5. CASE LatestBlockNum \/ GetBlockByNumber
  BY <1>1, <1>5 DEF LatestBlockNum, GetBlockByNumber
<1>6. CASE LatestBlockNumFails \/ GetBlockByNumberFails \/ WaitFails
  <2>1. printed' = printed /\ Fails
    BY <1>6 DEF LatestBlockNumFails, GetBlockByNumberFails, WaitFails
  <2>2. result' = Nil \/ ~result'.ok
    BY <2>1 DEF Fails
  <2> QED BY <1>2, <2>1, <2>2
<1>7. CASE \E i \in 1..Len(calls) :
               GoReceipt(i) \/ TransactionReceipt(i) \/ TransactionReceiptFails(i)
  BY <1>1, <1>7 DEF GoReceipt, TransactionReceipt, TransactionReceiptFails
<1>8. CASE ReturnBlock
  <2>1. PICK lib : result' = Answer(lib)
    BY <1>8 DEF ReturnBlock
  <2>2. printed' = printed /\ GoodAnswer(Answer(lib))
    BY <1>8, AnswerIsGood DEF ReturnBlock
  <2> HIDE DEF Answer
  <2> QED BY <2>1, <2>2 DEF AnswerInv, Answers
<1>9. CASE PrintBlock
  <2> DEFINE a == Answer(blockNum - 1)
  <2>1. printed' = Append(printed, a) /\ result' = result /\ GoodAnswer(a)
    BY <1>9, AnswerIsGood DEF PrintBlock
  <2> HIDE DEF a
  <2>2. PICK S : printed \in Seq(S)
    BY DEF AnswerInv
  <2>3. printed \in Seq(S \cup {a})
    BY <2>2
  <2>4. printed' \in Seq(S \cup {a}) /\ ToSet(printed') = ToSet(printed) \cup {a}
    BY <2>1, <2>3, AppendedElements
  <2>5. \A e \in Answers' : e \in Answers \/ e = a
    BY <2>1, <2>4 DEF Answers
  <2> QED BY <2>1, <2>4, <2>5 DEF AnswerInv
<1> QED BY <1>3, <1>4, <1>5, <1>6, <1>7, <1>8, <1>9 DEF Next, ProgramStep

-----------------------------------------------------------------------------
FetcherInv == ChainInv /\ blockNum \in Nat \ {0} /\ JobInv /\ AnswerInv

LEMMA FetcherStarts == Init => FetcherInv
<1> SUFFICES ASSUME Init PROVE FetcherInv
  OBVIOUS
<1>1. ChainInv
  BY DEF Init, ChainInv, Distinct, ToSet
<1>2. JobInv
  BY DEF Init, JobInv
<1>3. AnswerInv
  <2>1. printed \in Seq({}) /\ Answers = {}
    BY DEF Init, Answers, ToSet
  <2> QED BY <2>1 DEF AnswerInv
<1> QED BY <1>1, <1>2, <1>3 DEF Init, FetcherInv

LEMMA FetcherCorrect == Spec => []FetcherInv
<1>1. FetcherInv /\ [Next]_vars => FetcherInv'
  BY ChainStep, NumStep, JobStep, AnswerStep DEF FetcherInv
<1> QED BY <1>1, FetcherStarts, PTL DEF Spec

\* Every receipt of a fetched block was made with that block, whatever the order in
\* which they arrived, unless the chain lost the block before the last of them.
THEOREM ReceiptsAreTheBlocks == Spec => []ReceiptsOfTheBlock
<1>1. FetcherInv => ReceiptsOfTheBlock
  BY DEF FetcherInv, AnswerInv, GoodAnswer, ReceiptsOfTheBlock
<1> QED BY <1>1, FetcherCorrect, PTL

\* No transaction of a fetched block is left without a receipt.
THEOREM ReceiptsAreComplete == Spec => []NoReceiptIsMissing
<1>1. FetcherInv => NoReceiptIsMissing
  BY DEF FetcherInv, AnswerInv, GoodAnswer, NoReceiptIsMissing
<1> QED BY <1>1, FetcherCorrect, PTL

-----------------------------------------------------------------------------
(***************************************************************************)
(* Why a fetch fails.  As long as the chain has lost no block since its    *)
(* height was answered (Stable), what that answer promised is there.       *)
(***************************************************************************)
Stable == reorgs <= seen

HeadInv ==
    /\ seen \in Nat /\ reorgs \in Nat /\ faults \in Nat /\ latest \in Nat /\ seen <= reorgs
    /\ (Stable /\ Fetching) => latest <= Len(chain)
    /\ (Stable /\ at = "block" /\ Fetching) => blockNum <= Len(chain)
    /\ (Stable /\ at = "receipts") => blockNum <= Len(chain) /\ rpcBlock = chain[blockNum]

LEMMA HeadStep ==
    ASSUME ChainInv, blockNum \in Nat \ {0}, HeadInv, [Next]_vars
    PROVE  HeadInv'
<1>0. chain \in Seq(BlockType) /\ Len(chain) \in Nat
  BY DEF ChainInv
<1> USE DEF HeadInv, Stable, Fetching
<1>1. ASSUME NEW body \in Bodies, NEW hashes \in [1..Len(body) -> TrxHashes \ ChainTrxs],
             IsInjective(hashes) /\ Mine(body, hashes)
      PROVE  HeadInv'
  <2>1. /\ chain' = Append(chain, Mined(body, hashes))
        /\ UNCHANGED <<program, seen, reorgs, faults, latest, at, blockNum, rpcBlock>>
    BY <1>1 DEF Mine, Mined, jobVars
  <2>2. Len(chain') = Len(chain) + 1 /\ \A h \in 1..Len(chain) : chain'[h] = chain[h]
    BY <1>0, <2>1
  <2> QED BY <1>0, <2>1, <2>2
<1>2. ASSUME NEW height \in 0..(MaxHeight - 1), LoseBlocks(height)
      PROVE  HeadInv'
  <2>1. /\ reorgs' = reorgs + 1
        /\ UNCHANGED <<program, seen, faults, latest, at, blockNum, rpcBlock>>
    BY <1>2 DEF LoseBlocks, jobVars
  <2> QED BY <2>1
<1>12. ASSUME NEW b \in lost, Restore(b)
       PROVE  HeadInv'
  <2>1. /\ chain' = Append(chain, b) /\ b \in BlockType
        /\ UNCHANGED <<program, seen, reorgs, faults, latest, at, blockNum, rpcBlock>>
    BY <1>12, RestoreAppends
  <2>2. Len(chain') = Len(chain) + 1 /\ \A h \in 1..Len(chain) : chain'[h] = chain[h]
    BY <1>0, <2>1
  <2> QED BY <1>0, <2>1, <2>2
<1>3. CASE Cancel \/ UNCHANGED vars
  BY <1>3 DEF Cancel, vars, chainVars, jobVars
<1>4. ASSUME NEW n \in Heights, StartFetch(n)
      PROVE  HeadInv'
  BY <1>4, FetcherAssumption DEF StartFetch, IsBlockAvailable, chainVars, jobVars
<1>5. CASE LatestBlockNum
  BY <1>0, <1>5 DEF LatestBlockNum, FarEnough, CallAnswers, chainVars, jobVars
<1>6. CASE LatestBlockNumFails
  BY <1>0, <1>6 DEF LatestBlockNumFails, Fails, CallFails, chainVars
<1>7. CASE GetBlockByNumber
  BY <1>0, <1>7 DEF GetBlockByNumber, CallAnswers, chainVars
<1>8. CASE GetBlockByNumberFails
  BY <1>8 DEF GetBlockByNumberFails, Fails, CallFails, CallAnswers, chainVars
<1>9. ASSUME NEW i \in 1..Len(calls),
             GoReceipt(i) \/ TransactionReceipt(i) \/ TransactionReceiptFails(i)
      PROVE  HeadInv'
  BY <1>9 DEF GoReceipt, TransactionReceipt, TransactionReceiptFails, CallFails, CallAnswers,
              chainVars
<1>10. CASE WaitFails
  BY <1>10 DEF WaitFails, Fails, chainVars
<1>11. CASE ReturnBlock \/ PrintBlock
  BY <1>11 DEF ReturnBlock, PrintBlock, Fetched, chainVars
<1> QED BY <1>1, <1>2, <1>3, <1>4, <1>5, <1>6, <1>7, <1>8, <1>9, <1>10, <1>11, <1>12
        DEF Next, ProgramStep

\* A call for a receipt failed as often as the endpoint, or for a better reason.
TryInv == at = "receipts" =>
    /\ attempts \in Seq(Nat) /\ Len(attempts) = Len(calls) /\ calls \in Seq(States)
    /\ \A i \in 1..Len(calls) :
           /\ canceled \/ ~Stable \/ attempts[i] <= faults
           /\ calls[i] = "failed" => canceled \/ ~Stable \/ attempts[i] >= Retries

\* The endpoint knows a receipt of every transaction of a block in the chain.
LEMMA ReceiptIsThere ==
    ASSUME NEW b \in ToSet(chain), NEW i \in 1..Len(b.trxs)
    PROVE  ReceiptsOf(b.trxs[i].hash) # {}
<1> DEFINE Of(c) == {RPCReceipt(c, j) : j \in {k \in 1..Len(c.trxs) :
                                              c.trxs[k].hash = b.trxs[i].hash}}
<1>1. RPCReceipt(b, i) \in Of(b)
  OBVIOUS
<1>2. ReceiptsOf(b.trxs[i].hash) = UNION {Of(c) : c \in ToSet(chain)}
  BY DEF ReceiptsOf
<1> HIDE DEF Of
<1> QED BY <1>1, <1>2

LEMMA ReceiptFailsKeepsTries ==
    ASSUME ChainInv, JobInv, blockNum \in Nat \ {0}, HeadInv, TryInv,
           NEW i \in 1..Len(calls), TransactionReceiptFails(i)
    PROVE  TryInv'
<1> DEFINE tries == attempts[i] + 1
           state == IF TriedEnough(tries) THEN "failed" ELSE "running"
<1>1. /\ at = "receipts" /\ calls[i] = "running"
      /\ CallFails \/ (CallAnswers /\ ReceiptsOf(Wanted(i)) = {})
      /\ attempts' = [attempts EXCEPT ![i] = IF attempts[i] < Retries THEN tries
                                             ELSE attempts[i]]
      /\ calls' = [calls EXCEPT ![i] = state]
      /\ UNCHANGED <<chain, reorgs, seen, canceled, at, blockNum, rpcBlock>>
  BY DEF TransactionReceiptFails, chainVars
<1>2. /\ attempts \in Seq(Nat) /\ Len(attempts) = Len(calls) /\ calls \in Seq(States)
      /\ Len(calls) = Len(rpcBlock.trxs) /\ faults \in Nat /\ Retries \in Nat
  BY <1>1, FetcherAssumption DEF TryInv, JobInv, Job, HeadInv
<1>3. attempts[i] \in Nat
  BY <1>2
<1>4. /\ calls' \in Seq(States) /\ Len(calls') = Len(calls)
      /\ \A j \in 1..Len(calls) : calls'[j] = IF j = i THEN state ELSE calls[j]
  <2>1. state \in States
    BY DEF States
  <2> HIDE DEF state
  <2> QED BY <1>1, <1>2, <2>1, ExceptSeq
<1>5. /\ attempts' \in Seq(Nat) /\ Len(attempts') = Len(attempts)
      /\ \A j \in 1..Len(calls) :
             attempts'[j] = IF j = i THEN (IF attempts[i] < Retries THEN tries
                                           ELSE attempts[i])
                            ELSE attempts[j]
  <2>1. (IF attempts[i] < Retries THEN tries ELSE attempts[i]) \in Nat
    BY <1>3
  <2> QED BY <1>1, <1>2, <2>1, ExceptSeq
\* Without cancellation or lost blocks only a failure of the endpoint is left.
<1>6. canceled \/ ~Stable \/ faults' = faults + 1
  <2> SUFFICES ASSUME ~canceled, Stable, CallAnswers, ReceiptsOf(Wanted(i)) = {}
               PROVE  FALSE
    BY <1>1 DEF CallFails
  <2>1. rpcBlock = chain[blockNum] /\ blockNum \in 1..Len(chain) /\ chain \in Seq(BlockType)
    BY <1>1 DEF HeadInv, ChainInv
  <2>2. rpcBlock \in ToSet(chain) /\ i \in 1..Len(rpcBlock.trxs)
    BY <1>2, <2>1 DEF ToSet
  <2> QED BY <2>2, ReceiptIsThere DEF Wanted
<1>7. (canceled \/ faults' >= faults) /\ faults' \in Nat
  BY <1>1, <1>2 DEF CallFails, CallAnswers
<1>8. (canceled' = canceled) /\ (Stable' = Stable)
  BY <1>1 DEF Stable
<1>9. ASSUME NEW j \in 1..Len(calls), ~canceled, Stable
      PROVE  attempts'[j] <= faults' /\ (calls'[j] = "failed" => attempts'[j] >= Retries)
  <2>1. attempts[j] <= faults /\ attempts[i] <= faults /\ attempts[j] \in Nat
    BY <1>1, <1>2, <1>9 DEF TryInv
  <2>2. calls[j] = "failed" => attempts[j] >= Retries
    BY <1>1, <1>9 DEF TryInv
  <2>3. CASE j = i
    BY <1>2, <1>3, <1>4, <1>5, <1>6, <1>9, <2>1, <2>3, SMTT(30) DEF TriedEnough
  <2>4. CASE j # i
    <3>1. attempts'[j] = attempts[j] /\ calls'[j] = calls[j]
      BY <1>2, <1>4, <1>5, <2>4
    <3>2. faults' = faults + 1
      BY <1>6, <1>9
    <3> QED BY <1>2, <2>1, <2>2, <3>1, <3>2
  <2> QED BY <2>3, <2>4
<1> QED BY <1>1, <1>2, <1>4, <1>5, <1>8, <1>9 DEF TryInv

LEMMA TryStep ==
    ASSUME ChainInv, JobInv, blockNum \in Nat \ {0}, HeadInv, TryInv, [Next]_vars
    PROVE  TryInv'
<1>1. CASE at' # "receipts"
  BY <1>1 DEF TryInv
<1>2. ASSUME UNCHANGED <<at, attempts, calls, seen, faults>>,
             canceled => canceled', ~Stable => ~Stable'
      PROVE  TryInv'
  BY <1>2 DEF TryInv
<1>3. CASE \/ \E body \in Bodies : \E hashes \in [1..Len(body) -> TrxHashes \ ChainTrxs] :
                  IsInjective(hashes) /\ Mine(body, hashes)
           \/ (\E b \in lost : Restore(b)) \/ UNCHANGED vars
  <2>1. UNCHANGED <<at, attempts, calls, seen, faults, canceled, reorgs>>
    BY <1>3 DEF Mine, Restore, vars, chainVars, jobVars
  <2> QED BY <1>2, <2>1 DEF Stable
<1>4. CASE \E height \in 0..(MaxHeight - 1) : LoseBlocks(height)
  <2>1. /\ reorgs' = reorgs + 1 /\ reorgs \in Nat /\ seen \in Nat
        /\ UNCHANGED <<at, attempts, calls, seen, faults, canceled>>
    BY <1>4 DEF LoseBlocks, jobVars, HeadInv
  <2>2. ~Stable => ~Stable'
    BY <2>1 DEF Stable
  <2> QED BY <1>2, <2>1, <2>2
<1>5. CASE Cancel
  BY <1>2, <1>5 DEF Cancel, chainVars, jobVars, Stable
<1>6. CASE \/ \E n \in Heights : StartFetch(n)
           \/ LatestBlockNum \/ LatestBlockNumFails \/ GetBlockByNumberFails \/ WaitFails
           \/ ReturnBlock \/ PrintBlock
  BY <1>1, <1>6 DEF StartFetch, LatestBlockNum, LatestBlockNumFails, GetBlockByNumberFails,
                    WaitFails, ReturnBlock, PrintBlock, Fails
<1>7. CASE GetBlockByNumber
  <2>1. JobInv' /\ at' = "receipts"
    BY <1>7, GetBlockMakesJob DEF GetBlockByNumber
  <2>2. calls' \in Seq(States) /\ Len(calls') = Len(rpcBlock'.trxs)
    BY <2>1 DEF JobInv, Job
  <2>3. Len(rpcBlock'.trxs) \in Nat
    BY <2>2
  <2>4. /\ calls' = [i \in 1..Len(rpcBlock'.trxs) |-> "todo"]
        /\ attempts' = [i \in 1..Len(rpcBlock'.trxs) |-> 0]
        /\ faults' = faults /\ faults \in Nat
    BY <1>7 DEF GetBlockByNumber, CallAnswers, HeadInv
  <2>5. attempts' \in Seq(Nat) /\ Len(attempts') = Len(calls')
    BY <2>2, <2>3, <2>4
  <2> QED BY <2>2, <2>4, <2>5 DEF TryInv
<1>8. ASSUME NEW i \in 1..Len(calls), NEW state \in States \ {"failed"},
             calls' = [calls EXCEPT ![i] = state], at = "receipts",
             UNCHANGED <<at, attempts, seen, reorgs, faults, canceled>>
      PROVE  TryInv'
  <2>1. calls \in Seq(States)
    BY <1>8 DEF TryInv
  <2>2. /\ calls' \in Seq(States) /\ Len(calls') = Len(calls)
        /\ \A j \in 1..Len(calls) : calls'[j] = IF j = i THEN state ELSE calls[j]
    BY <1>8, <2>1, ExceptSeq
  <2>3. Stable' = Stable
    BY <1>8 DEF Stable
  <2> QED BY <1>8, <2>2, <2>3 DEF TryInv
<1>9. ASSUME NEW i \in 1..Len(calls), GoReceipt(i)
      PROVE  TryInv'
  BY <1>8, <1>9 DEF GoReceipt, chainVars, States
<1>10. ASSUME NEW i \in 1..Len(calls), TransactionReceipt(i)
       PROVE  TryInv'
  BY <1>8, <1>10 DEF TransactionReceipt, CallAnswers, chainVars, States
<1>11. ASSUME NEW i \in 1..Len(calls), TransactionReceiptFails(i)
       PROVE  TryInv'
  BY <1>11, ReceiptFailsKeepsTries
<1> QED BY <1>3, <1>4, <1>5, <1>6, <1>7, <1>9, <1>10, <1>11 DEF Next, ProgramStep

\* An error has its reason when it is returned, and nothing rewrites it.
LEMMA ReasonStep ==
    ASSUME ChainInv, blockNum \in Nat \ {0}, HeadInv, TryInv, FetchFailsForAReason,
           [Next]_vars
    PROVE  FetchFailsForAReason'
<1>1. CASE UNCHANGED result
  BY <1>1 DEF FetchFailsForAReason
<1>2. CASE result' = Nil \/ result'.ok
  BY <1>2 DEF FetchFailsForAReason
<1>3. CASE \/ \E body \in Bodies : \E hashes \in [1..Len(body) -> TrxHashes \ ChainTrxs] :
                  IsInjective(hashes) /\ Mine(body, hashes)
           \/ \E height \in 0..(MaxHeight - 1) : LoseBlocks(height)
           \/ (\E b \in lost : Restore(b))
           \/ Cancel \/ UNCHANGED vars
  BY <1>1, <1>3 DEF Mine, LoseBlocks, Restore, Cancel, vars
<1>4. CASE (\E n \in Heights : StartFetch(n)) \/ ReturnBlock
  BY <1>2, <1>4 DEF StartFetch, ReturnBlock, Answer
<1>5. CASE LatestBlockNum \/ GetBlockByNumber \/ PrintBlock
  BY <1>1, <1>5 DEF LatestBlockNum, GetBlockByNumber, PrintBlock
<1>6. CASE \E i \in 1..Len(calls) :
               GoReceipt(i) \/ TransactionReceipt(i) \/ TransactionReceiptFails(i)
  BY <1>1, <1>6 DEF GoReceipt, TransactionReceipt, TransactionReceiptFails
<1>7. ASSUME Fails, Fetching,
             \/ canceled \/ reorgs > seen
             \/ faults' >= (IF at = "receipts" THEN Retries ELSE 1)
      PROVE  FetchFailsForAReason'
  BY <1>7 DEF Fails, FetchFailsForAReason
<1>8. ASSUME Fails, ~Fetching
      PROVE  FetchFailsForAReason'
  BY <1>2, <1>8 DEF Fails
<1>9. CASE LatestBlockNumFails
  <2>1. Fails /\ at = "head" /\ CallFails /\ faults \in Nat
    BY <1>9 DEF LatestBlockNumFails, HeadInv
  <2>2. canceled \/ faults' >= 1
    BY <2>1 DEF CallFails
  <2> QED BY <1>7, <1>8, <2>1, <2>2
<1>10. CASE GetBlockByNumberFails
  <2>1. /\ Fails /\ at = "block" /\ faults \in Nat
        /\ CallFails \/ blockNum > Len(chain)
    BY <1>10 DEF GetBlockByNumberFails, HeadInv
  <2>2. ASSUME Fetching, blockNum > Len(chain)
        PROVE  reorgs > seen
    <3>1. Len(chain) \in Nat
      BY DEF ChainInv
    <3>2. ~Stable
      BY <2>1, <2>2, <3>1 DEF HeadInv
    <3> QED BY <3>2 DEF HeadInv, Stable
  <2>3. Fetching => canceled \/ faults' >= 1 \/ reorgs > seen
    BY <2>1, <2>2 DEF CallFails
  <2> QED BY <1>7, <1>8, <2>1, <2>3
<1>11. CASE WaitFails
  <2>1. /\ Fails /\ at = "receipts" /\ faults' = faults /\ faults \in Nat /\ Retries \in Nat
        /\ In("failed") # {}
    BY <1>11, FetcherAssumption DEF WaitFails, HeadInv
  <2>2. PICK i \in 1..Len(calls) : calls[i] = "failed"
    BY <2>1 DEF In
  <2>3. attempts[i] \in Nat
    BY <2>1, <2>2 DEF TryInv
  <2>4. canceled \/ ~Stable \/ faults' >= Retries
    BY <2>1, <2>2, <2>3 DEF TryInv
  <2> QED BY <1>7, <1>8, <2>1, <2>4 DEF HeadInv, Stable
<1> QED BY <1>3, <1>4, <1>5, <1>6, <1>9, <1>10, <1>11 DEF Next, ProgramStep

-----------------------------------------------------------------------------
(***************************************************************************)
(* What poll-rpc-blocks prints.                                            *)
(***************************************************************************)
LinkInv ==
    /\ \A h \in 1..Len(chain) :
           chain[h].num = h /\ (h > 1 => chain[h].parent = chain[h-1].hash)
    /\ at = "receipts" => rpcBlock.num = blockNum

\* Until the chain loses a block, the last block printed is in it.
PollInv ==
    /\ \E S : printed \in Seq(S)
    /\ Fetching => printed = << >>
    /\ ~Fetching =>
           /\ blockNum = Len(printed) + 1
           /\ (Stable /\ at \in {"block", "receipts"}) => blockNum < Len(chain)
           /\ printed # << >> =>
                  /\ printed[Len(printed)].seen \in Nat
                  /\ printed[Len(printed)].seen <= seen
                  /\ reorgs <= printed[Len(printed)].seen =>
                         /\ Len(printed) <= Len(chain)
                         /\ chain[Len(printed)].hash = printed[Len(printed)].block.hash

LEMMA LinkStep ==
    ASSUME ChainInv, blockNum \in Nat \ {0}, LinkInv, [Next]_vars
    PROVE  LinkInv'
<1>0. chain \in Seq(BlockType) /\ Len(chain) \in Nat
  BY DEF ChainInv
<1>1. CASE UNCHANGED chain /\ (at' # "receipts" \/ UNCHANGED <<at, rpcBlock, blockNum>>)
  BY <1>1 DEF LinkInv
<1>2. ASSUME NEW b, chain' = Append(chain, b), b.num = Len(chain) + 1,
             b.parent = (IF chain = << >> THEN 0 ELSE chain[Len(chain)].hash),
             UNCHANGED <<at, rpcBlock, blockNum>>
      PROVE  LinkInv'
  <2>1. /\ Len(chain') = Len(chain) + 1 /\ chain'[Len(chain) + 1] = b
        /\ \A h \in 1..Len(chain) : chain'[h] = chain[h]
    BY <1>0, <1>2
  <2>2. ASSUME NEW h \in 1..Len(chain')
        PROVE  chain'[h].num = h /\ (h > 1 => chain'[h].parent = chain'[h-1].hash)
    <3>1. CASE h \in 1..Len(chain)
      <4>1. h > 1 => h - 1 \in 1..Len(chain)
        BY <3>1
      <4> QED BY <2>1, <3>1, <4>1 DEF LinkInv
    <3>2. CASE h = Len(chain) + 1
      <4>1. h > 1 => h - 1 \in 1..Len(chain) /\ chain # << >> /\ h - 1 = Len(chain)
        BY <1>0, <3>2
      <4> QED BY <1>2, <2>1, <3>2, <4>1
    <3> QED BY <1>0, <2>1, <3>1, <3>2
  <2> QED BY <1>2, <2>2 DEF LinkInv
<1>10. ASSUME NEW body \in Bodies, NEW hashes \in [1..Len(body) -> TrxHashes \ ChainTrxs],
              IsInjective(hashes) /\ Mine(body, hashes)
       PROVE  LinkInv'
  <2> DEFINE b == Mined(body, hashes)
  <2>1. chain' = Append(chain, b) /\ UNCHANGED <<at, rpcBlock, blockNum>>
    BY <1>10 DEF Mine, Mined, jobVars
  <2>2. b.num = Len(chain) + 1 /\ b.parent = (IF chain = << >> THEN 0 ELSE chain[Len(chain)].hash)
    BY DEF Mined, Last
  <2> HIDE DEF b
  <2> QED BY <1>2, <2>1, <2>2
<1>11. ASSUME NEW b \in lost, Restore(b)
       PROVE  LinkInv'
  BY <1>2, <1>11, RestoreAppends
<1>3. ASSUME NEW height \in 0..(MaxHeight - 1), LoseBlocks(height)
      PROVE  LinkInv'
  <2>1. /\ chain' = SubSeq(chain, 1, height) /\ height \in Nat /\ height < Len(chain)
        /\ UNCHANGED <<at, rpcBlock, blockNum>>
    BY <1>3, FetcherAssumption DEF LoseBlocks, jobVars
  <2>2. Len(chain') = height /\ \A h \in 1..height : chain'[h] = chain[h]
    BY <1>0, <2>1
  <2> QED BY <1>0, <2>1, <2>2 DEF LinkInv
<1>4. CASE Cancel \/ UNCHANGED vars
  BY <1>1, <1>4 DEF Cancel, vars, chainVars, jobVars
<1>5. CASE (\E n \in Heights : StartFetch(n)) \/ LatestBlockNum
  BY <1>1, <1>5 DEF StartFetch, LatestBlockNum, chainVars
<1>6. CASE LatestBlockNumFails \/ GetBlockByNumberFails \/ WaitFails
  BY <1>1, <1>6 DEF LatestBlockNumFails, GetBlockByNumberFails, WaitFails, Fails, chainVars
<1>7. CASE GetBlockByNumber
  <2>1. /\ rpcBlock' = chain[blockNum] /\ blockNum \in 1..Len(chain)
        /\ UNCHANGED <<chain, blockNum>>
    BY <1>0, <1>7 DEF GetBlockByNumber, chainVars
  <2> QED BY <2>1 DEF LinkInv
<1>8. CASE \E i \in 1..Len(calls) :
               GoReceipt(i) \/ TransactionReceipt(i) \/ TransactionReceiptFails(i)
  BY <1>1, <1>8 DEF GoReceipt, TransactionReceipt, TransactionReceiptFails, chainVars
<1>9. CASE ReturnBlock \/ PrintBlock
  BY <1>1, <1>9 DEF ReturnBlock, PrintBlock, Fetched, chainVars
<1> QED BY <1>3, <1>4, <1>5, <1>6, <1>7, <1>8, <1>9, <1>10, <1>11 DEF Next, ProgramStep

\* The block poll-rpc-blocks is about to print.
LEMMA PrintsTheNext ==
    ASSUME ChainInv, blockNum \in Nat \ {0}, HeadInv, LinkInv, PollInv, PrintedBlocksLink,
           PrintBlock
    PROVE  PollInv' /\ PrintedBlocksLink'
<1> DEFINE a == Answer(blockNum - 1)
<1>1. /\ ~Fetching /\ ~Fetching' /\ at = "receipts" /\ at' = "head"
      /\ printed' = Append(printed, a) /\ blockNum' = blockNum + 1
      /\ UNCHANGED <<chain, reorgs, seen>>
  BY DEF PrintBlock, Fetched, chainVars, Fetching
<1>2. /\ a.block.num = rpcBlock.num /\ a.block.hash = rpcBlock.hash
      /\ a.block.parent = rpcBlock.parent
      /\ a.height = Len(chain) /\ a.reorgs = reorgs /\ a.seen = seen
  BY DEF Answer, RpcToEthBlock
<1> HIDE DEF a
<1>3. PICK S : printed \in Seq(S)
  BY DEF PollInv
<1>4. printed \in Seq(S \cup {a}) /\ Len(printed) \in Nat
  BY <1>3
<1> DEFINE k == Len(printed) + 1
<1>5. /\ printed' \in Seq(S \cup {a}) /\ Len(printed') = k /\ printed'[k] = a
      /\ \A h \in 1..Len(printed) : printed'[h] = printed[h]
      /\ printed # << >> => Len(printed) \in 1..Len(printed)
  BY <1>1, <1>4
<1>6. blockNum = k /\ rpcBlock.num = k
  BY <1>1 DEF PollInv, LinkInv
<1>7. seen \in Nat /\ reorgs \in Nat /\ seen <= reorgs /\ Len(chain) \in Nat
  BY DEF HeadInv, ChainInv
<1>8. Stable => k \in 1..Len(chain) /\ k < Len(chain) /\ rpcBlock = chain[k]
  BY <1>1, <1>4, <1>6, <1>7 DEF HeadInv, PollInv
<1> HIDE DEF k
<1>9. PollInv'
  <2>1. reorgs' <= seen' => k <= Len(chain') /\ chain'[k].hash = printed'[k].block.hash
    BY <1>1, <1>2, <1>5, <1>8 DEF Stable
  <2>2. printed'[Len(printed')].seen = seen' /\ seen' \in Nat /\ Len(printed') = k
    BY <1>1, <1>2, <1>5, <1>7
  <2>3. blockNum' = Len(printed') + 1
    BY <1>1, <1>5, <1>6
  <2>4. \E T : printed' \in Seq(T)
    BY <1>5
  <2> QED BY <1>1, <2>1, <2>2, <2>3, <2>4 DEF PollInv
<1>10. ASSUME k > 1, reorgs <= printed[k-1].seen
       PROVE  rpcBlock.parent = printed[k-1].block.hash
  <2>1. k - 1 = Len(printed) /\ printed # << >>
    BY <1>4, <1>10 DEF k
  <2>2. printed[k-1].seen \in Nat /\ printed[k-1].seen <= seen
    BY <1>1, <2>1 DEF PollInv
  <2>3. chain[k-1].hash = printed[k-1].block.hash
    BY <1>1, <1>10, <2>1 DEF PollInv
  <2>4. Stable
    BY <1>7, <1>10, <2>2 DEF Stable
  <2>5. chain[k].parent = chain[k-1].hash
    BY <1>8, <1>10, <2>4 DEF LinkInv
  <2> QED BY <1>8, <2>3, <2>4, <2>5
<1>11. ASSUME NEW h \in 1..Len(printed')
       PROVE  /\ printed'[h].block.num = h
              /\ printed'[h].height > h \/ printed'[h].reorgs > printed'[h].seen
              /\ h > 1 => \/ printed'[h].block.parent = printed'[h-1].block.hash
                          \/ printed'[h].reorgs > printed'[h-1].seen
  <2>1. CASE h \in 1..Len(printed)
    <3>1. printed'[h] = printed[h] /\ (h > 1 => printed'[h-1] = printed[h-1])
      <4>1. h > 1 => h - 1 \in 1..Len(printed)
        BY <2>1
      <4> QED BY <1>5, <2>1, <4>1
    <3> QED BY <2>1, <3>1 DEF PrintedBlocksLink
  <2>2. CASE h = k
    <3>1. h > 1 => printed'[h-1] = printed[h-1] /\ printed[k-1].seen \in Nat
      <4>1. h > 1 => h - 1 \in 1..Len(printed) /\ printed # << >> /\ h - 1 = Len(printed)
        BY <1>4, <2>2 DEF k
      <4> QED BY <1>1, <1>5, <2>2, <4>1 DEF PollInv
    <3>2. printed'[h] = a /\ a.block.num = h
      BY <1>2, <1>5, <1>6, <2>2
    <3>3. a.height > h \/ a.reorgs > a.seen
      BY <1>2, <1>7, <1>8, <2>2 DEF Stable
    <3>4. h > 1 => \/ a.block.parent = printed[h-1].block.hash
                  \/ a.reorgs > printed[h-1].seen
      BY <1>2, <1>7, <1>10, <2>2, <3>1
    <3> QED BY <3>1, <3>2, <3>3, <3>4
  <2>3. h \in 1..Len(printed) \/ h = k
    BY <1>4, <1>5 DEF k
  <2> QED BY <2>1, <2>2, <2>3
<1> QED BY <1>9, <1>11 DEF PrintedBlocksLink

LEMMA PollStep ==
    ASSUME ChainInv, blockNum \in Nat \ {0}, HeadInv, LinkInv, PollInv, PrintedBlocksLink,
           [Next]_vars
    PROVE  PollInv' /\ PrintedBlocksLink'
<1>0. chain \in Seq(BlockType) /\ Len(chain) \in Nat
  BY DEF ChainInv
<1>1. ASSUME UNCHANGED printed PROVE PrintedBlocksLink'
  BY <1>1 DEF PrintedBlocksLink
<1>2. ASSUME UNCHANGED <<printed, program, blockNum, seen, reorgs, chain>>,
             at' \in {"block", "receipts"} => at \in {"block", "receipts"}
      PROVE  PollInv'
  BY <1>2 DEF PollInv, Fetching, Stable
<1>3. ASSUME NEW b, chain' = Append(chain, b),
             UNCHANGED <<printed, program, blockNum, seen, reorgs, at>>
      PROVE  PollInv' /\ PrintedBlocksLink'
  <2>1. Len(chain') = Len(chain) + 1 /\ \A h \in 1..Len(chain) : chain'[h] = chain[h]
    BY <1>0, <1>3
  <2>2. printed # << >> => Len(printed) \in Nat \ {0}
    BY DEF PollInv
  <2>3. PollInv'
    BY <1>0, <1>3, <2>1, <2>2 DEF PollInv, Fetching, Stable
  <2> QED BY <1>1, <1>3, <2>3
<1>13. ASSUME NEW body \in Bodies, NEW hashes \in [1..Len(body) -> TrxHashes \ ChainTrxs],
              IsInjective(hashes) /\ Mine(body, hashes)
       PROVE  PollInv' /\ PrintedBlocksLink'
  BY <1>3, <1>13 DEF Mine
<1>14. ASSUME NEW b \in lost, Restore(b)
       PROVE  PollInv' /\ PrintedBlocksLink'
  BY <1>3, <1>14, RestoreAppends
<1>4. ASSUME NEW height \in 0..(MaxHeight - 1), LoseBlocks(height)
      PROVE  PollInv' /\ PrintedBlocksLink'
  <2>1. /\ reorgs' = reorgs + 1 /\ UNCHANGED <<printed, program, blockNum, seen, at>>
        /\ seen \in Nat /\ reorgs \in Nat /\ seen <= reorgs
    BY <1>4 DEF LoseBlocks, jobVars, HeadInv
  <2>2. PollInv'
    BY <2>1 DEF PollInv, Fetching, Stable
  <2> QED BY <1>1, <2>1, <2>2
<1>5. CASE Cancel \/ UNCHANGED vars
  BY <1>1, <1>2, <1>5 DEF Cancel, vars, chainVars, jobVars
<1>6. ASSUME NEW n \in Heights, StartFetch(n)
      PROVE  PollInv' /\ PrintedBlocksLink'
  <2>1. Fetching /\ Fetching' /\ UNCHANGED printed
    BY <1>6 DEF StartFetch, Fetching
  <2> QED BY <1>1, <2>1 DEF PollInv
<1>7. CASE LatestBlockNum
  <2>1. /\ seen' = reorgs /\ seen <= reorgs /\ seen \in Nat /\ reorgs \in Nat
        /\ at' = IF FarEnough(Len(chain)) THEN "block" ELSE "head"
        /\ UNCHANGED <<printed, program, blockNum, reorgs, chain>>
    BY <1>7 DEF LatestBlockNum, chainVars, HeadInv
  <2>2. (~Fetching /\ at' \in {"block", "receipts"}) => blockNum < Len(chain)
    BY <1>0, <2>1 DEF FarEnough
  <2>3. PollInv'
    BY <2>1, <2>2 DEF PollInv, Fetching, Stable
  <2> QED BY <1>1, <2>1, <2>3
<1>8. CASE LatestBlockNumFails \/ GetBlockByNumberFails \/ WaitFails
  <2>1. /\ UNCHANGED <<printed, program, blockNum, seen, reorgs, chain>>
        /\ at' = IF Fetching THEN "idle" ELSE "head"
    BY <1>8 DEF LatestBlockNumFails, GetBlockByNumberFails, WaitFails, Fails, chainVars
  <2> QED BY <1>1, <1>2, <2>1
<1>9. CASE GetBlockByNumber
  BY <1>1, <1>2, <1>9 DEF GetBlockByNumber, chainVars
<1>10. CASE \E i \in 1..Len(calls) :
               GoReceipt(i) \/ TransactionReceipt(i) \/ TransactionReceiptFails(i)
  BY <1>1, <1>2, <1>10 DEF GoReceipt, TransactionReceipt, TransactionReceiptFails, chainVars
<1>11. CASE ReturnBlock
  <2>1. Fetching /\ Fetching' /\ UNCHANGED printed
    BY <1>11 DEF ReturnBlock, Fetched, Fetching
  <2> QED BY <1>1, <2>1 DEF PollInv
<1>12. CASE PrintBlock
  BY <1>12, PrintsTheNext
<1> QED BY <1>4, <1>5, <1>6, <1>7, <1>8, <1>9, <1>10, <1>11, <1>12, <1>13, <1>14 DEF Next, ProgramStep

-----------------------------------------------------------------------------
TimesInv ==
    /\ FetcherInv /\ HeadInv /\ TryInv /\ LinkInv /\ PollInv
    /\ FetchFailsForAReason /\ PrintedBlocksLink

LEMMA TimesCorrect == Spec => []TimesInv
<1>1. Init => TimesInv
  <2> SUFFICES ASSUME Init PROVE TimesInv
    OBVIOUS
  <2>1. FetcherInv
    BY FetcherStarts
  <2>2. HeadInv
    BY DEF Init, HeadInv, Stable, Fetching
  <2>3. at \in {"idle", "head"} /\ printed = << >> /\ blockNum = 1 /\ chain = << >>
    BY DEF Init
  <2>4. TryInv /\ LinkInv
    BY <2>3 DEF TryInv, LinkInv
  <2>5. printed \in Seq({})
    BY <2>3
  <2>6. PollInv
    BY <2>3, <2>5 DEF PollInv
  <2>7. FetchFailsForAReason /\ PrintedBlocksLink
    BY <2>3 DEF Init, FetchFailsForAReason, PrintedBlocksLink
  <2> QED BY <2>1, <2>2, <2>4, <2>6, <2>7 DEF TimesInv
<1>2. TimesInv /\ [Next]_vars => TimesInv'
  BY ChainStep, NumStep, JobStep, AnswerStep, HeadStep, TryStep, ReasonStep, LinkStep, PollStep
     DEF TimesInv, FetcherInv
<1> QED BY <1>1, <1>2, PTL DEF Spec

\* Fetch returns an error only when the context was canceled, when the chain lost blocks
\* since Fetch was told its height, or when the endpoint failed often enough: the height
\* it keeps between calls never makes it ask for a block that was not there.
THEOREM FetchErrorsHaveAReason == Spec => []FetchFailsForAReason
<1>1. TimesInv => FetchFailsForAReason
  BY DEF TimesInv
<1> QED BY <1>1, TimesCorrect, PTL

\* poll-rpc-blocks prints one height after another, each block the child of the one
\* before and below the head, unless the chain lost blocks in between.
THEOREM PollerPrintsAChain == Spec => []PrintedBlocksLink
<1>1. TimesInv => PrintedBlocksLink
  BY DEF TimesInv
<1> QED BY <1>1, TimesCorrect, PTL

-----------------------------------------------------------------------------
(***************************************************************************)
(* The ordinals of a fetched block.                                        *)
(***************************************************************************)
\* A trace whose ordinals, its own and those of its logs, count from first.
InOrder(trace, first) ==
    /\ trace = [hash |-> trace.hash, to |-> trace.to, index |-> trace.index, begin |-> first,
                receipt |-> trace.receipt, status |-> trace.status,
                end |-> first + Len(trace.receipt) + 1]
    /\ Len(trace.receipt) \in Nat
    /\ trace.receipt = [k \in 1..Len(trace.receipt) |->
                           [data |-> trace.receipt[k].data, index |-> trace.receipt[k].index,
                            blockIndex |-> trace.receipt[k].blockIndex, ord |-> first + k]]

\* Traces that follow one another.
AllInOrder(traces) ==
    /\ \E S : traces \in Seq(S)
    /\ \A i \in 1..Len(traces) :
           /\ traces[i].end \in Nat
           /\ InOrder(traces[i], IF i = 1 THEN 0 ELSE traces[i-1].end + 1)

LEMMA ConvertedInOrder ==
    ASSUME NEW got, Countable(got), NEW trx, NEW ordinal \in Nat
    PROVE  /\ InOrder(ConvertTrx(trx, got, ordinal), ordinal)
           /\ ConvertTrx(trx, got, ordinal).end \in Nat
<1> DEFINE logs == IF trx.hash \in DOMAIN got THEN got[trx.hash].logs ELSE << >>
           trace == ConvertTrx(trx, got, ordinal)
<1>1. Len(logs) \in Nat
  BY DEF Countable
<1>2. trace = [hash |-> trx.hash, to |-> trx.to, index |-> trx.index, begin |-> ordinal,
               receipt |-> ToFirehoseLogs(logs, ordinal + 1), status |-> trace.status,
               end |-> ordinal + 1 + Len(logs)]
  BY DEF ConvertTrx
<1> HIDE DEF logs, trace
<1>3. trace.receipt = [k \in 1..Len(logs) |->
          [data |-> logs[k].data, index |-> logs[k].logIndex,
           blockIndex |-> logs[k].logIndex, ord |-> ordinal + 1 + k - 1]]
  BY <1>2 DEF ToFirehoseLogs
<1>4. Len(trace.receipt) = Len(logs)
  BY <1>1, <1>3
<1>5. trace.end = ordinal + Len(trace.receipt) + 1 /\ trace.end \in Nat
  BY <1>1, <1>2, <1>4
<1>6. trace.receipt = [k \in 1..Len(trace.receipt) |->
          [data |-> trace.receipt[k].data, index |-> trace.receipt[k].index,
           blockIndex |-> trace.receipt[k].blockIndex, ord |-> ordinal + k]]
  <2>1. ASSUME NEW k \in 1..Len(logs)
        PROVE  trace.receipt[k] =
                   [data |-> trace.receipt[k].data, index |-> trace.receipt[k].index,
                    blockIndex |-> trace.receipt[k].blockIndex, ord |-> ordinal + k]
    <3>1. ordinal + 1 + k - 1 = ordinal + k
      BY <1>1
    <3> QED BY <1>3, <3>1
  <2> QED BY <1>3, <1>4, <2>1
<1>7. trace = [hash |-> trace.hash, to |-> trace.to, index |-> trace.index, begin |-> ordinal,
               receipt |-> trace.receipt, status |-> trace.status,
               end |-> ordinal + Len(trace.receipt) + 1]
  BY <1>2, <1>5
<1>8. InOrder(trace, ordinal)
  BY <1>1, <1>4, <1>6, <1>7 DEF InOrder
<1> QED BY <1>5, <1>8 DEF trace

\* The traces of a block follow one another, whatever receipts they are made with.
LEMMA TracesInOrder ==
    ASSUME NEW got, Countable(got), NEW S, NEW trxs \in Seq(S)
    PROVE  AllInOrder(ToFirehoseTraces(trxs, got))
<1> DEFINE n == Len(trxs)
           traces == CHOOSE f : Converts(f, trxs, got)
<1>1. Converts(traces, trxs, got)
  <2>1. Len(trxs) \in Nat
    OBVIOUS
  <2>2. \E f : Converts(f, trxs, got)
    BY <2>1, ConversionExists
  <2> QED BY <2>2, Zenon
<1>2. ToFirehoseTraces(trxs, got) = traces
  BY DEF ToFirehoseTraces, Converts
<1> HIDE DEF traces
<1>3. n \in Nat
  OBVIOUS
<1>4. \A i \in 1..n :
          traces[i] = ConvertTrx(trxs[i], got, IF i = 1 THEN 0 ELSE traces[i-1].end + 1)
  BY <1>1 DEF Converts
<1> DEFINE P == {m \in Nat : m \in 1..n => traces[m].end \in Nat}
<1>5. 0 \in P
  OBVIOUS
<1>6. ASSUME NEW m \in Nat, m \in P PROVE m + 1 \in P
  <2> SUFFICES ASSUME m + 1 \in 1..n PROVE traces[m + 1].end \in Nat
    OBVIOUS
  <2> DEFINE o == IF m + 1 = 1 THEN 0 ELSE traces[m].end + 1
  <2>1. o \in Nat
    BY <1>6
  <2>2. traces[m + 1] = ConvertTrx(trxs[m + 1], got, o)
    <3>1. (m + 1) - 1 = m
      OBVIOUS
    <3> QED BY <1>4, <3>1
  <2> HIDE DEF o
  <2> QED BY <2>1, <2>2, ConvertedInOrder
<1>7. \A m \in Nat : m \in P
  <2> HIDE DEF P
  <2> QED BY <1>5, <1>6, NaturalsOf
<1>8. ASSUME NEW i \in 1..n
      PROVE  /\ traces[i].end \in Nat
             /\ InOrder(traces[i], IF i = 1 THEN 0 ELSE traces[i-1].end + 1)
  <2> DEFINE o == IF i = 1 THEN 0 ELSE traces[i-1].end + 1
  <2>1. o \in Nat
    <3>1. i # 1 => i - 1 \in 1..n /\ i - 1 \in Nat
      BY <1>3
    <3> QED BY <1>7, <3>1
  <2>2. traces[i] = ConvertTrx(trxs[i], got, o)
    BY <1>4
  <2> HIDE DEF o
  <2>3. traces[i].end \in Nat /\ InOrder(traces[i], o)
    BY <2>1, <2>2, ConvertedInOrder
  <2> QED BY <2>3 DEF o
<1>9. \E T : traces \in Seq(T)
  <2>1. traces = [i \in 1..n |-> traces[i]]
    BY <1>1 DEF Converts
  <2>2. traces \in [1..n -> {traces[i] : i \in 1..n}]
    BY <2>1
  <2>3. traces \in Seq({traces[i] : i \in 1..n})
    BY <1>3, <2>2
  <2> QED BY <2>3
<1>10. Len(traces) = n
  BY <1>1, <1>3 DEF Converts
<1>11. AllInOrder(traces)
  BY <1>8, <1>9, <1>10 DEF AllInOrder
<1> QED BY <1>2, <1>11

\* f is what fix-ordinals makes of traces.
Fixes(f, traces) ==
    f = [i \in 1..Len(traces) |->
            LET first == IF i = 1 THEN 0 ELSE f[i-1].end + 1 IN
            [traces[i] EXCEPT
                !.begin = first,
                !.receipt = [k \in 1..Len(@) |-> [@[k] EXCEPT !.ord = first + k]],
                !.end = first + Len(traces[i].receipt) + 1]]

Fixed(trace, first) ==
    [trace EXCEPT
        !.begin = first,
        !.receipt = [k \in 1..Len(@) |-> [@[k] EXCEPT !.ord = first + k]],
        !.end = first + Len(trace.receipt) + 1]

\* A trace in order is left alone.
LEMMA FixedAlready ==
    ASSUME NEW trace, NEW first \in Nat, InOrder(trace, first)
    PROVE  Fixed(trace, first) = trace
<1> DEFINE n == Len(trace.receipt)
           logs == [k \in 1..n |-> [trace.receipt[k] EXCEPT !.ord = first + k]]
<1>1. ASSUME NEW k \in 1..n
      PROVE  [trace.receipt[k] EXCEPT !.ord = first + k] = trace.receipt[k]
  <2> DEFINE log == trace.receipt[k]
  <2>1. log = [data |-> log.data, index |-> log.index, blockIndex |-> log.blockIndex,
               ord |-> first + k]
    BY DEF InOrder
  <2> HIDE DEF log
  <2>2. [log EXCEPT !.ord = first + k] = log
    BY <2>1
  <2> QED BY <2>2 DEF log
<1>2. logs = trace.receipt
  <2>1. trace.receipt = [k \in 1..n |-> trace.receipt[k]]
    BY DEF InOrder
  <2> QED BY <1>1, <2>1
<1>3. Fixed(trace, first) =
          [trace EXCEPT !.begin = first, !.receipt = logs, !.end = first + n + 1]
  BY DEF Fixed
<1>4. trace = [hash |-> trace.hash, to |-> trace.to, index |-> trace.index, begin |-> first,
               receipt |-> trace.receipt, status |-> trace.status, end |-> first + n + 1]
  BY DEF InOrder
<1> HIDE DEF logs, n
<1> QED BY <1>2, <1>3, <1>4

LEMMA FixedIsSame ==
    ASSUME NEW traces, AllInOrder(traces)
    PROVE  FixOrdinals(traces) = traces
<1> DEFINE n == Len(traces)
           fixed == CHOOSE f : Fixes(f, traces)
           First(f, i) == IF i = 1 THEN 0 ELSE f[i-1].end + 1
<1>1. PICK S : traces \in Seq(S)
  BY DEF AllInOrder
<1>2. n \in Nat /\ traces = [i \in 1..n |-> traces[i]]
  BY <1>1
<1>3. \A i \in 1..n : First(traces, i) \in Nat /\ InOrder(traces[i], First(traces, i))
  BY <1>2 DEF AllInOrder
<1>4. \A i \in 1..n : Fixed(traces[i], First(traces, i)) = traces[i]
  <2> HIDE DEF First
  <2> QED BY <1>3, FixedAlready
<1>5. Fixes(traces, traces)
  BY <1>2, <1>4 DEF Fixes, Fixed
<1>6. Fixes(fixed, traces)
  BY <1>5
<1>7. FixOrdinals(traces) = fixed
  BY DEF FixOrdinals, Fixes
<1> HIDE DEF fixed
<1>8. fixed = [i \in 1..n |-> Fixed(traces[i], First(fixed, i))]
  BY <1>6 DEF Fixes, Fixed
<1> DEFINE P == {m \in Nat : m \in 1..n => fixed[m] = traces[m]}
<1>9. 0 \in P
  OBVIOUS
<1>10. ASSUME NEW m \in Nat, m \in P PROVE m + 1 \in P
  <2> SUFFICES ASSUME m + 1 \in 1..n PROVE fixed[m + 1] = traces[m + 1]
    OBVIOUS
  <2>1. First(fixed, m + 1) = First(traces, m + 1)
    <3>1. (m + 1) - 1 = m /\ (m # 0 => m \in 1..n)
      BY <1>2
    <3> QED BY <1>10, <3>1
  <2> HIDE DEF First
  <2> QED BY <1>4, <1>8, <2>1
<1>11. \A m \in Nat : m \in P
  <2> HIDE DEF P
  <2> QED BY <1>9, <1>10, NaturalsOf
<1>12. \A i \in 1..n : fixed[i] = traces[i]
  BY <1>2, <1>11
<1>13. fixed = [i \in 1..n |-> fixed[i]]
  BY <1>8
<1> HIDE DEF n
<1> QED BY <1>2, <1>7, <1>12, <1>13

Piece(trace) ==
    <<trace.begin>> \o [k \in 1..Len(trace.receipt) |-> trace.receipt[k].ord] \o <<trace.end>>

CountFrom(first, n) == [k \in 1..n |-> first + k - 1]

LEMMA CountsOn ==
    ASSUME NEW first \in Nat, NEW n \in Nat, NEW m \in Nat
    PROVE  /\ CountFrom(first, n) \in Seq(Nat) /\ Len(CountFrom(first, n)) = n
           /\ CountFrom(first, n) \o CountFrom(first + n, m) = CountFrom(first, n + m)
<1> DEFINE s == CountFrom(first, n)
           t == CountFrom(first + n, m)
           u == CountFrom(first, n + m)
<1>1. \A f \in Nat, l \in Nat : CountFrom(f, l) \in Seq(Nat) /\ Len(CountFrom(f, l)) = l
  BY DEF CountFrom
<1>2. s \in Seq(Nat) /\ Len(s) = n /\ t \in Seq(Nat) /\ Len(t) = m
  BY <1>1, SMTT(30)
<1>3. u \in Seq(Nat) /\ Len(u) = n + m
  BY <1>1
<1>4. \A k \in 1..n : s[k] = first + k - 1
  BY DEF CountFrom
<1>5. \A k \in 1..m : t[k] = first + n + k - 1
  BY DEF CountFrom
<1>6. \A k \in 1..(n + m) : u[k] = first + k - 1
  BY DEF CountFrom
<1> HIDE DEF s, t, u
<1>7. /\ s \o t \in Seq(Nat) /\ Len(s \o t) = n + m
      /\ \A k \in 1..(n + m) : (s \o t)[k] = IF k <= n THEN s[k] ELSE t[k - n]
  BY <1>2, ConcatProperties
<1>8. ASSUME NEW k \in 1..(n + m) PROVE (s \o t)[k] = u[k]
  <2>1. CASE k <= n
    <3>1. (s \o t)[k] = s[k] /\ k \in 1..n
      BY <1>7, <2>1
    <3> QED BY <1>4, <1>6, <3>1
  <2>2. CASE ~(k <= n)
    <3>1. (s \o t)[k] = t[k - n] /\ k - n \in 1..m
      BY <1>7, <2>2
    <3>2. first + n + (k - n) - 1 = first + k - 1
      OBVIOUS
    <3> QED BY <1>5, <1>6, <3>1, <3>2
  <2> QED BY <2>1, <2>2
<1>9. s \o t = u
  BY <1>3, <1>7, <1>8, SeqEqual
<1> QED BY <1>2, <1>9 DEF s, t, u

LEMMA PieceCounts ==
    ASSUME NEW trace, NEW first \in Nat, InOrder(trace, first)
    PROVE  /\ Piece(trace) = CountFrom(first, Len(trace.receipt) + 2)
           /\ Len(trace.receipt) \in Nat /\ trace.end = first + Len(trace.receipt) + 1
<1> DEFINE n == Len(trace.receipt)
           logs == [k \in 1..n |-> trace.receipt[k].ord]
<1>1. n \in Nat /\ trace.begin = first /\ trace.end = first + n + 1
  BY DEF InOrder
<1>2. \A k \in 1..n : trace.receipt[k].ord = first + k
  <2>1. trace.receipt = [k \in 1..n |->
                           [data |-> trace.receipt[k].data, index |-> trace.receipt[k].index,
                            blockIndex |-> trace.receipt[k].blockIndex, ord |-> first + k]]
    BY DEF InOrder
  <2> QED BY <2>1
<1>3. logs = CountFrom(first + 1, n)
  <2>1. \A k \in 1..n : first + k = first + 1 + k - 1
    BY <1>1
  <2> QED BY <1>2, <2>1 DEF CountFrom
<1>4. <<first>> = CountFrom(first, 1)
  BY DEF CountFrom
<1>5. <<trace.end>> = CountFrom(first + (1 + n), 1)
  BY <1>1 DEF CountFrom
<1>6. <<first>> \o logs = CountFrom(first, 1 + n)
  <2> HIDE DEF logs, n
  <2>1. CountFrom(first, 1) \o CountFrom(first + 1, n) = CountFrom(first, 1 + n)
    BY <1>1, CountsOn
  <2> QED BY <1>3, <1>4, <2>1
<1>7. CountFrom(first, 1 + n) \o <<trace.end>> = CountFrom(first, (1 + n) + 1)
  <2> HIDE DEF logs, n
  <2>1. 1 + n \in Nat
    BY <1>1
  <2>2. CountFrom(first, 1 + n) \o CountFrom(first + (1 + n), 1) = CountFrom(first, (1 + n) + 1)
    BY <2>1, CountsOn
  <2> QED BY <1>5, <2>2
<1>8. (1 + n) + 1 = n + 2
  BY <1>1
<1>9. Piece(trace) = (<<first>> \o logs) \o <<trace.end>>
  BY <1>1 DEF Piece
<1> HIDE DEF n, logs
<1>10. Piece(trace) = CountFrom(first, n + 2)
  BY <1>6, <1>7, <1>8, <1>9
<1> QED BY <1>1, <1>10 DEF n

LEMMA OrdinalsCount ==
    ASSUME NEW traces, AllInOrder(traces)
    PROVE  Ordinals(traces) = [k \in 1..Len(Ordinals(traces)) |-> k - 1]
<1> DEFINE n == Len(traces)
           pieces == [i \in 1..n |-> Piece(traces[i])]
           First(i) == IF i = 1 THEN 0 ELSE traces[i-1].end + 1
           Size(i) == Len(traces[i].receipt) + 2
<1>1. n \in Nat
  BY DEF AllInOrder
<1>2. \A i \in 1..n : First(i) \in Nat /\ InOrder(traces[i], First(i)) /\ traces[i].end \in Nat
  BY <1>1 DEF AllInOrder
<1>3. \A i \in 1..n : /\ pieces[i] = CountFrom(First(i), Size(i))
                      /\ Size(i) \in Nat /\ traces[i].end + 1 = First(i) + Size(i)
  <2> SUFFICES ASSUME NEW i \in 1..n
               PROVE  /\ pieces[i] = CountFrom(First(i), Size(i))
                      /\ Size(i) \in Nat /\ traces[i].end + 1 = First(i) + Size(i)
    OBVIOUS
  <2> HIDE DEF First
  <2>1. /\ Piece(traces[i]) = CountFrom(First(i), Len(traces[i].receipt) + 2)
        /\ Len(traces[i].receipt) \in Nat
        /\ traces[i].end = First(i) + Len(traces[i].receipt) + 1
    BY <1>2, PieceCounts
  <2>2. First(i) \in Nat /\ pieces[i] = Piece(traces[i])
    BY <1>2
  <2>3. traces[i].end + 1 = First(i) + (Len(traces[i].receipt) + 2)
    BY <2>1, <2>2
  <2> HIDE DEF pieces
  <2> QED BY <2>1, <2>2, <2>3
<1>4. Ordinals(traces) = FlattenSeq(pieces)
  BY DEF Ordinals, Piece
<1>5. pieces \in Seq(Seq(Nat)) /\ Len(pieces) = n
  <2>1. \A i \in 1..n : pieces[i] \in Seq(Nat)
    <3> HIDE DEF First, Size, pieces
    <3> QED BY <1>2, <1>3, CountsOn, ZenonT(40)
  <2> QED BY <1>1, <2>1
<1> HIDE DEF pieces
<1>6. CASE n = 0
  <2>1. Ordinals(traces) = pieces
    BY <1>4, <1>5, <1>6 DEF FlattenSeq
  <2>2. pieces = << >>
    BY <1>5, <1>6
  <2> QED BY <2>1, <2>2
<1>7. CASE n # 0
  <2> DEFINE flat == CHOOSE F : Concatenates(F, pieces)
  <2>1. Concatenates(flat, pieces)
    BY <1>5, ConcatenationExists
  <2>2. FlattenSeq(pieces) = flat[n]
    BY <1>5, <1>7 DEF FlattenSeq, Concatenates
  <2> HIDE DEF flat
  <2>3. \A i \in 1..n : flat[i] = IF i = 1 THEN pieces[i] ELSE flat[i-1] \o pieces[i]
    BY <1>5, <2>1, ConcatenationType
  <2> DEFINE P == {m \in Nat : m \in 1..n => flat[m] = CountFrom(0, traces[m].end + 1)}
  <2>4. 0 \in P
    OBVIOUS
  <2>5. ASSUME NEW m \in Nat, m \in P PROVE m + 1 \in P
    <3> SUFFICES ASSUME m + 1 \in 1..n
                 PROVE  flat[m + 1] = CountFrom(0, traces[m + 1].end + 1)
      OBVIOUS
    <3>1. /\ pieces[m + 1] = CountFrom(First(m + 1), Size(m + 1))
          /\ Size(m + 1) \in Nat /\ First(m + 1) \in Nat
          /\ traces[m + 1].end + 1 = First(m + 1) + Size(m + 1)
      BY <1>2, <1>3
    <3>2. CASE m = 0
      <4>1. flat[m + 1] = pieces[m + 1] /\ First(m + 1) = 0
        BY <2>3, <3>2
      <4> HIDE DEF First, Size
      <4>2. 0 + Size(m + 1) = Size(m + 1)
        BY <3>1
      <4> QED BY <3>1, <4>1, <4>2
    <3>3. CASE m # 0
      <4>1. (m + 1) - 1 = m /\ m \in 1..n /\ m + 1 # 1
        BY <1>1, <3>3
      <4>2. flat[m + 1] = flat[m] \o pieces[m + 1] /\ First(m + 1) = traces[m].end + 1
        BY <2>3, <4>1
      <4>3. flat[m] = CountFrom(0, First(m + 1))
        BY <2>5, <4>1, <4>2
      <4> HIDE DEF First, Size, P
      <4>4. 0 + First(m + 1) = First(m + 1)
        BY <3>1
      <4>5. CountFrom(0, First(m + 1)) \o CountFrom(0 + First(m + 1), Size(m + 1))
                = CountFrom(0, First(m + 1) + Size(m + 1))
        BY <3>1, CountsOn
      <4> QED BY <3>1, <4>2, <4>3, <4>4, <4>5
    <3> QED BY <3>2, <3>3
  <2>6. \A m \in Nat : m \in P
    <3> HIDE DEF P
    <3> QED BY <2>4, <2>5, NaturalsOf
  <2>7. Ordinals(traces) = CountFrom(0, traces[n].end + 1)
    BY <1>1, <1>4, <1>7, <2>2, <2>6
  <2>8. traces[n].end + 1 \in Nat
    BY <1>1, <1>2, <1>7
  <2>9. Len(Ordinals(traces)) = traces[n].end + 1
    BY <2>7, <2>8, CountsOn
  <2>10. \A k \in 1..(traces[n].end + 1) : 0 + k - 1 = k - 1
    BY <2>8
  <2> QED BY <2>7, <2>9, <2>10 DEF CountFrom
<1> QED BY <1>1, <1>6, <1>7

-----------------------------------------------------------------------------
\* What a fetch has received so far, and the blocks it made.
ReceiptsInv == at = "receipts" => Countable(receipts)

BlocksInOrder == \A a \in Answers : AllInOrder(a.block.trxs)

LEMMA ReceiptsStep ==
    ASSUME ChainInv, ReceiptsInv, [Next]_vars
    PROVE  ReceiptsInv'
<1>1. CASE UNCHANGED <<at, receipts>>
  BY <1>1 DEF ReceiptsInv, Countable
<1>2. CASE at' # "receipts"
  BY <1>2 DEF ReceiptsInv
<1>3. CASE \/ \E body \in Bodies : \E hashes \in [1..Len(body) -> TrxHashes \ ChainTrxs] :
                  IsInjective(hashes) /\ Mine(body, hashes)
           \/ \E height \in 0..(MaxHeight - 1) : LoseBlocks(height)
           \/ (\E b \in lost : Restore(b))
           \/ Cancel \/ UNCHANGED vars
  BY <1>1, <1>3 DEF Mine, LoseBlocks, Restore, Cancel, jobVars, vars
<1>4. CASE \/ \E n \in Heights : StartFetch(n)
           \/ LatestBlockNum \/ LatestBlockNumFails \/ GetBlockByNumberFails \/ WaitFails
  BY <1>2, <1>4 DEF StartFetch, LatestBlockNum, LatestBlockNumFails, GetBlockByNumberFails,
                    WaitFails, Fails
<1>5. CASE GetBlockByNumber
  BY <1>5 DEF GetBlockByNumber, ReceiptsInv, Countable
<1>6. CASE \E i \in 1..Len(calls) : GoReceipt(i) \/ TransactionReceiptFails(i)
  BY <1>1, <1>6 DEF GoReceipt, TransactionReceiptFails
<1>7. ASSUME NEW i \in 1..Len(calls), TransactionReceipt(i)
      PROVE  ReceiptsInv'
  <2>1. PICK receipt \in ReceiptsOf(Wanted(i)) :
            receipts' = [h \in DOMAIN receipts \cup {rpcBlock.trxs[i].hash} |->
                            IF h = rpcBlock.trxs[i].hash THEN receipt ELSE receipts[h]]
    BY <1>7 DEF TransactionReceipt
  <2>2. PICK b \in ToSet(chain) : \E j \in 1..Len(b.trxs) : receipt = RPCReceipt(b, j)
    BY DEF ReceiptsOf
  <2>3. PICK j \in 1..Len(b.trxs) : receipt = RPCReceipt(b, j)
    BY <2>2
  <2>4. b \in BlockType
    BY DEF ChainInv, ToSet
  <2>5. Len(b.trxs[j].logs) \in Nat
    <3>1. b.trxs \in Seq(TrxType)
      BY <2>4 DEF BlockType
    <3>2. b.trxs[j] \in TrxType
      BY <3>1
    <3> QED BY <3>2 DEF TrxType
  <2>6. receipt.logs = [k \in 1..Len(b.trxs[j].logs) |->
                           [data |-> b.trxs[j].logs[k], logIndex |-> LogsBefore(b, j) + k - 1]]
    BY <2>3 DEF RPCReceipt
  <2>7. Len(receipt.logs) \in Nat
    BY <2>5, <2>6
  <2>8. Countable(receipts)
    BY <1>7 DEF TransactionReceipt, ReceiptsInv
  <2> QED BY <2>1, <2>7, <2>8 DEF ReceiptsInv, Countable
<1>8. CASE ReturnBlock \/ PrintBlock
  BY <1>2, <1>8 DEF ReturnBlock, PrintBlock
<1> QED BY <1>3, <1>4, <1>5, <1>6, <1>7, <1>8 DEF Next, ProgramStep

LEMMA MadeInOrder ==
    ASSUME JobInv, ReceiptsInv, at = "receipts", NEW lib
    PROVE  AllInOrder(Answer(lib).block.trxs)
<1>1. rpcBlock.trxs \in Seq(TrxType)
  BY DEF JobInv, Job, BlockType
<1>2. AllInOrder(ToFirehoseTraces(rpcBlock.trxs, receipts))
  BY <1>1, TracesInOrder DEF ReceiptsInv
<1> QED BY <1>2 DEF Answer, RpcToEthBlock

LEMMA BlocksStep ==
    ASSUME JobInv, AnswerInv, ReceiptsInv, BlocksInOrder, [Next]_vars
    PROVE  BlocksInOrder'
<1>1. CASE UNCHANGED <<result, printed>>
  BY <1>1 DEF BlocksInOrder, Answers
<1>2. ASSUME printed' = printed, result' = Nil \/ ~result'.ok
      PROVE  BlocksInOrder'
  BY <1>2 DEF BlocksInOrder, Answers
<1>3. CASE \/ \E body \in Bodies : \E hashes \in [1..Len(body) -> TrxHashes \ ChainTrxs] :
                  IsInjective(hashes) /\ Mine(body, hashes)
           \/ \E height \in 0..(MaxHeight - 1) : LoseBlocks(height)
           \/ (\E b \in lost : Restore(b))
           \/ Cancel \/ UNCHANGED vars
  BY <1>1, <1>3 DEF Mine, LoseBlocks, Restore, Cancel, vars
<1>4. CASE \E n \in Heights : StartFetch(n)
  BY <1>2, <1>4 DEF StartFetch
<1>5. CASE LatestBlockNum \/ GetBlockByNumber
  BY <1>1, <1>5 DEF LatestBlockNum, GetBlockByNumber
<1>6. CASE LatestBlockNumFails \/ GetBlockByNumberFails \/ WaitFails
  <2>1. printed' = printed /\ Fails
    BY <1>6 DEF LatestBlockNumFails, GetBlockByNumberFails, WaitFails
  <2>2. result' = Nil \/ ~result'.ok
    BY <2>1 DEF Fails
  <2> QED BY <1>2, <2>1, <2>2
<1>7. CASE \E i \in 1..Len(calls) :
               GoReceipt(i) \/ TransactionReceipt(i) \/ TransactionReceiptFails(i)
  BY <1>1, <1>7 DEF GoReceipt, TransactionReceipt, TransactionReceiptFails
<1>8. CASE ReturnBlock
  <2>1. PICK lib : result' = Answer(lib)
    BY <1>8 DEF ReturnBlock
  <2>2. printed' = printed /\ AllInOrder(Answer(lib).block.trxs)
    BY <1>8, MadeInOrder DEF ReturnBlock, Fetched
  <2> HIDE DEF Answer
  <2> QED BY <2>1, <2>2 DEF BlocksInOrder, Answers
<1>9. CASE PrintBlock
  <2> DEFINE a == Answer(blockNum - 1)
  <2>1. printed' = Append(printed, a) /\ result' = result /\ AllInOrder(a.block.trxs)
    BY <1>9, MadeInOrder DEF PrintBlock, Fetched
  <2> HIDE DEF a
  <2>2. PICK S : printed \in Seq(S)
    BY DEF AnswerInv
  <2>3. printed \in Seq(S \cup {a})
    BY <2>2
  <2>4. ToSet(printed') = ToSet(printed) \cup {a}
    BY <2>1, <2>3, AppendedElements
  <2>5. \A e \in Answers' : e \in Answers \/ e = a
    BY <2>1, <2>4 DEF Answers
  <2> QED BY <2>1, <2>5 DEF BlocksInOrder
<1> QED BY <1>3, <1>4, <1>5, <1>6, <1>7, <1>8, <1>9 DEF Next, ProgramStep

\* The ordinals of a fetched or printed block number its traces and their logs 0, 1, 2,
\* ... in the order of the block, in whatever order the receipts arrived, so that
\* fix-ordinals leaves the block as it is.
THEOREM FetchedOrdinalsInOrder == Spec => []OrdinalsInOrder
<1> DEFINE IInv == FetcherInv /\ ReceiptsInv /\ BlocksInOrder
<1>1. Init => IInv
  <2> SUFFICES ASSUME Init PROVE IInv
    OBVIOUS
  <2>1. at # "receipts" /\ Answers = {}
    BY DEF Init, Answers, ToSet
  <2> QED BY <2>1, FetcherStarts DEF ReceiptsInv, BlocksInOrder
<1>2. IInv /\ [Next]_vars => IInv'
  BY ChainStep, NumStep, JobStep, AnswerStep, ReceiptsStep, BlocksStep DEF FetcherInv
<1>3. IInv => OrdinalsInOrder
  BY OrdinalsCount, FixedIsSame DEF BlocksInOrder, OrdinalsInOrder
<1> QED BY <1>1, <1>2, <1>3, PTL DEF Spec
=============================================================================

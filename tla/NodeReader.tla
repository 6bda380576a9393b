----------------------------- MODULE NodeReader -----------------------------
(***************************************************************************)
(* The console reader behind a node that behaves.  The node is not in this *)
(* repository: it is modelled from the lines the reader's handlers accept  *)
(* and from the recorded sessions of codec/testdata.  It executes blocks   *)
(* and prints lines as it goes into the channel from which                 *)
(* ConsoleReader.next reads; the two run at their own pace.                *)
(*                                                                         *)
(* The node keeps the truth beside the lines: what it really executed, and *)
(* with which call tree.  The reader has to find that again from the lines *)
(* alone, across cancelled blocks and failed or skipped transactions.      *)
(***************************************************************************)
EXTENDS ConsoleReader

CONSTANTS
    Capacity,    \* length of the lines channel
    MaxLogs,     \* bound on the logs of one transaction
    Rewards      \* bound, for each BEGIN_BLOCK, on the rewards of the block

\* A transaction (or system call) the node is executing.
NodeTrx == [hash: Nat, to: Address, system: BOOLEAN,
            calls: Seq([type: CallType, failed: BOOLEAN, depth: Nat, parent: Nat]),
            logs: Seq([call: Nat, data: LogData])]

\* The node announces a version the reader knows; nil is not a message.
ASSUME NodeAssumption ==
    /\ {Capacity, MaxLogs} \subseteq Nat
    /\ Rewards \in [1..MaxBlocks -> Nat]
    /\ Versions \subseteq KnownVersions
    /\ Nil \notin NodeTrx /\ Nil \notin Block

VARIABLES
    lines,     \* the channel
    version,   \* the version of the node's INIT line
    node,      \* "boot", "idle", "block", "sealed", "failed" or "exited"
    executing, \* the block being executed
    trx,       \* the transaction (or system call) being executed, or Nil
    frames,    \* its open call frames, innermost last
    begun,     \* transactions and system calls begun so far
    clocks,    \* ordinal counters: the block's and the transaction's
    executed,  \* blocks completed
    failures   \* history: blocks (by BEGIN_BLOCK count) ended by FAILED_APPLY_TRX

nodeVars == <<version, node, executing, trx, frames, begun, clocks, executed, failures>>
allVars == <<vars, lines, nodeVars>>

NodeInit ==
    /\ Init
    /\ lines = << >> /\ node = "boot" /\ version \in Versions
    /\ executing = [num |-> 0, seq |-> 0, trxs |-> << >>, changes |-> 0]
    /\ trx = Nil /\ frames = << >> /\ begun = 0
    /\ clocks = [block |-> 0, trx |-> 0]
    /\ executed = << >> /\ failures = {}

Emit(line) ==
    /\ Len(lines) < Capacity
    /\ lines' = Append(lines, line)
    /\ UNCHANGED vars

\* From 2.3 on a transaction numbers its ordinals from 1, so that transactions
\* may execute in parallel; before, and outside of transactions, the block does.
TrxClock(t) == version \in {"2.3", "2.4", "2.5"} /\ t # Nil /\ ~t.system

Tick(t) == clocks' = IF TrxClock(t) THEN [clocks EXCEPT !.trx = @ + 1]
                     ELSE [clocks EXCEPT !.block = @ + 1]

Now(t) == 1 + IF TrxClock(t) THEN clocks.trx ELSE clocks.block

-----------------------------------------------------------------------------
(***************************************************************************)
(* Blocks.                                                                 *)
(***************************************************************************)
NodeStarts ==
    /\ node = "boot" /\ node' = "idle"
    /\ Emit([type |-> "INIT", ver |-> version, polygon |-> FALSE])
    /\ UNCHANGED <<version, executing, trx, frames, begun, clocks, executed, failures>>

BeginBlock(n) ==
    /\ node = "idle" /\ executing.seq < MaxBlocks
    /\ node' = "block"
    /\ executing' = [num |-> n, seq |-> executing.seq + 1, trxs |-> << >>, changes |-> 0]
    /\ clocks' = [block |-> 0, trx |-> 0]
    /\ Emit([type |-> "BEGIN_BLOCK", num |-> n])
    /\ UNCHANGED <<version, trx, frames, begun, executed, failures>>

\* Transactions may follow FINALIZE_BLOCK (Polygon's state sync does).
InBlock == node \in {"block", "sealed"}

BlockReward ==
    /\ InBlock /\ trx = Nil /\ executing.changes < Rewards[executing.seq]
    /\ executing' = [executing EXCEPT !.changes = @ + 1]
    /\ Tick(Nil)
    /\ Emit([type |-> "BALANCE_CHANGE", index |-> 0, ord |-> Now(Nil)])
    /\ UNCHANGED <<version, node, trx, frames, begun, executed, failures>>

Seal ==
    /\ node = "block" /\ trx = Nil
    /\ node' = "sealed"
    /\ Emit([type |-> "FINALIZE_BLOCK", num |-> executing.num])
    /\ UNCHANGED <<version, executing, trx, frames, begun, clocks, executed, failures>>

CompleteBlock ==
    /\ node = "sealed" /\ trx = Nil
    /\ node' = "idle"
    /\ executed' = Append(executed, [num |-> executing.num, trxs |-> executing.trxs,
                                     changes |-> executing.changes])
    /\ Emit([type |-> "END_BLOCK", num |-> executing.num])
    /\ UNCHANGED <<version, executing, trx, frames, begun, clocks, failures>>

\* A block that fails validation is dropped between two transactions, and so is
\* a block with a transaction that could not be applied.
CancelBlock ==
    /\ InBlock \/ node = "failed"
    /\ trx = Nil
    /\ node' = "idle"
    /\ Emit([type |-> "CANCEL_BLOCK", num |-> executing.num])
    /\ UNCHANGED <<version, executing, trx, frames, begun, clocks, executed, failures>>

\* The process goes away; what it printed can still be read.
NodeExits ==
    /\ node # "exited" /\ node' = "exited"
    /\ UNCHANGED <<vars, lines, version, executing, trx, frames, begun, clocks, executed,
                   failures>>

-----------------------------------------------------------------------------
(***************************************************************************)
(* Transactions, system calls and EVM calls.                               *)
(***************************************************************************)
Begin(to, system, line) ==
    /\ InBlock /\ trx = Nil /\ begun < MaxTraces
    /\ begun' = begun + 1
    /\ trx' = [hash |-> begun + 1, to |-> to, system |-> system,
               calls |-> << >>, logs |-> << >>]
    /\ clocks' = IF TrxClock(trx') THEN [clocks EXCEPT !.trx = 1]
                 ELSE [clocks EXCEPT !.block = @ + 1]
    /\ Emit(line)
    /\ UNCHANGED <<version, node, executing, frames, executed, failures>>

BeginTransaction(to) ==
    Begin(to, FALSE,
          [type |-> "BEGIN_APPLY_TRX", to |-> to, index |-> Len(executing.trxs),
           ord |-> IF version \in {"2.3", "2.4", "2.5"} THEN 1 ELSE clocks.block + 1])

BeginSystemCall == Begin(NoAddress, TRUE, [type |-> "SYSTEM_CALL_START"])

Outermost == frames = << >>

RunCall(type) ==
    LET i == Len(trx.calls) + 1 IN
    /\ InBlock /\ trx # Nil /\ i <= MaxCalls
    /\ Outermost => trx.calls = << >>
    /\ trx.system => Outermost
    /\ (Outermost /\ ~trx.system) => (type = "CREATE" <=> trx.to = NoAddress)
    /\ Outermost => type # "DELEGATE"
    /\ trx' = [trx EXCEPT !.calls = Append(@,
                  [type |-> type, failed |-> FALSE, depth |-> Len(frames),
                   parent |-> IF Outermost THEN 0 ELSE Last(frames)])]
    /\ frames' = Append(frames, i)
    /\ Tick(trx)
    /\ Emit([type |-> "EVM_RUN_CALL", call |-> type, index |-> i, ord |-> Now(trx)])
    /\ UNCHANGED <<version, node, executing, begun, executed, failures>>

FailCall ==
    /\ InBlock /\ ~Outermost /\ ~trx.calls[Last(frames)].failed
    /\ trx' = [trx EXCEPT !.calls[Last(frames)].failed = TRUE]
    /\ Emit([type |-> "EVM_CALL_FAILED", index |-> Last(frames)])
    /\ UNCHANGED <<version, node, executing, frames, begun, clocks, executed, failures>>

AddLog(data) ==
    /\ InBlock /\ ~Outermost /\ ~trx.calls[Last(frames)].failed
    /\ Len(trx.logs) < MaxLogs
    /\ trx' = [trx EXCEPT !.logs = Append(@, [call |-> Last(frames), data |-> data])]
    /\ Tick(trx)
    /\ Emit([type |-> "ADD_LOG", index |-> Last(frames), data |-> data, ord |-> Now(trx)])
    /\ UNCHANGED <<version, node, executing, frames, begun, executed, failures>>

EndCall ==
    /\ InBlock /\ ~Outermost
    /\ frames' = Front(frames)
    /\ Tick(trx)
    /\ Emit([type |-> "EVM_END_CALL", index |-> Last(frames), ord |-> Now(trx)])
    /\ UNCHANGED <<version, node, executing, trx, begun, executed, failures>>

Ended == InBlock /\ trx # Nil /\ Outermost /\ trx.calls # << >>

EndSystemCall ==
    /\ Ended /\ trx.system
    /\ trx' = Nil
    /\ Emit([type |-> "SYSTEM_CALL_END"])
    /\ UNCHANGED <<version, node, executing, frames, begun, clocks, executed, failures>>

\* The state a call left behind is kept when no call around it failed.
Kept(calls) ==
    LET kept[i \in 0..Len(calls)] ==
            i = 0 \/ (~calls[i].failed /\ kept[calls[i].parent])
    IN  kept

\* The logs that come with it: of the calls that were kept, in the order of emission.
Receipt(t) ==
    LET kept == Kept(t.calls)
        upTo[k \in 0..Len(t.logs)] ==
            IF k = 0 THEN << >>
            ELSE IF kept[t.logs[k].call] THEN Append(upTo[k-1], t.logs[k].data)
            ELSE upTo[k-1]
    IN  upTo[Len(t.logs)]

EndTransaction ==
    LET kept == Kept(trx.calls)
        receipt == Receipt(trx)
        calls == [i \in 1..Len(trx.calls) |-> [type |-> trx.calls[i].type,
                     parent |-> trx.calls[i].parent, depth |-> trx.calls[i].depth,
                     failed |-> trx.calls[i].failed, kept |-> kept[i]]]
    IN
    /\ Ended /\ ~trx.system
    /\ executing' = [executing EXCEPT !.trxs = Append(@,
                        [hash |-> trx.hash, calls |-> calls, receipt |-> receipt])]
    /\ trx' = Nil
    /\ Tick(trx)
    /\ Emit([type |-> "END_APPLY_TRX", ord |-> Now(trx), receipt |-> receipt])
    /\ UNCHANGED <<version, node, frames, begun, executed, failures>>

\* A transaction that cannot be applied makes no call: the miner leaves it out
\* (SKIPPED_TRX), anyone else gives up the block (FAILED_APPLY_TRX).
NotApplied == InBlock /\ trx # Nil /\ ~trx.system /\ trx.calls = << >>

SkipTransaction ==
    /\ NotApplied
    /\ trx' = Nil
    /\ Emit([type |-> "SKIPPED_TRX"])
    /\ UNCHANGED <<version, node, executing, frames, begun, clocks, executed, failures>>

FailTransaction ==
    /\ NotApplied
    /\ trx' = Nil /\ node' = "failed"
    /\ failures' = failures \cup {executing.seq}
    /\ Emit([type |-> "FAILED_APPLY_TRX"])
    /\ UNCHANGED <<version, executing, frames, begun, clocks, executed>>

NodeStep ==
    \/ NodeStarts \/ BlockReward \/ Seal \/ CompleteBlock \/ CancelBlock \/ NodeExits
    \/ \E n \in BlockNums : BeginBlock(n)
    \/ \E to \in Recipients : BeginTransaction(to)
    \/ BeginSystemCall
    \/ \E type \in EvmCallTypes : RunCall(type)
    \/ \E data \in LogData \ {PolygonFeeLog} : AddLog(data)
    \/ FailCall \/ EndCall
    \/ EndSystemCall \/ EndTransaction \/ SkipTransaction \/ FailTransaction

-----------------------------------------------------------------------------
(***************************************************************************)
(* ConsoleReader.next: the first line of the channel goes to the handler   *)
(* of its type.                                                            *)
(***************************************************************************)
Dispatch(l) ==
    \/ l.type = "INIT" /\ ReadInit(l.ver, l.polygon)
    \/ l.type = "BEGIN_BLOCK" /\ ReadBeginBlock(l.num)
    \/ l.type = "FINALIZE_BLOCK" /\ ReadFinalizeBlock(l.num)
    \/ l.type = "END_BLOCK" /\ ReadEndBlock(l.num, l.num, Nil, TRUE)
    \/ l.type = "CANCEL_BLOCK" /\ ReadCancelBlock(l.num)
    \/ l.type = "FAILED_APPLY_TRX" /\ ReadFailedApplyTrx
    \/ l.type = "BEGIN_APPLY_TRX" /\ ReadApplyTrxBegin(l.to, l.index, l.ord)
    \/ l.type = "END_APPLY_TRX" /\ ReadApplyTrxEnd(l.ord, l.receipt)
    \/ l.type = "SKIPPED_TRX" /\ ReadSkippedTrx
    \/ l.type = "SYSTEM_CALL_START" /\ ReadSystemCallStart
    \/ l.type = "SYSTEM_CALL_END" /\ ReadSystemCallEnd
    \/ l.type = "EVM_RUN_CALL" /\ ReadEVMRunCall(l.call, l.index, l.ord)
    \/ l.type = "EVM_CALL_FAILED" /\ ReadEVMCallFailed(l.index)
    \/ l.type = "EVM_END_CALL" /\ ReadEVMEndCall(l.index, l.ord)
    \/ l.type = "ADD_LOG" /\ ReadAddLog(l.index, l.data, 0, l.ord)
    \/ l.type = "BALANCE_CHANGE" /\ ReadBalanceChange(l.index, l.ord, TRUE)

ReadLine ==
    /\ lines # << >>
    /\ Dispatch(Head(lines))
    /\ lines' = Tail(lines)
    /\ UNCHANGED nodeVars

DrainedMutant == node = "exited"

\* ProcessData closes the channel at the end of the node's output; what is in it
\* is still received.
Drained == node = "exited" /\ lines = << >>

ReadEnd ==
    /\ Drained
    /\ LinesClosed
    /\ UNCHANGED <<lines, nodeVars>>

ReaderStep == ReadLine \/ ReadEnd

NodeNext == NodeStep \/ ReaderStep

NodeSpec == NodeInit /\ [][NodeNext]_allVars

CanRead == Running /\ (lines # << >> \/ Drained)

\* The reader's goroutine loops on the channel, and the node owes nothing: this is the
\* weak fairness of ReaderStep, with the condition that enables it written out.
FairNodeSpec == NodeSpec /\ (<>[]CanRead => []<><<ReaderStep>>_allVars)

-----------------------------------------------------------------------------
\* Every line type fits the channel, and the node's fields have their types.
NodeTypeOK ==
    /\ Len(lines) <= Capacity
    /\ version \in Versions
    /\ node \in {"boot", "idle", "block", "sealed", "failed", "exited"}
    /\ begun \in 0..MaxTraces
    /\ executing.seq \in 0..MaxBlocks
    /\ clocks \in [block: Nat, trx: Nat]
    /\ failures \subseteq 1..MaxBlocks
    /\ frames \in Seq(1..MaxCalls)

\* The reader accepts whatever a well-behaved node prints: it never ends in an
\* error or a panic, however blocks are cancelled and transactions abandoned,
\* and whatever the two processes' relative speed.
ReaderAcceptsNode == status \in {"running", "eof"}

\* Between two transactions the EVM call stack is empty: no call of an abandoned
\* or finished transaction can become the parent of another one's call.  No
\* handler resets the stack; only balanced lines keep it so.
StackEmptyBetweenTransactions ==
    (status = "running" /\ currentTrace = Nil) => evmCallStackIndexes = << >>

\* What a returned block says was executed, in the node's terms.
Story(block) ==
    LET call(c) == [type |-> c.type, parent |-> c.parent, depth |-> c.depth,
                    failed |-> c.statusFailed, kept |-> ~c.stateReverted]
    IN  [num |-> block.num, changes |-> Len(block.changes),
         trxs |-> MapSeq(block.trxs, LAMBDA t :
             [hash |-> t.hash, calls |-> MapSeq(t.calls, call),
              receipt |-> MapSeq(t.receipt, LAMBDA l : l.data)])]

Stream == INSTANCE BlockStream WITH
    Horizon <- MaxBlocks,
    produced <- executed,
    delivered <- MapSeq(returned, LAMBDA r : Story(r.block))

\* The two processes implement the stream of blocks: what ReadBlock returns is,
\* in order, what the node executed (its transactions, their call trees, which
\* calls kept their state, the receipts), and nothing of a cancelled block.
StreamsBlocks == Stream!Spec

\* Every block the node completed is eventually returned by ReadBlock, even when
\* the node's process goes away after END_BLOCK.
EveryBlockReturned == Stream!AllDelivered

\* "We just reset everything": a block that a failed transaction ended leaves nothing
\* behind, so that every system call of a returned block was made in that block.
SystemCallsInTheirBlock ==
    \A b \in 1..Len(returned) : \A k \in 1..Len(returned[b].block.sys) :
        returned[b].block.sys[k].born = returned[b].seq

(***************************************************************************)
(* Ordinals of a returned block, in the order the node executed what they  *)
(* mark.  An ordinal of 0 is one the reader never set.                     *)
(***************************************************************************)
CallOrdinals(c) ==
    {c.begin, c.end} \cup {l.ord : l \in ToSet(c.logs)} \cup {x.ord : x \in ToSet(c.changes)}

TrxOrdinals(t) ==
    {t.begin, t.end} \cup UNION {CallOrdinals(c) : c \in ToSet(t.calls)}

SystemCallOrdinals(block) == UNION {CallOrdinals(s.call) : s \in ToSet(block.sys)} \ {0}

\* Sorting by ordinal gives the order of execution of the transactions and of
\* what is in them: the ordinals of a transaction are between its first and its
\* last one, and those of the next transaction are greater.
TransactionsOrdered ==
    \A b \in 1..Len(returned) :
        LET trxs == returned[b].block.trxs IN
        /\ \A i \in 1..Len(trxs) :
              \A o \in TrxOrdinals(trxs[i]) \ {0} : trxs[i].begin <= o /\ o <= trxs[i].end
        /\ \A i \in 1..Len(trxs) - 1 : trxs[i].end < trxs[i+1].begin

\* "All the 'ordinal' fields in a block are globally unique": no system call
\* shares an ordinal with a transaction.
OrdinalsUnique ==
    \A b \in 1..Len(returned) :
        LET block == returned[b].block IN
        SystemCallOrdinals(block) \cap UNION {TrxOrdinals(t) : t \in ToSet(block.trxs)} = {}
=============================================================================

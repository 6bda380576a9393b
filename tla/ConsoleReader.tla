--------------------------- MODULE ConsoleReader ---------------------------
(***************************************************************************)
(* codec/console_reader.go: the parser that turns the line protocol of an  *)
(* instrumented node into blocks.  The state is parseCtx; there is one     *)
(* action per line type, with the line's fields as parameters.  Next lets  *)
(* any line follow any other: what is shown here does not rest on a node   *)
(* that behaves (NodeReader composes the reader with one that does).       *)
(*                                                                         *)
(* An error or a panic of a handler ends the reading: the plugin that      *)
(* calls ReadBlock shuts the node down and no line is read any more.       *)
(***************************************************************************)
EXTENDS Postprocess, LibNum

CONSTANTS
    Nil,          \* Go's nil
    BlockNums,    \* block numbers a line may carry
    Ordinals,     \* ordinals a line may carry
    Versions,     \* protocol versions an INIT line may announce
    Variants,     \* whether an INIT line may name the polygon variant, or not
    Recipients,   \* "to" addresses a BEGIN_APPLY_TRX line may carry
    Senders,      \* addresses a TRX_FROM or an EVM_PARAM line may carry
    TrxIndexes,   \* transaction indices a BEGIN_APPLY_TRX line may carry
    EvmCallTypes, \* call types an EVM_RUN_CALL line may carry
    Receipts,     \* logs (their data) an END_APPLY_TRX receipt may list
    MaxBlocks,    \* bound on BEGIN_BLOCK lines
    MaxTraces,    \* bound on BEGIN_APPLY_TRX and SYSTEM_CALL_START lines
    MaxCalls,     \* bound on the call indices of a line
    MaxStack,     \* bound on the call stack
    MaxDetails,   \* bound on the lines that only add to a call or to the block
    MaxReturned   \* bound on the blocks returned

ASSUME ReaderAssumption ==
    /\ BlockNums \subseteq Nat /\ Ordinals \subseteq Nat /\ TrxIndexes \subseteq Nat
    /\ Recipients \subseteq Address /\ Senders \subseteq Address
    /\ EvmCallTypes \subseteq CallType /\ Variants \subseteq BOOLEAN
    /\ Receipts \subseteq Seq(LogData)
    /\ {MaxBlocks, MaxTraces, MaxCalls, MaxStack, MaxDetails, MaxReturned} \subseteq Nat
    /\ Nil \notin Trx

CallIndexes == 0..MaxCalls

VARIABLES
    proto,            \* what readInit keeps: versions, flags, normalization features
    currentBlock,     \* block being read, or Nil
    currentTrace,     \* transaction being read, or Nil
    currentTraceLogCount,
    currentRootCall,  \* hash of the trace whose first call it points to, or Nil
    finalizing,
    inSystemCall,
    highestOrdinalBeforeTransactions,
    transactionTraces,
    systemCalls,
    evmCallStackIndexes,
    stats,            \* whether ctx.stats was ever allocated
    returned,         \* the blocks handed to the caller of ReadBlock, in order
    status,           \* "running", "error", "panic" or "eof"
    blocksSeen,       \* history: BEGIN_BLOCK lines accepted
    tracesSeen,       \* history: traces started; the hash of the last one
    detailsSeen       \* history: detail lines read, for the bound

ctxVars == <<proto, currentBlock, currentTrace, currentTraceLogCount,
             currentRootCall, finalizing, inSystemCall,
             highestOrdinalBeforeTransactions, transactionTraces, systemCalls,
             evmCallStackIndexes, stats>>
traceVars == <<currentTrace, currentTraceLogCount, currentRootCall, inSystemCall>>
blockVars == <<currentBlock, finalizing, transactionTraces, systemCalls>>
history == <<blocksSeen, tracesSeen, detailsSeen>>
vars == <<ctxVars, returned, status, history>>

Init ==
    /\ proto = [ver |-> 0, major |-> 0, trxIndex |-> FALSE, upgrade |-> FALSE,
                reorder |-> FALSE, combine |-> FALSE]
    /\ currentBlock = Nil /\ currentTrace = Nil /\ currentRootCall = Nil
    /\ currentTraceLogCount = 0
    /\ finalizing = FALSE /\ inSystemCall = FALSE
    /\ highestOrdinalBeforeTransactions = 0
    /\ transactionTraces = << >> /\ systemCalls = << >>
    /\ evmCallStackIndexes = << >>
    /\ stats = FALSE
    /\ returned = << >> /\ status = "running"
    /\ blocksSeen = 0 /\ tracesSeen = 0 /\ detailsSeen = 0

Running == status = "running"

\* A handler that returns an error (or panics) before changing anything.
Stop(outcome) == status' = outcome /\ UNCHANGED <<ctxVars, returned, history>>

Accept == UNCHANGED <<status, returned>>

(***************************************************************************)
(* The parts of the context the handlers clear, read or number together.   *)
(* A definition named ...Mutant is a plausible bug in the one that follows *)
(* it; nothing uses it but the mutation runs that PROJECT.json lists.      *)
(***************************************************************************)
ResetTraceMutant ==
    /\ UNCHANGED currentTrace
    /\ currentRootCall' = Nil /\ currentTraceLogCount' = 0

\* How END_APPLY_TRX, SYSTEM_CALL_END and CANCEL_BLOCK leave the trace fields.
ResetTrace ==
    /\ currentTrace' = Nil
    /\ currentRootCall' = Nil /\ currentTraceLogCount' = 0

ResetBlockMutant ==
    /\ UNCHANGED currentBlock
    /\ transactionTraces' = << >> /\ systemCalls' = << >>
    /\ finalizing' = FALSE

\* How END_BLOCK and CANCEL_BLOCK leave the block fields.
ResetBlock ==
    /\ currentBlock' = Nil
    /\ transactionTraces' = << >> /\ systemCalls' = << >>
    /\ finalizing' = FALSE

InTransactionMutant == currentBlock # Nil /\ currentTrace # Nil

\* What SKIPPED_TRX and FAILED_APPLY_TRX require.
InTransaction == currentBlock # Nil /\ currentTrace # Nil /\ ~inSystemCall

-----------------------------------------------------------------------------
(***************************************************************************)
(* INIT.  The flags are only ever raised: a second INIT line of another    *)
(* version keeps those of the first.                                       *)
(***************************************************************************)
Major(v) == IF v \in {"1.0", "3.0"} THEN 3 ELSE 2

MustUpgradeMutant(v) == v = "2.0"

MustUpgrade(v) == proto.upgrade \/ v = "2.0"

KnownVersions == {"1.0", "2.0", "2.1", "2.2", "2.3", "2.4", "2.5", "3.0"}

ReadInit(v, polygon) ==
    /\ Running
    /\ \/ /\ v \in KnownVersions
          /\ proto' = [ver |-> IF v = "2.0" THEN 2 ELSE 3,
                       major |-> Major(v),
                       trxIndex |-> proto.trxIndex \/ v \in {"2.3", "2.4", "2.5"},
                       upgrade |-> MustUpgrade(v),
                       reorder |-> proto.reorder \/ v \in {"2.3", "2.4", "2.5"},
                       combine |-> proto.combine \/ polygon]
          /\ UNCHANGED <<traceVars, blockVars, highestOrdinalBeforeTransactions,
                         evmCallStackIndexes, stats, history>>
          /\ Accept
       \/ /\ v \notin KnownVersions
          /\ Stop("error")

(***************************************************************************)
(* Blocks.                                                                 *)
(***************************************************************************)
CanBeginBlockMutant == proto.ver # 0

CanBeginBlock == proto.ver # 0 /\ transactionTraces = << >>

ReadBeginBlock(n) ==
    /\ Running
    /\ \/ ~CanBeginBlock /\ Stop("error")
       \/ /\ CanBeginBlock
          /\ blocksSeen < MaxBlocks
          /\ blocksSeen' = blocksSeen + 1
          /\ stats' = TRUE
          /\ highestOrdinalBeforeTransactions' = -1
          /\ currentBlock' = [num |-> n, ver |-> proto.ver, seq |-> blocksSeen + 1,
                              trxs |-> << >>, sys |-> << >>, changes |-> << >>]
          /\ UNCHANGED <<proto, traceVars, finalizing, transactionTraces, systemCalls,
                         evmCallStackIndexes, tracesSeen, detailsSeen>>
          /\ Accept

ReadFinalizeBlock(n) ==
    /\ Running
    /\ LET ok == currentBlock # Nil /\ ~inSystemCall /\ currentBlock.num = n IN
       \/ ~ok /\ Stop("error")
       \/ /\ ok
          /\ finalizing' = TRUE
          /\ UNCHANGED <<proto, traceVars, currentBlock, transactionTraces, systemCalls,
                         highestOrdinalBeforeTransactions, evmCallStackIndexes, stats,
                         history>>
          /\ Accept

ReadFailedApplyTrx ==
    /\ Running
    /\ \/ ~InTransaction /\ Stop("error")
       \/ /\ InTransaction
          /\ currentBlock' = Nil /\ currentTrace' = Nil
          /\ transactionTraces' = << >>
          /\ currentTraceLogCount' = 0
          /\ finalizing' = FALSE
          /\ UNCHANGED <<proto, currentRootCall, inSystemCall, systemCalls,
                         highestOrdinalBeforeTransactions, evmCallStackIndexes, stats,
                         history>>
          /\ Accept

\* Ignored when no block is active, whatever it says.
ReadCancelBlock(n) ==
    /\ Running
    /\ \/ currentBlock = Nil /\ UNCHANGED vars
       \/ currentBlock # Nil /\ currentBlock.num # n /\ Stop("error")
       \/ /\ currentBlock # Nil /\ currentBlock.num = n
          /\ ResetBlock /\ ResetTrace
          /\ inSystemCall' = FALSE
          /\ UNCHANGED <<proto, highestOrdinalBeforeTransactions, evmCallStackIndexes,
                         stats, history>>
          /\ Accept

\* The block as readEndBlock assembles it, before normalization.
Assembled == [currentBlock EXCEPT !.trxs = transactionTraces, !.sys = systemCalls]

\* What ReadBlock returns, with two history fields: which BEGIN_BLOCK line the
\* block comes from, and the block before normalization.
Finished(block, lib) ==
    [num |-> Assembled.num, lib |-> lib, block |-> block,
     seq |-> Assembled.seq, raw |-> Assembled]

\* How the reading of a block ends: it is returned, or the encoder refuses it, or
\* its normalization panics.
EndWith(normalized, lib, encodes) ==
    \/ /\ normalized.ok /\ encodes
       /\ returned' = Append(returned, Finished(normalized.block, lib))
       /\ UNCHANGED status
    \/ /\ ~normalized.ok \/ ~encodes
       /\ status' = IF normalized.ok THEN "error" ELSE "panic"
       /\ UNCHANGED returned

\* The context is reset before normalizeInPlace runs, so it is also reset when
\* that panics or when the encoder then fails.  "finalized" is the finalized
\* block number of the END_BLOCK line, Nil when the line carries no finalized
\* block hash; "encodes" says whether the encoder accepts the block.
ReadEndBlock(n, headerNum, finalized, encodes) ==
    /\ Running
    /\ LET ok == /\ currentBlock # Nil /\ finalizing
                 /\ currentBlock.num = n /\ headerNum = n
           lib == IF finalized = Nil THEN ComputeProofOfWorkLIBNum(n)
                  ELSE ComputeProofOfStakeLIBNum(n, finalized)
       IN
       \/ ~ok /\ Stop("error")
       \/ /\ ok /\ Len(returned) < MaxReturned
          /\ ResetBlock
          /\ EndWith(NormalizeInPlace(Assembled, proto, highestOrdinalBeforeTransactions + 1),
                     lib, encodes)
          /\ UNCHANGED <<proto, traceVars, highestOrdinalBeforeTransactions,
                         evmCallStackIndexes, stats, history>>

\* BLOCK <num> ... <lib> ...: the whole block on one line, protocol 3 only.
ReadBlockForProtocolVersion3(n, lib) ==
    /\ Running
    /\ \/ proto.major # 3 /\ Stop("error")
       \/ /\ proto.major = 3 /\ Len(returned) < MaxReturned
          /\ returned' = Append(returned, [num |-> n, lib |-> lib, block |-> Nil,
                                         seq |-> 0, raw |-> Nil])
          /\ UNCHANGED <<ctxVars, history, status>>

-----------------------------------------------------------------------------
(***************************************************************************)
(* Transactions and system calls.                                          *)
(***************************************************************************)
NewRootCallMutant == IF currentRootCall = Nil THEN tracesSeen + 1 ELSE currentRootCall

NewRootCall == tracesSeen + 1

TrxIndexMutant(index) ==
    IF proto.trxIndex THEN index ELSE Len(transactionTraces) - 1

TrxIndex(index) == IF proto.trxIndex THEN index ELSE Len(transactionTraces)

StartTrace(trace) ==
    /\ tracesSeen < MaxTraces
    /\ tracesSeen' = tracesSeen + 1
    /\ currentTrace' = trace
    /\ currentTraceLogCount' = 0
    /\ currentRootCall' = NewRootCall
    /\ UNCHANGED <<proto, blockVars, highestOrdinalBeforeTransactions,
                   evmCallStackIndexes, stats, blocksSeen, detailsSeen>>
    /\ Accept

\* No block needs to be active, but ctx.stats is dereferenced: before the first
\* BEGIN_BLOCK that is a nil pointer panic.
ReadApplyTrxBegin(to, index, ord) ==
    /\ Running
    /\ \/ currentTrace # Nil /\ Stop("error")
       \/ currentTrace = Nil /\ ~stats /\ Stop("panic")
       \/ /\ currentTrace = Nil /\ stats
          /\ StartTrace(NewTrx(tracesSeen + 1, TrxIndex(index), to, ord,
                               NewCall(1, "CALL", to, 0), blocksSeen, FALSE))
          /\ UNCHANGED inSystemCall

ReadSystemCallStart ==
    /\ Running
    /\ \/ currentTrace # Nil /\ Stop("error")
       \/ /\ currentTrace = Nil
          /\ StartTrace(NewTrx(tracesSeen + 1, 0, NoAddress, 0,
                               NewCall(1, "CALL", NoAddress, 0), blocksSeen, TRUE))
          /\ inSystemCall' = TRUE

\* A system call that ended: its only call, and the block it was started in.
SystemCall(trace) == [call |-> trace.calls[1], born |-> trace.born]

ReadSystemCallEnd ==
    /\ Running
    /\ LET ok == currentTrace # Nil /\ Len(currentTrace.calls) = 1 IN
       \/ ~ok /\ Stop("error")
       \/ /\ ok
          /\ systemCalls' = Append(systemCalls, SystemCall(currentTrace))
          /\ ResetTrace
          /\ inSystemCall' = FALSE
          /\ UNCHANGED <<proto, currentBlock, finalizing, transactionTraces,
                         highestOrdinalBeforeTransactions, evmCallStackIndexes, stats,
                         history>>
          /\ Accept

ReadSkippedTrx ==
    /\ Running
    /\ \/ ~InTransaction /\ Stop("error")
       \/ /\ InTransaction
          /\ currentTrace' = Nil
          /\ UNCHANGED <<proto, blockVars, currentTraceLogCount, currentRootCall,
                         inSystemCall, highestOrdinalBeforeTransactions,
                         evmCallStackIndexes, stats, history>>
          /\ Accept

\* The logs of the END_APPLY_TRX receipt, as fresh messages: indexed by position.
ReceiptLogs(hash, data) ==
    [i \in 1..Len(data) |-> [trx |-> hash, index |-> i - 1, data |-> data[i],
                             ord |-> 0, blockIndex |-> 0]]

\* A contract creation has no "to": it is taken from the root call, which must
\* then be a CREATE.
ResolvedTo(trace) ==
    IF trace.to = NoAddress THEN trace.calls[1].address ELSE trace.to

ReadApplyTrxEnd(ord, receipt) ==
    /\ Running
    /\ LET ok == currentTrace # Nil /\ ~inSystemCall
           panics == \/ currentTrace.to = NoAddress /\ currentTrace.calls[1].type # "CREATE"
                     \/ ~ParentsInRange(currentTrace.calls)
           trace == [currentTrace EXCEPT
                        !.end = ord,
                        !.to = ResolvedTo(currentTrace),
                        !.receipt = ReceiptLogs(currentTrace.hash, receipt),
                        !.calls = PopulateStateReverted(@),
                        !.done = blocksSeen]
       IN
       \/ ~ok /\ Stop("error")
       \/ ok /\ panics /\ Stop("panic")
       \/ /\ ok /\ ~panics
          /\ transactionTraces' = Append(transactionTraces, trace)
          /\ ResetTrace
          /\ UNCHANGED <<proto, currentBlock, finalizing, systemCalls, inSystemCall,
                         highestOrdinalBeforeTransactions, evmCallStackIndexes, stats,
                         history>>
          /\ Accept

-----------------------------------------------------------------------------
(***************************************************************************)
(* EVM calls.  EVM_RUN_CALL pushes the index of its line before checking   *)
(* it; EVM_END_CALL writes to the call its line names but takes parent and *)
(* depth from the stack, whose top may be another call.                    *)
(***************************************************************************)
NextCallOffByOneMutant(i) == i # 1 /\ i = Len(currentTrace.calls)

NextCallMutant(i) == i > 1

\* The root call is there since the trace began; the others must arrive in order.
NextCall(i) == i # 1 /\ i - 1 = Len(currentTrace.calls)

ReadEVMRunCall(type, i, ord) ==
    LET extended == Append(currentTrace.calls, NewCall(i, type, NoAddress, ord))
        root == [currentTrace.calls[1] EXCEPT
                    !.type = type, !.begin = IF inSystemCall THEN ord ELSE @]
    IN
    /\ Running
    /\ \/ currentTrace = Nil /\ Stop("error")
       \/ /\ currentTrace # Nil /\ Len(evmCallStackIndexes) < MaxStack
          /\ evmCallStackIndexes' = Append(evmCallStackIndexes, i)
          /\ \/ /\ i = 1
                /\ currentTrace' = [currentTrace EXCEPT !.calls[1] = root]
                /\ UNCHANGED status
             \/ /\ NextCall(i)
                /\ currentTrace' = [currentTrace EXCEPT !.calls = extended]
                /\ UNCHANGED status
             \/ /\ i # 1 /\ ~NextCall(i)
                /\ status' = "error"
                /\ UNCHANGED currentTrace
          /\ UNCHANGED <<proto, currentTraceLogCount, currentRootCall, inSystemCall,
                         blockVars, highestOrdinalBeforeTransactions, stats, history,
                         returned>>

\* getCall: the call of that index in the active trace (no root fallback).
CallExists(i) == currentTrace # Nil /\ i > 0 /\ i <= Len(currentTrace.calls)

WriteCall(i, call) == currentTrace' = [currentTrace EXCEPT !.calls[i] = call]

ParentAndDepthMutant ==
    LET l == Len(evmCallStackIndexes) IN
    IF l = 1 THEN [parent |-> 0, depth |-> 0]
    ELSE [parent |-> evmCallStackIndexes[l], depth |-> l - 1]

\* What popCallIndexReturnParent returns, and the stack it leaves, when the
\* stack is not empty.
ParentAndDepth ==
    LET l == Len(evmCallStackIndexes) IN
    IF l = 1 THEN [parent |-> 0, depth |-> 0]
    ELSE [parent |-> evmCallStackIndexes[l - 1], depth |-> l - 1]

PoppedStackMutant ==
    IF Len(evmCallStackIndexes) = 1 THEN evmCallStackIndexes
    ELSE SubSeq(evmCallStackIndexes, 1, Len(evmCallStackIndexes) - 1)

PoppedStack == SubSeq(evmCallStackIndexes, 1, Len(evmCallStackIndexes) - 1)

ReadEVMEndCall(i, ord) ==
    /\ Running
    /\ LET ok == CallExists(i) /\ evmCallStackIndexes # << >>
           call == [currentTrace.calls[i] EXCEPT
                       !.parent = ParentAndDepth.parent,
                       !.depth = ParentAndDepth.depth,
                       !.end = ord]
       IN
       \/ ~ok /\ Stop("error")
       \/ /\ ok
          /\ evmCallStackIndexes' = PoppedStack
          /\ WriteCall(i, call)
          /\ UNCHANGED <<proto, currentTraceLogCount, currentRootCall, inSystemCall,
                         blockVars, highestOrdinalBeforeTransactions, stats, history>>
          /\ Accept

-----------------------------------------------------------------------------
(***************************************************************************)
(* Detail lines: they write to one call, or to the block, or nowhere.      *)
(***************************************************************************)
Detail == detailsSeen < MaxDetails /\ detailsSeen' = detailsSeen + 1

\* What a detail line never touches.
DetailFrame ==
    UNCHANGED <<proto, currentRootCall, finalizing, inSystemCall, transactionTraces,
                systemCalls, evmCallStackIndexes, stats, blocksSeen, tracesSeen>>

\* The line's data goes to the given call and nothing else moves.
OnCall(i, call) ==
    /\ Detail /\ DetailFrame /\ Accept
    /\ WriteCall(i, call)
    /\ UNCHANGED <<currentBlock, currentTraceLogCount, highestOrdinalBeforeTransactions>>

\* The line is read and dropped.
Dropped ==
    /\ Detail /\ DetailFrame /\ Accept
    /\ UNCHANGED <<currentBlock, currentTrace, currentTraceLogCount,
                   highestOrdinalBeforeTransactions>>

\* Lines that set fields of an existing call, and fail without one.
Annotate(i, call) ==
    /\ Running
    /\ \/ ~CallExists(i) /\ Stop("error")
       \/ CallExists(i) /\ OnCall(i, call)

ReadEVMParamCall(i, caller, address, executes) ==
    Annotate(i, [currentTrace.calls[i] EXCEPT
                    !.caller = caller, !.address = address,
                    !.marks = IF executes THEN @ \cup {"executedCode"}
                              ELSE @ \ {"executedCode"}])

ReadEVMCallFailed(i) ==
    Annotate(i, [currentTrace.calls[i] EXCEPT !.statusFailed = TRUE])

ReadEVMReverted(i) ==
    Annotate(i, [currentTrace.calls[i] EXCEPT !.statusReverted = TRUE])

ReadAccountWithoutCode(i) ==
    Annotate(i, [currentTrace.calls[i] EXCEPT !.marks = @ \ {"executedCode"}])

ReadEVMKeccak(i) ==
    Annotate(i, [currentTrace.calls[i] EXCEPT !.marks = @ \cup {"keccak"}])

\* Index 0 is an error whose message reads the block number: without a block it
\* is a nil pointer panic.
ReadSuicideChange(i) ==
    \/ /\ Running
       /\ i = 0 /\ currentBlock = Nil
       /\ Stop("panic")
    \/ /\ i # 0 \/ currentBlock # Nil
       /\ Annotate(i, [currentTrace.calls[i] EXCEPT !.marks = @ \cup {"suicide"}])

\* TRX_FROM also gives the root call its caller while it is the only call and
\* has none.
ReadTrxFrom(from) ==
    LET root == currentTrace.calls[1]
        named == Len(currentTrace.calls) = 1 /\ root.caller = NoAddress
    IN
    /\ Running
    /\ \/ currentTrace = Nil /\ Stop("error")
       \/ /\ currentTrace # Nil
          /\ currentTrace' = [currentTrace EXCEPT
                 !.from = from,
                 !.calls[1] = [root EXCEPT !.caller = IF named THEN from ELSE @]]
          /\ Detail /\ DetailFrame /\ Accept
          /\ UNCHANGED <<currentBlock, currentTraceLogCount,
                         highestOrdinalBeforeTransactions>>

WithChange(i, kind, ord) ==
    [currentTrace.calls[i] EXCEPT !.changes = Append(@, [kind |-> kind, ord |-> ord])]

\* GAS_CHANGE and NONCE_CHANGE: index 0 is the root call of the active trace,
\* and is dropped between transactions.
ReadRootableChange(kind, i, ord) ==
    /\ Running
    /\ \/ i = 0 /\ currentTrace = Nil /\ Dropped
       \/ i = 0 /\ currentTrace # Nil /\ OnCall(1, WithChange(1, kind, ord))
       \/ i # 0 /\ CallExists(i) /\ OnCall(i, WithChange(i, kind, ord))
       \/ i # 0 /\ ~CallExists(i) /\ Stop("error")

ReadGasChange(i, ord) == ReadRootableChange("GAS", i, ord)

ReadNonceChange(i, ord) == ReadRootableChange("NONCE", i, ord)

\* A storage change of the root is dropped outside a block as well.
ReadStorageChange(i, ord) ==
    /\ Running
    /\ \/ i = 0 /\ (currentBlock = Nil \/ currentTrace = Nil) /\ Dropped
       \/ /\ i = 0 /\ currentBlock # Nil /\ currentTrace # Nil
          /\ OnCall(1, WithChange(1, "STORAGE", ord))
       \/ i # 0 /\ CallExists(i) /\ OnCall(i, WithChange(i, "STORAGE", ord))
       \/ i # 0 /\ ~CallExists(i) /\ Stop("error")

BeforeTransactions == currentTrace = Nil /\ transactionTraces = << >>

\* Before the first transaction the ordinal of a block-level line is remembered.
RememberOrdinal(ord) ==
    highestOrdinalBeforeTransactions' =
        IF transactionTraces = << >> THEN ord ELSE highestOrdinalBeforeTransactions

OnBlock(kind, ord) ==
    /\ Detail /\ DetailFrame /\ Accept
    /\ currentBlock' = [currentBlock EXCEPT
           !.changes = Append(@, [kind |-> kind, ord |-> ord])]
    /\ RememberOrdinal(ord)
    /\ UNCHANGED <<currentTrace, currentTraceLogCount>>

\* CREATED_ACCOUNT remembers its ordinal even when the creation is dropped (and
\* when the line is then an error, after which nothing is read).
ReadCreateAccount(i, ord) ==
    /\ Running
    /\ \/ /\ BeforeTransactions /\ i = 0
          /\ Detail /\ DetailFrame /\ Accept
          /\ highestOrdinalBeforeTransactions' = ord
          /\ UNCHANGED <<currentBlock, currentTrace, currentTraceLogCount>>
       \/ ~BeforeTransactions /\ i = 0 /\ currentTrace = Nil /\ Dropped
       \/ i = 0 /\ currentTrace # Nil /\ OnCall(1, WithChange(1, "CREATED", ord))
       \/ i # 0 /\ CallExists(i) /\ OnCall(i, WithChange(i, "CREATED", ord))
       \/ i # 0 /\ ~CallExists(i) /\ Stop("error")

\* On the root call of a trace only the genesis block may change code; the
\* check reads the block number and panics when no block is active.
ReadCodeChange(i, ord) ==
    /\ Running
    /\ \/ i = 0 /\ currentTrace = Nil /\ currentBlock = Nil /\ Dropped
       \/ i = 0 /\ currentTrace = Nil /\ currentBlock # Nil /\ OnBlock("CODE", ord)
       \/ i = 0 /\ currentTrace # Nil /\ currentBlock = Nil /\ Stop("panic")
       \/ /\ i = 0 /\ currentTrace # Nil /\ currentBlock # Nil
          /\ \/ currentBlock.num # 0 /\ Stop("error")
             \/ currentBlock.num = 0 /\ OnCall(1, WithChange(1, "CODE", ord))
       \/ i # 0 /\ CallExists(i) /\ OnCall(i, WithChange(i, "CODE", ord))
       \/ i # 0 /\ ~CallExists(i) /\ Stop("error")

\* Between transactions any index means the block.  A mining reward that names
\* no existing call is skipped instead of failing.
ReadBalanceChange(i, ord, miningReward) ==
    /\ Running
    /\ \/ currentTrace = Nil /\ currentBlock # Nil /\ OnBlock("BALANCE", ord)
       \/ currentTrace = Nil /\ currentBlock = Nil /\ i = 0 /\ Dropped
       \/ currentTrace # Nil /\ i = 0 /\ OnCall(1, WithChange(1, "BALANCE", ord))
       \/ i # 0 /\ CallExists(i) /\ OnCall(i, WithChange(i, "BALANCE", ord))
       \/ /\ i # 0 /\ ~CallExists(i) /\ (currentTrace # Nil \/ currentBlock = Nil)
          /\ \/ miningReward /\ Dropped
             \/ ~miningReward /\ Stop("error")

\* ADD_LOG: the index counts the logs of the trace; 0 is the root call.
LogIndexMutant(at) == Len(currentTrace.calls[at].logs)

LogIndex(at) == currentTraceLogCount

ReadAddLog(i, data, blockIndex, ord) ==
    LET at == IF i = 0 THEN 1 ELSE i
        log == [trx |-> currentTrace.hash, index |-> LogIndex(at),
                data |-> data, ord |-> ord, blockIndex |-> blockIndex]
    IN
    /\ Running
    /\ \/ ~CallExists(at) /\ Stop("error")
       \/ /\ CallExists(at)
          /\ currentTraceLogCount' = currentTraceLogCount + 1
          /\ WriteCall(at, [currentTrace.calls[at] EXCEPT !.logs = Append(@, log)])
          /\ Detail /\ DetailFrame /\ Accept
          /\ UNCHANGED <<currentBlock, highestOrdinalBeforeTransactions>>

-----------------------------------------------------------------------------
\* A line that no handler accepts: unknown type (error), wrong number of fields
\* (error), a number or hex string that does not parse (an error in some
\* handlers, a panic in FromHex and FromUint64; nothing is read after either).
ReadMalformed == Running /\ Stop("error")

\* The lines channel is closed: what is being read is abandoned.
LinesClosed == Running /\ Stop("eof")

ReadBlockLine ==
    \/ \E v \in Versions, polygon \in Variants : ReadInit(v, polygon)
    \/ \E n \in BlockNums : ReadBeginBlock(n)
    \/ \E n \in BlockNums : ReadFinalizeBlock(n)
    \/ \E n \in BlockNums : ReadCancelBlock(n)
    \/ \E n, h \in BlockNums, f \in BlockNums \cup {Nil}, encodes \in BOOLEAN :
           ReadEndBlock(n, h, f, encodes)
    \/ \E n, lib \in BlockNums : ReadBlockForProtocolVersion3(n, lib)
    \/ ReadFailedApplyTrx

ReadTraceLine ==
    \/ \E to \in Recipients, x \in TrxIndexes, ord \in Ordinals :
           ReadApplyTrxBegin(to, x, ord)
    \/ \E ord \in Ordinals, receipt \in Receipts : ReadApplyTrxEnd(ord, receipt)
    \/ \E from \in Senders : ReadTrxFrom(from)
    \/ ReadSkippedTrx
    \/ ReadSystemCallStart
    \/ ReadSystemCallEnd

ReadCallLine ==
    \E i \in CallIndexes :
        \/ \E type \in EvmCallTypes, ord \in Ordinals : ReadEVMRunCall(type, i, ord)
        \/ \E ord \in Ordinals : ReadEVMEndCall(i, ord)
        \/ \E a \in Senders, x \in BOOLEAN : ReadEVMParamCall(i, a, a, x)
        \/ ReadEVMCallFailed(i)
        \/ ReadEVMReverted(i)
        \/ ReadAccountWithoutCode(i)
        \/ ReadEVMKeccak(i)
        \/ ReadSuicideChange(i)

ReadChangeLine ==
    \E i \in CallIndexes, ord \in Ordinals :
        \/ ReadGasChange(i, ord)
        \/ ReadNonceChange(i, ord)
        \/ ReadStorageChange(i, ord)
        \/ ReadCreateAccount(i, ord)
        \/ ReadCodeChange(i, ord)
        \/ \E mining \in BOOLEAN : ReadBalanceChange(i, ord, mining)
        \/ \E data \in LogData, b \in TrxIndexes : ReadAddLog(i, data, b, ord)

Next ==
    \/ ReadBlockLine
    \/ ReadTraceLine
    \/ ReadCallLine
    \/ ReadChangeLine
    \/ ReadMalformed
    \/ LinesClosed

Spec == Init /\ [][Next]_vars

-----------------------------------------------------------------------------
BlockChanges == Seq([kind: ChangeKind, ord: Nat])

Protocol == [ver: {0, 2, 3}, major: {0, 2, 3}, trxIndex: BOOLEAN, upgrade: BOOLEAN,
             reorder: BOOLEAN, combine: BOOLEAN]

EndedSystemCall == [call: Call, born: Nat]

Block == [num: Nat, ver: {2, 3}, seq: Nat, trxs: Seq(Trx),
          sys: Seq(EndedSystemCall), changes: BlockChanges]

\* Every field of the parse context has its Go type: pointers are nil or point
\* to a message, slices hold messages of their type, counters are not negative.
TypeOK ==
    /\ proto \in Protocol
    /\ currentBlock \in Block \cup {Nil}
    /\ currentTrace \in Trx \cup {Nil}
    /\ currentTraceLogCount \in Nat
    /\ currentRootCall \in Nat \cup {Nil}
    /\ finalizing \in BOOLEAN /\ inSystemCall \in BOOLEAN /\ stats \in BOOLEAN
    /\ highestOrdinalBeforeTransactions \in Int
    /\ transactionTraces \in Seq(Trx)
    /\ systemCalls \in Seq(EndedSystemCall)
    /\ evmCallStackIndexes \in Seq(Nat)
    /\ status \in {"running", "error", "panic", "eof"}
    /\ blocksSeen \in Nat /\ tracesSeen \in Nat /\ detailsSeen \in Nat

\* currentRootCall, through which index-0 lines and TRX_FROM write, points to
\* the first call of the active trace and never to the call of an abandoned
\* one, although SKIPPED_TRX and FAILED_APPLY_TRX leave it dangling.
RootCallIsCurrent ==
    currentTrace # Nil => /\ currentRootCall = currentTrace.hash
                          /\ Len(currentTrace.calls) >= 1

\* inSystemCall is set exactly while the fake trace of a system call is active:
\* the guards of SKIPPED_TRX, END_APPLY_TRX, FAILED_APPLY_TRX and
\* FINALIZE_BLOCK rely on the flag, not on the trace.
SystemCallFlag == inSystemCall <=> (currentTrace # Nil /\ currentTrace.system)

\* A call is found at the position its Index says, so getCall, which indexes the
\* slice, returns the call the line means; and the first call is numbered 1.
CallsAtTheirIndex ==
    /\ currentTrace # Nil =>
          \A i \in 1..Len(currentTrace.calls) : currentTrace.calls[i].index = i
    /\ \A k \in 1..Len(transactionTraces) :
          \A i \in 1..Len(transactionTraces[k].calls) :
              transactionTraces[k].calls[i].index = i

\* Transactions do not cross blocks: while a block is active, the transactions
\* collected for it all ended under it, and a returned block holds only
\* transactions that ended between its BEGIN_BLOCK and its END_BLOCK, whatever
\* was abandoned, cancelled or left open before.
TransactionsEndInTheirBlock ==
    /\ currentBlock # Nil =>
          /\ currentBlock.seq = blocksSeen
          /\ \A k \in 1..Len(transactionTraces) :
                transactionTraces[k].done = blocksSeen
    /\ \A b \in 1..Len(returned) : returned[b].raw # Nil =>
          \A k \in 1..Len(returned[b].raw.trxs) :
              returned[b].raw.trxs[k].done = returned[b].seq

\* A BEGIN_BLOCK line gives at most one block to the caller of ReadBlock, and
\* blocks come out in the order they were begun.
ReturnedInOrder ==
    \A a, b \in 1..Len(returned) :
        (a < b /\ returned[a].raw # Nil /\ returned[b].raw # Nil) =>
            returned[a].seq < returned[b].seq

\* The last irreversible block a returned block names is not after the block
\* itself, whatever the node reports as finalized: only the blocks below the first
\* streamable one name that one.
LibNotAhead ==
    \A b \in 1..Len(returned) : returned[b].raw # Nil =>
        returned[b].lib <= returned[b].num \/ returned[b].lib = FirstStreamable

\* Consumers only ever see version 3 blocks from the line protocol, although a
\* 2.0 node makes the reader build version 2 ones: the upgrade flag outlives the
\* INIT line that raised it for as long as a version 2 block can be in flight.
ReturnedBlocksAreVersion3 ==
    \A b \in 1..Len(returned) : returned[b].block # Nil => returned[b].block.ver = 3

\* No transaction is lost into two places: the active trace and the collected
\* transactions are all different, so none is returned twice.
TransactionsDistinct ==
    LET hash(k) == transactionTraces[k].hash IN
    /\ \A j, k \in 1..Len(transactionTraces) : j # k => hash(j) # hash(k)
    /\ currentTrace # Nil =>
          \A k \in 1..Len(transactionTraces) : hash(k) < currentTrace.hash

\* The logs of the active transaction are numbered in order of arrival, across
\* all its calls and without gaps or repeats.
LogsNumberedOnce ==
    currentTrace # Nil =>
        LET logs == FlattenSeq([i \in 1..Len(currentTrace.calls) |->
                                   currentTrace.calls[i].logs])
        IN  /\ Len(logs) = currentTraceLogCount
            /\ {logs[k].index : k \in 1..Len(logs)} = 0..(currentTraceLogCount - 1)
=============================================================================

------------------------ MODULE ConsoleReaderProofs ------------------------
(***************************************************************************)
(* The safety of the console reader, for any lines, any number of them and *)
(* every value of the constants.                                           *)
(*                                                                         *)
(* Each handler is opened twice, in the first half: to show that it keeps  *)
(* the types and is one of the nine cases of Step (NextType), and to show  *)
(* what it can do to the calls of a trace (NextCalls).  Then each          *)
(* invariant is strengthened until it is inductive and proved case by case *)
(* over those, without looking at the handlers again.                      *)
(***************************************************************************)
EXTENDS ConsoleReader, PostprocessProofs

-----------------------------------------------------------------------------
(***************************************************************************)
(* The lines of Next, with any call index, any ordinal and any receipt.    *)
(* All that is proved is proved of these, for which Next is only a sample; *)
(* the lines of a node (NodeReaderProofs) are others.                      *)
(***************************************************************************)
AnyBlockLine ==
    \/ \E v \in Versions, polygon \in BOOLEAN : ReadInit(v, polygon)
    \/ \E n \in BlockNums : ReadBeginBlock(n)
    \/ \E n \in BlockNums : ReadFinalizeBlock(n)
    \/ \E n \in BlockNums : ReadCancelBlock(n)
    \/ \E n, h \in BlockNums, f \in BlockNums \cup {Nil}, encodes \in BOOLEAN :
           ReadEndBlock(n, h, f, encodes)
    \/ \E n, lib \in BlockNums : ReadBlockForProtocolVersion3(n, lib)
    \/ ReadFailedApplyTrx

AnyTraceLine ==
    \/ \E to \in Recipients, x, ord \in Nat : ReadApplyTrxBegin(to, x, ord)
    \/ \E ord \in Nat, receipt \in Seq(LogData) : ReadApplyTrxEnd(ord, receipt)
    \/ \E from \in Senders : ReadTrxFrom(from)
    \/ ReadSkippedTrx
    \/ ReadSystemCallStart
    \/ ReadSystemCallEnd

AnyCallLine ==
    \E i \in Nat :
        \/ \E type \in EvmCallTypes, ord \in Nat : ReadEVMRunCall(type, i, ord)
        \/ \E ord \in Nat : ReadEVMEndCall(i, ord)
        \/ \E a \in Senders, x \in BOOLEAN : ReadEVMParamCall(i, a, a, x)
        \/ ReadEVMCallFailed(i)
        \/ ReadEVMReverted(i)
        \/ ReadAccountWithoutCode(i)
        \/ ReadEVMKeccak(i)
        \/ ReadSuicideChange(i)

AnyChangeLine ==
    \E i, ord \in Nat :
        \/ ReadGasChange(i, ord)
        \/ ReadNonceChange(i, ord)
        \/ ReadStorageChange(i, ord)
        \/ ReadCreateAccount(i, ord)
        \/ ReadCodeChange(i, ord)
        \/ \E mining \in BOOLEAN : ReadBalanceChange(i, ord, mining)
        \/ \E data \in LogData, b \in Nat : ReadAddLog(i, data, b, ord)

AnyNext ==
    \/ AnyBlockLine \/ AnyTraceLine \/ AnyCallLine \/ AnyChangeLine
    \/ ReadMalformed \/ LinesClosed

AnySpec == Init /\ [][AnyNext]_vars

LEMMA SomeLines == Spec => AnySpec
<1>1. ReadBlockLine => AnyBlockLine
  BY ReaderAssumption DEF ReadBlockLine, AnyBlockLine
<1>2. ReadTraceLine => AnyTraceLine
  BY ReaderAssumption DEF ReadTraceLine, AnyTraceLine
<1>3. ReadCallLine => AnyCallLine
  BY ReaderAssumption DEF ReadCallLine, AnyCallLine, CallIndexes
<1>4. ReadChangeLine => AnyChangeLine
  <2>1. Ordinals \subseteq Nat /\ TrxIndexes \subseteq Nat /\ CallIndexes \subseteq Nat
    BY ReaderAssumption DEF CallIndexes
  <2> QED BY <2>1, Zenon DEF ReadChangeLine, AnyChangeLine
<1>5. [Next]_vars => [AnyNext]_vars
  BY <1>1, <1>2, <1>3, <1>4 DEF Next, AnyNext
<1> QED BY <1>5, PTL DEF Spec, AnySpec

\* A fresh call has its type.
LEMMA NewCallType ==
    ASSUME NEW i \in Nat, NEW type \in CallType, NEW a \in Address, NEW ord \in Nat
    PROVE  NewCall(i, type, a, ord) \in Call
BY DEF NewCall, Call, Address, NoAddress, Mark

\* A fresh trace has its type.
LEMMA NewTrxType ==
    ASSUME NEW h \in Nat, NEW i \in Nat, NEW to \in Address, NEW ord \in Nat,
           NEW root \in Call, NEW born \in Nat, NEW system \in BOOLEAN
    PROVE  NewTrx(h, i, to, ord, root, born, system) \in Trx
BY DEF NewTrx, Trx, Address, NoAddress, TrxStatus

\* The state-reverted pass rewrites calls into as many calls.
LEMMA RevertedType ==
    ASSUME NEW calls \in Seq(Call)
    PROVE  /\ PopulateStateReverted(calls) \in Seq(Call)
           /\ Len(PopulateStateReverted(calls)) = Len(calls)
<1>1. RevertedCalls(calls) \in [1..Len(calls) -> BOOLEAN]
  BY DEF RevertedCalls
<1>2. \A c \in Call, b \in BOOLEAN : [c EXCEPT !.stateReverted = b] \in Call
  BY DEF Call
<1>3. \A i \in 1..Len(calls) :
         [calls[i] EXCEPT !.stateReverted = RevertedCalls(calls)[i]] \in Call
  BY <1>1, <1>2
<1> QED BY <1>3 DEF PopulateStateReverted

\* The logs built from a receipt are logs.
LEMMA ReceiptType ==
    ASSUME NEW h \in Nat, NEW data \in Seq(LogData)
    PROVE  ReceiptLogs(h, data) \in Seq(Log)
BY DEF ReceiptLogs, Log

\* Writing one call of the active trace keeps what the trace is.
LEMMA WriteCallType ==
    ASSUME TypeOK, NEW i \in Nat, CallExists(i), NEW call \in Call, WriteCall(i, call)
    PROVE  /\ currentTrace' \in Trx
           /\ currentTrace'.hash = currentTrace.hash
           /\ currentTrace'.system = currentTrace.system
           /\ Len(currentTrace'.calls) = Len(currentTrace.calls)
<1>1. /\ currentTrace \in Trx
      /\ i \in 1..Len(currentTrace.calls)
  BY DEF TypeOK, CallExists
<1> DEFINE calls == [currentTrace.calls EXCEPT ![i] = call]
<1>2. calls \in Seq(Call) /\ Len(calls) = Len(currentTrace.calls)
  BY <1>1 DEF Trx
<1>3. currentTrace' = [currentTrace EXCEPT !.calls = calls]
  BY DEF WriteCall
<1> HIDE DEF calls
<1> QED BY <1>1, <1>2, <1>3 DEF Trx

-----------------------------------------------------------------------------
(***************************************************************************)
(* Type correctness.  TypeOK alone is not inductive: END_APPLY_TRX reads   *)
(* the first call of the trace, which must be there.                       *)
(***************************************************************************)
HasRootCall == currentTrace # Nil => Len(currentTrace.calls) >= 1

TypeInv == TypeOK /\ HasRootCall

-----------------------------------------------------------------------------
(***************************************************************************)
(* What a step can do to the structure of the context, whatever the line   *)
(* says in detail: the cases below.  The safety theorems are proved case   *)
(* by case and never look at the handlers again.                           *)
(***************************************************************************)
SameTrace ==
    /\ currentTrace' = Nil <=> currentTrace = Nil
    /\ currentTrace # Nil => /\ currentTrace'.hash = currentTrace.hash
                             /\ currentTrace'.system = currentTrace.system

SameBlock ==
    currentBlock' # Nil => /\ currentBlock # Nil
                           /\ currentBlock'.seq = currentBlock.seq
                           /\ currentBlock'.ver = currentBlock.ver

\* A line is read (or refused) inside whatever block and transaction is active.
QuietStep ==
    /\ SameTrace /\ SameBlock
    /\ UNCHANGED <<proto, currentRootCall, inSystemCall, transactionTraces, blocksSeen,
                   tracesSeen, returned>>

\* An INIT line raises the upgrade flag for version 2 and never lowers it.
SessionBegins ==
    /\ proto.upgrade \/ proto'.ver = 2 => proto'.upgrade
    /\ UNCHANGED <<currentBlock, currentTrace, currentRootCall, inSystemCall,
                   transactionTraces, blocksSeen, tracesSeen, returned>>

BlockBegins ==
    /\ CanBeginBlock
    /\ currentBlock'.seq = blocksSeen + 1 /\ currentBlock'.ver = proto.ver
    /\ blocksSeen' = blocksSeen + 1
    /\ UNCHANGED <<proto, currentTrace, currentRootCall, inSystemCall,
                   transactionTraces, tracesSeen, returned>>

BlockAbandoned ==
    /\ currentBlock' = Nil /\ currentTrace' = Nil /\ transactionTraces' = << >>
    /\ inSystemCall' = FALSE
    /\ UNCHANGED <<proto, blocksSeen, tracesSeen, returned>>

BlockEnds ==
    /\ currentBlock # Nil /\ currentBlock' = Nil /\ transactionTraces' = << >>
    /\ UNCHANGED <<proto, currentTrace, currentRootCall, inSystemCall, blocksSeen,
                   tracesSeen>>
    /\ \/ UNCHANGED returned
       \/ \E lib, first :
             LET normalized == NormalizeInPlace(Assembled, proto, first) IN
             /\ normalized.ok
             /\ lib <= Assembled.num \/ lib = FirstStreamable
             /\ returned' = Append(returned, Finished(normalized.block, lib))

BlockAtOnce ==
    /\ \E n, lib : returned' = Append(returned, [num |-> n, lib |-> lib, block |-> Nil,
                                                 seq |-> 0, raw |-> Nil])
    /\ UNCHANGED <<proto, currentBlock, currentTrace, currentRootCall, inSystemCall,
                   transactionTraces, blocksSeen, tracesSeen>>

TraceBegins ==
    /\ currentTrace = Nil /\ currentTrace' # Nil
    /\ currentTrace'.hash = tracesSeen + 1 /\ currentRootCall' = tracesSeen + 1
    /\ tracesSeen' = tracesSeen + 1
    /\ \/ currentTrace'.system /\ inSystemCall' = TRUE
       \/ ~currentTrace'.system /\ UNCHANGED inSystemCall
    /\ UNCHANGED <<proto, currentBlock, transactionTraces, blocksSeen, returned>>

\* SKIPPED_TRX, and SYSTEM_CALL_END, which does not look at inSystemCall.
TraceDropped ==
    /\ currentTrace # Nil /\ currentTrace' = Nil
    /\ \/ inSystemCall' = FALSE
       \/ ~inSystemCall /\ UNCHANGED inSystemCall
    /\ UNCHANGED <<proto, currentBlock, transactionTraces, blocksSeen, tracesSeen,
                   returned>>

TraceEnds ==
    /\ currentTrace # Nil /\ ~inSystemCall /\ currentTrace' = Nil
    /\ \E trace \in Trx : /\ trace.hash = currentTrace.hash /\ trace.done = blocksSeen
                          /\ transactionTraces' = Append(transactionTraces, trace)
    /\ UNCHANGED <<proto, currentBlock, inSystemCall, blocksSeen, tracesSeen, returned>>

Step ==
    \/ QuietStep \/ SessionBegins
    \/ BlockBegins \/ BlockAbandoned \/ BlockEnds \/ BlockAtOnce
    \/ TraceBegins \/ TraceDropped \/ TraceEnds

\* A handler that stops changes nothing but the status.
LEMMA StopType ==
    ASSUME TypeInv, NEW o \in {"error", "panic", "eof"}, Stop(o)
    PROVE  TypeInv' /\ QuietStep
<1>1. TypeInv'
  BY DEF TypeInv, HasRootCall, TypeOK, Stop, ctxVars, history
<1>2. QuietStep
  BY Zenon DEF Stop, ctxVars, history, QuietStep, SameTrace, SameBlock
<1> QED BY <1>1, <1>2

\* A detail line on a call.
LEMMA OnCallType ==
    ASSUME TypeInv, NEW i \in Nat, CallExists(i), NEW call \in Call, OnCall(i, call)
    PROVE  TypeInv' /\ QuietStep
<1>1. /\ currentTrace' \in Trx /\ Len(currentTrace'.calls) >= 1
      /\ SameTrace
  BY WriteCallType, ReaderAssumption
     DEF OnCall, TypeInv, HasRootCall, CallExists, SameTrace
<1>2. TypeOK'
  BY <1>1 DEF OnCall, Detail, DetailFrame, Accept, TypeInv, TypeOK
<1>3. QuietStep
  BY <1>1, Zenon DEF OnCall, DetailFrame, Accept, QuietStep, SameBlock
<1> QED BY <1>1, <1>2, <1>3 DEF TypeInv, HasRootCall

\* A detail line that is dropped.
LEMMA DroppedType ==
    ASSUME TypeInv, Dropped
    PROVE  TypeInv' /\ QuietStep
<1>1. TypeInv'
  BY DEF Dropped, Detail, DetailFrame, Accept, TypeInv, HasRootCall, TypeOK
<1>2. QuietStep
  BY Zenon DEF Dropped, DetailFrame, Accept, QuietStep, SameTrace, SameBlock
<1> QED BY <1>1, <1>2

\* A line that sets fields of a call, or fails without one.
LEMMA AnnotateType ==
    ASSUME TypeInv, NEW i \in Nat, NEW call, CallExists(i) => call \in Call,
           Annotate(i, call)
    PROVE  TypeInv' /\ QuietStep
BY OnCallType, StopType DEF Annotate

\* The call of an existing index is a call, and a trace has its root call.
LEMMA CallIsCall ==
    ASSUME TypeInv, NEW i \in Nat
    PROVE  /\ CallExists(i) => currentTrace.calls[i] \in Call
           /\ currentTrace # Nil => CallExists(1) /\ currentTrace \in Trx
BY DEF TypeInv, HasRootCall, TypeOK, CallExists, Trx

\* Every line that sets fields of a call.
LEMMA AnnotationsType ==
    ASSUME TypeInv, NEW i \in Nat,
           \/ \E a \in Senders, x \in BOOLEAN : ReadEVMParamCall(i, a, a, x)
           \/ ReadEVMCallFailed(i)
           \/ ReadEVMReverted(i)
           \/ ReadAccountWithoutCode(i)
           \/ ReadEVMKeccak(i)
           \/ ReadSuicideChange(i)
    PROVE  TypeInv' /\ QuietStep
<1> i \in Nat
  BY ReaderAssumption
<1>1. ASSUME NEW a \in Senders, NEW x \in BOOLEAN, ReadEVMParamCall(i, a, a, x)
      PROVE  TypeInv' /\ QuietStep
  <2>1. ASSUME CallExists(i)
        PROVE  [currentTrace.calls[i] EXCEPT
                   !.caller = a, !.address = a,
                   !.marks = IF x THEN @ \cup {"executedCode"}
                             ELSE @ \ {"executedCode"}] \in Call
    <3> DEFINE marks == IF x THEN currentTrace.calls[i].marks \cup {"executedCode"}
                        ELSE currentTrace.calls[i].marks \ {"executedCode"}
    <3>1. currentTrace.calls[i] \in Call
      BY <2>1, CallIsCall
    <3>2. marks \in SUBSET Mark
      BY <3>1, Zenon DEF Call, Mark
    <3> HIDE DEF marks
    <3>3. [currentTrace.calls[i] EXCEPT
              !.caller = a, !.address = a, !.marks = marks] \in Call
      BY <3>1, <3>2, ReaderAssumption DEF Call
    <3> QED BY <3>3 DEF marks
  <2> QED BY <1>1, <2>1, AnnotateType DEF ReadEVMParamCall
<1>2. CASE ReadEVMCallFailed(i)
  <2>1. ASSUME CallExists(i)
        PROVE  [currentTrace.calls[i] EXCEPT !.statusFailed = TRUE] \in Call
    BY <2>1, CallIsCall, ZenonT(30) DEF Call
  <2> QED BY <1>2, <2>1, AnnotateType DEF ReadEVMCallFailed
<1>3. CASE ReadEVMReverted(i)
  <2>1. ASSUME CallExists(i)
        PROVE  [currentTrace.calls[i] EXCEPT !.statusReverted = TRUE] \in Call
    BY <2>1, CallIsCall, ZenonT(30) DEF Call
  <2> QED BY <1>3, <2>1, AnnotateType DEF ReadEVMReverted
<1>4. CASE ReadAccountWithoutCode(i)
  <2>1. ASSUME CallExists(i)
        PROVE  [currentTrace.calls[i] EXCEPT !.marks = @ \ {"executedCode"}] \in Call
    BY <2>1, CallIsCall, ZenonT(30) DEF Call, Mark
  <2> QED BY <1>4, <2>1, AnnotateType DEF ReadAccountWithoutCode
<1>5. ASSUME NEW m \in Mark, CallExists(i)
      PROVE  [currentTrace.calls[i] EXCEPT !.marks = @ \cup {m}] \in Call
  BY <1>5, CallIsCall, ZenonT(30) DEF Call, Mark
<1>6. CASE ReadEVMKeccak(i)
  BY <1>5, <1>6, AnnotateType DEF ReadEVMKeccak, Mark
<1>7. CASE ReadSuicideChange(i)
  BY <1>5, <1>7, AnnotateType, StopType DEF ReadSuicideChange, Mark
<1> QED BY <1>1, <1>2, <1>3, <1>4, <1>6, <1>7

\* A call with one more change is a call.
LEMMA WithChangeType ==
    ASSUME TypeInv, NEW i \in Nat, CallExists(i), NEW kind \in ChangeKind, NEW ord \in Nat
    PROVE  WithChange(i, kind, ord) \in Call
<1>1. currentTrace.calls[i] \in Call
  BY CallIsCall
<1>2. [kind |-> kind, ord |-> ord] \in Change
  BY DEF Change
<1>3. Append(currentTrace.calls[i].changes, [kind |-> kind, ord |-> ord]) \in Seq(Change)
  BY <1>1, <1>2, SMTT(30) DEF Call
<1> QED BY <1>1, <1>3, Zenon DEF WithChange, Call

\* A detail line on the block.
LEMMA OnBlockType ==
    ASSUME TypeInv, NEW kind \in ChangeKind, NEW ord \in Nat, currentBlock # Nil,
           OnBlock(kind, ord)
    PROVE  TypeInv' /\ QuietStep
<1>1. currentBlock \in Block
  BY DEF TypeInv, TypeOK
<1>2. Append(currentBlock.changes, [kind |-> kind, ord |-> ord]) \in BlockChanges
  BY <1>1 DEF Block, BlockChanges
<1>3. currentBlock' \in Block
  BY <1>1, <1>2, Zenon DEF OnBlock, Block
<1>4. TypeInv'
  BY <1>3 DEF OnBlock, RememberOrdinal, Detail, DetailFrame, Accept, TypeInv, TypeOK,
              HasRootCall
<1>5. currentBlock'.seq = currentBlock.seq /\ currentBlock'.ver = currentBlock.ver
  BY <1>1 DEF OnBlock, Block
<1>6. QuietStep
  BY <1>5, Zenon DEF OnBlock, DetailFrame, Accept, QuietStep, SameTrace, SameBlock
<1> QED BY <1>4, <1>6

\* Every line that records a change, on a call or on the block.
LEMMA ChangesType ==
    ASSUME TypeInv, NEW i \in Nat, NEW ord \in Nat,
           \/ ReadGasChange(i, ord)
           \/ ReadNonceChange(i, ord)
           \/ ReadStorageChange(i, ord)
           \/ ReadCreateAccount(i, ord)
           \/ ReadCodeChange(i, ord)
           \/ \E mining \in BOOLEAN : ReadBalanceChange(i, ord, mining)
    PROVE  TypeInv' /\ QuietStep
<1> i \in Nat /\ ord \in Nat
  BY ReaderAssumption
<1>1. ASSUME NEW j \in Nat, NEW kind \in ChangeKind, CallExists(j),
             OnCall(j, WithChange(j, kind, ord))
      PROVE  TypeInv' /\ QuietStep
  BY <1>1, WithChangeType, OnCallType
<1>2. ASSUME currentTrace # Nil
      PROVE  CallExists(1)
  BY <1>2, CallIsCall
<1>3. ASSUME NEW kind \in ChangeKind, ReadRootableChange(kind, i, ord)
      PROVE  TypeInv' /\ QuietStep
  BY <1>1, <1>2, <1>3, DroppedType, StopType DEF ReadRootableChange
<1>4. CASE ReadGasChange(i, ord)
  BY <1>3, <1>4 DEF ReadGasChange, ChangeKind
<1>5. CASE ReadNonceChange(i, ord)
  BY <1>3, <1>5 DEF ReadNonceChange, ChangeKind
<1>6. CASE ReadStorageChange(i, ord)
  BY <1>1, <1>2, <1>6, DroppedType, StopType DEF ReadStorageChange, ChangeKind
<1>7. CASE ReadCreateAccount(i, ord)
  <2>1. ASSUME UNCHANGED <<currentBlock, currentTrace, currentTraceLogCount>>,
               highestOrdinalBeforeTransactions' = ord, Detail, DetailFrame, Accept
        PROVE  TypeInv' /\ QuietStep
    <3>1. TypeInv'
      BY <2>1 DEF Detail, DetailFrame, Accept, TypeInv, TypeOK, HasRootCall
    <3>2. QuietStep
      BY <2>1, Zenon DEF DetailFrame, Accept, QuietStep, SameTrace, SameBlock
    <3> QED BY <3>1, <3>2
  <2> QED BY <1>1, <1>2, <1>7, <2>1, DroppedType, StopType
          DEF ReadCreateAccount, ChangeKind
<1>8. CASE ReadCodeChange(i, ord)
  BY <1>1, <1>2, <1>8, DroppedType, StopType, OnBlockType DEF ReadCodeChange, ChangeKind
<1>9. ASSUME NEW mining \in BOOLEAN, ReadBalanceChange(i, ord, mining)
      PROVE  TypeInv' /\ QuietStep
  BY <1>1, <1>2, <1>9, DroppedType, StopType, OnBlockType DEF ReadBalanceChange, ChangeKind
<1> QED BY <1>4, <1>5, <1>6, <1>7, <1>8, <1>9

\* ADD_LOG.
LEMMA AddLogType ==
    ASSUME TypeInv, NEW i \in Nat, NEW ord \in Nat, NEW data \in LogData,
           NEW b \in Nat, ReadAddLog(i, data, b, ord)
    PROVE  TypeInv' /\ QuietStep
<1> DEFINE at == IF i = 0 THEN 1 ELSE i
           log == [trx |-> currentTrace.hash, index |-> LogIndex(at), data |-> data,
                   ord |-> ord, blockIndex |-> b]
           call == [currentTrace.calls[at] EXCEPT !.logs = Append(@, log)]
<1> ord \in Nat /\ b \in Nat /\ at \in Nat
  BY ReaderAssumption
<1>1. CASE ~CallExists(at)
  BY <1>1, StopType DEF ReadAddLog, CallExists
<1>2. CASE CallExists(at)
  <2>1. currentTrace.calls[at] \in Call /\ currentTrace \in Trx /\ currentTraceLogCount \in Nat
    BY <1>2, CallIsCall DEF TypeInv, TypeOK, CallExists
  <2>2. log \in Log
    BY <2>1 DEF LogIndex, Log, Trx
  <2> HIDE DEF log
  <2>3. Append(currentTrace.calls[at].logs, log) \in Seq(Log)
    <3>1. currentTrace.calls[at].logs \in Seq(Log)
      BY <2>1, Zenon DEF Call
    <3> HIDE DEF at
    <3> QED BY <2>2, <3>1
  <2>4. call \in Call
    <3>1. \A c \in Call, logs \in Seq(Log) : [c EXCEPT !.logs = logs] \in Call
      BY DEF Call
    <3> HIDE DEF at
    <3> QED BY <2>1, <2>3, <3>1, Zenon
  <2>5. /\ WriteCall(at, call) /\ currentTraceLogCount' = currentTraceLogCount + 1
        /\ Detail /\ DetailFrame /\ Accept
        /\ UNCHANGED <<currentBlock, highestOrdinalBeforeTransactions>>
    BY <1>2, Zenon DEF ReadAddLog, Stop, log
  <2> HIDE DEF call, at
  <2>6. /\ currentTrace' \in Trx /\ Len(currentTrace'.calls) >= 1
        /\ SameTrace
    BY <1>2, <2>4, <2>5, WriteCallType, ReaderAssumption
       DEF TypeInv, HasRootCall, CallExists, SameTrace
  <2>7. TypeInv'
    BY <2>1, <2>5, <2>6 DEF Detail, DetailFrame, Accept, TypeInv, TypeOK, HasRootCall
  <2>8. QuietStep
    BY <2>5, <2>6, Zenon DEF DetailFrame, Accept, QuietStep, SameBlock
  <2> QED BY <2>7, <2>8
<1> QED BY <1>1, <1>2

\* What EVM_END_CALL reads from the stack.
LEMMA StackTop ==
    ASSUME TypeInv, evmCallStackIndexes # << >>
    PROVE  /\ ParentAndDepth.parent \in Nat /\ ParentAndDepth.depth \in Nat
           /\ PoppedStack \in Seq(Nat)
<1>1. /\ evmCallStackIndexes \in Seq(Nat) /\ Len(evmCallStackIndexes) \in Nat \ {0}
  BY DEF TypeInv, TypeOK
<1>2. PoppedStack \in Seq(Nat)
  BY <1>1, SubSeqProperties DEF PoppedStack
<1>3. CASE Len(evmCallStackIndexes) = 1
  BY <1>2, <1>3 DEF ParentAndDepth
<1>4. CASE Len(evmCallStackIndexes) # 1
  <2>1. /\ Len(evmCallStackIndexes) - 1 \in 1..Len(evmCallStackIndexes)
        /\ Len(evmCallStackIndexes) - 1 \in Nat
    <3>1. \A l \in Nat \ {0} : l # 1 => l - 1 \in 1..l /\ l - 1 \in Nat
      OBVIOUS
    <3> QED BY <1>1, <1>4, <3>1, Zenon
  <2>2. evmCallStackIndexes[Len(evmCallStackIndexes) - 1] \in Nat
    BY <1>1, <2>1, ElementOfSeq, Zenon
  <2>3. ParentAndDepth = [parent |-> evmCallStackIndexes[Len(evmCallStackIndexes) - 1],
                          depth |-> Len(evmCallStackIndexes) - 1]
    BY <1>4 DEF ParentAndDepth
  <2> QED BY <1>2, <2>1, <2>2, <2>3
<1> QED BY <1>3, <1>4

\* EVM_RUN_CALL and EVM_END_CALL.
LEMMA EVMCallsType ==
    ASSUME TypeInv, NEW i \in Nat, NEW ord \in Nat,
           \/ \E type \in EvmCallTypes : ReadEVMRunCall(type, i, ord)
           \/ ReadEVMEndCall(i, ord)
    PROVE  TypeInv' /\ QuietStep
<1> i \in Nat /\ ord \in Nat
  BY ReaderAssumption
<1>1. ASSUME NEW type \in EvmCallTypes, ReadEVMRunCall(type, i, ord)
      PROVE  TypeInv' /\ QuietStep
  <2>1. CASE currentTrace = Nil
    BY <1>1, <2>1, StopType DEF ReadEVMRunCall
  <2>2. CASE currentTrace # Nil
    <3> DEFINE root == [currentTrace.calls[1] EXCEPT
                           !.type = type, !.begin = IF inSystemCall THEN ord ELSE @]
               stack == Append(evmCallStackIndexes, i)
    <3> type \in CallType
      BY ReaderAssumption
    <3>1. /\ currentTrace \in Trx /\ CallExists(1)
          /\ currentTrace.calls[1] \in Call /\ currentTrace.calls \in Seq(Call)
      BY <2>2, CallIsCall DEF Trx
    <3>2. root \in Call
      <4>1. (IF inSystemCall THEN ord ELSE currentTrace.calls[1].begin) \in Nat
        BY <3>1, Zenon DEF Call
      <4>2. \A c \in Call, begin \in Nat : [c EXCEPT !.type = type, !.begin = begin] \in Call
        BY DEF Call
      <4> QED BY <3>1, <4>1, <4>2, Zenon
    <3>3. ASSUME currentTrace' = [currentTrace EXCEPT !.calls[1] = root]
          PROVE  currentTrace' \in Trx /\ Len(currentTrace'.calls) >= 1 /\ SameTrace
      <4> HIDE DEF root
      <4>1. WriteCall(1, root)
        BY <3>3 DEF WriteCall
      <4> QED BY <3>1, <3>2, <4>1, WriteCallType, ReaderAssumption
              DEF TypeInv, CallExists, SameTrace
    <3>4. ASSUME currentTrace' = [currentTrace EXCEPT !.calls =
                     Append(currentTrace.calls, NewCall(i, type, NoAddress, ord))]
          PROVE  currentTrace' \in Trx /\ Len(currentTrace'.calls) >= 1 /\ SameTrace
      <4>1. NewCall(i, type, NoAddress, ord) \in Call
        BY NewCallType DEF Address
      <4> DEFINE calls == Append(currentTrace.calls, NewCall(i, type, NoAddress, ord))
      <4>2. calls \in Seq(Call) /\ Len(calls) >= 1
        BY <3>1, <4>1 DEF CallExists
      <4> HIDE DEF calls
      <4>3. currentTrace' = [currentTrace EXCEPT !.calls = calls]
        BY <3>4 DEF calls
      <4>4. /\ currentTrace' \in Trx /\ currentTrace'.calls = calls
            /\ currentTrace'.hash = currentTrace.hash
            /\ currentTrace'.system = currentTrace.system
        BY <3>1, <4>2, <4>3 DEF Trx
      <4> QED BY <2>2, <4>2, <4>4, ReaderAssumption DEF SameTrace
    <3>5. /\ UNCHANGED <<proto, currentTraceLogCount, currentRootCall, inSystemCall,
                         blockVars, highestOrdinalBeforeTransactions, stats, history,
                         returned>>
          /\ evmCallStackIndexes' = stack
          /\ status' \in {status, "error"}
      BY <1>1, <2>2, Zenon DEF ReadEVMRunCall
    <3>6. \/ currentTrace' = [currentTrace EXCEPT !.calls[1] = root]
          \/ currentTrace' = [currentTrace EXCEPT !.calls =
                 Append(currentTrace.calls, NewCall(i, type, NoAddress, ord))]
          \/ UNCHANGED currentTrace
      BY <1>1, <2>2, Zenon DEF ReadEVMRunCall
    <3>7. currentTrace' \in Trx /\ Len(currentTrace'.calls) >= 1 /\ SameTrace
      BY <3>1, <3>3, <3>4, <3>6 DEF CallExists, SameTrace
    <3> HIDE DEF stack
    <3>8. stack \in Seq(Nat)
      BY DEF stack, TypeInv, TypeOK
    <3>9. TypeInv'
      BY <3>5, <3>7, <3>8 DEF blockVars, history, TypeInv, TypeOK, HasRootCall
    <3>10. QuietStep
      BY <3>5, <3>7, Zenon DEF blockVars, history, QuietStep, SameBlock
    <3> QED BY <3>9, <3>10
  <2> QED BY <2>1, <2>2
<1>2. CASE ReadEVMEndCall(i, ord)
  <2> DEFINE call == [currentTrace.calls[i] EXCEPT
                         !.parent = ParentAndDepth.parent,
                         !.depth = ParentAndDepth.depth,
                         !.end = ord]
  <2>1. CASE ~(CallExists(i) /\ evmCallStackIndexes # << >>)
    BY <1>2, <2>1, StopType DEF ReadEVMEndCall, Stop, CallExists
  <2>2. CASE CallExists(i) /\ evmCallStackIndexes # << >>
    <3>2. /\ ParentAndDepth.parent \in Nat /\ ParentAndDepth.depth \in Nat
          /\ PoppedStack \in Seq(Nat)
      BY <2>2, StackTop
    <3>3. call \in Call
      <4>1. \A c \in Call, p, d \in Nat :
               [c EXCEPT !.parent = p, !.depth = d, !.end = ord] \in Call
        BY DEF Call
      <4> QED BY <2>2, <3>2, <4>1, CallIsCall, Zenon
    <3>4. /\ WriteCall(i, call) /\ evmCallStackIndexes' = PoppedStack /\ Accept
          /\ UNCHANGED <<proto, currentTraceLogCount, currentRootCall, inSystemCall,
                         blockVars, highestOrdinalBeforeTransactions, stats, history>>
      BY <1>2, <2>2, Zenon DEF ReadEVMEndCall, Stop
    <3> HIDE DEF call
    <3>5. /\ currentTrace' \in Trx /\ Len(currentTrace'.calls) >= 1
          /\ SameTrace
      BY <2>2, <3>3, <3>4, WriteCallType, ReaderAssumption
         DEF TypeInv, HasRootCall, CallExists, SameTrace
    <3>6. TypeInv'
      BY <3>2, <3>4, <3>5 DEF Accept, blockVars, history, TypeInv, TypeOK, HasRootCall
    <3>7. QuietStep
      BY <3>4, <3>5, Zenon DEF Accept, blockVars, history, QuietStep, SameBlock
    <3> QED BY <3>6, <3>7
  <2> QED BY <2>1, <2>2
<1> QED BY <1>1, <1>2

\* The lines that begin and end transactions and system calls.
LEMMA TraceLinesType ==
    ASSUME TypeInv, AnyTraceLine
    PROVE  TypeInv' /\ Step
<1>1. ASSUME NEW trace \in Trx, Len(trace.calls) >= 1, StartTrace(trace)
      PROVE  /\ currentTrace' \in Trx /\ Len(currentTrace'.calls) >= 1
             /\ currentTraceLogCount' \in Nat /\ currentRootCall' \in Nat
             /\ tracesSeen' \in Nat
             /\ UNCHANGED <<proto, blockVars, highestOrdinalBeforeTransactions,
                            evmCallStackIndexes, stats, status, blocksSeen, detailsSeen>>
  BY <1>1 DEF StartTrace, NewRootCall, Accept, blockVars, TypeInv, TypeOK
<1>2. ASSUME NEW i \in Nat, NEW to \in Address, NEW ord \in Nat, NEW system \in BOOLEAN
      PROVE  LET trace == NewTrx(tracesSeen + 1, i, to, ord, NewCall(1, "CALL", to, 0),
                                 blocksSeen, system)
             IN  trace \in Trx /\ Len(trace.calls) >= 1
  <2>1. NewCall(1, "CALL", to, 0) \in Call
    BY NewCallType DEF CallType
  <2>2. tracesSeen + 1 \in Nat /\ blocksSeen \in Nat
    BY DEF TypeInv, TypeOK
  <2>3. Len(<<NewCall(1, "CALL", to, 0)>>) >= 1
    OBVIOUS
  <2> QED BY <2>1, <2>2, <2>3, NewTrxType DEF NewTrx
<1>3. ASSUME NEW to \in Recipients, NEW x \in Nat, NEW ord \in Nat,
             ReadApplyTrxBegin(to, x, ord)
      PROVE  TypeInv' /\ Step
  <2>1. TrxIndex(x) \in Nat /\ to \in Address /\ ord \in Nat
    BY ReaderAssumption DEF TrxIndex, TypeInv, TypeOK
  <2>2. CASE \/ Stop("error") \/ Stop("panic")
    BY <2>2, StopType DEF Step
  <2>3. CASE /\ currentTrace = Nil /\ UNCHANGED inSystemCall
             /\ StartTrace(NewTrx(tracesSeen + 1, TrxIndex(x), to, ord,
                                  NewCall(1, "CALL", to, 0), blocksSeen, FALSE))
    <3>1. TypeInv'
      BY <1>1, <1>2, <2>1, <2>3 DEF blockVars, TypeInv, TypeOK, HasRootCall
    <3>2. ~currentTrace'.system /\ currentTrace'.hash = tracesSeen + 1
      BY <2>3 DEF StartTrace, NewTrx
    <3>3. currentTrace' # Nil
      BY <1>2, <2>1, <2>3, ReaderAssumption, ZenonT(30) DEF StartTrace
    <3>4. TraceBegins
      BY <2>3, <3>2, <3>3, Zenon
         DEF TraceBegins, StartTrace, NewRootCall, blockVars, Accept
    <3> QED BY <3>1, <3>4 DEF Step
  <2> QED BY <1>3, <2>2, <2>3 DEF ReadApplyTrxBegin
<1>4. CASE ReadSystemCallStart
  <2>1. CASE Stop("error")
    BY <2>1, StopType DEF Step
  <2>2. CASE /\ currentTrace = Nil /\ inSystemCall' = TRUE
             /\ StartTrace(NewTrx(tracesSeen + 1, 0, NoAddress, 0,
                                  NewCall(1, "CALL", NoAddress, 0), blocksSeen, TRUE))
    <3>1. NoAddress \in Address
      BY DEF Address
    <3>2. TypeInv'
      BY <1>1, <1>2, <2>2, <3>1 DEF blockVars, TypeInv, TypeOK, HasRootCall
    <3>3. currentTrace'.system /\ currentTrace'.hash = tracesSeen + 1
      BY <2>2 DEF StartTrace, NewTrx
    <3>4. currentTrace' # Nil
      BY <1>2, <2>2, <3>1, ReaderAssumption, ZenonT(30) DEF StartTrace
    <3>5. TraceBegins
      BY <2>2, <3>3, <3>4, Zenon
         DEF TraceBegins, StartTrace, NewRootCall, blockVars, Accept
    <3> QED BY <3>2, <3>5 DEF Step
  <2> QED BY <1>4, <2>1, <2>2 DEF ReadSystemCallStart
<1>5. CASE ReadSystemCallEnd
  <2>1. CASE Stop("error")
    BY <2>1, StopType DEF Step
  <2>2. CASE ~Stop("error")
    <3>1. currentTrace # Nil /\ systemCalls' = Append(systemCalls, SystemCall(currentTrace))
      BY <1>5, <2>2, Zenon DEF ReadSystemCallEnd
    <3>2. /\ ResetTrace /\ inSystemCall' = FALSE /\ Accept
          /\ UNCHANGED <<proto, currentBlock, finalizing, transactionTraces,
                         highestOrdinalBeforeTransactions, evmCallStackIndexes, stats,
                         history>>
      BY <1>5, <2>2, Zenon DEF ReadSystemCallEnd
    <3>3. SystemCall(currentTrace) \in EndedSystemCall
      <4>1. currentTrace \in Trx /\ currentTrace.calls[1] \in Call
        BY <3>1, CallIsCall
      <4> QED BY <4>1 DEF SystemCall, EndedSystemCall, Trx
    <3>4. systemCalls' \in Seq(EndedSystemCall)
      <4>1. systemCalls \in Seq(EndedSystemCall)
        BY DEF TypeInv, TypeOK
      <4> QED BY <3>1, <3>3, <4>1, AppendProperties, Zenon
    <3>5. inSystemCall' \in BOOLEAN
      BY <3>2
    <3>6. UNCHANGED <<proto, currentBlock, finalizing, transactionTraces, status,
                      highestOrdinalBeforeTransactions, evmCallStackIndexes, stats,
                      blocksSeen, tracesSeen, detailsSeen>>
      BY <3>2, Zenon DEF Accept, history
    <3>7. ResetTrace
      BY <3>2
    <3>8. TypeInv'
      BY <3>4, <3>5, <3>6, <3>7 DEF ResetTrace, TypeInv, TypeOK, HasRootCall
    <3>9. TraceDropped
      BY <3>1, <3>2, <3>6, Zenon DEF TraceDropped, ResetTrace, Accept
    <3> QED BY <3>8, <3>9 DEF Step
  <2> QED BY <2>1, <2>2
<1>6. CASE ReadSkippedTrx
  <2>1. CASE Stop("error")
    BY <2>1, StopType DEF Step
  <2>2. CASE ~Stop("error")
    <3>1. /\ InTransaction /\ currentTrace' = Nil /\ Accept
          /\ UNCHANGED <<proto, blockVars, currentTraceLogCount, currentRootCall,
                         inSystemCall, highestOrdinalBeforeTransactions,
                         evmCallStackIndexes, stats, history>>
      BY <1>6, <2>2, Zenon DEF ReadSkippedTrx
    <3>2. TypeInv'
      BY <3>1 DEF Accept, blockVars, history, TypeInv, TypeOK, HasRootCall
    <3>3. TraceDropped
      BY <3>1, Zenon DEF TraceDropped, InTransaction, Accept, blockVars, history
    <3> QED BY <3>2, <3>3 DEF Step
  <2> QED BY <2>1, <2>2
<1>7. ASSUME NEW ord \in Nat, NEW receipt \in Seq(LogData), ReadApplyTrxEnd(ord, receipt)
      PROVE  TypeInv' /\ Step
  <2>1. CASE \/ Stop("error") \/ Stop("panic")
    BY <2>1, StopType DEF Step
  <2>2. CASE ~(Stop("error") \/ Stop("panic"))
    <3> DEFINE to == ResolvedTo(currentTrace)
               logs == ReceiptLogs(currentTrace.hash, receipt)
               calls == PopulateStateReverted(currentTrace.calls)
               trace == [currentTrace EXCEPT !.end = ord, !.to = to, !.receipt = logs,
                                             !.calls = calls, !.done = blocksSeen]
    <3>1. /\ transactionTraces' = Append(transactionTraces, trace)
          /\ ResetTrace /\ Accept
          /\ UNCHANGED <<proto, currentBlock, finalizing, systemCalls, inSystemCall,
                         highestOrdinalBeforeTransactions, evmCallStackIndexes, stats,
                         history>>
      BY <1>7, <2>2 DEF ReadApplyTrxEnd
    <3>2. currentTrace # Nil /\ ~inSystemCall
      BY <1>7, <2>2 DEF ReadApplyTrxEnd
    <3>3. currentTrace \in Trx /\ currentTrace.calls[1] \in Call
      BY <3>2, CallIsCall
    <3>4. to \in Address
      BY <3>3 DEF ResolvedTo, Trx, Call
    <3>5. logs \in Seq(Log)
      BY <3>3, ReceiptType, ReaderAssumption DEF Trx
    <3>6. calls \in Seq(Call)
      BY <3>3, RevertedType DEF Trx
    <3>7. ord \in Nat /\ blocksSeen \in Nat
      BY ReaderAssumption DEF TypeInv, TypeOK
    <3> HIDE DEF to, logs, calls
    <3>8. trace \in Trx /\ trace.hash = currentTrace.hash /\ trace.done = blocksSeen
      BY <3>3, <3>4, <3>5, <3>6, <3>7 DEF Trx
    <3> HIDE DEF trace
    <3>9. transactionTraces' \in Seq(Trx)
      BY <3>1, <3>8, AppendProperties DEF TypeInv, TypeOK
    <3>10. TypeInv'
      BY <3>1, <3>9 DEF ResetTrace, Accept, history, TypeInv, TypeOK, HasRootCall
    <3>11. TraceEnds
      BY <3>1, <3>2, <3>8, Zenon DEF TraceEnds, ResetTrace, Accept, history
    <3> QED BY <3>10, <3>11 DEF Step
  <2> QED BY <2>1, <2>2
<1>8. ASSUME NEW from \in Senders, ReadTrxFrom(from)
      PROVE  TypeInv' /\ Step
  <2>1. CASE Stop("error")
    BY <2>1, StopType DEF Step
  <2>2. CASE ~Stop("error")
    <3> DEFINE named == Len(currentTrace.calls) = 1
                        /\ currentTrace.calls[1].caller = NoAddress
               root == [currentTrace.calls[1] EXCEPT !.caller = IF named THEN from ELSE @]
    <3>1. /\ currentTrace # Nil
          /\ currentTrace' = [currentTrace EXCEPT !.from = from, !.calls[1] = root]
          /\ Detail /\ DetailFrame /\ Accept
          /\ UNCHANGED <<currentBlock, currentTraceLogCount,
                         highestOrdinalBeforeTransactions>>
      BY <1>8, <2>2, Zenon DEF ReadTrxFrom
    <3>2. /\ currentTrace \in Trx /\ currentTrace.calls[1] \in Call
          /\ Len(currentTrace.calls) >= 1 /\ from \in Address
      BY <3>1, CallIsCall, ReaderAssumption DEF CallExists
    <3>3. root \in Call
      <4>1. (IF named THEN from ELSE currentTrace.calls[1].caller) \in Address
        BY <3>2, Zenon DEF Call
      <4>2. \A c \in Call, a \in Address : [c EXCEPT !.caller = a] \in Call
        BY DEF Call
      <4> QED BY <3>2, <4>1, <4>2, Zenon
    <3> HIDE DEF root
    <3>4. currentTrace' \in Trx /\ Len(currentTrace'.calls) >= 1 /\ SameTrace
      <4> DEFINE calls == [currentTrace.calls EXCEPT ![1] = root]
      <4>1. calls \in Seq(Call) /\ Len(calls) >= 1
        BY <3>2, <3>3 DEF Trx
      <4>2. currentTrace' = [currentTrace EXCEPT !.from = from, !.calls = calls]
        BY <3>1
      <4> HIDE DEF calls
      <4>3. /\ currentTrace' \in Trx /\ currentTrace'.calls = calls
            /\ currentTrace'.hash = currentTrace.hash
            /\ currentTrace'.system = currentTrace.system
        BY <3>2, <4>1, <4>2 DEF Trx
      <4> QED BY <3>1, <4>1, <4>3, ReaderAssumption DEF SameTrace
    <3>5. TypeInv'
      BY <3>1, <3>4 DEF Detail, DetailFrame, Accept, TypeInv, TypeOK, HasRootCall
    <3>6. QuietStep
      BY <3>1, <3>4, Zenon DEF DetailFrame, Accept, QuietStep, SameBlock
    <3> QED BY <3>5, <3>6 DEF Step
  <2> QED BY <2>1, <2>2
<1> QED BY <1>3, <1>4, <1>5, <1>6, <1>7, <1>8 DEF AnyTraceLine

\* The empty sequence, whatever its elements would be.
LEMMA EmptySeqType == \A S : << >> \in Seq(S)
OBVIOUS

\* What END_BLOCK and CANCEL_BLOCK leave has its type.
LEMMA ResetBlockType ==
    ASSUME ResetBlock
    PROVE  /\ currentBlock' = Nil /\ finalizing' = FALSE
           /\ transactionTraces' \in Seq(Trx)
           /\ systemCalls' \in Seq(EndedSystemCall)
BY EmptySeqType, Zenon DEF ResetBlock

\* A step in which nothing changes.
LEMMA StutterType ==
    ASSUME TypeInv, UNCHANGED vars
    PROVE  TypeInv' /\ QuietStep
<1>1. TypeInv'
  BY DEF vars, ctxVars, history, TypeInv, TypeOK, HasRootCall
<1>2. QuietStep
  BY Zenon DEF vars, ctxVars, history, QuietStep, SameTrace, SameBlock
<1> QED BY <1>1, <1>2

\* The last irreversible block computed for a block is not after it, unless the
\* block is below the first streamable one.
LEMMA LibBelowBlock ==
    ASSUME NEW n \in Nat, NEW f \in Nat \cup {Nil}
    PROVE  LET lib == IF f = Nil THEN ComputeProofOfWorkLIBNum(n)
                      ELSE ComputeProofOfStakeLIBNum(n, f)
           IN  lib <= n \/ lib = FirstStreamable
<1>1. LET lib == ComputeProofOfWorkLIBNum(n) IN lib <= n \/ lib = FirstStreamable
  BY LibAssumption DEF ComputeProofOfWorkLIBNum
<1>2. ASSUME f \in Nat
      PROVE  LET lib == ComputeProofOfStakeLIBNum(n, f)
             IN  lib <= n \/ lib = FirstStreamable
  BY <1>2, LibAssumption DEF ComputeProofOfStakeLIBNum
<1>3. CASE f = Nil
  BY <1>1, <1>3, Zenon
<1>4. CASE f # Nil
  BY <1>2, <1>4, Zenon
<1> QED BY <1>3, <1>4

\* INIT and the lines that begin, finalize, end and abandon blocks.
LEMMA BlockLinesType ==
    ASSUME TypeInv, AnyBlockLine
    PROVE  TypeInv' /\ Step
<1>1. ASSUME NEW v \in Versions, NEW polygon \in BOOLEAN, ReadInit(v, polygon)
      PROVE  TypeInv' /\ Step
  <2>1. polygon \in BOOLEAN
    BY ReaderAssumption
  <2>2. CASE Stop("error")
    BY <2>2, StopType DEF Step
  <2>3. CASE ~Stop("error")
    <3> DEFINE raised == v \in {"2.3", "2.4", "2.5"}
               trxIndex == proto.trxIndex \/ raised
               reorder == proto.reorder \/ raised
               combine == proto.combine \/ polygon
               ver == IF v = "2.0" THEN 2 ELSE 3
    <3>0. proto' = [ver |-> ver, major |-> Major(v), trxIndex |-> trxIndex,
                    upgrade |-> MustUpgrade(v), reorder |-> reorder,
                    combine |-> combine]
      BY <1>1, <2>3, Zenon DEF ReadInit
    <3>1. proto' \in Protocol
      <4>1. ver \in {0, 2, 3} /\ Major(v) \in {0, 2, 3}
        BY DEF Major
      <4>2. trxIndex \in BOOLEAN /\ reorder \in BOOLEAN /\ combine \in BOOLEAN
        OBVIOUS
      <4>3. MustUpgrade(v) \in BOOLEAN
        BY DEF MustUpgrade
      <4> HIDE DEF ver, trxIndex, reorder, combine
      <4> QED BY <3>0, <4>1, <4>2, <4>3, Zenon DEF Protocol
    <3>2. UNCHANGED <<currentTrace, currentTraceLogCount, currentRootCall, inSystemCall,
                      currentBlock, finalizing, transactionTraces, systemCalls,
                      highestOrdinalBeforeTransactions, evmCallStackIndexes, stats,
                      status, blocksSeen, tracesSeen, detailsSeen>>
      BY <1>1, <2>3, Zenon DEF ReadInit, Accept, traceVars, blockVars, history
    <3>3. TypeOK'
      BY <3>1, <3>2, Zenon DEF TypeInv, TypeOK
    <3>4. HasRootCall'
      BY <3>2, Zenon DEF TypeInv, HasRootCall
    <3>5. SessionBegins
      <4>1. proto'.upgrade = MustUpgrade(v) /\ proto'.ver = ver
        BY <3>0, Zenon
      <4>2. proto'.ver = 2 => v = "2.0"
        BY <4>1
      <4>3. proto.upgrade \/ proto'.ver = 2 => proto'.upgrade
        BY <4>1, <4>2, Zenon DEF MustUpgrade
      <4>4. UNCHANGED returned
        BY <1>1, <2>3, Zenon DEF ReadInit, Accept
      <4> QED BY <3>2, <4>3, <4>4, Zenon DEF SessionBegins
    <3> QED BY <3>3, <3>4, <3>5 DEF TypeInv, Step
  <2> QED BY <2>2, <2>3
<1>2. ASSUME NEW n \in BlockNums, ReadBeginBlock(n)
      PROVE  TypeInv' /\ Step
  <2>1. CASE Stop("error")
    BY <2>1, StopType DEF Step
  <2>2. CASE ~Stop("error")
    <3>1. /\ CanBeginBlock
          /\ currentBlock' = [num |-> n, ver |-> proto.ver, seq |-> blocksSeen + 1,
                              trxs |-> << >>, sys |-> << >>, changes |-> << >>]
      BY <1>2, <2>2, Zenon DEF ReadBeginBlock
    <3>2. /\ blocksSeen' = blocksSeen + 1 /\ stats' = TRUE /\ Accept
          /\ highestOrdinalBeforeTransactions' = -1
          /\ UNCHANGED <<proto, traceVars, finalizing, transactionTraces, systemCalls,
                         evmCallStackIndexes, tracesSeen, detailsSeen>>
      BY <1>2, <2>2, Zenon DEF ReadBeginBlock
    <3>3. /\ n \in Nat /\ blocksSeen + 1 \in Nat /\ proto.ver \in {2, 3}
      BY <3>1, ReaderAssumption DEF CanBeginBlock, Protocol, TypeInv, TypeOK
    <3>5. currentBlock' \in Block
      BY <3>1, <3>3, EmptySeqType DEF Block, BlockChanges
    <3>6. TypeInv'
      BY <3>2, <3>3, <3>5 DEF traceVars, Accept, TypeInv, TypeOK, HasRootCall
    <3>7. currentBlock'.seq = blocksSeen + 1 /\ currentBlock'.ver = proto.ver
      BY <3>1
    <3>8. BlockBegins
      BY <3>1, <3>2, <3>7, Zenon DEF BlockBegins, traceVars, Accept
    <3> QED BY <3>6, <3>8 DEF Step
  <2> QED BY <2>1, <2>2
<1>3. ASSUME NEW n \in BlockNums, ReadFinalizeBlock(n)
      PROVE  TypeInv' /\ Step
  <2>1. CASE Stop("error")
    BY <2>1, StopType DEF Step
  <2>2. CASE ~Stop("error")
    <3>1. /\ finalizing' = TRUE /\ Accept
          /\ UNCHANGED <<proto, traceVars, currentBlock, transactionTraces, systemCalls,
                         highestOrdinalBeforeTransactions, evmCallStackIndexes, stats,
                         history>>
      BY <1>3, <2>2, Zenon DEF ReadFinalizeBlock
    <3>2. TypeInv'
      BY <3>1 DEF traceVars, history, Accept, TypeInv, TypeOK, HasRootCall
    <3>3. QuietStep
      BY <3>1, Zenon DEF traceVars, history, Accept, QuietStep, SameTrace, SameBlock
    <3> QED BY <3>2, <3>3 DEF Step
  <2> QED BY <2>1, <2>2
<1>4. ASSUME NEW n \in BlockNums, ReadCancelBlock(n)
      PROVE  TypeInv' /\ Step
  <2>1. CASE Stop("error")
    BY <2>1, StopType DEF Step
  <2>2. CASE UNCHANGED vars
    BY <2>2, StutterType DEF Step
  <2>3. CASE ~(Stop("error") \/ UNCHANGED vars)
    <3>1. /\ ResetBlock /\ ResetTrace /\ inSystemCall' = FALSE /\ Accept
          /\ UNCHANGED <<proto, highestOrdinalBeforeTransactions, evmCallStackIndexes,
                         stats, history>>
      BY <1>4, <2>3, Zenon DEF ReadCancelBlock
    <3>2. TypeInv'
      BY <3>1, ResetBlockType DEF ResetTrace, history, Accept, TypeInv, TypeOK, HasRootCall
    <3>3. BlockAbandoned
      BY <3>1, Zenon DEF BlockAbandoned, ResetBlock, ResetTrace, history, Accept
    <3> QED BY <3>2, <3>3 DEF Step
  <2> QED BY <2>1, <2>2, <2>3
<1>5. ASSUME NEW n \in BlockNums, NEW h \in BlockNums, NEW f \in BlockNums \cup {Nil},
             NEW encodes \in BOOLEAN, ReadEndBlock(n, h, f, encodes)
      PROVE  TypeInv' /\ Step
  <2>1. CASE Stop("error")
    BY <2>1, StopType DEF Step
  <2>2. CASE ~Stop("error")
    <3>1. /\ ResetBlock
          /\ status' \in {status, "error", "panic"}
          /\ UNCHANGED <<proto, traceVars, highestOrdinalBeforeTransactions,
                         evmCallStackIndexes, stats, history>>
      BY <1>5, <2>2, Zenon DEF ReadEndBlock, EndWith
    <3>2. TypeInv'
      BY <3>1, ResetBlockType DEF traceVars, history, TypeInv, TypeOK, HasRootCall
    <3> DEFINE lib == IF f = Nil THEN ComputeProofOfWorkLIBNum(n)
                      ELSE ComputeProofOfStakeLIBNum(n, f)
               first == highestOrdinalBeforeTransactions + 1
    <3>3. /\ currentBlock # Nil /\ currentBlock.num = n
          /\ \/ UNCHANGED returned
             \/ /\ NormalizeInPlace(Assembled, proto, first).ok
                /\ returned' = Append(returned, Finished(
                       NormalizeInPlace(Assembled, proto, first).block, lib))
      BY <1>5, <2>2, Zenon DEF ReadEndBlock, EndWith
    <3>4. Assembled.num = n
      BY <3>3 DEF Assembled, TypeInv, TypeOK, Block
    <3>5. lib <= Assembled.num \/ lib = FirstStreamable
      BY <3>4, LibBelowBlock, ReaderAssumption
    <3> HIDE DEF lib, first
    <3>6. BlockEnds
      BY <3>1, <3>3, <3>5, Zenon DEF BlockEnds, ResetBlock, traceVars, history
    <3> QED BY <3>2, <3>6 DEF Step
  <2> QED BY <2>1, <2>2
<1>6. ASSUME NEW n \in BlockNums, NEW lib \in BlockNums,
             ReadBlockForProtocolVersion3(n, lib)
      PROVE  TypeInv' /\ Step
  <2>1. CASE Stop("error")
    BY <2>1, StopType DEF Step
  <2>2. CASE ~Stop("error")
    <3>1. /\ returned' = Append(returned, [num |-> n, lib |-> lib, block |-> Nil,
                                           seq |-> 0, raw |-> Nil])
          /\ UNCHANGED <<ctxVars, history, status>>
      BY <1>6, <2>2, Zenon DEF ReadBlockForProtocolVersion3
    <3>2. TypeInv'
      BY <3>1 DEF ctxVars, history, TypeInv, TypeOK, HasRootCall
    <3>3. BlockAtOnce
      BY <3>1, Zenon DEF BlockAtOnce, ctxVars, history
    <3> QED BY <3>2, <3>3 DEF Step
  <2> QED BY <2>1, <2>2
<1>7. CASE ReadFailedApplyTrx
  <2>1. CASE Stop("error")
    BY <2>1, StopType DEF Step
  <2>2. CASE ~Stop("error")
    <3>1. /\ currentBlock' = Nil /\ currentTrace' = Nil
          /\ currentTraceLogCount' = 0 /\ finalizing' \in BOOLEAN
          /\ UNCHANGED <<proto, currentRootCall, inSystemCall, systemCalls,
                         highestOrdinalBeforeTransactions, evmCallStackIndexes, stats,
                         status, blocksSeen, tracesSeen, detailsSeen>>
      BY <1>7, <2>2, Zenon DEF ReadFailedApplyTrx, Accept, history
    <3>2. transactionTraces' \in Seq(Trx)
      BY <1>7, <2>2, EmptySeqType, Zenon DEF ReadFailedApplyTrx
    <3>3. TypeInv'
      BY <3>1, <3>2 DEF TypeInv, TypeOK, HasRootCall
    <3>4. inSystemCall' = FALSE
      <4>1. ~inSystemCall /\ UNCHANGED inSystemCall
        BY <1>7, <2>2, Zenon DEF ReadFailedApplyTrx, InTransaction
      <4> QED BY <4>1 DEF TypeInv, TypeOK
    <3>5. transactionTraces' = << >> /\ UNCHANGED returned
      BY <1>7, <2>2, Zenon DEF ReadFailedApplyTrx, Accept
    <3>6. BlockAbandoned
      BY <3>1, <3>4, <3>5, Zenon DEF BlockAbandoned
    <3> QED BY <3>3, <3>6 DEF Step
  <2> QED BY <2>1, <2>2
<1> QED BY <1>1, <1>2, <1>3, <1>4, <1>5, <1>6, <1>7 DEF AnyBlockLine

\* Every line keeps the types and is one of the cases of Step.
LEMMA NextType ==
    ASSUME TypeInv, AnyNext
    PROVE  TypeInv' /\ Step
<1>1. CASE AnyCallLine
  BY <1>1, EVMCallsType, AnnotationsType DEF AnyCallLine, Step
<1>2. CASE AnyChangeLine
  BY <1>2, ChangesType, AddLogType DEF AnyChangeLine, Step
<1>3. CASE ReadMalformed \/ LinesClosed
  BY <1>3, StopType DEF ReadMalformed, LinesClosed, Step
<1> QED BY <1>1, <1>2, <1>3, BlockLinesType, TraceLinesType DEF AnyNext

-----------------------------------------------------------------------------
(***************************************************************************)
(* What a step can do to the calls of the active trace, and to the calls   *)
(* of those collected: the handlers are opened once more.                  *)
(***************************************************************************)
\* One call is written again, with its logs or one more.
CallRewritten ==
    /\ currentTrace # Nil
    /\ \E i \in 1..Len(currentTrace.calls), call \in Call :
          /\ currentTrace'.calls = [currentTrace.calls EXCEPT ![i] = call]
          /\ call.index = currentTrace.calls[i].index
          /\ \/ /\ call.logs = currentTrace.calls[i].logs
                /\ UNCHANGED currentTraceLogCount
             \/ \E log \in Log :
                   /\ log.index = currentTraceLogCount
                   /\ call.logs = Append(currentTrace.calls[i].logs, log)
                   /\ currentTraceLogCount' = currentTraceLogCount + 1

CallAdded ==
    /\ currentTrace # Nil
    /\ \E call \in Call :
          /\ currentTrace'.calls = Append(currentTrace.calls, call)
          /\ call.index = Len(currentTrace.calls) + 1 /\ call.logs = << >>
    /\ UNCHANGED currentTraceLogCount

FirstCall ==
    /\ \E call \in Call : /\ currentTrace'.calls = <<call>>
                          /\ call.index = 1 /\ call.logs = << >>
    /\ currentTraceLogCount' = 0

CallsStep ==
    \/ UNCHANGED <<currentTrace, currentTraceLogCount>> \/ currentTrace' = Nil
    \/ CallRewritten \/ CallAdded \/ FirstCall

CollectedStep ==
    \/ UNCHANGED transactionTraces \/ transactionTraces' = << >>
    \/ /\ currentTrace # Nil
       /\ \E trace \in Trx :
             /\ trace.calls = PopulateStateReverted(currentTrace.calls)
             /\ transactionTraces' = Append(transactionTraces, trace)

\* A handler that stops leaves the calls alone.
LEMMA StopCalls ==
    ASSUME NEW o, Stop(o)
    PROVE  CallsStep /\ CollectedStep
BY Zenon DEF Stop, ctxVars, CallsStep, CollectedStep

\* What a rewritten call may not change.
SameCall(call, old) == call \in Call /\ call.index = old.index /\ call.logs = old.logs

\* One call of the active trace is written again.
LEMMA WriteCalls ==
    ASSUME TypeInv, NEW i \in Nat, CallExists(i), NEW call,
           SameCall(call, currentTrace.calls[i]), WriteCall(i, call),
           UNCHANGED <<currentTraceLogCount, transactionTraces>>
    PROVE  CallsStep /\ CollectedStep
<1>1. currentTrace # Nil /\ currentTrace \in Trx /\ i \in 1..Len(currentTrace.calls)
  BY DEF TypeInv, TypeOK, CallExists
<1> DEFINE calls == [currentTrace.calls EXCEPT ![i] = call]
<1>2. currentTrace' = [currentTrace EXCEPT !.calls = calls]
  BY DEF WriteCall
<1> HIDE DEF calls
<1>3. currentTrace'.calls = calls
  BY <1>1, <1>2 DEF Trx
<1>4. CallRewritten
  BY <1>1, <1>3 DEF CallRewritten, SameCall, calls
<1> QED BY <1>4 DEF CallsStep, CollectedStep

\* A detail line on a call.
LEMMA OnCallCalls ==
    ASSUME TypeInv, NEW i \in Nat, CallExists(i), NEW call,
           SameCall(call, currentTrace.calls[i]), OnCall(i, call)
    PROVE  CallsStep /\ CollectedStep
BY WriteCalls, Zenon DEF OnCall, DetailFrame

\* A detail line that is dropped, or goes to the block.
LEMMA ElsewhereCalls ==
    ASSUME DetailFrame, UNCHANGED <<currentTrace, currentTraceLogCount>>
    PROVE  CallsStep /\ CollectedStep
BY Zenon DEF DetailFrame, CallsStep, CollectedStep

LEMMA AnnotateCalls ==
    ASSUME TypeInv, NEW i \in Nat, NEW call,
           CallExists(i) => SameCall(call, currentTrace.calls[i]), Annotate(i, call)
    PROVE  CallsStep /\ CollectedStep
BY OnCallCalls, StopCalls DEF Annotate

\* Every line that sets fields of a call.
LEMMA AnnotationsCalls ==
    ASSUME TypeInv, NEW i \in Nat,
           \/ \E a \in Senders, x \in BOOLEAN : ReadEVMParamCall(i, a, a, x)
           \/ ReadEVMCallFailed(i)
           \/ ReadEVMReverted(i)
           \/ ReadAccountWithoutCode(i)
           \/ ReadEVMKeccak(i)
           \/ ReadSuicideChange(i)
    PROVE  CallsStep /\ CollectedStep
<1> i \in Nat
  BY ReaderAssumption
<1>1. ASSUME NEW a \in Address, NEW marks \in SUBSET Mark, NEW c \in Call
      PROVE  SameCall([c EXCEPT !.caller = a, !.address = a, !.marks = marks], c)
  BY DEF Call, SameCall
<1>2. ASSUME NEW marks \in SUBSET Mark, NEW c \in Call
      PROVE  SameCall([c EXCEPT !.marks = marks], c)
  BY DEF Call, SameCall
<1>3. ASSUME NEW c \in Call
      PROVE  /\ SameCall([c EXCEPT !.statusFailed = TRUE], c)
             /\ SameCall([c EXCEPT !.statusReverted = TRUE], c)
             /\ c.marks \in SUBSET Mark
             /\ \A m \in Mark : c.marks \cup {m} \in SUBSET Mark
                                /\ c.marks \ {m} \in SUBSET Mark
  BY DEF Call, SameCall
<1>4. ASSUME NEW a \in Senders, NEW x \in BOOLEAN, ReadEVMParamCall(i, a, a, x)
      PROVE  CallsStep /\ CollectedStep
  <2> DEFINE marks == IF x THEN currentTrace.calls[i].marks \cup {"executedCode"}
                      ELSE currentTrace.calls[i].marks \ {"executedCode"}
  <2>1. ASSUME CallExists(i)
        PROVE  SameCall([currentTrace.calls[i] EXCEPT !.caller = a, !.address = a,
                             !.marks = marks], currentTrace.calls[i])
    <3>1. currentTrace.calls[i] \in Call
      BY <2>1, CallIsCall
    <3>2. marks \in SUBSET Mark
      BY <1>3, <3>1 DEF Mark
    <3> HIDE DEF marks
    <3> QED BY <1>1, <3>1, <3>2, ReaderAssumption
  <2> QED BY <1>4, <2>1, AnnotateCalls DEF ReadEVMParamCall
<1>5. CASE ReadEVMCallFailed(i)
  BY <1>3, <1>5, CallIsCall, AnnotateCalls DEF ReadEVMCallFailed
<1>6. CASE ReadEVMReverted(i)
  BY <1>3, <1>6, CallIsCall, AnnotateCalls DEF ReadEVMReverted
<1>7. ASSUME NEW m \in Mark, CallExists(i)
      PROVE  /\ SameCall([currentTrace.calls[i] EXCEPT !.marks = @ \cup {m}],
                         currentTrace.calls[i])
             /\ SameCall([currentTrace.calls[i] EXCEPT !.marks = @ \ {m}],
                         currentTrace.calls[i])
  BY <1>2, <1>3, <1>7, CallIsCall
<1>8. CASE ReadAccountWithoutCode(i)
  BY <1>7, <1>8, AnnotateCalls DEF ReadAccountWithoutCode, Mark
<1>9. CASE ReadEVMKeccak(i)
  BY <1>7, <1>9, AnnotateCalls DEF ReadEVMKeccak, Mark
<1>10. CASE ReadSuicideChange(i)
  BY <1>7, <1>10, AnnotateCalls, StopCalls DEF ReadSuicideChange, Mark
<1> QED BY <1>4, <1>5, <1>6, <1>8, <1>9, <1>10

\* Every line that records a change, on a call or on the block.
LEMMA ChangesCalls ==
    ASSUME TypeInv, NEW i \in Nat, NEW ord \in Nat,
           \/ ReadGasChange(i, ord)
           \/ ReadNonceChange(i, ord)
           \/ ReadStorageChange(i, ord)
           \/ ReadCreateAccount(i, ord)
           \/ ReadCodeChange(i, ord)
           \/ \E mining \in BOOLEAN : ReadBalanceChange(i, ord, mining)
    PROVE  CallsStep /\ CollectedStep
<1> i \in Nat /\ ord \in Nat
  BY ReaderAssumption
<1>1. ASSUME NEW j \in Nat, NEW kind \in ChangeKind, CallExists(j),
             OnCall(j, WithChange(j, kind, ord))
      PROVE  CallsStep /\ CollectedStep
  <2>1. currentTrace.calls[j] \in Call /\ WithChange(j, kind, ord) \in Call
    BY <1>1, CallIsCall, WithChangeType
  <2>2. SameCall(WithChange(j, kind, ord), currentTrace.calls[j])
    BY <2>1 DEF SameCall, WithChange, Call
  <2> QED BY <1>1, <2>2, OnCallCalls
<1>2. ASSUME currentTrace # Nil
      PROVE  CallExists(1)
  BY <1>2, CallIsCall
<1>3. CASE Dropped \/ \E kind \in ChangeKind : OnBlock(kind, ord)
  BY <1>3, ElsewhereCalls DEF Dropped, OnBlock
<1>4. ASSUME NEW kind \in ChangeKind, ReadRootableChange(kind, i, ord)
      PROVE  CallsStep /\ CollectedStep
  BY <1>1, <1>2, <1>3, <1>4, StopCalls DEF ReadRootableChange
<1>5. CASE ReadGasChange(i, ord)
  BY <1>4, <1>5 DEF ReadGasChange, ChangeKind
<1>6. CASE ReadNonceChange(i, ord)
  BY <1>4, <1>6 DEF ReadNonceChange, ChangeKind
<1>7. CASE ReadStorageChange(i, ord)
  BY <1>1, <1>2, <1>3, <1>7, StopCalls DEF ReadStorageChange, ChangeKind
<1>8. CASE ReadCreateAccount(i, ord)
  BY <1>1, <1>2, <1>3, <1>8, StopCalls, ElsewhereCalls DEF ReadCreateAccount, ChangeKind
<1>9. CASE ReadCodeChange(i, ord)
  BY <1>1, <1>2, <1>3, <1>9, StopCalls DEF ReadCodeChange, ChangeKind
<1>10. ASSUME NEW mining \in BOOLEAN, ReadBalanceChange(i, ord, mining)
      PROVE  CallsStep /\ CollectedStep
  BY <1>1, <1>2, <1>3, <1>10, StopCalls DEF ReadBalanceChange, ChangeKind
<1> QED BY <1>5, <1>6, <1>7, <1>8, <1>9, <1>10

\* ADD_LOG adds the log that comes next, to one call.
LEMMA AddLogCalls ==
    ASSUME TypeInv, NEW i \in Nat, NEW ord \in Nat, NEW data \in LogData,
           NEW b \in Nat, ReadAddLog(i, data, b, ord)
    PROVE  CallsStep /\ CollectedStep
<1> DEFINE at == IF i = 0 THEN 1 ELSE i
           log == [trx |-> currentTrace.hash, index |-> LogIndex(at), data |-> data,
                   ord |-> ord, blockIndex |-> b]
           logs == Append(currentTrace.calls[at].logs, log)
           call == [currentTrace.calls[at] EXCEPT !.logs = logs]
<1> ord \in Nat /\ b \in Nat /\ at \in Nat
  BY ReaderAssumption
<1>1. CASE ~CallExists(at)
  BY <1>1, StopCalls DEF ReadAddLog, CallExists
<1>2. CASE CallExists(at)
  <2>1. /\ currentTrace.calls[at] \in Call /\ currentTrace \in Trx
        /\ currentTraceLogCount \in Nat /\ currentTrace # Nil
        /\ at \in 1..Len(currentTrace.calls)
    BY <1>2, CallIsCall DEF TypeInv, TypeOK, CallExists
  <2>2. log \in Log /\ log.index = currentTraceLogCount
    BY <2>1 DEF LogIndex, Log, Trx
  <2>3. /\ WriteCall(at, call) /\ currentTraceLogCount' = currentTraceLogCount + 1
        /\ DetailFrame
    BY <1>2, Zenon DEF ReadAddLog, Stop
  <2> HIDE DEF log, at
  <2>4. logs \in Seq(Log)
    <3>1. currentTrace.calls[at].logs \in Seq(Log)
      BY <2>1, Zenon DEF Call
    <3> QED BY <2>2, <3>1
  <2> HIDE DEF logs
  <2>5. call \in Call /\ call.index = currentTrace.calls[at].index /\ call.logs = logs
    BY <2>1, <2>4 DEF Call
  <2> HIDE DEF call
  <2> DEFINE calls == [currentTrace.calls EXCEPT ![at] = call]
  <2>6. currentTrace' = [currentTrace EXCEPT !.calls = calls]
    BY <2>3 DEF WriteCall
  <2> HIDE DEF calls
  <2>7. currentTrace'.calls = calls
    BY <2>1, <2>6 DEF Trx
  <2>8. CallRewritten
    BY <2>1, <2>2, <2>3, <2>5, <2>7 DEF CallRewritten, calls, logs
  <2> QED BY <2>3, <2>8 DEF DetailFrame, CallsStep, CollectedStep
<1> QED BY <1>1, <1>2

\* EVM_RUN_CALL adds the call of the next index or writes the first one again, and
\* EVM_END_CALL writes a call again.
LEMMA EVMCalls ==
    ASSUME TypeInv, NEW i \in Nat, NEW ord \in Nat,
           \/ \E type \in EvmCallTypes : ReadEVMRunCall(type, i, ord)
           \/ ReadEVMEndCall(i, ord)
    PROVE  CallsStep /\ CollectedStep
<1> i \in Nat /\ ord \in Nat
  BY ReaderAssumption
<1>1. ASSUME NEW type \in EvmCallTypes, ReadEVMRunCall(type, i, ord)
      PROVE  CallsStep /\ CollectedStep
  <2>1. CASE currentTrace = Nil
    BY <1>1, <2>1, StopCalls DEF ReadEVMRunCall
  <2>2. CASE currentTrace # Nil
    <3> DEFINE begin == IF inSystemCall THEN ord ELSE currentTrace.calls[1].begin
               root == [currentTrace.calls[1] EXCEPT !.type = type, !.begin = begin]
               new == NewCall(i, type, NoAddress, ord)
               extended == Append(currentTrace.calls, new)
    <3>1. /\ type \in CallType /\ currentTrace \in Trx /\ CallExists(1)
          /\ currentTrace.calls[1] \in Call /\ currentTrace.calls \in Seq(Call)
      BY <2>2, CallIsCall, ReaderAssumption DEF Trx
    <3>2. UNCHANGED <<currentTraceLogCount, transactionTraces>>
      BY <1>1, <2>2, Zenon DEF ReadEVMRunCall, blockVars
    <3>3. \/ currentTrace' = [currentTrace EXCEPT !.calls[1] = root]
          \/ NextCall(i) /\ currentTrace' = [currentTrace EXCEPT !.calls = extended]
          \/ UNCHANGED currentTrace
      BY <1>1, <2>2, Zenon DEF ReadEVMRunCall
    <3>4. SameCall(root, currentTrace.calls[1])
      <4>1. begin \in Nat
        BY <3>1, Zenon DEF Call
      <4> HIDE DEF begin
      <4> QED BY <3>1, <4>1 DEF SameCall, Call
    <3> HIDE DEF root
    <3>5. ASSUME currentTrace' = [currentTrace EXCEPT !.calls[1] = root]
          PROVE  CallsStep /\ CollectedStep
      BY <3>1, <3>2, <3>4, <3>5, WriteCalls DEF WriteCall
    <3>6. ASSUME NextCall(i), currentTrace' = [currentTrace EXCEPT !.calls = extended]
          PROVE  CallsStep /\ CollectedStep
      <4>1. new \in Call /\ new.index = i /\ new.logs = << >>
        BY <3>1, NewCallType DEF Address, NewCall
      <4>2. i = Len(currentTrace.calls) + 1
        BY <3>1, <3>6 DEF NextCall
      <4> HIDE DEF extended, new
      <4>3. currentTrace'.calls = extended
        BY <3>1, <3>6 DEF Trx
      <4>4. CallAdded
        BY <2>2, <3>2, <4>1, <4>2, <4>3 DEF CallAdded, extended
      <4> QED BY <3>2, <4>4 DEF CallsStep, CollectedStep
    <3>7. ASSUME UNCHANGED currentTrace
          PROVE  CallsStep /\ CollectedStep
      BY <3>2, <3>7 DEF CallsStep, CollectedStep
    <3> QED BY <3>3, <3>5, <3>6, <3>7
  <2> QED BY <2>1, <2>2
<1>2. CASE ReadEVMEndCall(i, ord)
  <2> DEFINE call == [currentTrace.calls[i] EXCEPT
                         !.parent = ParentAndDepth.parent,
                         !.depth = ParentAndDepth.depth,
                         !.end = ord]
  <2>1. CASE ~(CallExists(i) /\ evmCallStackIndexes # << >>)
    BY <1>2, <2>1, StopCalls DEF ReadEVMEndCall, Stop, CallExists
  <2>2. CASE CallExists(i) /\ evmCallStackIndexes # << >>
    <3>1. /\ WriteCall(i, call)
          /\ UNCHANGED <<currentTraceLogCount, transactionTraces>>
      BY <1>2, <2>2, Zenon DEF ReadEVMEndCall, Stop, blockVars
    <3>2. ParentAndDepth.parent \in Nat /\ ParentAndDepth.depth \in Nat
      BY <2>2, StackTop
    <3>3. currentTrace.calls[i] \in Call
      BY <2>2, CallIsCall
    <3>4. SameCall(call, currentTrace.calls[i])
      <4>1. \A c \in Call, p, d \in Nat :
               SameCall([c EXCEPT !.parent = p, !.depth = d, !.end = ord], c)
        BY ZenonT(30) DEF SameCall, Call
      <4> QED BY <3>2, <3>3, <4>1, Zenon
    <3> HIDE DEF call
    <3> QED BY <2>2, <3>1, <3>4, WriteCalls
  <2> QED BY <2>1, <2>2
<1> QED BY <1>1, <1>2

\* The lines that begin and end transactions and system calls.
LEMMA TraceLinesCalls ==
    ASSUME TypeInv, AnyTraceLine
    PROVE  CallsStep /\ CollectedStep
<1>1. ASSUME NEW h, NEW x, NEW to \in Address, NEW ord, NEW born, NEW system,
             StartTrace(NewTrx(h, x, to, ord, NewCall(1, "CALL", to, 0), born, system))
      PROVE  CallsStep /\ CollectedStep
  <2> DEFINE call == NewCall(1, "CALL", to, 0)
  <2>1. call \in Call /\ call.index = 1 /\ call.logs = << >>
    BY NewCallType DEF CallType, NewCall
  <2> HIDE DEF call
  <2>2. currentTrace'.calls = <<call>> /\ currentTraceLogCount' = 0
    BY <1>1 DEF StartTrace, NewTrx, call
  <2>3. FirstCall
    BY <2>1, <2>2 DEF FirstCall
  <2>4. UNCHANGED transactionTraces
    BY <1>1, Zenon DEF StartTrace, blockVars
  <2> QED BY <2>3, <2>4 DEF CallsStep, CollectedStep
<1>2. ASSUME NEW to \in Recipients, NEW x \in Nat, NEW ord \in Nat,
             ReadApplyTrxBegin(to, x, ord)
      PROVE  CallsStep /\ CollectedStep
  BY <1>1, <1>2, StopCalls, ReaderAssumption DEF ReadApplyTrxBegin
<1>3. CASE ReadSystemCallStart
  BY <1>1, <1>3, StopCalls DEF ReadSystemCallStart, Address
<1>4. CASE ReadSystemCallEnd \/ ReadSkippedTrx
  <2>1. \/ \E o : Stop(o)
        \/ currentTrace' = Nil /\ UNCHANGED transactionTraces
    BY <1>4, Zenon DEF ReadSystemCallEnd, ReadSkippedTrx, ResetTrace, blockVars
  <2> QED BY <2>1, StopCalls, Zenon DEF CallsStep, CollectedStep
<1>5. ASSUME NEW ord \in Nat, NEW receipt \in Seq(LogData), ReadApplyTrxEnd(ord, receipt)
      PROVE  CallsStep /\ CollectedStep
  <2>1. CASE \E o : Stop(o)
    BY <2>1, StopCalls
  <2>2. CASE ~\E o : Stop(o)
    <3> DEFINE calls == PopulateStateReverted(currentTrace.calls)
               logs == ReceiptLogs(currentTrace.hash, receipt)
               to == ResolvedTo(currentTrace)
               trace == [currentTrace EXCEPT !.end = ord, !.to = to, !.receipt = logs,
                                             !.calls = calls, !.done = blocksSeen]
    <3>1. /\ transactionTraces' = Append(transactionTraces, trace)
          /\ currentTrace' = Nil /\ currentTrace # Nil
      BY <1>5, <2>2 DEF ReadApplyTrxEnd, ResetTrace
    <3>2. currentTrace \in Trx /\ currentTrace.calls[1] \in Call
      BY <3>1, CallIsCall
    <3>3. to \in Address
      BY <3>2 DEF ResolvedTo, Trx, Call
    <3>4. logs \in Seq(Log)
      BY <3>2, ReceiptType, ReaderAssumption DEF Trx
    <3>5. calls \in Seq(Call)
      BY <3>2, RevertedType DEF Trx
    <3>6. ord \in Nat /\ blocksSeen \in Nat
      BY ReaderAssumption DEF TypeInv, TypeOK
    <3> HIDE DEF to, logs, calls
    <3>7. trace \in Trx /\ trace.calls = calls
      BY <3>2, <3>3, <3>4, <3>5, <3>6 DEF Trx
    <3> HIDE DEF trace
    <3> QED BY <3>1, <3>7 DEF CallsStep, CollectedStep, calls
  <2> QED BY <2>1, <2>2
<1>6. ASSUME NEW from \in Senders, ReadTrxFrom(from)
      PROVE  CallsStep /\ CollectedStep
  <2>1. CASE Stop("error")
    BY <2>1, StopCalls
  <2>2. CASE ~Stop("error")
    <3> DEFINE named == Len(currentTrace.calls) = 1
                        /\ currentTrace.calls[1].caller = NoAddress
               caller == IF named THEN from ELSE currentTrace.calls[1].caller
               root == [currentTrace.calls[1] EXCEPT !.caller = caller]
               calls == [currentTrace.calls EXCEPT ![1] = root]
    <3>1. /\ currentTrace # Nil
          /\ currentTrace' = [currentTrace EXCEPT !.from = from, !.calls = calls]
          /\ UNCHANGED <<currentTraceLogCount, transactionTraces>>
      BY <1>6, <2>2, Zenon DEF ReadTrxFrom, DetailFrame
    <3>2. /\ currentTrace \in Trx /\ currentTrace.calls[1] \in Call
          /\ 1 \in 1..Len(currentTrace.calls) /\ from \in Address
      <4>1. currentTrace \in Trx /\ CallExists(1) /\ currentTrace.calls[1] \in Call
        BY <3>1, CallIsCall
      <4>2. Len(currentTrace.calls) \in Nat
        BY <4>1 DEF Trx
      <4> QED BY <4>1, <4>2, ReaderAssumption DEF CallExists
    <3>3. caller \in Address
      BY <3>2, Zenon DEF Call
    <3> HIDE DEF caller
    <3>4. SameCall(root, currentTrace.calls[1])
      BY <3>2, <3>3 DEF SameCall, Call
    <3> HIDE DEF root, calls
    <3>5. currentTrace'.calls = calls
      BY <3>1, <3>2 DEF Trx
    <3>6. CallRewritten
      BY <3>1, <3>2, <3>4, <3>5 DEF CallRewritten, SameCall, calls
    <3> QED BY <3>1, <3>6 DEF CallsStep, CollectedStep
  <2> QED BY <2>1, <2>2
<1> QED BY <1>2, <1>3, <1>4, <1>5, <1>6 DEF AnyTraceLine

\* INIT and the lines that begin, finalize, end and abandon blocks.
LEMMA BlockLinesCalls ==
    ASSUME TypeInv, AnyBlockLine
    PROVE  CallsStep /\ CollectedStep
<1>1. ASSUME NEW o, Stop(o)
      PROVE  CallsStep /\ CollectedStep
  BY <1>1, StopCalls
<1>2. ASSUME UNCHANGED <<currentTrace, currentTraceLogCount>> \/ currentTrace' = Nil,
             UNCHANGED transactionTraces \/ transactionTraces' = << >>
      PROVE  CallsStep /\ CollectedStep
  BY <1>2, Zenon DEF CallsStep, CollectedStep
<1>3. ASSUME NEW v \in Versions, NEW polygon \in BOOLEAN, ReadInit(v, polygon)
      PROVE  CallsStep /\ CollectedStep
  BY <1>1, <1>2, <1>3, Zenon DEF ReadInit, traceVars, blockVars
<1>4. ASSUME NEW n \in BlockNums,
             \/ ReadBeginBlock(n) \/ ReadFinalizeBlock(n) \/ ReadCancelBlock(n)
      PROVE  CallsStep /\ CollectedStep
  BY <1>1, <1>2, <1>4, Zenon
     DEF ReadBeginBlock, ReadFinalizeBlock, ReadCancelBlock, ResetBlock, ResetTrace,
         traceVars, vars, ctxVars
<1>5. ASSUME NEW n \in BlockNums, NEW h \in BlockNums, NEW f \in BlockNums \cup {Nil},
             NEW encodes \in BOOLEAN, ReadEndBlock(n, h, f, encodes)
      PROVE  CallsStep /\ CollectedStep
  BY <1>1, <1>2, <1>5, Zenon DEF ReadEndBlock, ResetBlock, traceVars
<1>6. ASSUME NEW n \in BlockNums, NEW lib \in BlockNums,
             ReadBlockForProtocolVersion3(n, lib)
      PROVE  CallsStep /\ CollectedStep
  BY <1>1, <1>2, <1>6, Zenon DEF ReadBlockForProtocolVersion3, ctxVars
<1>7. CASE ReadFailedApplyTrx
  BY <1>1, <1>2, <1>7, Zenon DEF ReadFailedApplyTrx
<1> QED BY <1>3, <1>4, <1>5, <1>6, <1>7 DEF AnyBlockLine

\* Every line is one of the cases of CallsStep, and of CollectedStep.
LEMMA NextCalls ==
    ASSUME TypeInv, [AnyNext]_vars
    PROVE  CallsStep /\ CollectedStep
<1>1. CASE AnyCallLine
  BY <1>1, EVMCalls, AnnotationsCalls DEF AnyCallLine
<1>2. CASE AnyChangeLine
  BY <1>2, ChangesCalls, AddLogCalls DEF AnyChangeLine
<1>3. CASE ReadMalformed \/ LinesClosed
  BY <1>3, StopCalls DEF ReadMalformed, LinesClosed
<1>4. CASE UNCHANGED vars
  BY <1>4, Zenon DEF vars, ctxVars, CallsStep, CollectedStep
<1> QED BY <1>1, <1>2, <1>3, <1>4, BlockLinesCalls, TraceLinesCalls DEF AnyNext

\* The context NewConsoleReader makes has its types.
LEMMA InitType ==
    ASSUME Init
    PROVE  TypeInv
<1>1. /\ transactionTraces \in Seq(Trx) /\ systemCalls \in Seq(EndedSystemCall)
      /\ evmCallStackIndexes \in Seq(Nat)
  BY EmptySeqType, Zenon DEF Init
<1>2. proto \in Protocol
  BY DEF Init, Protocol
<1>3. finalizing \in BOOLEAN /\ inSystemCall \in BOOLEAN /\ stats \in BOOLEAN
  BY Zenon DEF Init
<1>4. /\ currentBlock = Nil /\ currentTrace = Nil /\ currentRootCall = Nil
      /\ currentTraceLogCount = 0 /\ highestOrdinalBeforeTransactions = 0
      /\ status = "running" /\ blocksSeen = 0 /\ tracesSeen = 0 /\ detailsSeen = 0
  BY DEF Init
<1> QED BY <1>1, <1>2, <1>3, <1>4 DEF TypeInv, TypeOK, HasRootCall

LEMMA TypeAlways == AnySpec => []TypeInv
<1>1. Init => TypeInv
  BY InitType
<1>2. TypeInv /\ [AnyNext]_vars => TypeInv'
  BY NextType, StutterType
<1> QED BY <1>1, <1>2, PTL DEF AnySpec

\* The parse context keeps its Go types whatever lines are read, in any order and
\* any number: what every other theorem starts from.
THEOREM TypeCorrect == Spec => []TypeOK
<1>1. TypeInv => TypeOK
  BY DEF TypeInv
<1> QED BY <1>1, TypeAlways, SomeLines, PTL

-----------------------------------------------------------------------------
(***************************************************************************)
(* The active trace.                                                       *)
(***************************************************************************)
\* Every step of the specification, stuttering included, is a Step of typed states.
LEMMA AllSteps ==
    ASSUME TypeInv, [AnyNext]_vars
    PROVE  TypeInv' /\ Step
BY NextType, StutterType DEF Step

\* The active trace is the last one begun: tracesSeen is its hash.
TraceInv ==
    /\ TypeInv
    /\ SystemCallFlag
    /\ currentTrace # Nil => currentRootCall = currentTrace.hash
                             /\ currentTrace.hash = tracesSeen

\* TraceInv is kept by every step.
LEMMA TraceStep ==
    ASSUME TraceInv, [AnyNext]_vars
    PROVE  TraceInv'
<1>1. TypeInv' /\ Step
  BY AllSteps DEF TraceInv
<1>2. currentTrace \in Trx \cup {Nil} /\ currentTrace' \in Trx \cup {Nil}
      /\ inSystemCall \in BOOLEAN /\ inSystemCall' \in BOOLEAN /\ tracesSeen \in Nat
  BY <1>1 DEF TraceInv, TypeInv, TypeOK
<1>3. CASE QuietStep
  BY <1>1, <1>3 DEF QuietStep, SameTrace, TraceInv, SystemCallFlag
<1>4. CASE SessionBegins
  BY <1>1, <1>4 DEF SessionBegins, TraceInv, SystemCallFlag
<1>5. CASE BlockBegins
  BY <1>1, <1>5 DEF BlockBegins, TraceInv, SystemCallFlag
<1>6. CASE BlockAbandoned
  BY <1>1, <1>6 DEF BlockAbandoned, TraceInv, SystemCallFlag
<1>7. CASE BlockEnds
  BY <1>1, <1>7 DEF BlockEnds, TraceInv, SystemCallFlag
<1>8. CASE BlockAtOnce
  BY <1>1, <1>8 DEF BlockAtOnce, TraceInv, SystemCallFlag
<1>9. CASE TraceBegins
  BY <1>1, <1>9 DEF TraceBegins, TraceInv, SystemCallFlag
<1>10. CASE TraceDropped
  BY <1>1, <1>10 DEF TraceDropped, TraceInv, SystemCallFlag
<1>11. CASE TraceEnds
  BY <1>1, <1>11 DEF TraceEnds, TraceInv, SystemCallFlag
<1> QED BY <1>1, <1>3, <1>4, <1>5, <1>6, <1>7, <1>8, <1>9, <1>10, <1>11 DEF Step

\* TraceInv holds from the start.
LEMMA TraceAlways == AnySpec => []TraceInv
<1>1. Init => TraceInv
  BY InitType DEF Init, TraceInv, SystemCallFlag
<1> QED BY <1>1, TraceStep, PTL DEF AnySpec

\* The flag the handlers of SKIPPED_TRX, END_APPLY_TRX, FAILED_APPLY_TRX and
\* FINALIZE_BLOCK test tells the trace of a system call from a transaction,
\* although SYSTEM_CALL_END and CANCEL_BLOCK clear it without looking at it.
THEOREM FlagCorrect == Spec => []SystemCallFlag
<1>1. TraceInv => SystemCallFlag
  BY DEF TraceInv
<1> QED BY <1>1, TraceAlways, SomeLines, PTL

\* Index-0 lines always write to the first call of the active trace, although
\* SKIPPED_TRX and FAILED_APPLY_TRX leave currentRootCall dangling.
THEOREM RootCallCorrect == Spec => []RootCallIsCurrent
<1>1. TraceInv => RootCallIsCurrent
  BY DEF TraceInv, TypeInv, HasRootCall, RootCallIsCurrent
<1> QED BY <1>1, TraceAlways, SomeLines, PTL

-----------------------------------------------------------------------------
(***************************************************************************)
(* The transactions collected so far, and the blocks returned.             *)
(***************************************************************************)
\* Hashes grow along the transactions collected, up to the active trace.
HashInv ==
    /\ TraceInv
    /\ \A k \in 1..Len(transactionTraces) :
          /\ transactionTraces[k].hash <= tracesSeen
          /\ currentTrace # Nil => transactionTraces[k].hash < tracesSeen
    /\ \A j, k \in 1..Len(transactionTraces) :
          j < k => transactionTraces[j].hash < transactionTraces[k].hash

\* The hashes compared are numbers.
LEMMA HashesAreNumbers ==
    ASSUME TypeInv
    PROVE  /\ tracesSeen \in Nat /\ transactionTraces \in Seq(Trx)
           /\ Len(transactionTraces) \in Nat
           /\ \A k \in 1..Len(transactionTraces) : transactionTraces[k].hash \in Nat
<1>1. tracesSeen \in Nat /\ transactionTraces \in Seq(Trx)
  BY DEF TypeInv, TypeOK
<1>2. \A t \in Trx : t.hash \in Nat
  BY DEF Trx
<1>3. \A k \in 1..Len(transactionTraces) : transactionTraces[k] \in Trx
  BY <1>1
<1> QED BY <1>1, <1>2, <1>3

\* HashInv is kept by every step: only TraceEnds and TraceBegins could break it.
LEMMA HashStep ==
    ASSUME HashInv, [AnyNext]_vars
    PROVE  HashInv'
<1>1. TraceInv' /\ Step
  BY AllSteps, TraceStep DEF HashInv, TraceInv
<1>2. /\ tracesSeen \in Nat /\ transactionTraces \in Seq(Trx)
      /\ currentTrace # Nil => currentTrace.hash = tracesSeen
      /\ \A k \in 1..Len(transactionTraces) : transactionTraces[k].hash \in Nat
  BY HashesAreNumbers DEF HashInv, TraceInv
<1>3. CASE QuietStep
  BY <1>1, <1>3 DEF QuietStep, SameTrace, HashInv
<1>4. CASE SessionBegins
  BY <1>1, <1>4 DEF SessionBegins, HashInv
<1>5. CASE BlockBegins
  BY <1>1, <1>5 DEF BlockBegins, HashInv
<1>6. CASE BlockAbandoned
  <2>1. transactionTraces' = << >>
    BY <1>6 DEF BlockAbandoned
  <2> QED BY <1>1, <2>1 DEF HashInv
<1>7. CASE BlockEnds
  <2>1. transactionTraces' = << >>
    BY <1>7 DEF BlockEnds
  <2> QED BY <1>1, <2>1 DEF HashInv
<1>8. CASE BlockAtOnce
  BY <1>1, <1>8 DEF BlockAtOnce, HashInv
<1>9. CASE TraceBegins
  BY <1>1, <1>2, <1>9 DEF TraceBegins, HashInv
<1>10. CASE TraceDropped
  BY <1>1, <1>10 DEF TraceDropped, HashInv
<1>11. CASE TraceEnds
  <2>1. PICK trace \in Trx : /\ trace.hash = tracesSeen
                             /\ transactionTraces' = Append(transactionTraces, trace)
    BY <1>2, <1>11 DEF TraceEnds
  <2>2. /\ currentTrace # Nil /\ currentTrace' = Nil /\ UNCHANGED tracesSeen
    BY <1>11 DEF TraceEnds
  <2>3. /\ Len(transactionTraces') = Len(transactionTraces) + 1
        /\ Len(transactionTraces) \in Nat
        /\ \A k \in 1..Len(transactionTraces) : transactionTraces'[k] = transactionTraces[k]
        /\ transactionTraces'[Len(transactionTraces) + 1] = trace
    BY <1>2, <2>1, AppendProperties
  <2>4. \A k \in 1..Len(transactionTraces') :
           \/ k \in 1..Len(transactionTraces)
           \/ k = Len(transactionTraces) + 1
    BY <2>3
  <2>5. \A k \in 1..Len(transactionTraces) : transactionTraces[k].hash < tracesSeen
    BY <2>2 DEF HashInv
  <2>6. \A k \in 1..Len(transactionTraces') : transactionTraces'[k].hash <= tracesSeen
    BY <1>2, <2>1, <2>3, <2>4, <2>5
  <2>7. \A j, k \in 1..Len(transactionTraces') :
           j < k => transactionTraces'[j].hash < transactionTraces'[k].hash
    <3> TAKE j, k \in 1..Len(transactionTraces')
    <3> HAVE j < k
    <3>1. j \in 1..Len(transactionTraces)
      BY <2>3, <2>4
    <3>2. CASE k \in 1..Len(transactionTraces)
      BY <2>3, <3>1, <3>2 DEF HashInv
    <3>3. CASE k = Len(transactionTraces) + 1
      BY <2>1, <2>3, <2>5, <3>1, <3>3
    <3> QED BY <2>4, <3>2, <3>3
  <2> QED BY <1>1, <2>2, <2>6, <2>7 DEF HashInv
<1> QED BY <1>1, <1>3, <1>4, <1>5, <1>6, <1>7, <1>8, <1>9, <1>10, <1>11 DEF Step

\* No transaction is collected twice, nor while it is still being read.
THEOREM TransactionsCollectedOnce == Spec => []TransactionsDistinct
<1>1. Init => HashInv
  <2> SUFFICES ASSUME Init
               PROVE  HashInv
    OBVIOUS
  <2>1. transactionTraces = << >>
    BY DEF Init
  <2>2. TraceInv
    BY InitType DEF Init, TraceInv, SystemCallFlag
  <2> QED BY <2>1, <2>2 DEF HashInv
<1>2. HashInv => TransactionsDistinct
  <2> SUFFICES ASSUME HashInv
               PROVE  TransactionsDistinct
    OBVIOUS
  <2>1. /\ \A k \in 1..Len(transactionTraces) : transactionTraces[k].hash \in Nat
        /\ Len(transactionTraces) \in Nat /\ tracesSeen \in Nat
    BY HashesAreNumbers DEF HashInv, TraceInv
  <2> QED BY <2>1 DEF HashInv, TraceInv, TransactionsDistinct
<1> QED BY <1>1, <1>2, HashStep, SomeLines, PTL DEF AnySpec

-----------------------------------------------------------------------------
(***************************************************************************)
(* The blocks returned.                                                    *)
(***************************************************************************)
\* A returned block that was read line by line came from a BEGIN_BLOCK line that
\* is not the one of the active block, holds transactions that ended under it
\* and names a last irreversible block that is not after it.
Sound(b) ==
    b.raw # Nil =>
        /\ b.seq \in Nat /\ b.seq <= blocksSeen
        /\ currentBlock # Nil => b.seq < blocksSeen
        /\ \A k \in 1..Len(b.raw.trxs) : b.raw.trxs[k].done = b.seq
        /\ b.lib <= b.num \/ b.lib = FirstStreamable

BlockInv ==
    /\ TypeInv
    /\ \E S : returned \in Seq(S)
    /\ currentBlock # Nil =>
          /\ currentBlock.seq = blocksSeen
          /\ \A k \in 1..Len(transactionTraces) : transactionTraces[k].done = blocksSeen
    /\ \A b \in 1..Len(returned) : Sound(returned[b])
    /\ ReturnedInOrder

\* Appending a block keeps what holds of those before.
LEMMA ReturnStep ==
    ASSUME BlockInv, NEW b, returned' = Append(returned, b),
           UNCHANGED blocksSeen,
           currentBlock' # Nil => currentBlock # Nil,
           Sound(b)',
           b.raw # Nil => currentBlock # Nil /\ b.seq = blocksSeen
    PROVE  /\ (\E S : returned \in Seq(S))'
           /\ \A k \in 1..Len(returned') : Sound(returned[k])'
           /\ ReturnedInOrder'
<1>1. /\ \E S : returned' \in Seq(S)
      /\ Len(returned) \in Nat /\ Len(returned') = Len(returned) + 1
      /\ \A k \in 1..Len(returned) : returned'[k] = returned[k]
      /\ returned'[Len(returned) + 1] = b
  <2>1. \E S : returned \in Seq(S)
    BY Zenon DEF BlockInv
  <2>2. PICK s : s = returned
    OBVIOUS
  <2>3. /\ \E S : Append(s, b) \in Seq(S)
        /\ Len(s) \in Nat /\ Len(Append(s, b)) = Len(s) + 1
        /\ \A k \in 1..Len(s) : Append(s, b)[k] = s[k]
        /\ Append(s, b)[Len(s) + 1] = b
    <3>1. \E S : s \in Seq(S)
      BY <2>1, <2>2, Zenon
    <3> QED BY <3>1, AppendAny
  <2> QED BY <2>2, <2>3, Zenon
<1>2. \A k \in 1..Len(returned') : k \in 1..Len(returned) \/ k = Len(returned) + 1
  BY <1>1
<1>3. ASSUME NEW k \in 1..Len(returned')
      PROVE  Sound(returned[k])'
  <2>1. CASE k \in 1..Len(returned)
    <3>1. Sound(returned[k]) /\ returned'[k] = returned[k]
      BY <1>1, <2>1 DEF BlockInv
    <3> QED BY <3>1 DEF Sound
  <2>2. CASE k = Len(returned) + 1
    BY <1>1, <2>2 DEF Sound
  <2> QED BY <1>2, <2>1, <2>2
<1>4. ASSUME NEW j \in 1..Len(returned'), NEW k \in 1..Len(returned'),
             j < k, returned'[j].raw # Nil, returned'[k].raw # Nil
      PROVE  returned'[j].seq < returned'[k].seq
  <2>1. j \in 1..Len(returned)
    BY <1>1, <1>4
  <2>2. CASE k \in 1..Len(returned)
    BY <1>1, <1>4, <2>1, <2>2 DEF BlockInv, ReturnedInOrder
  <2>3. CASE k = Len(returned) + 1
    BY <1>1, <1>4, <2>1, <2>3 DEF BlockInv, Sound
  <2> QED BY <1>2, <2>2, <2>3
<1> QED BY <1>1, <1>3, <1>4 DEF ReturnedInOrder

\* What a step that returns nothing has to show.
LEMMA NothingReturned ==
    ASSUME BlockInv, UNCHANGED returned, blocksSeen' \in Nat, blocksSeen' >= blocksSeen,
           currentBlock' # Nil => currentBlock # Nil \/ blocksSeen' > blocksSeen
    PROVE  /\ (\E S : returned \in Seq(S))'
           /\ \A k \in 1..Len(returned') : Sound(returned[k])'
           /\ ReturnedInOrder'
<1>1. blocksSeen \in Nat
  BY DEF BlockInv, TypeInv, TypeOK
<1>2. ASSUME NEW k \in 1..Len(returned')
      PROVE  Sound(returned[k])'
  <2>1. Sound(returned[k])
    BY DEF BlockInv
  <2> QED BY <1>1, <2>1 DEF Sound
<1> QED BY <1>2 DEF BlockInv, ReturnedInOrder

\* BlockInv is kept by every step: only the cases that touch the block could break it.
LEMMA BlockStep ==
    ASSUME BlockInv, [AnyNext]_vars
    PROVE  BlockInv'
<1>1. TypeInv' /\ Step
  BY AllSteps DEF BlockInv
<1>2. /\ blocksSeen \in Nat /\ transactionTraces \in Seq(Trx)
      /\ currentBlock \in Block \cup {Nil}
  BY DEF BlockInv, TypeInv, TypeOK
<1>3. CASE QuietStep
  <2>1. /\ UNCHANGED <<returned, blocksSeen, transactionTraces>>
        /\ currentBlock' # Nil => currentBlock # Nil /\ currentBlock'.seq = currentBlock.seq
    BY <1>3 DEF QuietStep, SameBlock
  <2> QED BY <1>1, <1>2, <2>1, NothingReturned DEF BlockInv
<1>4. CASE SessionBegins
  <2>1. UNCHANGED <<returned, blocksSeen, transactionTraces, currentBlock>>
    BY <1>4 DEF SessionBegins
  <2> QED BY <1>1, <1>2, <2>1, NothingReturned DEF BlockInv
<1>5. CASE BlockBegins
  <2>1. /\ UNCHANGED <<returned, transactionTraces>> /\ transactionTraces = << >>
        /\ blocksSeen' = blocksSeen + 1 /\ currentBlock'.seq = blocksSeen'
    BY <1>5 DEF BlockBegins, CanBeginBlock
  <2> QED BY <1>1, <1>2, <2>1, NothingReturned DEF BlockInv
<1>6. CASE BlockAbandoned
  <2>1. UNCHANGED <<returned, blocksSeen>> /\ currentBlock' = Nil
    BY <1>6 DEF BlockAbandoned
  <2> QED BY <1>1, <1>2, <2>1, NothingReturned DEF BlockInv
<1>7. CASE BlockEnds
  <2>1. /\ UNCHANGED blocksSeen /\ currentBlock' = Nil /\ currentBlock # Nil
        /\ currentBlock \in Block
    BY <1>2, <1>7 DEF BlockEnds
  <2>2. CASE UNCHANGED returned
    BY <1>1, <1>2, <2>1, <2>2, NothingReturned DEF BlockInv
  <2>3. CASE ~UNCHANGED returned
    <3>1. PICK lib, first, normal :
             /\ normal = NormalizeInPlace(Assembled, proto, first).block
             /\ lib <= Assembled.num \/ lib = FirstStreamable
             /\ returned' = Append(returned, Finished(normal, lib))
      BY <1>7, <2>3, Zenon DEF BlockEnds
    <3>2. PICK b : b = Finished(normal, lib)
      OBVIOUS
    <3>3. /\ Assembled.seq = blocksSeen /\ Assembled.trxs = transactionTraces
      BY <2>1 DEF Assembled, Block, BlockInv
    <3>4. /\ b.num = Assembled.num /\ b.lib = lib /\ b.seq = blocksSeen
          /\ b.raw.trxs = transactionTraces
      BY <3>2, <3>3 DEF Finished
    <3>5. Sound(b)'
      BY <1>2, <2>1, <3>1, <3>4 DEF Sound, BlockInv
    <3> QED BY <1>1, <2>1, <3>1, <3>2, <3>4, <3>5, ReturnStep DEF BlockInv
  <2> QED BY <2>2, <2>3
<1>8. CASE BlockAtOnce
  <2>1. PICK b : returned' = Append(returned, b) /\ b.raw = Nil
    <3>1. PICK n, lib : returned' = Append(returned, [num |-> n, lib |-> lib,
                            block |-> Nil, seq |-> 0, raw |-> Nil])
      BY <1>8 DEF BlockAtOnce
    <3> QED BY <3>1
  <2>2. UNCHANGED <<blocksSeen, currentBlock, transactionTraces>>
    BY <1>8 DEF BlockAtOnce
  <2>3. Sound(b)'
    BY <2>1 DEF Sound
  <2>4. /\ (\E S : returned \in Seq(S))'
        /\ \A k \in 1..Len(returned') : Sound(returned[k])'
        /\ ReturnedInOrder'
    BY <2>1, <2>2, <2>3, ReturnStep
  <2> QED BY <1>1, <2>2, <2>4 DEF BlockInv
<1>9. CASE TraceBegins
  <2>1. UNCHANGED <<returned, blocksSeen, transactionTraces, currentBlock>>
    BY <1>9 DEF TraceBegins
  <2> QED BY <1>1, <1>2, <2>1, NothingReturned DEF BlockInv
<1>10. CASE TraceDropped
  <2>1. UNCHANGED <<returned, blocksSeen, transactionTraces, currentBlock>>
    BY <1>10 DEF TraceDropped
  <2> QED BY <1>1, <1>2, <2>1, NothingReturned DEF BlockInv
<1>11. CASE TraceEnds
  <2>1. UNCHANGED <<returned, blocksSeen, currentBlock>>
    BY <1>11 DEF TraceEnds
  <2>2. currentBlock' # Nil =>
           \A k \in 1..Len(transactionTraces') : transactionTraces'[k].done = blocksSeen'
    <3> SUFFICES ASSUME currentBlock' # Nil, NEW k \in 1..Len(transactionTraces')
                 PROVE  transactionTraces'[k].done = blocksSeen
      BY <2>1
    <3>1. PICK trace \in Trx : /\ trace.done = blocksSeen
                               /\ transactionTraces' = Append(transactionTraces, trace)
      BY <1>11 DEF TraceEnds
    <3>2. /\ Len(transactionTraces') = Len(transactionTraces) + 1
          /\ Len(transactionTraces) \in Nat
          /\ \A i \in 1..Len(transactionTraces) :
                transactionTraces'[i] = transactionTraces[i]
          /\ transactionTraces'[Len(transactionTraces) + 1] = trace
      BY <1>2, <3>1, AppendProperties
    <3>3. CASE k \in 1..Len(transactionTraces)
      BY <2>1, <3>2, <3>3 DEF BlockInv
    <3>4. CASE k = Len(transactionTraces) + 1
      BY <3>1, <3>2, <3>4
    <3> QED BY <3>2, <3>3, <3>4
  <2> QED BY <1>1, <1>2, <2>1, <2>2, NothingReturned DEF BlockInv
<1> QED BY <1>1, <1>3, <1>4, <1>5, <1>6, <1>7, <1>8, <1>9, <1>10, <1>11 DEF Step

\* Nothing is returned and no block is active at first.
LEMMA InitBlock ==
    ASSUME Init
    PROVE  BlockInv
<1>1. returned = << >> /\ currentBlock = Nil
  BY DEF Init
<1>2. \E S : returned \in Seq(S)
  BY <1>1, EmptySeqType
<1> QED BY <1>1, <1>2, InitType DEF BlockInv, ReturnedInOrder

\* BlockInv holds from the start.
LEMMA BlockAlways == AnySpec => []BlockInv
BY InitBlock, BlockStep, PTL DEF AnySpec

\* Transactions do not cross blocks: those collected while a block is active, and
\* those of a returned block, ended between its BEGIN_BLOCK and its END_BLOCK.
THEOREM TransactionsStayInTheirBlock == Spec => []TransactionsEndInTheirBlock
<1>1. BlockInv => TransactionsEndInTheirBlock
  BY DEF BlockInv, Sound, TransactionsEndInTheirBlock
<1> QED BY <1>1, BlockAlways, SomeLines, PTL

\* ReadBlock returns blocks in the order of their BEGIN_BLOCK lines, and at most
\* one for each.
THEOREM BlocksReturnedInOrder == Spec => []ReturnedInOrder
<1>1. BlockInv => ReturnedInOrder
  BY DEF BlockInv
<1> QED BY <1>1, BlockAlways, SomeLines, PTL

\* No block read line by line names a last irreversible block after itself,
\* whatever the node reports as finalized and wherever the chain starts.
THEOREM LibBehindBlock == Spec => []LibNotAhead
<1>1. BlockInv => LibNotAhead
  BY DEF BlockInv, Sound, LibNotAhead
<1> QED BY <1>1, BlockAlways, SomeLines, PTL

-----------------------------------------------------------------------------
(***************************************************************************)
(* The version of the blocks returned.  A version 2 block can be active    *)
(* only since an INIT line raised the upgrade flag, which no line lowers;  *)
(* normalizeInPlace never makes a version 2 block of another one.          *)
(***************************************************************************)
\* What the passes rewrite: a record with, among others, these fields.
Record(b) ==
    \E D, R : b \in [D -> R] /\ {"ver", "trxs", "sys", "changes"} \subseteq D

\* A block is such a record.
LEMMA RecordBlock == \A b \in Block : Record(b)
<1> SUFFICES ASSUME NEW b \in Block
             PROVE  Record(b)
  OBVIOUS
<1> DEFINE D == {"num", "ver", "seq", "trxs", "sys", "changes"}
           R == {b[f] : f \in D}
<1>1. b = [f \in D |-> b[f]]
  BY DEF Block
<1>2. b \in [D -> R]
  BY <1>1
<1> QED BY <1>2 DEF Record

\* A pass that rewrites the transactions keeps the version and the system calls.
LEMMA RecordTrxs ==
    ASSUME NEW b, Record(b), NEW trxs
    PROVE  /\ Record([b EXCEPT !.trxs = trxs])
           /\ [b EXCEPT !.trxs = trxs].ver = b.ver
           /\ [b EXCEPT !.trxs = trxs].sys = b.sys
<1>1. PICK D, R : b \in [D -> R] /\ {"ver", "trxs", "sys", "changes"} \subseteq D
  BY DEF Record
<1> DEFINE T == R \cup {trxs}
<1>2. /\ [b EXCEPT !.trxs = trxs] \in [D -> T]
      /\ [b EXCEPT !.trxs = trxs].ver = b.ver
      /\ [b EXCEPT !.trxs = trxs].sys = b.sys
  BY <1>1
<1> QED BY <1>1, <1>2 DEF Record

\* Reordering rewrites transactions and changes, and nothing else.
LEMMA RecordReorder ==
    ASSUME NEW b, Record(b), NEW first
    PROVE  LET ordered == ReorderTransactionsAndRenumberOrdinals(b, first)
           IN  Record(ordered) /\ ordered.ver = b.ver /\ ordered.sys = b.sys
<1>1. PICK trxs, changes : ReorderTransactionsAndRenumberOrdinals(b, first) =
                               [b EXCEPT !.trxs = trxs, !.changes = changes]
  BY Zenon DEF ReorderTransactionsAndRenumberOrdinals
<1>2. PICK D, R : b \in [D -> R] /\ {"ver", "trxs", "sys", "changes"} \subseteq D
  BY DEF Record
<1> DEFINE T == R \cup {trxs, changes}
           new == [b EXCEPT !.trxs = trxs, !.changes = changes]
<1>3. new \in [D -> T] /\ new.ver = b.ver /\ new.sys = b.sys
  BY <1>2
<1>4. ReorderTransactionsAndRenumberOrdinals(b, first) = new
  BY <1>1
<1> HIDE DEF T, new
<1>5. Record(new)
  BY <1>2, <1>3 DEF Record
<1> QED BY <1>3, <1>4, <1>5

\* The upgrade makes a version 2 block a version 3 one.
LEMMA RecordUpgrade ==
    ASSUME NEW b, Record(b), b.ver = 2
    PROVE  UpgradeBlockV2ToV3(b).ver = 3 /\ UpgradeBlockV2ToV3(b).sys = b.sys
<1>1. PICK trxs : UpgradeBlockV2ToV3(b) = [b EXCEPT !.ver = 3, !.trxs = trxs]
  BY Zenon DEF UpgradeBlockV2ToV3
<1>2. PICK D, R : b \in [D -> R] /\ {"ver", "trxs", "sys", "changes"} \subseteq D
  BY DEF Record
<1> QED BY <1>1, <1>2

\* No pass changes the version of a block but the upgrade, and none its system calls.
LEMMA NormalizedBlock ==
    ASSUME NEW block \in Block, NEW features, NEW first,
           NormalizeInPlace(block, features, first).ok
    PROVE  /\ NormalizeInPlace(block, features, first).block.ver =
                  IF features.upgrade /\ block.ver = 2 THEN 3 ELSE block.ver
           /\ NormalizeInPlace(block, features, first).block.sys = block.sys
<1> DEFINE reverted == MapSeq(block.trxs, Revert)
           combined == IF features.combine THEN CombinePolygonSystemTransactions(reverted)
                       ELSE [trxs |-> reverted, systemHashes |-> {}]
           whole == [block EXCEPT !.trxs = combined.trxs]
           ordered == IF features.reorder
                      THEN ReorderTransactionsAndRenumberOrdinals(whole, first) ELSE whole
           indexed == PopulateLogBlockIndices(MapSeq(ordered.trxs, PopulateTrxStatus),
                                              combined.systemHashes)
           done == [ordered EXCEPT !.trxs = indexed.trxs]
           upgrade == features.upgrade /\ done.ver = 2
<1>1. NormalizeInPlace(block, features, first) =
         IF indexed.ok /\ (upgrade => CanUpgradeV2ToV3(done.trxs))
         THEN [ok |-> TRUE,
               block |-> IF upgrade THEN UpgradeBlockV2ToV3(done) ELSE done]
         ELSE [ok |-> FALSE, block |-> done]
  BY Zenon DEF NormalizeInPlace, Arrange, Finish
<1> HIDE DEF reverted, combined
<1>2. Record(whole) /\ whole.ver = block.ver /\ whole.sys = block.sys
  BY RecordBlock, RecordTrxs
<1> HIDE DEF whole
<1>3. Record(ordered) /\ ordered.ver = block.ver /\ ordered.sys = block.sys
  <2>1. CASE features.reorder
    BY <1>2, <2>1, RecordReorder
  <2>2. CASE ~features.reorder
    BY <1>2, <2>2
  <2> QED BY <2>1, <2>2
<1> HIDE DEF ordered
<1> HIDE DEF indexed
<1>4. Record(done) /\ done.ver = block.ver /\ done.sys = block.sys
  BY <1>3, RecordTrxs
<1> HIDE DEF done
<1>5. NormalizeInPlace(block, features, first).block =
         IF upgrade THEN UpgradeBlockV2ToV3(done) ELSE done
  <2> DEFINE passes == indexed.ok /\ (upgrade => CanUpgradeV2ToV3(done.trxs))
             final == IF upgrade THEN UpgradeBlockV2ToV3(done) ELSE done
             result == NormalizeInPlace(block, features, first)
  <2>1. result.ok /\ result = IF passes THEN [ok |-> TRUE, block |-> final]
                              ELSE [ok |-> FALSE, block |-> done]
    BY <1>1
  <2> HIDE DEF passes, final, result
  <2>2. CASE passes
    <3>1. result = [ok |-> TRUE, block |-> final]
      BY <2>1, <2>2, Zenon
    <3>2. result.block = final
      BY <3>1, Zenon
    <3> QED BY <3>2 DEF final, result
  <2>3. CASE ~passes
    <3>1. result = [ok |-> FALSE, block |-> done]
      BY <2>1, <2>3, Zenon
    <3>2. result.ok = FALSE
      BY <3>1, Zenon
    <3> QED BY <2>1, <3>2, Zenon
  <2> QED BY <2>2, <2>3
<1>6. CASE upgrade
  BY <1>4, <1>5, <1>6, RecordUpgrade
<1>7. CASE ~upgrade
  BY <1>4, <1>5, <1>7
<1> QED BY <1>6, <1>7

VersionInv ==
    /\ BlockInv
    /\ proto.ver = 2 => proto.upgrade
    /\ currentBlock # Nil /\ currentBlock.ver = 2 => proto.upgrade
    /\ ReturnedBlocksAreVersion3

\* Appending a version 3 block, or the block of a BLOCK line.
LEMMA ReturnVersion ==
    ASSUME VersionInv, NEW b, returned' = Append(returned, b),
           b.block # Nil => b.block.ver = 3
    PROVE  ReturnedBlocksAreVersion3'
<1>1. PICK s : s = returned
  OBVIOUS
<1>2. \E S : s \in Seq(S)
  BY <1>1, Zenon DEF VersionInv, BlockInv
<1>3. /\ Len(s) \in Nat /\ Len(returned') = Len(s) + 1
      /\ \A k \in 1..Len(s) : returned'[k] = s[k]
      /\ returned'[Len(s) + 1] = b
  <2>1. /\ Len(s) \in Nat /\ Len(Append(s, b)) = Len(s) + 1
        /\ \A k \in 1..Len(s) : Append(s, b)[k] = s[k]
        /\ Append(s, b)[Len(s) + 1] = b
    BY <1>2, AppendAny
  <2> QED BY <1>1, <2>1, Zenon
<1>4. ASSUME NEW k \in 1..Len(returned'), returned'[k].block # Nil
      PROVE  returned'[k].block.ver = 3
  <2>1. CASE k \in 1..Len(s)
    BY <1>1, <1>3, <1>4, <2>1 DEF VersionInv, ReturnedBlocksAreVersion3
  <2>2. CASE k = Len(s) + 1
    BY <1>3, <1>4, <2>2
  <2> QED BY <1>3, <2>1, <2>2
<1> QED BY <1>4 DEF ReturnedBlocksAreVersion3

\* VersionInv is kept by every step.
LEMMA VersionStep ==
    ASSUME VersionInv, [AnyNext]_vars
    PROVE  VersionInv'
<1>1. BlockInv' /\ Step
  BY AllSteps, BlockStep DEF VersionInv, BlockInv
<1>2. /\ proto.ver = 2 => proto.upgrade
      /\ currentBlock # Nil /\ currentBlock.ver = 2 => proto.upgrade
      /\ ReturnedBlocksAreVersion3
  BY Zenon DEF VersionInv
<1>3. CASE QuietStep
  <2>1. /\ UNCHANGED <<returned, proto>>
        /\ currentBlock' # Nil => currentBlock # Nil /\ currentBlock'.ver = currentBlock.ver
    BY <1>3, Zenon DEF QuietStep, SameBlock
  <2> QED BY <1>1, <1>2, <2>1, Zenon DEF VersionInv, ReturnedBlocksAreVersion3
<1>4. CASE SessionBegins
  <2>1. /\ proto.upgrade \/ proto'.ver = 2 => proto'.upgrade
        /\ UNCHANGED <<returned, currentBlock>>
    BY <1>4, Zenon DEF SessionBegins
  <2> QED BY <1>1, <1>2, <2>1, Zenon DEF VersionInv, ReturnedBlocksAreVersion3
<1>5. CASE BlockBegins
  <2>1. /\ UNCHANGED <<returned, proto>> /\ currentBlock'.ver = proto.ver
    BY <1>5, Zenon DEF BlockBegins
  <2> QED BY <1>1, <1>2, <2>1, Zenon DEF VersionInv, ReturnedBlocksAreVersion3
<1>6. CASE BlockAbandoned
  <2>1. /\ UNCHANGED <<returned, proto>> /\ currentBlock' = Nil
    BY <1>6, Zenon DEF BlockAbandoned
  <2> QED BY <1>1, <1>2, <2>1, Zenon DEF VersionInv, ReturnedBlocksAreVersion3
<1>7. CASE BlockEnds
  <2>1. UNCHANGED proto /\ currentBlock' = Nil /\ currentBlock # Nil
    BY <1>7, Zenon DEF BlockEnds
  <2>2. CASE UNCHANGED returned
    BY <1>1, <1>2, <2>1, <2>2, Zenon DEF VersionInv, ReturnedBlocksAreVersion3
  <2>3. CASE ~UNCHANGED returned
    <3>1. PICK lib, first :
             /\ NormalizeInPlace(Assembled, proto, first).ok
             /\ returned' = Append(returned,
                    Finished(NormalizeInPlace(Assembled, proto, first).block, lib))
      BY <1>7, <2>3, Zenon DEF BlockEnds
    <3>2. PICK block, features : block = Assembled /\ features = proto
      OBVIOUS
    <3>3. PICK b : b = Finished(NormalizeInPlace(block, features, first).block, lib)
      OBVIOUS
    <3>4. currentBlock \in Block /\ transactionTraces \in Seq(Trx)
          /\ systemCalls \in Seq(EndedSystemCall)
      BY <2>1 DEF VersionInv, BlockInv, TypeInv, TypeOK
    <3>5. block \in Block /\ block.ver = currentBlock.ver /\ block.ver \in {2, 3}
      BY <3>2, <3>4 DEF Assembled, Block
    <3>6. NormalizeInPlace(block, features, first).ok
      BY <3>1, <3>2, Zenon
    <3>7. NormalizeInPlace(block, features, first).block.ver =
             IF features.upgrade /\ block.ver = 2 THEN 3 ELSE block.ver
      BY <3>5, <3>6, NormalizedBlock
    <3>8. block.ver = 2 => features.upgrade
      BY <1>2, <2>1, <3>2, <3>5, Zenon
    <3>9. b.block.ver = 3
      BY <3>3, <3>5, <3>7, <3>8 DEF Finished
    <3>10. returned' = Append(returned, b)
      BY <3>1, <3>2, <3>3, Zenon
    <3>11. ReturnedBlocksAreVersion3'
      BY <3>9, <3>10, ReturnVersion
    <3> QED BY <1>1, <1>2, <2>1, <3>11, Zenon DEF VersionInv
  <2> QED BY <2>2, <2>3
<1>8. CASE BlockAtOnce
  <2>1. PICK b : returned' = Append(returned, b) /\ b.block = Nil
    <3>1. PICK n, lib : returned' = Append(returned, [num |-> n, lib |-> lib,
                            block |-> Nil, seq |-> 0, raw |-> Nil])
      BY <1>8 DEF BlockAtOnce
    <3> QED BY <3>1
  <2>2. UNCHANGED <<proto, currentBlock>>
    BY <1>8, Zenon DEF BlockAtOnce
  <2>3. ReturnedBlocksAreVersion3'
    BY <2>1, ReturnVersion
  <2> QED BY <1>1, <1>2, <2>2, <2>3, Zenon DEF VersionInv
<1>9. CASE TraceBegins
  <2>1. UNCHANGED <<returned, proto, currentBlock>>
    BY <1>9, Zenon DEF TraceBegins
  <2> QED BY <1>1, <1>2, <2>1, Zenon DEF VersionInv, ReturnedBlocksAreVersion3
<1>10. CASE TraceDropped
  <2>1. UNCHANGED <<returned, proto, currentBlock>>
    BY <1>10, Zenon DEF TraceDropped
  <2> QED BY <1>1, <1>2, <2>1, Zenon DEF VersionInv, ReturnedBlocksAreVersion3
<1>11. CASE TraceEnds
  <2>1. UNCHANGED <<returned, proto, currentBlock>>
    BY <1>11, Zenon DEF TraceEnds
  <2> QED BY <1>1, <1>2, <2>1, Zenon DEF VersionInv, ReturnedBlocksAreVersion3
<1> QED BY <1>1, <1>3, <1>4, <1>5, <1>6, <1>7, <1>8, <1>9, <1>10, <1>11 DEF Step

\* Every block ReadBlock returns from the line protocol is of version 3, although
\* a 2.0 session builds version 2 blocks and INIT lines may come at any time.
THEOREM OnlyVersion3Returned == Spec => []ReturnedBlocksAreVersion3
<1>1. Init => VersionInv
  <2> SUFFICES ASSUME Init
               PROVE  VersionInv
    OBVIOUS
  <2>1. returned = << >> /\ currentBlock = Nil /\ proto.ver = 0
    BY DEF Init
  <2>2. BlockInv
    BY InitBlock
  <2>3. ReturnedBlocksAreVersion3
    BY <2>1 DEF ReturnedBlocksAreVersion3
  <2> QED BY <2>1, <2>2, <2>3 DEF VersionInv
<1>2. VersionInv => ReturnedBlocksAreVersion3
  BY Zenon DEF VersionInv
<1> QED BY <1>1, <1>2, VersionStep, SomeLines, PTL DEF AnySpec
-----------------------------------------------------------------------------
(***************************************************************************)
(* The calls of the active trace and their logs, case by case over         *)
(* CallsStep and CollectedStep (NextCalls).                                *)
(***************************************************************************)
\* The calls of a trace are numbered 1, 2, ...
Indexed(calls) == \A i \in 1..Len(calls) : calls[i].index = i

\* The state-reverted pass does not number the calls again.
LEMMA RevertedIndexed ==
    ASSUME NEW calls \in Seq(Call), Indexed(calls)
    PROVE  Indexed(PopulateStateReverted(calls))
<1>1. \A c \in Call : \A b : [c EXCEPT !.stateReverted = b].index = c.index
  BY DEF Call
<1>2. \A i \in 1..Len(calls) : calls[i] \in Call
  OBVIOUS
<1>3. ASSUME NEW i \in 1..Len(calls)
      PROVE  PopulateStateReverted(calls)[i].index = i
  BY <1>1, <1>2 DEF PopulateStateReverted, Indexed
<1> QED BY <1>3, RevertedType DEF Indexed

\* The call of the active trace are where their index says after every step.
LEMMA ActiveIndexed ==
    ASSUME TypeInv, currentTrace # Nil => Indexed(currentTrace.calls), CallsStep,
           currentTrace' # Nil
    PROVE  Indexed(currentTrace'.calls)
<1>1. CASE UNCHANGED currentTrace
  BY <1>1 DEF Indexed
<1>2. currentTrace # Nil => currentTrace.calls \in Seq(Call)
  BY DEF TypeInv, TypeOK, Trx
<1>3. CASE CallRewritten
  BY <1>2, <1>3 DEF CallRewritten, Indexed
<1>4. CASE CallAdded
  BY <1>2, <1>4 DEF CallAdded, Indexed
<1>5. CASE FirstCall
  BY <1>5 DEF FirstCall, Indexed
<1> QED BY <1>1, <1>3, <1>4, <1>5 DEF CallsStep

\* getCall returns the call its line names: EVM_RUN_CALL lines that skip or repeat an
\* index never get into a trace, and no pass numbers the calls again before the block
\* is assembled.
THEOREM CallsFoundByIndex == Spec => []CallsAtTheirIndex
<1> DEFINE IInv == TypeInv /\ CallsAtTheirIndex
<1>1. Init => IInv
  <2>1. Init => CallsAtTheirIndex
    BY DEF Init, CallsAtTheirIndex
  <2> QED BY <2>1, InitType
<1>2. IInv /\ [AnyNext]_vars => IInv'
  <2> SUFFICES ASSUME IInv, [AnyNext]_vars PROVE CallsAtTheirIndex'
    BY AllSteps
  <2>1. /\ TypeInv /\ CallsStep /\ CollectedStep
        /\ transactionTraces \in Seq(Trx)
    BY NextCalls DEF TypeInv, TypeOK
  <2>2. /\ currentTrace # Nil => Indexed(currentTrace.calls)
        /\ \A k \in 1..Len(transactionTraces) : Indexed(transactionTraces[k].calls)
    BY DEF CallsAtTheirIndex, Indexed
  <2>3. currentTrace' # Nil => Indexed(currentTrace'.calls)
    BY <2>1, <2>2, ActiveIndexed
  <2>4. \A k \in 1..Len(transactionTraces') : Indexed(transactionTraces'[k].calls)
    <3>1. CASE UNCHANGED transactionTraces \/ transactionTraces' = << >>
      BY <2>2, <3>1
    <3>2. CASE ~(UNCHANGED transactionTraces \/ transactionTraces' = << >>)
      <4>1. PICK trace \in Trx :
                /\ currentTrace # Nil
                /\ trace.calls = PopulateStateReverted(currentTrace.calls)
                /\ transactionTraces' = Append(transactionTraces, trace)
        BY <2>1, <3>2 DEF CollectedStep
      <4>2. currentTrace.calls \in Seq(Call)
        BY <4>1 DEF TypeInv, TypeOK, Trx
      <4>3. Indexed(trace.calls)
        BY <2>2, <4>1, <4>2, RevertedIndexed
      <4>4. /\ Len(transactionTraces') = Len(transactionTraces) + 1
            /\ Len(transactionTraces) \in Nat
            /\ \A k \in 1..Len(transactionTraces) :
                   transactionTraces'[k] = transactionTraces[k]
            /\ transactionTraces'[Len(transactionTraces) + 1] = trace
        BY <2>1, <4>1, AppendProperties
      <4>5. \A k \in 1..Len(transactionTraces') :
                k \in 1..Len(transactionTraces) \/ k = Len(transactionTraces) + 1
        BY <4>4
      <4> QED BY <2>2, <4>3, <4>4, <4>5
    <3> QED BY <3>1, <3>2
  <2> QED BY <2>3, <2>4 DEF CallsAtTheirIndex, Indexed
<1>3. IInv => CallsAtTheirIndex
  OBVIOUS
<1> QED BY <1>1, <1>2, <1>3, SomeLines, PTL DEF AnySpec

-----------------------------------------------------------------------------
\* The logs of some calls, call after call.
LogsOf(calls) == [i \in 1..Len(calls) |-> calls[i].logs]

\* They are count logs, numbered from 0 in some order.
Counted(calls, count) ==
    \A F : Concatenates(F, LogsOf(calls)) =>
        /\ Len(F[Len(calls)]) = count
        /\ {l.index : l \in Elements(F[Len(calls)])} = 0..(count - 1)

LEMMA LogsOfType ==
    ASSUME NEW calls \in Seq(Call)
    PROVE  LogsOf(calls) \in Seq(Seq(Log)) /\ Len(LogsOf(calls)) = Len(calls)
<1>1. \A i \in 1..Len(calls) : calls[i].logs \in Seq(Log)
  <2>1. \A i \in 1..Len(calls) : calls[i] \in Call
    OBVIOUS
  <2> QED BY <2>1, Zenon DEF Call
<1> QED BY <1>1 DEF LogsOf

\* One more log, of the next index.
LEMMA OneMoreLog ==
    ASSUME NEW calls \in Seq(Call), NEW count \in Nat, Counted(calls, count),
           NEW i \in 1..Len(calls), NEW log \in Log, log.index = count,
           NEW new \in Seq(Call), Len(new) = Len(calls),
           LogsOf(new) = [LogsOf(calls) EXCEPT ![i] = Append(@, log)]
    PROVE  Counted(new, count + 1)
<1> SUFFICES ASSUME NEW G, Concatenates(G, LogsOf(new))
             PROVE  /\ Len(G[Len(calls)]) = count + 1
                    /\ {l.index : l \in Elements(G[Len(calls)])} = 0..count
  BY DEF Counted
<1>1. LogsOf(calls) \in Seq(Seq(Log)) /\ Len(LogsOf(calls)) = Len(calls)
  BY LogsOfType
<1>2. PICK F : Concatenates(F, LogsOf(calls))
  BY <1>1, ConcatenationExists
<1>3. Gains(G[Len(calls)], F[Len(calls)], log)
  <2> DEFINE ss == LogsOf(calls)
  <2>1. /\ ss \in Seq(Seq(Log)) /\ i \in 1..Len(ss) /\ Concatenates(F, ss)
        /\ Concatenates(G, [ss EXCEPT ![i] = Append(@, log)])
    BY <1>1, <1>2
  <2> HIDE DEF ss
  <2>2. Gains(G[Len(ss)], F[Len(ss)], log)
    BY <2>1, OneAppended
  <2> QED BY <1>1, <2>2 DEF ss
<1>4. /\ Len(F[Len(calls)]) = count
      /\ {l.index : l \in Elements(F[Len(calls)])} = 0..(count - 1)
  BY <1>2 DEF Counted
<1>5. {l.index : l \in Elements(G[Len(calls)])} =
          {l.index : l \in Elements(F[Len(calls)])} \cup {count}
  BY <1>3 DEF Gains
<1>6. 0..count = 0..(count - 1) \cup {count}
  OBVIOUS
<1> QED BY <1>3, <1>4, <1>5, <1>6 DEF Gains

\* One more call, without logs.
LEMMA OneMoreCall ==
    ASSUME NEW calls \in Seq(Call), Len(calls) # 0, NEW count, Counted(calls, count),
           NEW call \in Call, call.logs = << >>
    PROVE  Counted(Append(calls, call), count)
<1>1. LogsOf(calls) \in Seq(Seq(Log)) /\ Len(LogsOf(calls)) = Len(calls)
  BY LogsOfType
<1>2. LogsOf(Append(calls, call)) = Append(LogsOf(calls), << >>)
  <2> DEFINE s == LogsOf(Append(calls, call))
             t == Append(LogsOf(calls), << >>)
  <2>1. Append(calls, call) \in Seq(Call) /\ Len(Append(calls, call)) = Len(calls) + 1
    OBVIOUS
  <2>2. s \in Seq(Seq(Log)) /\ Len(s) = Len(calls) + 1
    BY <2>1, LogsOfType
  <2>3. t \in Seq(Seq(Log)) /\ Len(t) = Len(calls) + 1
    BY <1>1
  <2>4. ASSUME NEW k \in 1..(Len(calls) + 1) PROVE s[k] = t[k]
    <3>1. CASE k \in 1..Len(calls)
      <4>1. s[k] = calls[k].logs
        BY <2>1, <3>1 DEF LogsOf
      <4>2. t[k] = LogsOf(calls)[k]
        BY <1>1, <3>1
      <4> QED BY <3>1, <4>1, <4>2 DEF LogsOf
    <3>2. CASE k = Len(calls) + 1
      <4>1. s[k] = call.logs
        BY <2>1, <3>2 DEF LogsOf
      <4>2. t[k] = << >>
        BY <1>1, <3>2
      <4> QED BY <4>1, <4>2
    <3>3. k \in 1..Len(calls) \/ k = Len(calls) + 1
      <4>1. Len(calls) \in Nat
        OBVIOUS
      <4> QED BY <4>1
    <3> QED BY <3>1, <3>2, <3>3
  <2> HIDE DEF s, t
  <2>5. s = t
    BY <2>2, <2>3, <2>4, SeqEqual
  <2> QED BY <2>5 DEF s, t
<1> SUFFICES ASSUME NEW G, Concatenates(G, LogsOf(Append(calls, call)))
             PROVE  /\ Len(G[Len(calls) + 1]) = count
                    /\ {l.index : l \in Elements(G[Len(calls) + 1])} = 0..(count - 1)
  BY DEF Counted
<1>3. PICK F : Concatenates(F, LogsOf(calls))
  BY <1>1, ConcatenationExists
<1>4. G[Len(calls) + 1] = F[Len(calls)]
  BY <1>1, <1>2, <1>3, EmptyAppended
<1> QED BY <1>3, <1>4 DEF Counted

\* The first call of a trace has no log.
LEMMA FirstCallCounted ==
    ASSUME NEW call \in Call, call.logs = << >>
    PROVE  Counted(<<call>>, 0)
<1> SUFFICES ASSUME NEW F, Concatenates(F, LogsOf(<<call>>))
             PROVE  Len(F[1]) = 0 /\ {l.index : l \in Elements(F[1])} = 0..(0 - 1)
  BY DEF Counted
<1>1. LogsOf(<<call>>) = << << >> >>
  BY DEF LogsOf
<1>2. F[1] = << >>
  BY <1>1 DEF Concatenates
<1> QED BY <1>2 DEF Elements

\* The logs of the active trace are counted after every step.
LEMMA CountedStep ==
    ASSUME TypeInv, TypeInv', currentTrace # Nil => Counted(currentTrace.calls, currentTraceLogCount),
           CallsStep, currentTrace' # Nil
    PROVE  Counted(currentTrace'.calls, currentTraceLogCount')
<1>1. CASE UNCHANGED <<currentTrace, currentTraceLogCount>>
  BY <1>1 DEF Counted
<1>2. /\ currentTrace # Nil => currentTrace.calls \in Seq(Call) /\ Len(currentTrace.calls) # 0
      /\ currentTrace'.calls \in Seq(Call) /\ currentTraceLogCount \in Nat
  <2>1. /\ currentTrace \in Trx \cup {Nil} /\ currentTraceLogCount \in Nat
        /\ currentTrace # Nil => Len(currentTrace.calls) >= 1
    BY DEF TypeInv, TypeOK, HasRootCall
  <2>2. currentTrace' \in Trx
    BY DEF TypeInv, TypeOK
  <2>3. \A t \in Trx : t.calls \in Seq(Call)
    BY DEF Trx
  <2>4. currentTrace # Nil => currentTrace.calls \in Seq(Call)
    BY <2>1, <2>3
  <2>5. currentTrace'.calls \in Seq(Call)
    BY <2>2, <2>3
  <2>6. currentTrace # Nil => Len(currentTrace.calls) # 0
    BY <2>1
  <2> QED BY <2>1, <2>4, <2>5, <2>6
<1>3. CASE CallRewritten
  <2> DEFINE calls == currentTrace.calls
             new == currentTrace'.calls
  <2>1. PICK i \in 1..Len(calls), call \in Call :
            /\ new = [calls EXCEPT ![i] = call]
            /\ \/ call.logs = calls[i].logs /\ UNCHANGED currentTraceLogCount
               \/ \E log \in Log :
                     /\ log.index = currentTraceLogCount
                     /\ call.logs = Append(calls[i].logs, log)
                     /\ currentTraceLogCount' = currentTraceLogCount + 1
    BY <1>3 DEF CallRewritten
  <2>2. calls \in Seq(Call) /\ new \in Seq(Call) /\ Counted(calls, currentTraceLogCount)
    BY <1>2, <1>3 DEF CallRewritten
  <2> HIDE DEF calls, new
  <2>3. Len(new) = Len(calls)
    BY <2>1, <2>2
  <2>4. LogsOf(new) = [LogsOf(calls) EXCEPT ![i] = call.logs]
    <3>1. ASSUME NEW j \in 1..Len(calls)
          PROVE  new[j].logs = [LogsOf(calls) EXCEPT ![i] = call.logs][j]
      <4>1. LogsOf(calls) = [k \in 1..Len(calls) |-> calls[k].logs]
        BY DEF LogsOf
      <4>2. new[j] = IF j = i THEN call ELSE calls[j]
        BY <2>1, <2>2
      <4> QED BY <4>1, <4>2
    <3>2. DOMAIN [LogsOf(calls) EXCEPT ![i] = call.logs] = 1..Len(calls)
      BY DEF LogsOf
    <3>3. LogsOf(new) = [j \in 1..Len(calls) |-> new[j].logs]
      BY <2>3 DEF LogsOf
    <3>4. [LogsOf(calls) EXCEPT ![i] = call.logs] =
              [j \in 1..Len(calls) |-> [LogsOf(calls) EXCEPT ![i] = call.logs][j]]
      BY <3>2
    <3> QED BY <3>1, <3>3, <3>4
  <2>5. CASE call.logs = calls[i].logs /\ UNCHANGED currentTraceLogCount
    <3>1. LogsOf(new) = LogsOf(calls)
      BY <2>4, <2>5 DEF LogsOf
    <3> QED BY <2>2, <2>3, <2>5, <3>1 DEF Counted, new
  <2>6. CASE \E log \in Log :
                 /\ log.index = currentTraceLogCount
                 /\ call.logs = Append(calls[i].logs, log)
                 /\ currentTraceLogCount' = currentTraceLogCount + 1
    <3>1. PICK log \in Log : /\ log.index = currentTraceLogCount
                             /\ call.logs = Append(calls[i].logs, log)
                             /\ currentTraceLogCount' = currentTraceLogCount + 1
      BY <2>6
    <3>2. LogsOf(new) = [LogsOf(calls) EXCEPT ![i] = Append(@, log)]
      BY <2>4, <3>1 DEF LogsOf
    <3> QED BY <1>2, <2>2, <2>3, <3>1, <3>2, OneMoreLog DEF new
  <2> QED BY <2>1, <2>5, <2>6
<1>4. CASE CallAdded
  BY <1>2, <1>4, OneMoreCall DEF CallAdded
<1>5. CASE FirstCall
  BY <1>5, FirstCallCounted DEF FirstCall
<1> QED BY <1>1, <1>3, <1>4, <1>5 DEF CallsStep

\* The logs of a transaction are numbered in the order they arrive, whatever calls they
\* belong to, without gaps or repeats: the counter is reset with every trace and a log
\* line never writes over an earlier one.
THEOREM LogsAreNumberedOnce == Spec => []LogsNumberedOnce
<1> DEFINE IInv == /\ TypeInv
                   /\ currentTrace # Nil => Counted(currentTrace.calls, currentTraceLogCount)
<1>1. Init => IInv
  BY InitType DEF Init
<1>2. IInv /\ [AnyNext]_vars => IInv'
  <2> SUFFICES ASSUME IInv, [AnyNext]_vars, currentTrace' # Nil
               PROVE  Counted(currentTrace'.calls, currentTraceLogCount')
    BY AllSteps DEF Counted
  <2> QED BY AllSteps, NextCalls, CountedStep
<1>3. IInv => LogsNumberedOnce
  <2> SUFFICES ASSUME IInv, currentTrace # Nil
               PROVE  LET logs == FlattenSeq(LogsOf(currentTrace.calls))
                      IN  /\ Len(logs) = currentTraceLogCount
                          /\ {logs[k].index : k \in 1..Len(logs)}
                                 = 0..(currentTraceLogCount - 1)
    BY DEF LogsNumberedOnce, LogsOf
  <2> DEFINE calls == currentTrace.calls
             F == CHOOSE f : Concatenates(f, LogsOf(calls))
  <2>1. calls \in Seq(Call) /\ Len(calls) # 0
    BY DEF TypeInv, TypeOK, HasRootCall, Trx
  <2>2. LogsOf(calls) \in Seq(Seq(Log)) /\ Len(LogsOf(calls)) = Len(calls)
    BY <2>1, LogsOfType
  <2>3. Concatenates(F, LogsOf(calls))
    BY <2>2, ConcatenationExists
  <2>4. FlattenSeq(LogsOf(calls)) = F[Len(calls)]
    BY <2>1, <2>2 DEF FlattenSeq, Concatenates
  <2> HIDE DEF F
  <2>5. /\ Len(F[Len(calls)]) = currentTraceLogCount
        /\ {l.index : l \in Elements(F[Len(calls)])} = 0..(currentTraceLogCount - 1)
    BY <2>3 DEF Counted
  <2>6. \A s : {l.index : l \in Elements(s)} = {s[k].index : k \in 1..Len(s)}
    BY DEF Elements
  <2> QED BY <2>4, <2>5, <2>6
<1> QED BY <1>1, <1>2, <1>3, SomeLines, PTL DEF AnySpec
=============================================================================

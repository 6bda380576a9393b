-------------------------- MODULE NodeReaderProofs --------------------------
(***************************************************************************)
(* Proofs about the reader behind a node that behaves, for any number of   *)
(* blocks, transactions and calls and any length of the channel.           *)
(*                                                                         *)
(* The reader is behind the node by the lines in the channel.  The proofs  *)
(* follow the node's position: a view says where in the line protocol the  *)
(* node is after a line, and a path holds one view for each line in the    *)
(* channel.  The reader agrees with the first view of the path and the     *)
(* node is at the last.  Whatever is proved of the reader for any lines    *)
(* then holds behind the node, none of whose lines it refuses; its call    *)
(* stack is empty between transactions; every system call it returns is    *)
(* accounted for; and the ordinals of what it returns follow the execution *)
(* (a tick for each line in the channel holds what the node's clock was).  *)
(***************************************************************************)
EXTENDS NodeReader, ConsoleReaderProofs

-----------------------------------------------------------------------------
(***************************************************************************)
(* Positions in the line protocol.                                         *)
(***************************************************************************)
View == {v \in [phase: {"boot", "idle", "block", "sealed", "failed", "exited"},
                num: Nat, seq: Nat, open: BOOLEAN, system: BOOLEAN, to: Address,
                count: Nat, stack: Seq(Nat)] :
            /\ \A k \in 1..Len(v.stack) : v.stack[k] \in 1..v.count
            /\ ~v.open => v.stack = << >>
            /\ v.phase \in {"block", "sealed", "failed"} => v.num \in BlockNums}

\* Between transactions, and in one (or in a system call) of the block of s.
Outside(phase, num, seq) ==
    [phase |-> phase, num |-> num, seq |-> seq, open |-> FALSE, system |-> FALSE,
     to |-> NoAddress, count |-> 0, stack |-> << >>]

Inside(s, to, system, count, stack) ==
    [phase |-> s.phase, num |-> s.num, seq |-> s.seq, open |-> TRUE, system |-> system,
     to |-> to, count |-> count, stack |-> stack]

InBlockAt(s) == s.phase \in {"block", "sealed"}

\* The node goes from s to t with a line of the block ...
BlockAfter(l, s, t) ==
    /\ ~s.open
    /\ \/ /\ l.type = "INIT" /\ l.ver \in Versions /\ l.polygon = FALSE
          /\ s.phase = "boot" /\ t = Outside("idle", s.num, s.seq)
       \/ /\ l.type = "BEGIN_BLOCK" /\ l.num \in BlockNums
          /\ s.phase = "idle" /\ t = Outside("block", l.num, s.seq + 1)
       \/ /\ l.type = "BALANCE_CHANGE" /\ l.index = 0 /\ l.ord \in Nat
          /\ InBlockAt(s) /\ t = Outside(s.phase, s.num, s.seq)
       \/ /\ l.type = "FINALIZE_BLOCK" /\ l.num = s.num
          /\ s.phase = "block" /\ t = Outside("sealed", s.num, s.seq)
       \/ /\ l.type = "END_BLOCK" /\ l.num = s.num
          /\ s.phase = "sealed" /\ t = Outside("idle", s.num, s.seq)
       \/ /\ l.type = "CANCEL_BLOCK" /\ l.num = s.num
          /\ InBlockAt(s) \/ s.phase = "failed"
          /\ t = Outside("idle", s.num, s.seq)

\* ... of a transaction or a system call ...
TraceBeginsAfter(l, s, t) ==
    /\ InBlockAt(s) /\ ~s.open
    /\ \/ /\ l.type = "BEGIN_APPLY_TRX"
          /\ l.to \in Recipients /\ l.index \in Nat /\ l.ord \in Nat
          /\ t = Inside(s, l.to, FALSE, 0, << >>)
       \/ /\ l.type = "SYSTEM_CALL_START"
          /\ t = Inside(s, NoAddress, TRUE, 0, << >>)

TraceEndsAfter(failed, l, s, t) ==
    /\ InBlockAt(s) /\ s.open /\ s.stack = << >>
    /\ \/ /\ l.type = "END_APPLY_TRX" /\ l.ord \in Nat /\ l.receipt \in Seq(LogData)
          /\ ~s.system /\ s.count >= 1 /\ t = Outside(s.phase, s.num, s.seq)
       \/ /\ l.type = "SYSTEM_CALL_END"
          /\ s.system /\ s.count = 1 /\ t = Outside(s.phase, s.num, s.seq)
       \/ /\ l.type = "SKIPPED_TRX"
          /\ ~s.system /\ t = Outside(s.phase, s.num, s.seq)
       \/ /\ l.type = "FAILED_APPLY_TRX" /\ s.seq \in failed
          /\ ~s.system /\ t = Outside("failed", s.num, s.seq)

\* ... or of an EVM call.
CallAfter(l, s, t) ==
    /\ InBlockAt(s) /\ s.open
    /\ \/ /\ l.type = "EVM_RUN_CALL"
          /\ l.call \in EvmCallTypes /\ l.index = s.count + 1 /\ l.ord \in Nat
          /\ s.count = 0 /\ ~s.system /\ s.to = NoAddress => l.call = "CREATE"
          /\ s.system => s.count = 0
          /\ t = Inside(s, s.to, s.system, s.count + 1, Append(s.stack, l.index))
       \/ /\ l.type = "EVM_CALL_FAILED" /\ l.index \in 1..s.count
          /\ t = Inside(s, s.to, s.system, s.count, s.stack)
       \/ /\ l.type = "ADD_LOG" /\ l.index \in 1..s.count
          /\ l.data \in LogData /\ l.ord \in Nat
          /\ t = Inside(s, s.to, s.system, s.count, s.stack)
       \/ /\ l.type = "EVM_END_CALL" /\ l.ord \in Nat
          /\ s.stack # << >> /\ l.index = s.stack[Len(s.stack)]
          /\ t = Inside(s, s.to, s.system, s.count, SubSeq(s.stack, 1, Len(s.stack) - 1))

After(failed, l, s, t) ==
    \/ BlockAfter(l, s, t) \/ TraceBeginsAfter(l, s, t)
    \/ TraceEndsAfter(failed, l, s, t) \/ CallAfter(l, s, t)

\* Where the node is.
NodeView ==
    LET s == Outside(node, executing.num, executing.seq) IN
    IF trx = Nil THEN s ELSE Inside(s, trx.to, trx.system, Len(trx.calls), frames)

-----------------------------------------------------------------------------
(***************************************************************************)
(* The node.                                                               *)
(***************************************************************************)
\* What the node does in a block, and in the transaction it executes, if any.
NodeInv ==
    /\ version \in Versions /\ begun \in Nat /\ clocks \in [block: Nat, trx: Nat]
    /\ node \in {"boot", "idle", "block", "sealed", "failed", "exited"}
    /\ \E T : executing \in [num: Nat, seq: Nat, trxs: Seq(T), changes: Nat]
    /\ node \in {"block", "sealed", "failed"} => executing.num \in BlockNums
    /\ trx \in NodeTrx \cup {Nil}
    /\ frames \in Seq(Nat)
    /\ IF trx = Nil THEN frames = << >>
       ELSE /\ node \in {"block", "sealed", "exited"}
            /\ \A k \in 1..Len(frames) : frames[k] \in 1..Len(trx.calls)
            /\ trx.system => Len(trx.calls) <= 1

\* The node prints a line, or exits.
Prints(line) == lines' = Append(lines, line) /\ UNCHANGED vars

NodeAdvances ==
    \/ \E line : Prints(line) /\ After(failures', line, NodeView, NodeView')
    \/ UNCHANGED <<lines, vars>> /\ node' = "exited"

\* The node's position is one of the protocol's.
LEMMA NodeViewType ==
    ASSUME NodeInv
    PROVE  NodeView \in View
<1>1. executing.num \in Nat /\ executing.seq \in Nat
  BY DEF NodeInv
<1>2. CASE trx = Nil
  <2>1. NodeView = Outside(node, executing.num, executing.seq)
    BY <1>2 DEF NodeView
  <2>2. << >> \in Seq(Nat) /\ Len(<< >>) = 0 /\ NoAddress \in Address
    BY DEF Address
  <2> QED BY <1>1, <2>1, <2>2 DEF NodeInv, View, Outside
<1>3. CASE trx # Nil
  <2>1. NodeView = [phase |-> node, num |-> executing.num, seq |-> executing.seq,
                    open |-> TRUE, system |-> trx.system, to |-> trx.to,
                    count |-> Len(trx.calls), stack |-> frames]
    BY <1>3 DEF NodeView, Inside, Outside
  <2>2. trx.system \in BOOLEAN /\ trx.to \in Address /\ Len(trx.calls) \in Nat
    BY <1>3 DEF NodeInv, NodeTrx
  <2> QED BY <1>1, <1>3, <2>1, <2>2 DEF NodeInv, View
<1> QED BY <1>2, <1>3

\* The lines of the block, and the end of the process.
LEMMA BlockSteps ==
    ASSUME NodeInv,
           \/ NodeStarts \/ BlockReward \/ Seal \/ CompleteBlock \/ CancelBlock \/ NodeExits
           \/ \E n \in BlockNums : BeginBlock(n)
    PROVE  NodeInv' /\ NodeAdvances
<1> DEFINE s == Outside(node, executing.num, executing.seq)
<1>0. /\ s.phase = node /\ s.num = executing.num /\ s.seq = executing.seq /\ ~s.open
      /\ trx = Nil => NodeView = s
      /\ executing.num \in Nat /\ executing.seq \in Nat /\ executing.changes \in Nat
  BY DEF NodeView, Outside, NodeInv
<1>1. CASE NodeStarts
  <2>1. NodeInv' /\ trx = Nil /\ NodeView' = Outside("idle", s.num, s.seq)
    BY <1>0, <1>1 DEF NodeStarts, NodeInv, NodeView
  <2>2. BlockAfter([type |-> "INIT", ver |-> version, polygon |-> FALSE], NodeView, NodeView')
    BY <1>0, <1>1, <2>1 DEF NodeStarts, NodeInv, BlockAfter
  <2> QED BY <1>1, <2>1, <2>2 DEF NodeStarts, Emit, NodeAdvances, Prints, After
<1>2. CASE BlockReward
  <2> DEFINE line == [type |-> "BALANCE_CHANGE", index |-> 0, ord |-> Now(Nil)]
  <2>1. PICK T : executing \in [num: Nat, seq: Nat, trxs: Seq(T), changes: Nat]
    BY DEF NodeInv
  <2>2. /\ executing' \in [num: Nat, seq: Nat, trxs: Seq(T), changes: Nat]
        /\ executing'.num = executing.num /\ executing'.seq = executing.seq
    BY <1>2, <2>1 DEF BlockReward
  <2>3. trx = Nil /\ NodeView' = s
    BY <1>2, <2>2 DEF BlockReward, NodeView
  <2>4. clocks' \in [block: Nat, trx: Nat] /\ Now(Nil) \in Nat
    BY <1>2 DEF BlockReward, Tick, TrxClock, Now, NodeInv
  <2>5. NodeInv'
    BY <1>2, <2>2, <2>3, <2>4 DEF BlockReward, NodeInv
  <2>6. BlockAfter(line, NodeView, NodeView')
    BY <1>0, <1>2, <2>3, <2>4 DEF BlockReward, InBlock, InBlockAt, BlockAfter
  <2> QED BY <1>2, <2>5, <2>6 DEF BlockReward, Emit, NodeAdvances, Prints, After
<1>3. CASE Seal
  <2>1. NodeInv' /\ trx = Nil /\ NodeView' = Outside("sealed", s.num, s.seq)
    BY <1>0, <1>3 DEF Seal, NodeInv, NodeView
  <2>2. BlockAfter([type |-> "FINALIZE_BLOCK", num |-> executing.num], NodeView, NodeView')
    BY <1>0, <1>3, <2>1 DEF Seal, BlockAfter
  <2> QED BY <1>3, <2>1, <2>2 DEF Seal, Emit, NodeAdvances, Prints, After
<1>4. CASE CompleteBlock
  <2>1. NodeInv' /\ trx = Nil /\ NodeView' = Outside("idle", s.num, s.seq)
    BY <1>0, <1>4 DEF CompleteBlock, NodeInv, NodeView
  <2>2. BlockAfter([type |-> "END_BLOCK", num |-> executing.num], NodeView, NodeView')
    BY <1>0, <1>4, <2>1 DEF CompleteBlock, BlockAfter
  <2> QED BY <1>4, <2>1, <2>2 DEF CompleteBlock, Emit, NodeAdvances, Prints, After
<1>5. CASE CancelBlock
  <2>1. NodeInv' /\ trx = Nil /\ NodeView' = Outside("idle", s.num, s.seq)
    BY <1>0, <1>5 DEF CancelBlock, NodeInv, NodeView
  <2>2. BlockAfter([type |-> "CANCEL_BLOCK", num |-> executing.num], NodeView, NodeView')
    BY <1>0, <1>5, <2>1 DEF CancelBlock, InBlock, InBlockAt, BlockAfter
  <2> QED BY <1>5, <2>1, <2>2 DEF CancelBlock, Emit, NodeAdvances, Prints, After
<1>6. CASE NodeExits
  <2>1. NodeInv'
    BY <1>6 DEF NodeExits, NodeInv
  <2> QED BY <1>6, <2>1 DEF NodeExits, NodeAdvances
<1>7. ASSUME NEW n \in BlockNums, BeginBlock(n)
      PROVE  NodeInv' /\ NodeAdvances
  <2>1. executing' \in [num: Nat, seq: Nat, trxs: Seq({}), changes: Nat]
    <3>1. n \in Nat /\ << >> \in Seq({}) /\ executing.seq + 1 \in Nat
      BY <1>0, ReaderAssumption
    <3> QED BY <1>7, <3>1 DEF BeginBlock
  <2>2. trx = Nil /\ UNCHANGED <<trx, frames>> /\ frames = << >>
    BY <1>7 DEF BeginBlock, NodeInv
  <2>3. NodeInv'
    BY <1>7, <2>1, <2>2 DEF BeginBlock, NodeInv
  <2>4. NodeView' = Outside("block", n, s.seq + 1)
    BY <1>0, <1>7, <2>2 DEF BeginBlock, NodeView
  <2>5. BlockAfter([type |-> "BEGIN_BLOCK", num |-> n], NodeView, NodeView')
    BY <1>0, <1>7, <2>2, <2>4 DEF BeginBlock, BlockAfter
  <2> QED BY <1>7, <2>3, <2>5 DEF BeginBlock, Emit, NodeAdvances, Prints, After
<1> QED BY <1>1, <1>2, <1>3, <1>4, <1>5, <1>6, <1>7

\* A stack of calls with one more call.
LEMMA Pushed ==
    ASSUME NEW q \in Seq(Nat), NEW n \in Nat, \A k \in 1..Len(q) : q[k] \in 1..n
    PROVE  /\ Append(q, n + 1) \in Seq(Nat) /\ n + 1 \in Nat
           /\ \A k \in 1..Len(Append(q, n + 1)) : Append(q, n + 1)[k] \in 1..(n + 1)
<1>1. /\ Append(q, n + 1) \in Seq(Nat) /\ Len(Append(q, n + 1)) = Len(q) + 1
      /\ \A k \in 1..Len(q) : Append(q, n + 1)[k] = q[k]
      /\ Append(q, n + 1)[Len(q) + 1] = n + 1
  BY AppendProperties
<1> QED BY <1>1

\* A stack without its top.
LEMMA Popped ==
    ASSUME NEW q \in Seq(Nat), q # << >>
    PROVE  LET p == SubSeq(q, 1, Len(q) - 1) IN
           /\ p \in Seq(Nat) /\ Len(p) = Len(q) - 1
           /\ \A k \in 1..Len(p) : k \in 1..Len(q) /\ p[k] = q[k]
<1> DEFINE n == Len(q) - 1
<1>1. n \in Nat /\ Len(q) \in Nat
  BY EmptySeq
<1>2. \A i \in 1..n : q[i] \in Nat /\ i \in 1..Len(q) /\ 1 + i - 1 = i
  BY <1>1
<1> HIDE DEF n
<1>3. /\ SubSeq(q, 1, n) \in Seq(Nat)
      /\ Len(SubSeq(q, 1, n)) = IF 1 <= n THEN n - 1 + 1 ELSE 0
      /\ \A i \in 1..(n - 1 + 1) : SubSeq(q, 1, n)[i] = q[1 + i - 1]
  BY <1>1, <1>2, SubSeqProperties
<1>4. n - 1 + 1 = n /\ Len(SubSeq(q, 1, n)) = n
  BY <1>1, <1>3
<1> QED BY <1>2, <1>3, <1>4 DEF n

\* The receipt of a transaction lists log data.
LEMMA ReceiptOf ==
    ASSUME NEW t \in NodeTrx
    PROVE  Receipt(t) \in Seq(LogData)
<1> DEFINE n == Len(t.logs)
           kept == Kept(t.calls)
           step == [p \in Seq(LogData) \X (1..n) |->
                       IF kept[t.logs[p[2]].call] THEN Append(p[1], t.logs[p[2]].data)
                       ELSE p[1]]
           upTo == CHOOSE f : f = [k \in 0..n |->
                       IF k = 0 THEN << >>
                       ELSE IF kept[t.logs[k].call] THEN Append(f[k-1], t.logs[k].data)
                       ELSE f[k-1]]
<1>1. n \in Nat /\ \A k \in 1..n : t.logs[k].data \in LogData
  <2> DEFINE L == [call: Nat, data: LogData]
  <2>1. t.logs \in Seq(L)
    BY DEF NodeTrx
  <2>2. \A l \in L : l.data \in LogData
    OBVIOUS
  <2> HIDE DEF L
  <2> QED BY <2>1, <2>2
<1>2. step \in [Seq(LogData) \X (1..n) -> Seq(LogData)]
  <2>1. ASSUME NEW p \in Seq(LogData) \X (1..n) PROVE step[p] \in Seq(LogData)
    <3>1. p[1] \in Seq(LogData) /\ t.logs[p[2]].data \in LogData
      BY <1>1
    <3> QED BY <3>1
  <2> QED BY <2>1
<1>3. \A s \in Seq(LogData), k \in 1..n :
         step[<<s, k>>] = IF kept[t.logs[k].call] THEN Append(s, t.logs[k].data) ELSE s
  OBVIOUS
<1>4. Receipt(t) = upTo[n]
  BY DEF Receipt
<1> HIDE DEF step, kept, n
<1>5. PICK F \in [0..n -> Seq(LogData)] : Unfolds(F, n, << >>, step)
  <2>1. << >> \in Seq(LogData)
    OBVIOUS
  <2> QED BY <1>1, <1>2, <2>1, RecursionFromZero
<1>6. F = [k \in 0..n |->
              IF k = 0 THEN << >>
              ELSE IF kept[t.logs[k].call] THEN Append(F[k-1], t.logs[k].data)
              ELSE F[k-1]]
  <2>1. ASSUME NEW k \in 0..n
        PROVE  F[k] = IF k = 0 THEN << >>
                      ELSE IF kept[t.logs[k].call] THEN Append(F[k-1], t.logs[k].data)
                      ELSE F[k-1]
    <3>1. k # 0 => k \in 1..n /\ k - 1 \in 0..n
      BY <1>1
    <3> QED BY <1>3, <1>5, <3>1 DEF Unfolds
  <2> QED BY <2>1
<1>7. upTo = [k \in 0..n |->
                 IF k = 0 THEN << >>
                 ELSE IF kept[t.logs[k].call] THEN Append(upTo[k-1], t.logs[k].data)
                 ELSE upTo[k-1]]
  BY <1>6
<1>8. \A k \in 0..n : upTo[k] \in Seq(LogData)
  <2> HIDE DEF upTo
  <2> DEFINE P == {m \in Nat : m <= n => upTo[m] \in Seq(LogData)}
  <2>1. 0 \in P
    BY <1>1, <1>7
  <2>2. ASSUME NEW m \in Nat, m \in P PROVE m + 1 \in P
    <3> SUFFICES ASSUME m + 1 <= n PROVE upTo[m + 1] \in Seq(LogData)
      OBVIOUS
    <3>1. m + 1 \in 0..n /\ m + 1 \in 1..n /\ (m + 1) - 1 = m /\ m + 1 # 0
      BY <1>1
    <3>2. upTo[m] \in Seq(LogData)
      BY <1>1, <2>2
    <3>3. t.logs[m + 1].data \in LogData
      BY <1>1, <3>1
    <3>4. upTo[m + 1] = IF kept[t.logs[m + 1].call]
                        THEN Append(upTo[m], t.logs[m + 1].data) ELSE upTo[m]
      BY <1>7, <3>1
    <3>5. Append(upTo[m], t.logs[m + 1].data) \in Seq(LogData)
      BY <3>2, <3>3
    <3> QED BY <3>2, <3>4, <3>5
  <2>3. \A m \in Nat : m \in P
    <3> HIDE DEF P
    <3> QED BY <2>1, <2>2, NaturalsOf
  <2> QED BY <1>1, <2>3
<1> HIDE DEF upTo
<1>9. n \in 0..n
  BY <1>1
<1> QED BY <1>4, <1>8, <1>9

\* The lines of a transaction or a system call.
LEMMA TraceSteps ==
    ASSUME NodeInv,
           \/ \E to \in Recipients : BeginTransaction(to)
           \/ BeginSystemCall \/ EndSystemCall \/ EndTransaction
           \/ SkipTransaction \/ FailTransaction
    PROVE  NodeInv' /\ NodeAdvances
<1> DEFINE s == Outside(node, executing.num, executing.seq)
<1>0. /\ s.phase = node /\ s.num = executing.num /\ s.seq = executing.seq /\ ~s.open
      /\ trx = Nil => NodeView = s
      /\ executing.num \in Nat /\ executing.seq \in Nat
  BY DEF NodeView, Outside, NodeInv
<1>1. ASSUME trx # Nil
      PROVE  /\ NodeView.phase = node /\ NodeView.num = executing.num
             /\ NodeView.seq = executing.seq /\ NodeView.open
             /\ NodeView.system = trx.system /\ NodeView.to = trx.to
             /\ NodeView.count = Len(trx.calls) /\ NodeView.stack = frames
  BY <1>1 DEF NodeView, Inside, Outside
<1>2. ASSUME NEW to \in Address, NEW system \in BOOLEAN, NEW line,
             Begin(to, system, line)
      PROVE  /\ NodeInv' /\ trx = Nil /\ InBlock /\ node' = node
             /\ NodeView = s /\ NodeView' = Inside(s, to, system, 0, << >>)
  <2> DEFINE t == [hash |-> begun + 1, to |-> to, system |-> system,
                   calls |-> << >>, logs |-> << >>]
  <2>1. trx' = t /\ t \in NodeTrx /\ frames = << >> /\ UNCHANGED <<node, executing, frames>>
    BY <1>2 DEF Begin, NodeInv, NodeTrx
  <2>2. t # Nil /\ t.to = to /\ t.system = system /\ Len(t.calls) = 0
    BY <2>1, NodeAssumption
  <2>3. clocks' \in [block: Nat, trx: Nat]
    BY <1>2 DEF Begin, NodeInv
  <2>4. NodeView' = Inside(s, to, system, 0, << >>)
    BY <2>1, <2>2 DEF NodeView
  <2>5. begun' \in Nat /\ version' = version /\ node \in {"block", "sealed"}
    BY <1>2 DEF Begin, NodeInv, InBlock
  <2> HIDE DEF t
  <2>6. NodeInv'
    <3>1. IF trx' = Nil THEN frames' = << >>
          ELSE /\ node' \in {"block", "sealed", "exited"}
               /\ \A k \in 1..Len(frames') : frames'[k] \in 1..Len(trx'.calls)
               /\ trx'.system => Len(trx'.calls) <= 1
      BY <2>1, <2>2, <2>5
    <3>2. trx' \in NodeTrx \cup {Nil} /\ frames' \in Seq(Nat)
      BY <2>1 DEF NodeInv
    <3> QED BY <2>1, <2>3, <2>5, <3>1, <3>2 DEF NodeInv
  <2> QED BY <1>0, <1>2, <2>1, <2>4, <2>6 DEF Begin
<1>3. ASSUME NEW to \in Recipients, BeginTransaction(to)
      PROVE  NodeInv' /\ NodeAdvances
  <2> DEFINE line == [type |-> "BEGIN_APPLY_TRX", to |-> to, index |-> Len(executing.trxs),
                      ord |-> IF version \in {"2.3", "2.4", "2.5"} THEN 1
                              ELSE clocks.block + 1]
  <2>1. to \in Address /\ Begin(to, FALSE, line)
    BY <1>3, ReaderAssumption DEF BeginTransaction
  <2>2. line.index \in Nat /\ line.ord \in Nat
    <3>1. PICK T : executing \in [num: Nat, seq: Nat, trxs: Seq(T), changes: Nat]
      BY DEF NodeInv
    <3>2. executing.trxs \in Seq(T)
      BY <3>1
    <3> QED BY <3>2 DEF NodeInv
  <2> HIDE DEF line
  <2>3. /\ NodeInv' /\ InBlock
        /\ NodeView = s /\ NodeView' = Inside(s, to, FALSE, 0, << >>)
    BY <1>2, <2>1
  <2>4. line.type = "BEGIN_APPLY_TRX" /\ line.to = to
    BY DEF line
  <2>5. TraceBeginsAfter(line, NodeView, NodeView')
    BY <1>0, <1>3, <2>2, <2>3, <2>4 DEF TraceBeginsAfter, InBlock, InBlockAt
  <2> QED BY <2>1, <2>3, <2>5 DEF Begin, Emit, NodeAdvances, Prints, After
<1>4. CASE BeginSystemCall
  <2>1. NoAddress \in Address /\ Begin(NoAddress, TRUE, [type |-> "SYSTEM_CALL_START"])
    BY <1>4 DEF BeginSystemCall, Address
  <2>2. /\ NodeInv' /\ InBlock
        /\ NodeView = s /\ NodeView' = Inside(s, NoAddress, TRUE, 0, << >>)
    BY <1>2, <2>1
  <2>3. TraceBeginsAfter([type |-> "SYSTEM_CALL_START"], NodeView, NodeView')
    BY <1>0, <2>2 DEF TraceBeginsAfter, InBlock, InBlockAt
  <2> QED BY <2>1, <2>2, <2>3 DEF Begin, Emit, NodeAdvances, Prints, After
<1>5. CASE EndSystemCall
  <2>1. /\ trx # Nil /\ trx' = Nil /\ trx.system /\ frames = << >> /\ Len(trx.calls) = 1
        /\ node \in {"block", "sealed"}
    <3>1. trx # Nil /\ trx.calls # << >> /\ trx.calls \in Seq([type: CallType,
             failed: BOOLEAN, depth: Nat, parent: Nat]) /\ Len(trx.calls) <= 1
      BY <1>5 DEF EndSystemCall, Ended, NodeInv, NodeTrx
    <3>2. Len(trx.calls) = 1
      <4> DEFINE C == [type: CallType, failed: BOOLEAN, depth: Nat, parent: Nat]
      <4>1. trx.calls # << >> /\ trx.calls \in Seq(C) /\ Len(trx.calls) <= 1
        BY <3>1
      <4> HIDE DEF C
      <4>2. Len(trx.calls) \in Nat /\ Len(trx.calls) # 0
        BY <4>1
      <4>3. \A n \in Nat : n # 0 /\ n <= 1 => n = 1
        OBVIOUS
      <4> QED BY <4>1, <4>2, <4>3, Zenon
    <3> QED BY <1>5, <3>1, <3>2 DEF EndSystemCall, Ended, Outermost, InBlock
  <2>2. NodeInv' /\ NodeView' = s
    BY <1>5, <2>1 DEF EndSystemCall, NodeInv, NodeView
  <2>3. TraceEndsAfter(failures', [type |-> "SYSTEM_CALL_END"], NodeView, NodeView')
    BY <1>0, <1>1, <2>1, <2>2 DEF TraceEndsAfter, InBlockAt
  <2> QED BY <1>5, <2>2, <2>3 DEF EndSystemCall, Emit, NodeAdvances, Prints, After
<1>6. CASE EndTransaction
  <2> DEFINE line == [type |-> "END_APPLY_TRX", ord |-> Now(trx), receipt |-> Receipt(trx)]
  <2>1. /\ trx # Nil /\ trx \in NodeTrx /\ trx' = Nil /\ ~trx.system /\ frames = << >>
        /\ node \in {"block", "sealed"} /\ Len(trx.calls) >= 1
    <3>1. trx # Nil /\ trx.calls # << >> /\ trx \in NodeTrx
      BY <1>6 DEF EndTransaction, Ended, NodeInv
    <3>2. Len(trx.calls) >= 1
      BY <3>1 DEF NodeTrx
    <3> QED BY <1>6, <3>1, <3>2 DEF EndTransaction, Ended, Outermost, InBlock
  <2>2. /\ clocks' \in [block: Nat, trx: Nat] /\ line.ord \in Nat
        /\ line.receipt \in Seq(LogData) /\ line.type = "END_APPLY_TRX"
    BY <1>6, <2>1, ReceiptOf, SMTT(30) DEF EndTransaction, Tick, TrxClock, Now, NodeInv
  <2>3. /\ \E T : executing' \in [num: Nat, seq: Nat, trxs: Seq(T), changes: Nat]
        /\ executing'.num = executing.num /\ executing'.seq = executing.seq
    <3>1. PICK T : executing \in [num: Nat, seq: Nat, trxs: Seq(T), changes: Nat]
      BY DEF NodeInv
    <3>2. PICK e : executing' = [executing EXCEPT !.trxs = Append(@, e)]
      BY <1>6, Zenon DEF EndTransaction
    <3>3. Append(executing.trxs, e) \in Seq(T \cup {e})
      BY <3>1, AppendAny
    <3>4. executing' = [num |-> executing.num, seq |-> executing.seq,
                        trxs |-> Append(executing.trxs, e), changes |-> executing.changes]
      BY <3>1, <3>2
    <3>5. executing' \in [num: Nat, seq: Nat, trxs: Seq(T \cup {e}), changes: Nat]
      BY <3>1, <3>3, <3>4
    <3> QED BY <3>4, <3>5
  <2>4. NodeInv' /\ NodeView' = s
    <3>1. UNCHANGED <<version, node, frames, begun>>
      BY <1>6 DEF EndTransaction
    <3> QED BY <2>1, <2>2, <2>3, <3>1 DEF NodeInv, NodeView
  <2>5. Emit(line)
    BY <1>6 DEF EndTransaction
  <2> HIDE DEF line
  <2>6. TraceEndsAfter(failures', line, NodeView, NodeView')
    BY <1>0, <1>1, <2>1, <2>2, <2>4 DEF TraceEndsAfter, InBlockAt
  <2> QED BY <2>4, <2>5, <2>6 DEF Emit, NodeAdvances, Prints, After
<1>7. ASSUME NotApplied, trx' = Nil, UNCHANGED <<version, executing, frames, begun, clocks>>,
             node' \in {node, "failed"}
      PROVE  /\ NodeInv' /\ trx # Nil /\ ~trx.system /\ frames = << >> /\ InBlock
             /\ NodeView' = Outside(node', s.num, s.seq)
  <2>1. trx # Nil /\ trx \in NodeTrx /\ Len(trx.calls) = 0 /\ ~trx.system /\ InBlock
    BY <1>7 DEF NotApplied, NodeInv
  <2>2. frames = << >>
    <3>1. \A k \in 1..Len(frames) : FALSE
      BY <2>1 DEF NodeInv
    <3> QED BY <3>1 DEF NodeInv
  <2>3. NodeInv'
    BY <1>7, <2>1, <2>2 DEF NodeInv, InBlock
  <2> QED BY <1>0, <1>7, <2>1, <2>2, <2>3 DEF NodeView
<1>8. CASE SkipTransaction
  <2>1. /\ NotApplied /\ trx' = Nil /\ node' = node
        /\ UNCHANGED <<version, executing, frames, begun, clocks>>
    BY <1>8 DEF SkipTransaction
  <2>2. /\ NodeInv' /\ trx # Nil /\ ~trx.system /\ frames = << >> /\ InBlock
        /\ NodeView' = Outside(node', s.num, s.seq)
    BY <1>7, <2>1
  <2>3. TraceEndsAfter(failures', [type |-> "SKIPPED_TRX"], NodeView, NodeView')
    BY <1>0, <1>1, <2>1, <2>2 DEF TraceEndsAfter, InBlock, InBlockAt
  <2> QED BY <1>8, <2>2, <2>3 DEF SkipTransaction, Emit, NodeAdvances, Prints, After
<1>9. CASE FailTransaction
  <2>1. /\ NotApplied /\ trx' = Nil /\ node' = "failed" /\ executing.seq \in failures'
        /\ UNCHANGED <<version, executing, frames, begun, clocks>>
    BY <1>9 DEF FailTransaction
  <2>2. /\ NodeInv' /\ trx # Nil /\ ~trx.system /\ frames = << >> /\ InBlock
        /\ NodeView' = Outside(node', s.num, s.seq)
    BY <1>7, <2>1
  <2>3. TraceEndsAfter(failures', [type |-> "FAILED_APPLY_TRX"], NodeView, NodeView')
    BY <1>0, <1>1, <2>1, <2>2 DEF TraceEndsAfter, InBlock, InBlockAt
  <2> QED BY <1>9, <2>2, <2>3 DEF FailTransaction, Emit, NodeAdvances, Prints, After
<1> QED BY <1>3, <1>4, <1>5, <1>6, <1>8, <1>9

\* The lines of an EVM call.
LEMMA CallSteps ==
    ASSUME NodeInv,
           \/ \E type \in EvmCallTypes : RunCall(type)
           \/ \E data \in LogData \ {PolygonFeeLog} : AddLog(data)
           \/ FailCall \/ EndCall
    PROVE  NodeInv' /\ NodeAdvances
<1> DEFINE CallRecord == [type: CallType, failed: BOOLEAN, depth: Nat, parent: Nat]
           LogRecord == [call: Nat, data: LogData]
           s == Outside(node, executing.num, executing.seq)
           SameTrx(t) ==
               /\ t.to = trx.to /\ t.system = trx.system
               /\ t \in NodeTrx /\ t # Nil
<1>0. /\ s.phase = node /\ s.num = executing.num /\ s.seq = executing.seq
      /\ executing.num \in Nat /\ executing.seq \in Nat
      /\ Nil \notin NodeTrx /\ trx \in NodeTrx \cup {Nil} /\ frames \in Seq(Nat)
  BY NodeAssumption DEF NodeView, Outside, NodeInv
<1>1. \A calls, logs : calls \in Seq(CallRecord) /\ logs \in Seq(LogRecord) /\ trx \in NodeTrx
          => SameTrx([trx EXCEPT !.calls = calls, !.logs = logs])
  BY <1>0 DEF NodeTrx
<1> HIDE DEF CallRecord, LogRecord
<1>2. trx \in NodeTrx => trx.calls \in Seq(CallRecord) /\ trx.logs \in Seq(LogRecord)
  BY DEF NodeTrx, CallRecord, LogRecord
<1> HIDE DEF SameTrx
<1>3. ASSUME trx # Nil, InBlock
      PROVE  /\ InBlockAt(NodeView) /\ NodeView.num = executing.num
             /\ NodeView.phase = node
             /\ NodeView.seq = executing.seq /\ NodeView.open
             /\ NodeView.system = trx.system /\ NodeView.to = trx.to
             /\ NodeView.count = Len(trx.calls) /\ NodeView.stack = frames
  BY <1>3 DEF NodeView, Inside, Outside, InBlock, InBlockAt
<1>4. trx # Nil => NodeView = Inside(s, trx.to, trx.system, Len(trx.calls), frames)
  BY DEF NodeView
<1>5. ASSUME NEW calls \in Seq(CallRecord), NEW logs \in Seq(LogRecord),
             trx # Nil, InBlock, trx' = [trx EXCEPT !.calls = calls, !.logs = logs],
             UNCHANGED <<version, node, executing, begun>>,
             clocks' = clocks \/ Tick(trx),
             frames' \in Seq(Nat), \A k \in 1..Len(frames') : frames'[k] \in 1..Len(calls),
             trx.system => Len(calls) <= 1
      PROVE  /\ NodeInv'
             /\ NodeView' = Inside(s, trx.to, trx.system, Len(calls), frames')
  <2>1. trx' \in NodeTrx /\ trx' # Nil /\ trx'.to = trx.to /\ trx'.system = trx.system
    BY <1>0, <1>1, <1>5 DEF SameTrx
  <2>2. trx'.calls = calls
    BY <1>0, <1>5 DEF NodeTrx
  <2>3. clocks' \in [block: Nat, trx: Nat]
    BY <1>5 DEF NodeInv, Tick
  <2>4. NodeInv'
    BY <1>5, <2>1, <2>2, <2>3 DEF NodeInv, InBlock
  <2> QED BY <1>5, <2>1, <2>2, <2>4 DEF NodeView
<1>6. Now(trx) \in Nat
  BY DEF Now, NodeInv
<1>7. ASSUME frames # << >>, InBlock
      PROVE  /\ trx # Nil /\ Len(frames) \in 1..Len(frames)
             /\ Last(frames) = frames[Len(frames)] /\ Last(frames) \in 1..Len(trx.calls)
  <2>1. trx # Nil /\ Len(frames) \in 1..Len(frames)
    BY <1>0, <1>7 DEF NodeInv
  <2> QED BY <2>1 DEF NodeInv, Last
<1>8. ASSUME NEW type \in EvmCallTypes, RunCall(type)
      PROVE  NodeInv' /\ NodeAdvances
  <2> DEFINE n == Len(trx.calls)
             e == [type |-> type, failed |-> FALSE, depth |-> Len(frames),
                   parent |-> IF Outermost THEN 0 ELSE Last(frames)]
             line == [type |-> "EVM_RUN_CALL", call |-> type, index |-> n + 1,
                      ord |-> Now(trx)]
             calls == Append(trx.calls, e)
  <2>1. /\ InBlock /\ trx # Nil /\ trx \in NodeTrx
        /\ trx.calls \in Seq(CallRecord) /\ trx.logs \in Seq(LogRecord) /\ n \in Nat
    BY <1>0, <1>2, <1>8 DEF RunCall
  <2>2. e \in CallRecord
    <3>1. type \in CallType /\ Len(frames) \in Nat
          /\ (IF Outermost THEN 0 ELSE Last(frames)) \in Nat
      <4>1. ~Outermost => Last(frames) \in Nat
        BY <1>7, <2>1 DEF Outermost
      <4> QED BY <1>0, <4>1, ReaderAssumption
    <3> QED BY <3>1 DEF CallRecord
  <2>3. trx' = [trx EXCEPT !.calls = calls, !.logs = trx.logs]
    <3>1. trx' = [trx EXCEPT !.calls = calls]
      BY <1>8 DEF RunCall
    <3> QED BY <2>1, <3>1 DEF NodeTrx
  <2>4. /\ frames' = Append(frames, n + 1) /\ Tick(trx) /\ Emit(line)
        /\ UNCHANGED <<version, node, executing, begun>>
        /\ Outermost => trx.calls = << >>
        /\ trx.system => Outermost
        /\ Outermost /\ ~trx.system => (type = "CREATE" <=> trx.to = NoAddress)
    BY <1>8 DEF RunCall
  <2> HIDE DEF e
  <2>5. calls \in Seq(CallRecord) /\ Len(calls) = n + 1
    BY <2>1, <2>2
  <2>6. trx.system => n = 0
    BY <2>1, <2>4
  <2>7. frames' \in Seq(Nat) /\ \A k \in 1..Len(frames') : frames'[k] \in 1..(n + 1)
    <3>1. \A k \in 1..Len(frames) : frames[k] \in 1..n
      BY <2>1 DEF NodeInv
    <3> HIDE DEF n
    <3> QED BY <1>0, <2>1, <2>4, <3>1, Pushed
  <2> HIDE DEF calls
  <2>8. /\ NodeInv'
        /\ NodeView' = Inside(s, trx.to, trx.system, n + 1, Append(frames, n + 1))
    <3>1. trx.system => Len(calls) <= 1
      BY <2>5, <2>6
    <3> HIDE DEF n, line, s
    <3> QED BY <1>5, <2>1, <2>3, <2>4, <2>5, <2>7, <3>1
  <2>9. n = 0 => Outermost
    <3>1. n = 0 => \A k \in 1..Len(frames) : FALSE
      BY <2>1 DEF NodeInv
    <3> QED BY <1>0, <3>1 DEF Outermost
  <2>10. /\ InBlockAt(NodeView) /\ NodeView.open
         /\ NodeView.system = trx.system /\ NodeView.to = trx.to
         /\ NodeView.count = n /\ NodeView.stack = frames
         /\ Inside(s, trx.to, trx.system, n + 1, Append(frames, n + 1))
              = Inside(NodeView, trx.to, trx.system, n + 1, Append(frames, n + 1))
    BY <1>0, <1>3, <2>1 DEF Inside
  <2>11. /\ line.type = "EVM_RUN_CALL" /\ line.call = type /\ line.index = n + 1
         /\ line.ord \in Nat
    BY <1>6
  <2> HIDE DEF line, n
  <2>12. CallAfter(line, NodeView, NodeView')
    BY <2>4, <2>6, <2>8, <2>9, <2>10, <2>11 DEF CallAfter
  <2> QED BY <2>4, <2>8, <2>12 DEF Emit, NodeAdvances, Prints, After
<1>9. ASSUME NEW line, NEW calls \in Seq(CallRecord), NEW logs \in Seq(LogRecord),
             frames # << >>, InBlock, Emit(line), UNCHANGED frames,
             trx' = [trx EXCEPT !.calls = calls, !.logs = logs],
             Len(calls) = Len(trx.calls),
             UNCHANGED <<version, node, executing, begun>>,
             clocks' = clocks \/ Tick(trx),
             \/ line.type = "EVM_CALL_FAILED" /\ line.index = Last(frames)
             \/ line.type = "ADD_LOG" /\ line.index = Last(frames) /\ line.data \in LogData
                /\ line.ord \in Nat
      PROVE  NodeInv' /\ NodeAdvances
  <2>1. trx # Nil /\ Last(frames) \in 1..Len(trx.calls)
    BY <1>7, <1>9
  <2>2. /\ NodeInv'
        /\ NodeView' = Inside(s, trx.to, trx.system, Len(trx.calls), frames)
    BY <1>0, <1>5, <1>9, <2>1 DEF NodeInv
  <2>3. /\ InBlockAt(NodeView) /\ NodeView.open
        /\ NodeView.count = Len(trx.calls)
        /\ NodeView' = Inside(NodeView, NodeView.to, NodeView.system, NodeView.count,
                              NodeView.stack)
    BY <1>0, <1>3, <1>9, <2>1, <2>2 DEF Inside
  <2>4. CallAfter(line, NodeView, NodeView')
    BY <1>9, <2>1, <2>3 DEF CallAfter
  <2> QED BY <1>9, <2>2, <2>4 DEF Emit, NodeAdvances, Prints, After
<1>10. CASE FailCall
  <2> DEFINE at == Last(frames)
             calls == [trx.calls EXCEPT ![at] = [trx.calls[at] EXCEPT !.failed = TRUE]]
  <2>1. frames # << >> /\ InBlock
    BY <1>10 DEF FailCall, Outermost
  <2>2. trx # Nil /\ trx \in NodeTrx /\ at \in 1..Len(trx.calls)
    BY <1>0, <1>7, <2>1
  <2>3. trx.calls[at] \in CallRecord
    BY <1>2, <2>2
  <2>4. [trx.calls[at] EXCEPT !.failed = TRUE] \in CallRecord
    BY <2>3 DEF CallRecord
  <2>5. calls \in Seq(CallRecord) /\ Len(calls) = Len(trx.calls)
    BY <1>2, <2>2, <2>4
  <2>6. trx' = [trx EXCEPT !.calls = calls, !.logs = trx.logs]
    <3>1. trx' = [trx EXCEPT !.calls = calls]
      BY <1>10 DEF FailCall
    <3> QED BY <2>2, <3>1 DEF NodeTrx
  <2>7. /\ Emit([type |-> "EVM_CALL_FAILED", index |-> at])
        /\ UNCHANGED <<frames, version, node, executing, begun, clocks>>
    BY <1>10 DEF FailCall
  <2> HIDE DEF calls, at
  <2> QED BY <1>2, <1>9, <2>1, <2>2, <2>5, <2>6, <2>7 DEF at
<1>11. ASSUME NEW data \in LogData, AddLog(data)
       PROVE  NodeInv' /\ NodeAdvances
  <2> DEFINE e == [call |-> Last(frames), data |-> data]
             logs == Append(trx.logs, e)
             line == [type |-> "ADD_LOG", index |-> Last(frames), data |-> data,
                      ord |-> Now(trx)]
  <2>1. frames # << >> /\ InBlock
    BY <1>11 DEF AddLog, Outermost
  <2>2. trx # Nil /\ trx \in NodeTrx /\ Last(frames) \in Nat
    BY <1>0, <1>7, <2>1
  <2>3. e \in LogRecord
    BY <2>2 DEF LogRecord
  <2>4. logs \in Seq(LogRecord)
    BY <1>2, <2>2, <2>3
  <2>5. trx' = [trx EXCEPT !.calls = trx.calls, !.logs = logs]
    <3>1. trx' = [trx EXCEPT !.logs = logs]
      BY <1>11 DEF AddLog
    <3> QED BY <2>2, <3>1 DEF NodeTrx
  <2>6. /\ Emit(line)
        /\ UNCHANGED <<frames, version, node, executing, begun>> /\ Tick(trx)
    BY <1>11 DEF AddLog
  <2>7. /\ line.type = "ADD_LOG" /\ line.index = Last(frames) /\ line.data \in LogData
        /\ line.ord \in Nat
    BY <1>6
  <2> HIDE DEF logs, line
  <2> QED BY <1>2, <1>9, <2>1, <2>2, <2>4, <2>5, <2>6, <2>7
<1>12. CASE EndCall
  <2> DEFINE line == [type |-> "EVM_END_CALL", index |-> Last(frames), ord |-> Now(trx)]
  <2>1. frames # << >> /\ InBlock
    BY <1>12 DEF EndCall, Outermost
  <2>2. trx # Nil /\ trx \in NodeTrx /\ Last(frames) = frames[Len(frames)]
    BY <1>0, <1>7, <2>1
  <2>3. /\ frames' = SubSeq(frames, 1, Len(frames) - 1) /\ Tick(trx) /\ Emit(line)
        /\ UNCHANGED <<version, node, executing, begun>>
        /\ trx' = [trx EXCEPT !.calls = trx.calls, !.logs = trx.logs]
    <3>1. trx = [trx EXCEPT !.calls = trx.calls, !.logs = trx.logs]
      BY <2>2 DEF NodeTrx
    <3> QED BY <1>12, <3>1 DEF EndCall, Front
  <2>4. frames' \in Seq(Nat) /\ \A k \in 1..Len(frames') : frames'[k] \in 1..Len(trx.calls)
    <3>1. /\ frames' \in Seq(Nat) /\ Len(frames') = Len(frames) - 1
          /\ \A k \in 1..Len(frames') : frames'[k] = frames[k]
      BY <1>0, <2>1, <2>3, Popped
    <3>2. \A k \in 1..Len(frames) : frames[k] \in 1..Len(trx.calls)
      BY <2>2 DEF NodeInv
    <3>3. \A k \in 1..Len(frames') : k \in 1..Len(frames)
      BY <1>0, <3>1
    <3> QED BY <3>1, <3>2, <3>3
  <2>5. /\ NodeInv'
        /\ NodeView' = Inside(s, trx.to, trx.system, Len(trx.calls), frames')
    BY <1>2, <1>5, <2>1, <2>2, <2>3, <2>4 DEF NodeInv
  <2>6. /\ InBlockAt(NodeView) /\ NodeView.open /\ NodeView.stack = frames
        /\ NodeView' = Inside(NodeView, NodeView.to, NodeView.system, NodeView.count,
                              SubSeq(frames, 1, Len(frames) - 1))
    BY <1>0, <1>3, <2>1, <2>2, <2>3, <2>5 DEF Inside
  <2>7. /\ line.type = "EVM_END_CALL" /\ line.index = frames[Len(frames)]
        /\ line.ord \in Nat
    BY <1>6, <2>2
  <2> HIDE DEF line
  <2>8. CallAfter(line, NodeView, NodeView')
    BY <2>1, <2>6, <2>7 DEF CallAfter
  <2> QED BY <2>3, <2>5, <2>8 DEF Emit, NodeAdvances, Prints, After
<1> QED BY <1>8, <1>10, <1>11, <1>12

\* Every step of the node keeps what it does in order, and prints the line that
\* takes its position on.
LEMMA NodeSteps ==
    ASSUME NodeInv, NodeStep
    PROVE  NodeInv' /\ NodeAdvances
BY BlockSteps, TraceSteps, CallSteps DEF NodeStep

-----------------------------------------------------------------------------
(***************************************************************************)
(* The lines between the reader and the node.                              *)
(***************************************************************************)
\* A line leads from a position to a position.
LEMMA AfterType ==
    ASSUME NEW F, NEW l, NEW s \in View, NEW t, After(F, l, s, t)
    PROVE  t \in View
<1>1. /\ s.phase \in {"boot", "idle", "block", "sealed", "failed", "exited"}
      /\ s.num \in Nat /\ s.seq \in Nat /\ s.system \in BOOLEAN /\ s.to \in Address
      /\ s.count \in Nat /\ s.stack \in Seq(Nat)
      /\ \A k \in 1..Len(s.stack) : s.stack[k] \in 1..s.count
      /\ s.phase \in {"block", "sealed", "failed"} => s.num \in BlockNums
  BY DEF View
<1>2. ASSUME NEW phase \in {"boot", "idle", "block", "sealed", "failed", "exited"},
             NEW num \in Nat, NEW seq \in Nat,
             phase \in {"block", "sealed", "failed"} => num \in BlockNums
      PROVE  Outside(phase, num, seq) \in View
  <2>1. << >> \in Seq(Nat) /\ Len(<< >>) = 0 /\ NoAddress \in Address
    BY DEF Address
  <2> QED BY <1>2, <2>1 DEF View, Outside
<1>3. ASSUME NEW to \in Address, NEW system \in BOOLEAN, NEW count \in Nat,
             NEW stack \in Seq(Nat), \A k \in 1..Len(stack) : stack[k] \in 1..count
      PROVE  Inside(s, to, system, count, stack) \in View
  BY <1>1, <1>3 DEF View, Inside
<1>4. CASE BlockAfter(l, s, t)
  <2>1. BlockNums \subseteq Nat /\ s.seq + 1 \in Nat
    BY <1>1, ReaderAssumption
  <2> QED BY <1>1, <1>2, <1>4, <2>1 DEF BlockAfter, InBlockAt
<1>5. CASE TraceBeginsAfter(l, s, t)
  <2>1. Recipients \subseteq Address /\ NoAddress \in Address
    BY ReaderAssumption DEF Address
  <2>2. << >> \in Seq(Nat) /\ 0 \in Nat /\ \A k \in 1..Len(<< >>) : << >>[k] \in 1..0
    OBVIOUS
  <2>3. \A to \in Address, system \in BOOLEAN : Inside(s, to, system, 0, << >>) \in View
    BY <1>3, <2>2
  <2> QED BY <1>5, <2>1, <2>3, Zenon DEF TraceBeginsAfter
<1>6. CASE TraceEndsAfter(F, l, s, t)
  BY <1>1, <1>2, <1>6 DEF TraceEndsAfter, InBlockAt
<1>7. CASE CallAfter(l, s, t)
  <2>1. CASE t = Inside(s, s.to, s.system, s.count, s.stack)
    BY <1>1, <1>3, <2>1
  <2>2. CASE /\ l.index = s.count + 1
             /\ t = Inside(s, s.to, s.system, s.count + 1, Append(s.stack, l.index))
    <3>1. /\ Append(s.stack, l.index) \in Seq(Nat) /\ s.count + 1 \in Nat
          /\ \A k \in 1..Len(Append(s.stack, l.index)) :
                Append(s.stack, l.index)[k] \in 1..(s.count + 1)
      BY <1>1, <2>2, Pushed
    <3> QED BY <1>1, <1>3, <2>2, <3>1
  <2>3. CASE /\ s.stack # << >>
             /\ t = Inside(s, s.to, s.system, s.count, SubSeq(s.stack, 1, Len(s.stack) - 1))
    <3> DEFINE p == SubSeq(s.stack, 1, Len(s.stack) - 1)
    <3>1. p \in Seq(Nat) /\ \A k \in 1..Len(p) : p[k] \in 1..s.count
      BY <1>1, <2>3, Popped
    <3> HIDE DEF p
    <3>2. t = Inside(s, s.to, s.system, s.count, p)
      BY <2>3 DEF p
    <3> QED BY <1>1, <1>3, <3>1, <3>2
  <2> QED BY <1>7, <2>1, <2>2, <2>3 DEF CallAfter
<1> QED BY <1>4, <1>5, <1>6, <1>7 DEF After

\* A line that can follow still can when more blocks have failed.
LEMMA AfterMonotone ==
    ASSUME NEW F, NEW G, F \subseteq G, NEW l, NEW s, NEW t, After(F, l, s, t)
    PROVE  After(G, l, s, t)
BY DEF After, TraceEndsAfter

\* The active trace is the one at position s.
TraceAgrees(s) ==
    /\ currentTrace # Nil /\ currentTrace.to = s.to /\ inSystemCall = s.system
    /\ Len(currentTrace.calls) = IF s.count = 0 THEN 1 ELSE s.count
    /\ ParentsInRange(currentTrace.calls)
    /\ s.count > 0 /\ ~s.system /\ s.to = NoAddress => currentTrace.calls[1].type = "CREATE"

\* The active block is the one at position s.
BlockAgrees(s) ==
    IF InBlockAt(s) THEN /\ currentBlock # Nil /\ currentBlock.num = s.num /\ stats = TRUE
                         /\ s.phase = "sealed" => finalizing
    ELSE currentBlock = Nil /\ transactionTraces = << >>

\* The reader is at position s.
Agrees(s) ==
    /\ s.phase # "boot" => proto.ver # 0
    /\ evmCallStackIndexes = s.stack /\ blocksSeen = s.seq
    /\ BlockAgrees(s)
    /\ IF s.open THEN TraceAgrees(s) ELSE currentTrace = Nil

\* The reader accepts a line of a block and follows the node; only normalization
\* may panic.
LEMMA BlockLinesAgree ==
    ASSUME TypeInv, SystemCallFlag,
           NEW s \in View, NEW t, NEW l, BlockAfter(l, s, t), Agrees(s), Dispatch(l)
    PROVE  status' # "error" /\ (status' = "running" => Agrees(t)')
<1>0. ~s.open /\ currentTrace = Nil /\ ~inSystemCall /\ s.stack = << >> /\ Running
  BY DEF BlockAfter, Agrees, View, SystemCallFlag, Dispatch, Running,
         ReadInit, ReadBeginBlock, ReadFinalizeBlock, ReadEndBlock, ReadCancelBlock,
         ReadBalanceChange
<1>1. \A phase, num, seq :
         LET v == Outside(phase, num, seq) IN
         v.phase = phase /\ v.num = num /\ v.seq = seq /\ ~v.open /\ v.stack = << >>
  BY DEF Outside
<1>2. CASE l.type = "INIT"
  <2>1. /\ l.ver \in Versions /\ s.phase = "boot" /\ t = Outside("idle", s.num, s.seq)
        /\ ReadInit(l.ver, l.polygon)
    BY <1>2 DEF BlockAfter, Dispatch
  <2>2. l.ver \in KnownVersions
    BY <2>1, NodeAssumption
  <2>3. /\ proto'.ver # 0 /\ UNCHANGED <<traceVars, blockVars, evmCallStackIndexes, stats,
                                          history, status>>
    BY <2>1, <2>2 DEF ReadInit, Accept
  <2>4. Agrees(t)'
    BY <1>0, <1>1, <2>1, <2>3
       DEF Agrees, BlockAgrees, InBlockAt, traceVars, blockVars, history
  <2> QED BY <1>0, <2>3, <2>4 DEF Running
<1>3. CASE l.type = "BEGIN_BLOCK"
  <2>1. /\ s.phase = "idle" /\ t = Outside("block", l.num, s.seq + 1)
        /\ ReadBeginBlock(l.num)
    BY <1>3 DEF BlockAfter, Dispatch
  <2>2. CanBeginBlock
    BY <2>1 DEF CanBeginBlock, Agrees, BlockAgrees, InBlockAt
  <2>3. /\ blocksSeen' = s.seq + 1 /\ stats' = TRUE /\ currentBlock' # Nil
        /\ currentBlock'.num = l.num
        /\ UNCHANGED <<proto, traceVars, evmCallStackIndexes, status>>
    <3>1. /\ blocksSeen' = blocksSeen + 1 /\ stats' = TRUE
          /\ currentBlock' = [num |-> l.num, ver |-> proto.ver, seq |-> blocksSeen + 1,
                              trxs |-> << >>, sys |-> << >>, changes |-> << >>]
          /\ UNCHANGED <<proto, traceVars, evmCallStackIndexes, status>>
      BY <2>1, <2>2 DEF ReadBeginBlock, Accept
    <3>2. l.num \in Nat /\ proto.ver \in {2, 3} /\ blocksSeen + 1 \in Nat
      <4>1. l.num \in Nat
        BY <1>3, ReaderAssumption DEF BlockAfter
      <4>2. blocksSeen + 1 \in Nat
        BY DEF TypeInv, TypeOK
      <4>3. proto.ver \in {0, 2, 3}
        BY DEF TypeInv, TypeOK, Protocol
      <4> QED BY <2>2, <4>1, <4>2, <4>3 DEF CanBeginBlock
    <3>3. << >> \in Seq(Trx) /\ << >> \in Seq(EndedSystemCall) /\ << >> \in BlockChanges
      BY EmptySeqType DEF BlockChanges
    <3>4. currentBlock' \in Block
      BY <3>1, <3>2, <3>3 DEF Block
    <3>5. currentBlock' # Nil
      BY <3>4, NodeAssumption
    <3>6. currentBlock'.num = l.num
      BY <3>1
    <3> QED BY <3>1, <3>5, <3>6 DEF Agrees
  <2>4. Agrees(t)'
    BY <1>0, <1>1, <2>1, <2>3 DEF Agrees, BlockAgrees, InBlockAt, traceVars
  <2> QED BY <1>0, <2>3, <2>4 DEF Running
<1>4. CASE l.type = "BALANCE_CHANGE"
  <2>1. /\ l.index = 0 /\ InBlockAt(s) /\ t = Outside(s.phase, s.num, s.seq)
        /\ ReadBalanceChange(l.index, l.ord, TRUE)
    BY <1>4 DEF BlockAfter, Dispatch
  <2>2. currentBlock # Nil
    BY <2>1 DEF Agrees, BlockAgrees
  <2>3. OnBlock("BALANCE", l.ord)
    BY <1>0, <2>1, <2>2 DEF ReadBalanceChange, CallExists
  <2>4. currentBlock' # Nil /\ currentBlock'.num = currentBlock.num
    <3>1. currentBlock \in Block /\ l.ord \in Nat
      BY <1>4, <2>2 DEF BlockAfter, TypeInv, TypeOK
    <3>2. Append(currentBlock.changes, [kind |-> "BALANCE", ord |-> l.ord]) \in BlockChanges
      BY <3>1 DEF Block, BlockChanges, ChangeKind
    <3>3. currentBlock' = [currentBlock EXCEPT
             !.changes = Append(currentBlock.changes, [kind |-> "BALANCE", ord |-> l.ord])]
      BY <2>3 DEF OnBlock
    <3>4. currentBlock' \in Block /\ currentBlock'.num = currentBlock.num
      BY <3>1, <3>2, <3>3 DEF Block
    <3> QED BY <3>4, NodeAssumption
  <2>5. UNCHANGED <<proto, evmCallStackIndexes, blocksSeen, stats, finalizing, currentTrace,
                    status>>
    BY <2>3 DEF OnBlock, DetailFrame, Accept
  <2>6. Agrees(t)'
    BY <1>0, <1>1, <2>1, <2>2, <2>4, <2>5 DEF Agrees, BlockAgrees, InBlockAt
  <2> QED BY <1>0, <2>5, <2>6 DEF Running
<1>5. CASE l.type = "FINALIZE_BLOCK"
  <2>1. /\ l.num = s.num /\ s.phase = "block" /\ t = Outside("sealed", s.num, s.seq)
        /\ ReadFinalizeBlock(l.num)
    BY <1>5 DEF BlockAfter, Dispatch
  <2>2. currentBlock # Nil /\ currentBlock.num = l.num
    BY <2>1 DEF Agrees, BlockAgrees, InBlockAt
  <2>3. /\ finalizing' = TRUE
        /\ UNCHANGED <<proto, currentTrace, currentBlock, evmCallStackIndexes, stats,
                       blocksSeen, status>>
    BY <1>0, <2>1, <2>2 DEF ReadFinalizeBlock, Accept, traceVars, history
  <2>4. Agrees(t)'
    BY <1>0, <1>1, <2>1, <2>2, <2>3 DEF Agrees, BlockAgrees, InBlockAt
  <2> QED BY <1>0, <2>3, <2>4 DEF Running
<1>6. CASE l.type = "END_BLOCK"
  <2>1. /\ l.num = s.num /\ s.phase = "sealed" /\ t = Outside("idle", s.num, s.seq)
        /\ ReadEndBlock(l.num, l.num, Nil, TRUE)
    BY <1>6 DEF BlockAfter, Dispatch
  <2>2. currentBlock # Nil /\ currentBlock.num = l.num /\ finalizing
    BY <2>1 DEF Agrees, BlockAgrees, InBlockAt
  <2>3. /\ ResetBlock
        /\ UNCHANGED <<proto, currentTrace, evmCallStackIndexes, blocksSeen>>
        /\ status' \in {status, "panic"}
    BY <2>1, <2>2 DEF ReadEndBlock, EndWith, traceVars, history
  <2>4. Agrees(t)'
    BY <1>0, <1>1, <2>1, <2>3 DEF Agrees, BlockAgrees, InBlockAt, ResetBlock
  <2> QED BY <1>0, <2>3, <2>4 DEF Running
<1>7. CASE l.type = "CANCEL_BLOCK"
  <2>1. /\ l.num = s.num
        /\ InBlockAt(s) \/ s.phase = "failed"
        /\ t = Outside("idle", s.num, s.seq)
        /\ ReadCancelBlock(l.num)
    BY <1>7 DEF BlockAfter, Dispatch
  <2>2. CASE InBlockAt(s)
    <3>1. currentBlock # Nil /\ currentBlock.num = l.num
      BY <1>7, <2>2 DEF Agrees, BlockAgrees, BlockAfter
    <3>2. /\ ResetBlock /\ currentTrace' = Nil
          /\ UNCHANGED <<proto, evmCallStackIndexes, blocksSeen, status>>
      BY <2>1, <3>1 DEF ReadCancelBlock, ResetTrace, Accept, history
    <3>3. Agrees(t)'
      BY <1>0, <1>1, <2>1, <2>2, <3>2 DEF Agrees, BlockAgrees, InBlockAt, ResetBlock
    <3> QED BY <1>0, <3>2, <3>3 DEF Running
  <2>3. CASE ~InBlockAt(s)
    <3>1. currentBlock = Nil /\ transactionTraces = << >> /\ s.phase = "failed"
      BY <2>1, <2>3 DEF Agrees, BlockAgrees
    <3>2. UNCHANGED <<proto, currentBlock, transactionTraces, currentTrace,
                      evmCallStackIndexes, blocksSeen, status>>
      BY <2>1, <3>1 DEF ReadCancelBlock, vars, ctxVars, history
    <3>3. Agrees(t)'
      BY <1>0, <1>1, <2>1, <2>3, <3>1, <3>2 DEF Agrees, BlockAgrees, InBlockAt
    <3> QED BY <1>0, <3>2, <3>3 DEF Running
  <2> QED BY <2>2, <2>3
<1> QED BY <1>2, <1>3, <1>4, <1>5, <1>6, <1>7 DEF BlockAfter

\* The trace fields of the reader before and after the lines of transactions.
LEMMA TraceBeginsAgree ==
    ASSUME TypeInv, SystemCallFlag,
           NEW s \in View, NEW t, NEW l, TraceBeginsAfter(l, s, t), Agrees(s), Dispatch(l)
    PROVE  status' # "error" /\ (status' = "running" => Agrees(t)')
<1>0. /\ currentTrace = Nil /\ ~inSystemCall /\ stats = TRUE /\ s.phase # "boot"
      /\ BlockAgrees(s) /\ InBlockAt(s) /\ s.stack = << >>
  BY DEF TraceBeginsAfter, Agrees, BlockAgrees, InBlockAt, View, SystemCallFlag
<1>1. ASSUME NEW to \in Address, NEW system \in BOOLEAN, NEW index \in Nat, NEW ord \in Nat,
             t = Inside(s, to, system, 0, << >>),
             StartTrace(NewTrx(tracesSeen + 1, index, to, ord, NewCall(1, "CALL", to, 0),
                               blocksSeen, system)),
             inSystemCall' = system, Running
      PROVE  status' # "error" /\ (status' = "running" => Agrees(t)')
  <2> DEFINE root == NewCall(1, "CALL", to, 0)
             trace == NewTrx(tracesSeen + 1, index, to, ord, root, blocksSeen, system)
  <2>1. trace \in Trx
    <3>1. tracesSeen + 1 \in Nat /\ blocksSeen \in Nat
      BY DEF TypeInv, TypeOK
    <3>2. root \in Call
      BY NewCallType DEF CallType
    <3> HIDE DEF root
    <3> QED BY <3>1, <3>2, NewTrxType
  <2>2. trace.to = to /\ trace.calls = <<root>> /\ root.parent = 0
    BY DEF NewTrx, NewCall
  <2>3. currentTrace' = trace
    BY <1>1 DEF StartTrace
  <2> HIDE DEF root, trace
  <2>4. Len(trace.calls) = 1 /\ ParentsInRange(trace.calls)
    BY <2>2 DEF ParentsInRange
  <2>5. UNCHANGED <<proto, currentBlock, finalizing, transactionTraces, stats,
                    evmCallStackIndexes, blocksSeen, status>>
    BY <1>1 DEF StartTrace, blockVars, Accept
  <2>6. /\ t.phase = s.phase /\ t.num = s.num /\ t.seq = s.seq /\ t.open
        /\ t.to = to /\ t.system = system /\ t.count = 0 /\ t.stack = << >>
    BY <1>1 DEF Inside
  <2>7. TraceAgrees(t)'
    BY <1>1, <2>1, <2>2, <2>3, <2>4, <2>6, ReaderAssumption DEF TraceAgrees
  <2>8. BlockAgrees(t)'
    BY <1>0, <2>5, <2>6 DEF BlockAgrees, InBlockAt
  <2>9. Agrees(t)'
    BY <1>0, <2>5, <2>6, <2>7, <2>8 DEF Agrees
  <2> QED BY <1>1, <2>5, <2>9 DEF Running
<1>2. CASE l.type = "BEGIN_APPLY_TRX"
  <2>1. /\ l.to \in Address /\ l.index \in Nat /\ l.ord \in Nat
        /\ t = Inside(s, l.to, FALSE, 0, << >>) /\ ReadApplyTrxBegin(l.to, l.index, l.ord)
    BY <1>2, ReaderAssumption DEF TraceBeginsAfter, Dispatch
  <2>2. TrxIndex(l.index) \in Nat
    BY <2>1 DEF TrxIndex, TypeInv, TypeOK
  <2>3. /\ StartTrace(NewTrx(tracesSeen + 1, TrxIndex(l.index), l.to, l.ord,
                             NewCall(1, "CALL", l.to, 0), blocksSeen, FALSE))
        /\ inSystemCall' = FALSE /\ Running
    BY <1>0, <2>1 DEF ReadApplyTrxBegin, TypeInv, TypeOK
  <2> QED BY <1>1, <2>1, <2>2, <2>3
<1>3. CASE l.type = "SYSTEM_CALL_START"
  <2>1. t = Inside(s, NoAddress, TRUE, 0, << >>) /\ ReadSystemCallStart
    BY <1>3 DEF TraceBeginsAfter, Dispatch
  <2>2. /\ StartTrace(NewTrx(tracesSeen + 1, 0, NoAddress, 0,
                             NewCall(1, "CALL", NoAddress, 0), blocksSeen, TRUE))
        /\ inSystemCall' = TRUE /\ Running
    BY <1>0, <2>1 DEF ReadSystemCallStart
  <2>3. NoAddress \in Address /\ 0 \in Nat
    BY DEF Address
  <2> QED BY <1>1, <2>1, <2>2, <2>3
<1> QED BY <1>2, <1>3 DEF TraceBeginsAfter

\* A transaction that ends has the calls its end needs, so that its end is neither
\* refused nor a panic.
LEMMA TraceEndsAgree ==
    ASSUME TypeInv, SystemCallFlag,
           NEW s \in View, NEW t, NEW F, NEW l, TraceEndsAfter(F, l, s, t),
           Agrees(s), Dispatch(l)
    PROVE  status' # "error" /\ (status' = "running" => Agrees(t)')
<1>0. /\ TraceAgrees(s) /\ BlockAgrees(s) /\ currentTrace # Nil /\ inSystemCall = s.system
      /\ currentBlock # Nil /\ InBlockAt(s) /\ s.phase # "boot" /\ s.stack = << >>
      /\ s.count \in Nat
  BY DEF TraceEndsAfter, Agrees, BlockAgrees, TraceAgrees, InBlockAt, View
<1>1. ASSUME t = Outside(s.phase, s.num, s.seq), currentTrace' = Nil,
             UNCHANGED <<proto, currentBlock, finalizing, stats, evmCallStackIndexes,
                         blocksSeen>>
      PROVE  Agrees(t)'
  <2>1. /\ t.phase = s.phase /\ t.num = s.num /\ t.seq = s.seq /\ ~t.open
        /\ t.stack = << >>
    BY <1>1 DEF Outside
  <2>2. BlockAgrees(t)'
    BY <1>0, <1>1, <2>1 DEF BlockAgrees, InBlockAt
  <2> QED BY <1>0, <1>1, <2>1, <2>2 DEF Agrees
<1>2. CASE l.type = "END_APPLY_TRX"
  <2>1. /\ ~s.system /\ s.count >= 1 /\ t = Outside(s.phase, s.num, s.seq)
        /\ ReadApplyTrxEnd(l.ord, l.receipt)
    BY <1>2 DEF TraceEndsAfter, Dispatch
  <2>2. /\ currentTrace.to = NoAddress => currentTrace.calls[1].type = "CREATE"
        /\ ParentsInRange(currentTrace.calls)
    BY <1>0, <2>1 DEF TraceAgrees
  <2>3. /\ ResetTrace
        /\ UNCHANGED <<proto, currentBlock, finalizing, stats, evmCallStackIndexes,
                       blocksSeen, status>> /\ Running
    BY <1>0, <2>1, <2>2, Zenon DEF ReadApplyTrxEnd, Accept, history
  <2> QED BY <1>1, <2>1, <2>3 DEF ResetTrace, Running
<1>3. CASE l.type = "SYSTEM_CALL_END"
  <2>1. /\ s.system /\ s.count = 1 /\ t = Outside(s.phase, s.num, s.seq)
        /\ ReadSystemCallEnd
    BY <1>3 DEF TraceEndsAfter, Dispatch
  <2>2. Len(currentTrace.calls) = 1
    BY <1>0, <2>1 DEF TraceAgrees
  <2>3. /\ ResetTrace
        /\ UNCHANGED <<proto, currentBlock, finalizing, stats, evmCallStackIndexes,
                       blocksSeen, status>> /\ Running
    BY <1>0, <2>1, <2>2 DEF ReadSystemCallEnd, Accept, history
  <2> QED BY <1>1, <2>1, <2>3 DEF ResetTrace, Running
<1>4. CASE l.type = "SKIPPED_TRX"
  <2>1. /\ ~s.system /\ t = Outside(s.phase, s.num, s.seq) /\ ReadSkippedTrx
    BY <1>4 DEF TraceEndsAfter, Dispatch
  <2>2. /\ currentTrace' = Nil
        /\ UNCHANGED <<proto, currentBlock, finalizing, stats, evmCallStackIndexes,
                       blocksSeen, status>> /\ Running
    BY <1>0, <2>1 DEF ReadSkippedTrx, InTransaction, Accept, blockVars, history
  <2> QED BY <1>1, <2>1, <2>2 DEF Running
<1>5. CASE l.type = "FAILED_APPLY_TRX"
  <2>1. /\ ~s.system /\ t = Outside("failed", s.num, s.seq) /\ ReadFailedApplyTrx
    BY <1>5 DEF TraceEndsAfter, Dispatch
  <2>2. /\ currentTrace' = Nil /\ currentBlock' = Nil /\ transactionTraces' = << >>
        /\ UNCHANGED <<proto, evmCallStackIndexes, blocksSeen, status>> /\ Running
    BY <1>0, <2>1 DEF ReadFailedApplyTrx, InTransaction, Accept, history
  <2>3. t.phase = "failed" /\ t.seq = s.seq /\ ~t.open /\ t.stack = << >>
    BY <2>1 DEF Outside
  <2>4. Agrees(t)'
    BY <1>0, <2>2, <2>3 DEF Agrees, BlockAgrees, InBlockAt
  <2> QED BY <2>2, <2>4 DEF Running
<1> QED BY <1>2, <1>3, <1>4, <1>5 DEF TraceEndsAfter

\* The calls of the active trace with one of them rewritten.
LEMMA RewrittenCallAgrees ==
    ASSUME TypeInv, currentTrace # Nil, NEW i \in 1..Len(currentTrace.calls),
           NEW call \in Call, WriteCall(i, call),
           ParentsInRange(currentTrace.calls), call.parent <= Len(currentTrace.calls)
    PROVE  /\ currentTrace' # Nil /\ currentTrace'.to = currentTrace.to
           /\ Len(currentTrace'.calls) = Len(currentTrace.calls)
           /\ ParentsInRange(currentTrace'.calls)
           /\ Len(currentTrace.calls) >= 1
           /\ currentTrace'.calls[1].type =
                 IF i = 1 THEN call.type ELSE currentTrace.calls[1].type
<1> DEFINE calls == currentTrace.calls
           new == [calls EXCEPT ![i] = call]
<1>1. currentTrace \in Trx /\ calls \in Seq(Call) /\ Len(calls) \in Nat
  BY DEF TypeInv, TypeOK, Trx
<1>2. /\ new \in Seq(Call) /\ Len(new) = Len(calls)
      /\ \A k \in 1..Len(calls) : new[k] = IF k = i THEN call ELSE calls[k]
  BY <1>1
<1>3. ParentsInRange(new)
  BY <1>2 DEF ParentsInRange
<1>4. 1 \in 1..Len(calls)
  BY <1>1
<1>5. currentTrace' = [currentTrace EXCEPT !.calls = new]
  BY DEF WriteCall
<1>6. new[1].type = IF i = 1 THEN call.type ELSE calls[1].type
  BY <1>2, <1>4
<1> HIDE DEF new
<1>7. currentTrace' \in Trx /\ currentTrace'.calls = new /\ currentTrace'.to = currentTrace.to
  BY <1>1, <1>2, <1>5 DEF Trx
<1> QED BY <1>2, <1>3, <1>4, <1>6, <1>7, ReaderAssumption

\* The call lines name calls of the active trace, and the tops of the node's stack
\* and of the reader's are one call.
LEMMA CallLinesAgree ==
    ASSUME TypeInv, SystemCallFlag,
           NEW s \in View, NEW t, NEW l, CallAfter(l, s, t), Agrees(s), Dispatch(l)
    PROVE  status' # "error" /\ (status' = "running" => Agrees(t)')
<1> DEFINE calls == currentTrace.calls
           n == Len(calls)
<1>0. /\ TraceAgrees(s) /\ BlockAgrees(s) /\ currentTrace # Nil /\ inSystemCall = s.system
      /\ InBlockAt(s) /\ s.phase # "boot" /\ proto.ver # 0
      /\ s.count \in Nat /\ s.stack \in Seq(Nat)
      /\ \A k \in 1..Len(s.stack) : s.stack[k] \in 1..s.count
      /\ evmCallStackIndexes = s.stack /\ blocksSeen = s.seq
  BY DEF CallAfter, Agrees, TraceAgrees, InBlockAt, View
<1>1. /\ currentTrace \in Trx /\ calls \in Seq(Call) /\ n \in Nat
      /\ n = IF s.count = 0 THEN 1 ELSE s.count
      /\ ParentsInRange(calls) /\ currentTrace.to = s.to
      /\ s.count > 0 /\ ~s.system /\ s.to = NoAddress => calls[1].type = "CREATE"
  BY <1>0 DEF TraceAgrees, TypeInv, TypeOK, Trx
<1>2. ASSUME NEW count, NEW stack,
             t = Inside(s, s.to, s.system, count, stack), evmCallStackIndexes' = stack,
             currentTrace' # Nil, currentTrace'.to = s.to,
             Len(currentTrace'.calls) = IF count = 0 THEN 1 ELSE count,
             ParentsInRange(currentTrace'.calls),
             count > 0 /\ ~s.system /\ s.to = NoAddress =>
                 currentTrace'.calls[1].type = "CREATE",
             UNCHANGED <<proto, currentBlock, finalizing, stats, inSystemCall, blocksSeen>>
      PROVE  Agrees(t)'
  <2>1. /\ t.phase = s.phase /\ t.num = s.num /\ t.seq = s.seq /\ t.open
        /\ t.to = s.to /\ t.system = s.system /\ t.count = count /\ t.stack = stack
    BY <1>2 DEF Inside
  <2>2. TraceAgrees(t)'
    BY <1>0, <1>2, <2>1 DEF TraceAgrees
  <2>3. BlockAgrees(t)'
    BY <1>0, <1>2, <2>1 DEF BlockAgrees, InBlockAt
  <2> QED BY <1>0, <1>2, <2>1, <2>2, <2>3 DEF Agrees
<1>3. ASSUME NEW i \in 1..s.count, NEW call \in Call,
             call.parent <= n, call.type = calls[i].type, WriteCall(i, call),
             NEW stack, t = Inside(s, s.to, s.system, s.count, stack),
             evmCallStackIndexes' = stack,
             UNCHANGED <<proto, currentBlock, finalizing, stats, inSystemCall, blocksSeen>>
      PROVE  Agrees(t)'
  <2>1. i \in 1..n
    BY <1>0, <1>1, <1>3
  <2>2. /\ currentTrace' # Nil /\ currentTrace'.to = currentTrace.to
        /\ Len(currentTrace'.calls) = n /\ ParentsInRange(currentTrace'.calls)
        /\ currentTrace'.calls[1].type = calls[1].type
    BY <1>0, <1>1, <1>3, <2>1, RewrittenCallAgrees
  <2> HIDE DEF n, calls
  <2> QED BY <1>1, <1>2, <1>3, <2>2
<1>4. ASSUME NEW i \in 1..s.count
      PROVE  i \in Nat /\ CallExists(i) /\ calls[i] \in Call /\ calls[i].parent <= n
  <2>1. i \in Nat /\ i \in 1..n
    BY <1>0, <1>1, <1>4
  <2> QED BY <1>0, <1>1, <2>1 DEF CallExists, ParentsInRange
<1>5. CASE l.type = "EVM_RUN_CALL"
  <2> DEFINE i == s.count + 1
             pushed == Append(s.stack, i)
             root == [calls[1] EXCEPT !.type = l.call,
                                      !.begin = IF inSystemCall THEN l.ord ELSE @]
             fresh == NewCall(i, l.call, NoAddress, l.ord)
  <2>1. /\ l.index = i /\ l.call \in CallType /\ l.ord \in Nat
        /\ s.count = 0 /\ ~s.system /\ s.to = NoAddress => l.call = "CREATE"
        /\ t = Inside(s, s.to, s.system, i, pushed)
        /\ ReadEVMRunCall(l.call, i, l.ord)
    BY <1>5, ReaderAssumption DEF CallAfter, Dispatch
  <2>2. /\ Running /\ evmCallStackIndexes' = pushed
        /\ UNCHANGED <<proto, currentBlock, finalizing, stats, inSystemCall, blocksSeen>>
    BY <1>0, <2>1 DEF ReadEVMRunCall, blockVars, history
  <2>3. CASE s.count = 0
    <3>1. i = 1 /\ n = 1 /\ calls[1] \in Call /\ 1 \in 1..n
      BY <1>0, <1>1, <2>3
    <3>2. /\ currentTrace' = [currentTrace EXCEPT !.calls[1] = root] /\ status' = status
      BY <1>0, <2>1, <3>1 DEF ReadEVMRunCall, NextCall
    <3>3. root \in Call /\ root.parent = calls[1].parent /\ root.type = l.call
      BY <2>1, <3>1 DEF Call
    <3>4. WriteCall(1, root) /\ root.parent <= n
      BY <1>1, <3>1, <3>2, <3>3 DEF WriteCall, ParentsInRange
    <3> HIDE DEF root, calls, n
    <3>5. /\ currentTrace' # Nil /\ currentTrace'.to = currentTrace.to
          /\ Len(currentTrace'.calls) = n /\ ParentsInRange(currentTrace'.calls)
          /\ currentTrace'.calls[1].type = l.call
      BY <1>0, <1>1, <3>1, <3>3, <3>4, RewrittenCallAgrees DEF calls, n
    <3> HIDE DEF pushed
    <3>6. Agrees(t)'
      BY <1>1, <1>2, <2>1, <2>2, <2>3, <3>1, <3>5
    <3> QED BY <2>2, <3>2, <3>6 DEF Running
  <2>4. CASE s.count # 0
    <3>1. i # 1 /\ i - 1 = n /\ n = s.count /\ i \in Nat
      BY <1>0, <1>1, <2>4
    <3>2. /\ currentTrace' = [currentTrace EXCEPT !.calls = Append(calls, fresh)]
          /\ status' = status
      BY <1>0, <2>1, <3>1 DEF ReadEVMRunCall, NextCall
    <3>3. fresh \in Call /\ fresh.parent = 0
      <4>1. NoAddress \in Address
        BY DEF Address
      <4> QED BY <2>1, <3>1, <4>1, NewCallType DEF NewCall
    <3> HIDE DEF fresh
    <3> DEFINE new == Append(calls, fresh)
    <3>4. /\ new \in Seq(Call) /\ Len(new) = n + 1 /\ new[n + 1] = fresh
          /\ \A k \in 1..n : new[k] = calls[k]
      BY <1>1, <3>3, AppendProperties
    <3>5. ParentsInRange(new) /\ new[1] = calls[1]
      <4>1. ASSUME NEW k \in 1..(n + 1) PROVE new[k].parent <= n + 1
        <5>1. CASE k = n + 1
          BY <1>1, <3>3, <3>4, <5>1
        <5>2. CASE k # n + 1
          <6>1. k \in 1..n
            BY <1>1, <5>2
          <6>2. calls[k] \in Call
            BY <1>1, <6>1
          <6>3. calls[k].parent <= n /\ calls[k].parent \in Nat
            BY <1>1, <6>1, <6>2 DEF ParentsInRange, Call
          <6>4. new[k] = calls[k]
            BY <3>4, <6>1
          <6> HIDE DEF new, calls, n
          <6> QED BY <1>1, <6>3, <6>4
        <5> QED BY <5>1, <5>2
      <4>2. 1 \in 1..n
        BY <1>0, <2>4, <3>1
      <4> QED BY <3>4, <4>1, <4>2 DEF ParentsInRange
    <3> HIDE DEF new
    <3>6. currentTrace' = [currentTrace EXCEPT !.calls = new]
      BY <3>2 DEF new
    <3>7. currentTrace' \in Trx /\ currentTrace'.calls = new /\ currentTrace'.to = s.to
      BY <1>1, <3>4, <3>6 DEF Trx
    <3> HIDE DEF calls, n, pushed
    <3>8. Len(currentTrace'.calls) = i /\ currentTrace' # Nil
      BY <1>0, <3>1, <3>4, <3>7, ReaderAssumption
    <3>9. s.count > 0
      BY <1>0, <2>4
    <3>10. Agrees(t)'
      <4>1. Len(currentTrace'.calls) = IF i = 0 THEN 1 ELSE i
        <5>1. i # 0
          BY <1>0
        <5> HIDE DEF i
        <5> QED BY <3>8, <5>1
      <4> HIDE DEF i
      <4> QED BY <1>1, <1>2, <2>1, <2>2, <3>5, <3>7, <3>8, <3>9, <4>1
    <3> QED BY <2>2, <3>2, <3>10 DEF Running
  <2> QED BY <2>3, <2>4
<1>6. CASE l.type = "EVM_CALL_FAILED"
  <2>1. /\ l.index \in 1..s.count /\ t = Inside(s, s.to, s.system, s.count, s.stack)
        /\ ReadEVMCallFailed(l.index)
    BY <1>6 DEF CallAfter, Dispatch
  <2> DEFINE call == [calls[l.index] EXCEPT !.statusFailed = TRUE]
  <2>2. /\ call \in Call /\ call.parent = calls[l.index].parent
        /\ call.type = calls[l.index].type
    BY <1>4, <2>1, ZenonT(30) DEF Call
  <2>3. OnCall(l.index, call)
    BY <1>4, <2>1 DEF ReadEVMCallFailed, Annotate
  <2> HIDE DEF call
  <2>4. /\ WriteCall(l.index, call) /\ status' = status /\ status # "error"
        /\ UNCHANGED <<proto, currentBlock, finalizing, stats, inSystemCall, blocksSeen,
                       evmCallStackIndexes>>
    BY <2>1, <2>3 DEF OnCall, DetailFrame, Accept, ReadEVMCallFailed, Annotate, Running
  <2>5. Agrees(t)'
    BY <1>0, <1>3, <1>4, <2>1, <2>2, <2>4
  <2> QED BY <2>4, <2>5
<1>7. CASE l.type = "ADD_LOG"
  <2> DEFINE i == l.index
             log == [trx |-> currentTrace.hash, index |-> LogIndex(i), data |-> l.data,
                     ord |-> l.ord, blockIndex |-> 0]
             logs == Append(calls[i].logs, log)
             call == [calls[i] EXCEPT !.logs = logs]
  <2>1. /\ i \in 1..s.count /\ l.data \in LogData /\ l.ord \in Nat
        /\ t = Inside(s, s.to, s.system, s.count, s.stack)
        /\ ReadAddLog(i, l.data, 0, l.ord)
    BY <1>7 DEF CallAfter, Dispatch
  <2>2. i \in Nat /\ i # 0 /\ CallExists(i) /\ calls[i] \in Call
    BY <1>4, <2>1
  <2>3. log \in Log
    BY <1>1, <2>1 DEF LogIndex, Log, Trx, TypeInv, TypeOK
  <2>4. /\ WriteCall(i, call) /\ Running
        /\ DetailFrame /\ Accept /\ UNCHANGED currentBlock
    BY <2>1, <2>2 DEF ReadAddLog
  <2> HIDE DEF log
  <2>5. logs \in Seq(Log)
    <3>1. calls[i].logs \in Seq(Log)
      BY <2>2 DEF Call
    <3> HIDE DEF calls
    <3> QED BY <2>3, <3>1
  <2> HIDE DEF logs
  <2>6. call \in Call /\ call.parent = calls[i].parent /\ call.type = calls[i].type
    BY <2>2, <2>5 DEF Call
  <2> HIDE DEF call
  <2>7. /\ status' = status /\ status # "error"
        /\ UNCHANGED <<proto, currentBlock, finalizing, stats, inSystemCall, blocksSeen,
                       evmCallStackIndexes>>
    BY <2>4 DEF DetailFrame, Accept, Running
  <2>8. Agrees(t)'
    BY <1>0, <1>3, <1>4, <2>1, <2>4, <2>6, <2>7
  <2> QED BY <2>7, <2>8
<1>8. CASE l.type = "EVM_END_CALL"
  <2> DEFINE i == l.index
             top == Len(s.stack)
             stack == SubSeq(s.stack, 1, top - 1)
             call == [calls[i] EXCEPT !.parent = ParentAndDepth.parent,
                                      !.depth = ParentAndDepth.depth, !.end = l.ord]
  <2>1. /\ s.stack # << >> /\ i = s.stack[top] /\ l.ord \in Nat
        /\ t = Inside(s, s.to, s.system, s.count, stack)
        /\ ReadEVMEndCall(i, l.ord)
    BY <1>8 DEF CallAfter, Dispatch
  <2>2. /\ top \in Nat /\ top # 0 /\ i \in 1..s.count
        /\ top # 1 => top - 1 \in 1..top /\ s.stack[top - 1] \in 1..s.count
    <3>1. top \in Nat /\ top # 0
      BY <1>0, <2>1, EmptySeq
    <3>2. top \in 1..top /\ (top # 1 => top - 1 \in 1..top)
      <4> HIDE DEF top
      <4> QED BY <3>1
    <3> QED BY <1>0, <2>1, <3>1, <3>2
  <2>3. i \in Nat /\ CallExists(i) /\ calls[i] \in Call
    BY <1>4, <2>2
  <2>4. /\ WriteCall(i, call) /\ Running /\ evmCallStackIndexes' = PoppedStack
        /\ UNCHANGED <<proto, currentBlock, finalizing, stats, inSystemCall, blocksSeen,
                       status>>
    BY <1>0, <2>1, <2>3 DEF ReadEVMEndCall, Accept, blockVars, history
  <2>5. ParentAndDepth.parent \in Nat /\ ParentAndDepth.depth \in Nat
    BY <1>0, <2>1, StackTop
  <2>6. ParentAndDepth.parent <= n
    <3>1. CASE top = 1
      BY <1>0, <1>1, <3>1 DEF ParentAndDepth
    <3>2. CASE top # 1
      <4>1. ParentAndDepth.parent = s.stack[top - 1]
        BY <1>0, <3>2 DEF ParentAndDepth
      <4>2. s.stack[top - 1] \in 1..s.count
        BY <2>2, <3>2
      <4> HIDE DEF top, n
      <4> QED BY <1>0, <1>1, <4>1, <4>2
    <3> QED BY <3>1, <3>2
  <2>7. /\ call \in Call /\ call.parent = ParentAndDepth.parent
        /\ call.type = calls[i].type
    BY <2>1, <2>3, <2>5 DEF Call
  <2>8. evmCallStackIndexes' = stack
    BY <1>0, <2>4 DEF PoppedStack
  <2> HIDE DEF call, stack, n, i
  <2>9. Agrees(t)'
    BY <1>3, <2>1, <2>2, <2>4, <2>6, <2>7, <2>8
  <2> QED BY <2>4, <2>9 DEF Running
<1> QED BY <1>5, <1>6, <1>7, <1>8 DEF CallAfter

\* The handler of a node's line does what the reader may do on its own.
LEMMA LinesAreRead ==
    ASSUME NEW F, NEW s \in View, NEW t, NEW l, After(F, l, s, t), Dispatch(l)
    PROVE  AnyNext
<1>0. /\ \A k \in 1..Len(s.stack) : s.stack[k] \in 1..s.count
      /\ s.phase \in {"block", "sealed", "failed"} => s.num \in BlockNums
      /\ s.count \in Nat /\ s.stack \in Seq(Nat)
  BY DEF View
<1>1. CASE BlockAfter(l, s, t)
  <2>1. CASE l.type = "INIT"
    BY <1>1, <2>1 DEF BlockAfter, Dispatch, AnyNext, AnyBlockLine
  <2>2. CASE l.type = "BEGIN_BLOCK"
    BY <1>1, <2>2 DEF BlockAfter, Dispatch, AnyNext, AnyBlockLine
  <2>3. CASE l.type = "BALANCE_CHANGE"
    <3>1. l.index = 0 /\ l.ord \in Nat
      BY <1>1, <2>3 DEF BlockAfter
    <3>2. ReadBalanceChange(l.index, l.ord, TRUE)
      BY <2>3 DEF Dispatch
    <3>3. l.index \in Nat
      BY <3>1
    <3> QED BY <3>1, <3>2, <3>3, Zenon DEF AnyNext, AnyChangeLine
  <2>4. CASE l.type = "FINALIZE_BLOCK"
    BY <1>0, <1>1, <2>4 DEF BlockAfter, Dispatch, AnyNext, AnyBlockLine
  <2>5. CASE l.type = "END_BLOCK"
    <3>1. l.num \in BlockNums /\ ReadEndBlock(l.num, l.num, Nil, TRUE)
      BY <1>0, <1>1, <2>5 DEF BlockAfter, Dispatch
    <3> QED BY <3>1 DEF AnyNext, AnyBlockLine
  <2>6. CASE l.type = "CANCEL_BLOCK"
    BY <1>0, <1>1, <2>6 DEF BlockAfter, InBlockAt, Dispatch, AnyNext, AnyBlockLine
  <2> QED BY <1>1, <2>1, <2>2, <2>3, <2>4, <2>5, <2>6 DEF BlockAfter
<1>2. CASE TraceBeginsAfter(l, s, t)
  BY <1>2 DEF TraceBeginsAfter, Dispatch, AnyNext, AnyTraceLine
<1>3. CASE TraceEndsAfter(F, l, s, t)
  BY <1>3 DEF TraceEndsAfter, Dispatch, AnyNext, AnyTraceLine, AnyBlockLine
<1>4. CASE CallAfter(l, s, t)
  <2>1. CASE l.type = "EVM_RUN_CALL"
    <3>1. /\ l.index \in Nat /\ l.ord \in Nat /\ l.call \in EvmCallTypes
          /\ ReadEVMRunCall(l.call, l.index, l.ord)
      BY <1>0, <1>4, <2>1 DEF CallAfter, Dispatch
    <3> QED BY <3>1 DEF AnyNext, AnyCallLine
  <2>2. CASE l.type = "EVM_CALL_FAILED"
    <3>1. l.index \in Nat /\ ReadEVMCallFailed(l.index)
      BY <1>0, <1>4, <2>2 DEF CallAfter, Dispatch
    <3> QED BY <3>1 DEF AnyNext, AnyCallLine
  <2>3. CASE l.type = "ADD_LOG"
    <3>1. /\ l.index \in Nat /\ l.ord \in Nat /\ l.data \in LogData
          /\ ReadAddLog(l.index, l.data, 0, l.ord)
      BY <1>0, <1>4, <2>3 DEF CallAfter, Dispatch
    <3> QED BY <3>1, Zenon DEF AnyNext, AnyChangeLine
  <2>4. CASE l.type = "EVM_END_CALL"
    <3>1. l.index \in Nat /\ l.ord \in Nat /\ ReadEVMEndCall(l.index, l.ord)
      <4>1. /\ s.stack # << >> /\ l.index = s.stack[Len(s.stack)]
            /\ l.ord \in Nat /\ ReadEVMEndCall(l.index, l.ord)
        BY <1>4, <2>4 DEF CallAfter, Dispatch
      <4> QED BY <1>0, <4>1
    <3> QED BY <3>1 DEF AnyNext, AnyCallLine
  <2> QED BY <1>4, <2>1, <2>2, <2>3, <2>4 DEF CallAfter
<1> QED BY <1>1, <1>2, <1>3, <1>4 DEF After

\* The reader accepts a line of the node and follows it.
LEMMA LinesAgree ==
    ASSUME TraceInv, NEW F, NEW s \in View, NEW t, NEW l, After(F, l, s, t), Agrees(s),
           Dispatch(l)
    PROVE  status' # "error" /\ (status' = "running" => Agrees(t)')
BY BlockLinesAgree, TraceBeginsAgree, TraceEndsAgree, CallLinesAgree DEF After, TraceInv

\* A path along the lines in the channel, from the reader to the node.
Path(path) ==
    /\ path \in Seq(View) /\ Len(path) = Len(lines) + 1
    /\ \A i \in 1..Len(lines) : After(failures, lines[i], path[i], path[i+1])
    /\ node # "exited" => path[Len(lines) + 1] = NodeView
    /\ Running => Agrees(path[1])

Follows ==
    /\ NodeInv /\ TraceInv /\ status # "error"
    /\ \E L : lines \in Seq(L)
    /\ \E path : Path(path)

\* A block that failed has failed for good.
LEMMA FailuresRemain == NodeStep => failures \subseteq failures'
BY DEF NodeStep, NodeStarts, BlockReward, Seal, CompleteBlock, CancelBlock, NodeExits,
       BeginBlock, BeginTransaction, BeginSystemCall, Begin, RunCall, AddLog, FailCall,
       EndCall, EndSystemCall, EndTransaction, SkipTransaction, FailTransaction

\* A step of the node is one of its actions, and leaves the reader alone.
LEMMA NodeMoves ==
    ASSUME Follows, NodeStep
    PROVE  /\ NodeInv /\ NodeInv' /\ NodeAdvances /\ failures \subseteq failures'
           /\ node # "exited" /\ UNCHANGED vars /\ \A v : Agrees(v)' <=> Agrees(v)
<1>1. NodeInv' /\ NodeAdvances /\ NodeInv
  BY NodeSteps DEF Follows
<1>2. failures \subseteq failures'
  BY FailuresRemain
<1>3. node # "exited"
  BY DEF NodeStep, NodeStarts, BlockReward, Seal, CompleteBlock, CancelBlock, NodeExits,
         BeginBlock, BeginTransaction, BeginSystemCall, Begin, RunCall, AddLog, FailCall,
         EndCall, EndSystemCall, EndTransaction, SkipTransaction, FailTransaction,
         InBlock, Ended, NotApplied
<1>4. UNCHANGED vars
  BY <1>1 DEF NodeAdvances, Prints
<1>5. \A v : Agrees(v)' <=> Agrees(v)
  BY <1>4 DEF vars, ctxVars, history, Agrees, BlockAgrees, TraceAgrees
<1> QED BY <1>1, <1>2, <1>3, <1>4, <1>5

\* When the node exits the path stays.
LEMMA PathStays ==
    ASSUME Follows, NodeStep, UNCHANGED lines, node' = "exited", NEW path, Path(path)
    PROVE  Path(path)'
<1>1. Running' <=> Running
  BY NodeMoves DEF vars, Running
<1> QED BY <1>1, NodeMoves, AfterMonotone DEF Path

\* When the node prints a line the path gets longer.
LEMMA PathGrows ==
    ASSUME Follows, NodeStep, NEW path, Path(path),
           NEW line, Prints(line), After(failures', line, NodeView, NodeView'),
           NEW next, next = NodeView'
    PROVE  Path(Append(path, next))'
<1> DEFINE m == Len(lines)
           longer == Append(path, next)
<1>1. NodeView \in View /\ NodeView' \in View
  BY NodeMoves, NodeViewType, AfterType
<1>2. /\ m \in Nat /\ Len(lines') = m + 1
      /\ \A k \in 1..m : lines'[k] = lines[k]
      /\ lines'[m + 1] = line
  BY AppendAny DEF Follows, Prints
<1>3. /\ path \in Seq(View) /\ Len(path) = m + 1 /\ path[m + 1] = NodeView
      /\ \A i \in 1..m : After(failures, lines[i], path[i], path[i+1])
      /\ Running => Agrees(path[1])
  BY NodeMoves DEF Path
<1>4. /\ longer \in Seq(View) /\ Len(longer) = m + 2
      /\ \A k \in 1..(m + 1) : longer[k] = path[k]
      /\ longer[m + 2] = NodeView'
  BY <1>1, <1>2, <1>3, AppendProperties
<1> HIDE DEF longer
<1>5. ASSUME NEW i \in 1..(m + 1)
      PROVE  After(failures', lines'[i], longer[i], longer[i+1])
  <2>1. CASE i = m + 1
    <3>1. longer[i] = NodeView /\ longer[i+1] = NodeView' /\ lines'[i] = line
      BY <1>2, <1>3, <1>4, <2>1
    <3> QED BY <3>1
  <2>2. CASE i # m + 1
    <3>1. i \in 1..m /\ i \in 1..(m + 1) /\ i + 1 \in 1..(m + 1)
      BY <1>2, <2>2
    <3>2. longer[i] = path[i] /\ longer[i+1] = path[i+1] /\ lines'[i] = lines[i]
      BY <1>2, <1>4, <3>1
    <3>3. After(failures, lines[i], path[i], path[i+1])
      BY <1>3, <3>1
    <3> QED BY <3>2, <3>3, NodeMoves, AfterMonotone
  <2> QED BY <2>1, <2>2
<1>6. longer[1] = path[1]
  BY <1>2, <1>4
<1>7. Len(longer) = Len(lines') + 1 /\ longer[Len(lines') + 1] = NodeView'
  BY <1>2, <1>4
<1>8. \A i \in 1..Len(lines') : After(failures', lines'[i], longer[i], longer[i+1])
  BY <1>2, <1>5
<1>9. Running' => Agrees(longer[1])'
  <2>1. Running' <=> Running
    BY NodeMoves DEF vars, Running
  <2> QED BY <1>3, <1>6, <2>1, NodeMoves
<1> QED BY <1>4, <1>7, <1>8, <1>9 DEF Path, longer

\* The node stays on a path from the reader.
LEMMA NodeLeads ==
    ASSUME Follows, NodeStep
    PROVE  Follows' /\ UNCHANGED vars
<1>1. UNCHANGED vars /\ NodeInv' /\ NodeAdvances
  BY NodeMoves
<1>2. TraceInv' /\ status' # "error"
  <2>1. TraceInv'
    BY <1>1, TraceStep DEF Follows
  <2> QED BY <1>1, <2>1 DEF Follows, vars
<1>3. PICK path : Path(path)
  BY DEF Follows
<1>4. PICK L : lines \in Seq(L)
  BY DEF Follows
<1>5. CASE UNCHANGED <<lines, vars>> /\ node' = "exited"
  <2>1. Path(path)'
    BY <1>3, <1>5, PathStays
  <2> QED BY <1>1, <1>2, <1>4, <1>5, <2>1 DEF Follows
<1>6. ASSUME NEW line, Prints(line), After(failures', line, NodeView, NodeView')
      PROVE  Follows'
  <2>1. \E M : lines' \in Seq(M)
    BY <1>4, <1>6, AppendAny DEF Prints
  <2>2. PICK next : next = NodeView'
    OBVIOUS
  <2>3. Path(Append(path, next))'
    BY <1>3, <1>6, <2>2, PathGrows
  <2> QED BY <1>1, <1>2, <2>1, <2>3 DEF Follows
<1> QED BY <1>1, <1>5, <1>6 DEF NodeAdvances

\* The reader takes the first line of the channel, and the path gets shorter.
LEMMA PathShrinks ==
    ASSUME Follows, ReadLine, NEW path, Path(path)
    PROVE  /\ UNCHANGED nodeVars /\ Running /\ AnyNext /\ status' # "error"
           /\ \E M : lines' \in Seq(M)
           /\ Len(lines) \in Nat /\ Len(lines) >= 1 /\ Dispatch(lines[1])
           /\ Len(lines') = Len(lines) - 1
           /\ \A i \in 1..(Len(lines) - 1) : lines'[i] = lines[i+1]
           /\ path[1] \in View /\ Agrees(path[1])
           /\ After(failures, lines[1], path[1], path[2])
           /\ Path(Tail(path))'
<1> DEFINE l == Head(lines)
           m == Len(lines)
           shorter == Tail(path)
<1>1. lines # << >> /\ Dispatch(l) /\ lines' = Tail(lines) /\ UNCHANGED nodeVars
  BY DEF ReadLine
<1>2. Running
  BY <1>1 DEF Running, Dispatch, ReadInit, ReadBeginBlock, ReadFinalizeBlock, ReadEndBlock,
              ReadCancelBlock, ReadFailedApplyTrx, ReadApplyTrxBegin, ReadApplyTrxEnd,
              ReadSkippedTrx, ReadSystemCallStart, ReadSystemCallEnd, ReadEVMRunCall,
              ReadEVMCallFailed, ReadEVMEndCall, ReadAddLog, ReadBalanceChange, Annotate
<1>3. NodeView' = NodeView
  BY <1>1 DEF nodeVars, NodeView
<1>4. PICK L : lines \in Seq(L)
  BY DEF Follows
<1>5. /\ m \in Nat /\ m >= 1 /\ l = lines[1] /\ lines' \in Seq(L) /\ Len(lines') = m - 1
      /\ \A i \in 1..(m - 1) : lines'[i] = lines[i+1]
  BY <1>1, <1>4, HeadTailProperties
<1>6. /\ path \in Seq(View) /\ Len(path) = m + 1 /\ path # << >>
      /\ \A i \in 1..m : After(failures, lines[i], path[i], path[i+1])
      /\ node # "exited" => path[m + 1] = NodeView
      /\ Agrees(path[1])
  BY <1>2, <1>5, EmptySeq DEF Path
<1>7. /\ shorter \in Seq(View) /\ Len(shorter) = m
      /\ \A i \in 1..m : shorter[i] = path[i+1]
  BY <1>5, <1>6, HeadTailProperties
<1> HIDE DEF shorter, l
<1>8. 1 \in 1..m /\ path[1] \in View /\ After(failures, l, path[1], path[2])
  BY <1>5, <1>6
<1>9. /\ AnyNext /\ status' # "error"
      /\ status' = "running" => Agrees(path[2])'
  BY <1>1, <1>6, <1>8, LinesAreRead, LinesAgree DEF Follows
<1>10. ASSUME NEW i \in 1..(m - 1)
       PROVE  After(failures, lines'[i], shorter[i], shorter[i+1])
  <2>1. i \in 1..m /\ i + 1 \in 1..m
    BY <1>5
  <2> QED BY <1>5, <1>6, <1>7, <2>1
<1>11. Path(shorter)'
  <2>1. /\ Len(shorter) = Len(lines') + 1 /\ shorter[1] = path[2]
        /\ shorter[Len(lines') + 1] = path[m + 1] /\ failures' = failures /\ node' = node
    BY <1>1, <1>5, <1>7, <1>8 DEF nodeVars
  <2> QED BY <1>3, <1>5, <1>6, <1>7, <1>9, <1>10, <2>1 DEF Path, Running
<1> QED BY <1>1, <1>2, <1>5, <1>6, <1>8, <1>9, <1>11 DEF shorter

LEMMA ReaderFollows ==
    ASSUME Follows, ReaderStep
    PROVE  Follows' /\ AnyNext
<1>1. PICK path : Path(path)
  BY DEF Follows
<1>2. CASE ReadEnd
  <2>1. /\ AnyNext /\ Running /\ status' = "eof" /\ lines' = lines /\ UNCHANGED nodeVars
    BY <1>2 DEF ReadEnd, LinesClosed, Stop, AnyNext
  <2>2. NodeInv' /\ NodeView' = NodeView
    BY <2>1 DEF Follows, nodeVars, NodeInv, NodeView
  <2>3. TraceInv'
    BY <2>1, TraceStep DEF Follows
  <2>4. Path(path)'
    BY <1>1, <2>1, <2>2 DEF Path, Running, nodeVars
  <2> QED BY <2>1, <2>2, <2>3, <2>4 DEF Follows
<1>3. CASE ReadLine
  <2>1. /\ UNCHANGED nodeVars /\ AnyNext /\ status' # "error"
        /\ \E M : lines' \in Seq(M)
        /\ Path(Tail(path))'
    BY <1>1, <1>3, PathShrinks
  <2>2. NodeInv'
    BY <2>1 DEF Follows, nodeVars, NodeInv
  <2>3. TraceInv'
    BY <2>1, TraceStep DEF Follows
  <2> QED BY <2>1, <2>2, <2>3 DEF Follows
<1> QED BY <1>2, <1>3 DEF ReaderStep

\* The reader is always on a path to the node.
LEMMA FollowsAlways == NodeSpec => []Follows
<1>1. NodeInit => Follows
  <2> SUFFICES ASSUME NodeInit
               PROVE  Follows
    OBVIOUS
  <2>1. NodeInv
    <3>1. << >> \in Seq(Nat) /\ << >> \in Seq({})
      BY EmptySeqType
    <3>2. executing \in [num: Nat, seq: Nat, trxs: Seq({}), changes: Nat]
      BY <3>1 DEF NodeInit
    <3> QED BY <3>1, <3>2 DEF NodeInit, NodeInv
  <2>2. TraceInv /\ status = "running"
    BY InitType DEF NodeInit, Init, TraceInv, SystemCallFlag
  <2>3. lines = << >> /\ lines \in Seq({}) /\ Len(lines) = 0
    BY EmptySeqType DEF NodeInit
  <2>4. NodeView \in View /\ NodeView = Outside("boot", 0, 0)
    BY <2>1, NodeViewType DEF NodeInit, NodeView
  <2>5. PICK v \in View : v = NodeView
    BY <2>4
  <2>6. Agrees(v)
    BY <2>4, <2>5 DEF NodeInit, Init, Agrees, BlockAgrees, InBlockAt, Outside
  <2>7. <<v>> \in Seq(View) /\ Len(<<v>>) = 1 /\ <<v>>[1] = v
    OBVIOUS
  <2>8. Path(<<v>>)
    BY <2>3, <2>5, <2>6, <2>7 DEF Path
  <2> QED BY <2>1, <2>2, <2>3, <2>8 DEF Follows
<1>2. Follows /\ [NodeNext]_allVars => Follows'
  <2> SUFFICES ASSUME Follows, [NodeNext]_allVars
               PROVE  Follows'
    OBVIOUS
  <2>1. CASE UNCHANGED allVars
    <3>1. UNCHANGED <<lines, nodeVars, vars>>
      BY <2>1 DEF allVars
    <3>2. TraceInv'
      BY <3>1, TraceStep DEF Follows
    <3>3. \A path : Path(path)' <=> Path(path)
      BY <3>1 DEF nodeVars, vars, ctxVars, history, Path, NodeView, Running, Agrees,
                  BlockAgrees, TraceAgrees
    <3>4. NodeInv' /\ lines' = lines /\ status' = status
      BY <3>1 DEF Follows, nodeVars, NodeInv, vars
    <3> QED BY <3>2, <3>3, <3>4 DEF Follows
  <2> QED BY <2>1, NodeLeads, ReaderFollows DEF NodeNext
<1> QED BY <1>1, <1>2, PTL DEF NodeSpec

\* The reader does nothing behind the node that it could not do on its own: what
\* is proved of any lines holds of the node's.
THEOREM NodeImplementsReader == NodeSpec => AnySpec
<1>1. NodeInit => Init
  BY DEF NodeInit
<1>2. Follows /\ [NodeNext]_allVars => [AnyNext]_vars
  BY NodeLeads, ReaderFollows DEF NodeNext, allVars
<1> QED BY <1>1, <1>2, FollowsAlways, PTL DEF NodeSpec, AnySpec

\* No line of a node that behaves is refused, whatever is cancelled, abandoned or
\* still in the channel: only normalization may stop the reader (with a panic)
\* before the end of the lines.
THEOREM NoLineRefused == NodeSpec => [](status # "error")
<1>1. Follows => status # "error"
  BY DEF Follows
<1> QED BY <1>1, FollowsAlways, PTL

\* Between two transactions the reader's call stack is empty, although no handler
\* clears it: no abandoned or finished call becomes the parent of another's.
THEOREM StackIsEmptyBetweenTransactions == NodeSpec => []StackEmptyBetweenTransactions
<1>1. Follows => StackEmptyBetweenTransactions
  <2> SUFFICES ASSUME Follows, status = "running", currentTrace = Nil
               PROVE  evmCallStackIndexes = << >>
    BY DEF StackEmptyBetweenTransactions
  <2>1. PICK path : Path(path)
    BY DEF Follows
  <2>2. PICK L : lines \in Seq(L)
    BY DEF Follows
  <2>3. Agrees(path[1]) /\ path[1] \in View
    BY <2>1, <2>2 DEF Path, Running
  <2> QED BY <2>3 DEF Agrees, TraceAgrees, View
<1> QED BY <1>1, FollowsAlways, PTL

-----------------------------------------------------------------------------
(***************************************************************************)
(* System calls.  FAILED_APPLY_TRX forgets the block and its transactions  *)
(* but not its system calls: they stay until a block ends or is cancelled. *)
(***************************************************************************)
\* The kinds of lines, as the system calls see them.
OtherLine ==
    /\ UNCHANGED <<systemCalls, blocksSeen, returned>>
    /\ currentBlock # Nil => currentBlock' # Nil
    /\ currentTrace' # Nil => currentTrace # Nil /\ currentTrace'.born = currentTrace.born

TraceBegun ==
    /\ UNCHANGED <<systemCalls, blocksSeen, returned, currentBlock>>
    /\ currentTrace'.born = blocksSeen

BlockBegun ==
    /\ UNCHANGED <<systemCalls, returned>> /\ currentBlock = Nil /\ currentTrace' = Nil

BlockFailed(failed) ==
    /\ UNCHANGED <<systemCalls, blocksSeen, returned>> /\ currentTrace' = Nil
    /\ blocksSeen \in failed

SystemCallEnded ==
    /\ UNCHANGED <<blocksSeen, returned, currentBlock>>
    /\ currentBlock # Nil /\ currentTrace # Nil /\ currentTrace' = Nil
    /\ systemCalls' = Append(systemCalls, SystemCall(currentTrace))

SystemCallsTaken ==
    /\ systemCalls' = << >> /\ currentTrace' = Nil
    /\ \/ UNCHANGED returned
       \/ /\ currentBlock # Nil
          /\ \E lib, first :
                LET normalized == NormalizeInPlace(Assembled, proto, first) IN
                /\ normalized.ok
                /\ returned' = Append(returned, Finished(normalized.block, lib))

\* Each line of a block is of one of these kinds.
LEMMA BlockLinesAccount ==
    ASSUME TraceInv, NEW s \in View, NEW t, NEW l, BlockAfter(l, s, t), Agrees(s), Dispatch(l)
    PROVE  OtherLine \/ BlockBegun \/ SystemCallsTaken
<1>0. ~s.open /\ currentTrace = Nil /\ (InBlockAt(s) => currentBlock # Nil)
      /\ (~InBlockAt(s) => currentBlock = Nil)
  BY DEF BlockAfter, Agrees, BlockAgrees
<1>1. CASE l.type = "INIT"
  <2>1. ReadInit(l.ver, l.polygon)
    BY <1>1 DEF Dispatch
  <2> QED BY <1>0, <2>1
          DEF ReadInit, Stop, Accept, ctxVars, traceVars, blockVars, history, OtherLine
<1>2. CASE l.type = "BEGIN_BLOCK"
  <2>1. ReadBeginBlock(l.num) /\ s.phase = "idle"
    BY <1>2 DEF Dispatch, BlockAfter
  <2> QED BY <1>0, <2>1
          DEF InBlockAt, ReadBeginBlock, Stop, Accept, ctxVars, traceVars, BlockBegun
<1>3. CASE l.type = "BALANCE_CHANGE"
  <2>1. ReadBalanceChange(l.index, l.ord, TRUE) /\ l.index = 0 /\ InBlockAt(s)
    BY <1>3 DEF Dispatch, BlockAfter
  <2>2. OnBlock("BALANCE", l.ord)
    BY <1>0, <2>1 DEF ReadBalanceChange, CallExists
  <2>3. UNCHANGED <<systemCalls, blocksSeen, returned, currentTrace>>
    BY <2>2 DEF OnBlock, DetailFrame, Accept
  <2>4. currentBlock' # Nil
    <3>1. Agrees(t)'
      <4>1. status' = status /\ status = "running"
        BY <2>1, <2>2 DEF OnBlock, Accept, ReadBalanceChange, Running
      <4> QED BY <4>1, BlockLinesAgree DEF TraceInv
    <3>2. InBlockAt(t)
      BY <1>3, <2>1 DEF BlockAfter, InBlockAt, Outside
    <3> QED BY <3>1, <3>2 DEF Agrees, BlockAgrees
  <2> QED BY <1>0, <2>3, <2>4 DEF OtherLine
<1>4. CASE l.type = "FINALIZE_BLOCK"
  <2>1. ReadFinalizeBlock(l.num)
    BY <1>4 DEF Dispatch
  <2> QED BY <1>0, <2>1
          DEF ReadFinalizeBlock, Stop, Accept, ctxVars, traceVars, history, OtherLine
<1>5. CASE l.type = "END_BLOCK"
  <2>1. /\ s.phase = "sealed" /\ l.num = s.num
        /\ ReadEndBlock(l.num, l.num, Nil, TRUE)
    BY <1>5 DEF BlockAfter, Dispatch
  <2>2. currentBlock # Nil /\ currentBlock.num = l.num /\ finalizing
    BY <2>1 DEF Agrees, BlockAgrees, InBlockAt
  <2>3. /\ ResetBlock /\ UNCHANGED traceVars
        /\ \E lib, first : EndWith(NormalizeInPlace(Assembled, proto, first), lib, TRUE)
    BY <2>1, <2>2 DEF ReadEndBlock
  <2>4. /\ systemCalls' = << >> /\ currentTrace' = Nil
    BY <1>0, <2>3 DEF ResetBlock, traceVars
  <2>5. PICK lib, first : EndWith(NormalizeInPlace(Assembled, proto, first), lib, TRUE)
    BY <2>3
  <2> QED BY <2>2, <2>4, <2>5, Zenon DEF EndWith, SystemCallsTaken
<1>6. CASE l.type = "CANCEL_BLOCK"
  <2>1. ReadCancelBlock(l.num) /\ (currentBlock # Nil => currentBlock.num = l.num)
    BY <1>0, <1>6 DEF BlockAfter, Dispatch, Agrees, BlockAgrees
  <2>2. CASE currentBlock = Nil
    BY <1>0, <2>1, <2>2 DEF ReadCancelBlock, vars, ctxVars, history, OtherLine
  <2>3. CASE currentBlock # Nil
    BY <2>1, <2>3 DEF ReadCancelBlock, ResetBlock, ResetTrace, Accept, SystemCallsTaken
  <2> QED BY <2>2, <2>3
<1> QED BY <1>1, <1>2, <1>3, <1>4, <1>5, <1>6 DEF BlockAfter

\* And so is each line of a transaction or a system call.
LEMMA TraceLinesAccount ==
    ASSUME TraceInv, NEW s \in View, NEW t, NEW F, NEW l,
           TraceBeginsAfter(l, s, t) \/ TraceEndsAfter(F, l, s, t), Agrees(s), Dispatch(l)
    PROVE  OtherLine \/ TraceBegun \/ SystemCallEnded \/ BlockFailed(F)
<1>0. InBlockAt(s) /\ currentBlock # Nil /\ blocksSeen = s.seq
  BY DEF TraceBeginsAfter, TraceEndsAfter, Agrees, BlockAgrees
<1>1. ASSUME TraceBeginsAfter(l, s, t)
      PROVE  currentTrace = Nil /\ stats = TRUE
  BY <1>0, <1>1 DEF TraceBeginsAfter, Agrees, BlockAgrees
<1>2. ASSUME TraceEndsAfter(F, l, s, t)
      PROVE  /\ currentTrace # Nil /\ inSystemCall = s.system
             /\ TraceAgrees(s) /\ s.count \in Nat
  BY <1>2 DEF TraceEndsAfter, Agrees, TraceAgrees, View
<1>3. \A h, i, to, ord, root, system : NewTrx(h, i, to, ord, root, blocksSeen, system).born
                                           = blocksSeen
  BY DEF NewTrx
<1>4. CASE TraceBeginsAfter(l, s, t) /\ l.type = "BEGIN_APPLY_TRX"
  <2>1. ReadApplyTrxBegin(l.to, l.index, l.ord)
    BY <1>4 DEF Dispatch
  <2>2. StartTrace(NewTrx(tracesSeen + 1, TrxIndex(l.index), l.to, l.ord,
                          NewCall(1, "CALL", l.to, 0), blocksSeen, FALSE))
    BY <1>1, <1>4, <2>1 DEF ReadApplyTrxBegin
  <2> QED BY <1>3, <2>2 DEF StartTrace, blockVars, Accept, TraceBegun
<1>5. CASE TraceBeginsAfter(l, s, t) /\ l.type = "SYSTEM_CALL_START"
  <2>1. ReadSystemCallStart
    BY <1>5 DEF Dispatch
  <2>2. StartTrace(NewTrx(tracesSeen + 1, 0, NoAddress, 0,
                          NewCall(1, "CALL", NoAddress, 0), blocksSeen, TRUE))
    BY <1>1, <1>5, <2>1 DEF ReadSystemCallStart
  <2> QED BY <1>3, <2>2 DEF StartTrace, blockVars, Accept, TraceBegun
<1>6. CASE TraceEndsAfter(F, l, s, t) /\ l.type = "END_APPLY_TRX"
  <2>1. /\ ~s.system /\ s.count >= 1 /\ ReadApplyTrxEnd(l.ord, l.receipt)
    BY <1>6 DEF TraceEndsAfter, Dispatch
  <2>2. /\ currentTrace.to = NoAddress => currentTrace.calls[1].type = "CREATE"
        /\ ParentsInRange(currentTrace.calls)
    BY <1>2, <1>6, <2>1 DEF TraceAgrees
  <2>3. /\ ResetTrace
        /\ UNCHANGED <<systemCalls, blocksSeen, returned, currentBlock>>
    BY <1>2, <1>6, <2>1, <2>2, Zenon DEF ReadApplyTrxEnd, Accept, history
  <2> QED BY <1>0, <2>3 DEF ResetTrace, OtherLine
<1>7. CASE TraceEndsAfter(F, l, s, t) /\ l.type = "SYSTEM_CALL_END"
  <2>1. /\ s.count = 1 /\ ReadSystemCallEnd
    BY <1>7 DEF TraceEndsAfter, Dispatch
  <2>2. Len(currentTrace.calls) = 1
    BY <1>2, <1>7, <2>1 DEF TraceAgrees
  <2> QED BY <1>0, <1>2, <1>7, <2>1, <2>2
          DEF ReadSystemCallEnd, ResetTrace, Accept, history, SystemCallEnded
<1>8. CASE TraceEndsAfter(F, l, s, t) /\ l.type = "SKIPPED_TRX"
  <2>1. ~s.system /\ ReadSkippedTrx
    BY <1>8 DEF TraceEndsAfter, Dispatch
  <2> QED BY <1>0, <1>2, <1>8, <2>1
          DEF ReadSkippedTrx, InTransaction, Accept, blockVars, history, OtherLine
<1>9. CASE TraceEndsAfter(F, l, s, t) /\ l.type = "FAILED_APPLY_TRX"
  <2>1. ~s.system /\ s.seq \in F /\ ReadFailedApplyTrx
    BY <1>9 DEF TraceEndsAfter, Dispatch
  <2> QED BY <1>0, <1>2, <1>9, <2>1
          DEF ReadFailedApplyTrx, InTransaction, Accept, history, BlockFailed
<1> QED BY <1>4, <1>5, <1>6, <1>7, <1>8, <1>9 DEF TraceBeginsAfter, TraceEndsAfter

\* The lines of a call are of no interest to the system calls collected.
LEMMA CallLinesAccount ==
    ASSUME TraceInv, NEW s \in View, NEW t, NEW l, CallAfter(l, s, t), Agrees(s), Dispatch(l)
    PROVE  OtherLine
<1>0. currentTrace # Nil /\ currentTrace \in Trx /\ currentBlock # Nil
  BY DEF CallAfter, Agrees, TraceAgrees, BlockAgrees, TraceInv, TypeInv, TypeOK
<1>1. \A calls : [currentTrace EXCEPT !.calls = calls].born = currentTrace.born
  BY <1>0 DEF Trx
<1>2. ASSUME NEW i, NEW call, WriteCall(i, call)
      PROVE  currentTrace'.born = currentTrace.born
  <2> DEFINE calls == [currentTrace.calls EXCEPT ![i] = call]
  <2>1. currentTrace' = [currentTrace EXCEPT !.calls = calls]
    BY <1>2 DEF WriteCall
  <2> HIDE DEF calls
  <2> QED BY <1>1, <2>1
<1>3. CASE l.type = "EVM_RUN_CALL"
  <2>1. ReadEVMRunCall(l.call, l.index, l.ord)
    BY <1>3 DEF Dispatch
  <2>2. /\ UNCHANGED <<systemCalls, blocksSeen, returned, currentBlock>>
        /\ \/ UNCHANGED currentTrace
           \/ \E root : WriteCall(1, root)
           \/ \E calls : currentTrace' = [currentTrace EXCEPT !.calls = calls]
    BY <1>0, <2>1 DEF ReadEVMRunCall, blockVars, history, WriteCall
  <2> QED BY <1>0, <1>1, <1>2, <2>2 DEF OtherLine
<1>4. ASSUME NEW i, NEW call, Annotate(i, call)
      PROVE  OtherLine
  <2>1. CASE OnCall(i, call)
    BY <1>0, <1>2, <2>1 DEF OnCall, DetailFrame, Accept, OtherLine
  <2>2. CASE Stop("error")
    BY <1>0, <2>2 DEF Stop, ctxVars, history, OtherLine
  <2> QED BY <1>4, <2>1, <2>2 DEF Annotate
<1>5. CASE l.type = "EVM_CALL_FAILED"
  BY <1>4, <1>5 DEF Dispatch, ReadEVMCallFailed
<1>6. CASE l.type = "ADD_LOG"
  <2>1. ReadAddLog(l.index, l.data, 0, l.ord)
    BY <1>6 DEF Dispatch
  <2>2. /\ UNCHANGED <<systemCalls, blocksSeen, returned, currentBlock>>
        /\ UNCHANGED currentTrace \/ \E i, call : WriteCall(i, call)
    BY <2>1, Zenon DEF ReadAddLog, Stop, ctxVars, history, DetailFrame, Accept
  <2> QED BY <1>0, <1>2, <2>2 DEF OtherLine
<1>7. CASE l.type = "EVM_END_CALL"
  <2>1. ReadEVMEndCall(l.index, l.ord)
    BY <1>7 DEF Dispatch
  <2>2. /\ UNCHANGED <<systemCalls, blocksSeen, returned, currentBlock>>
        /\ UNCHANGED currentTrace \/ \E i, call : WriteCall(i, call)
    BY <2>1 DEF ReadEVMEndCall, Stop, ctxVars, history, blockVars, Accept
  <2> QED BY <1>0, <1>2, <2>2 DEF OtherLine
<1> QED BY <1>3, <1>5, <1>6, <1>7 DEF CallAfter

\* A system call in a returned block was made in that block, or in a block that
\* a failed transaction ended: FAILED_APPLY_TRX is the only way out of a block that
\* leaves its system calls to the next one.
SystemCallsAccounted ==
    \A b \in 1..Len(returned) : \A k \in 1..Len(returned[b].block.sys) :
        LET born == returned[b].block.sys[k].born IN
        born = returned[b].seq \/ born \in failures

\* The system calls held were made in the active block or in one that failed; the
\* active trace was begun in the active block.
Accounts ==
    /\ BlockInv /\ SystemCallsAccounted
    /\ Running => /\ \A k \in 1..Len(systemCalls) :
                        \/ systemCalls[k].born \in failures
                        \/ currentBlock # Nil /\ systemCalls[k].born = blocksSeen
                  /\ currentTrace # Nil => currentTrace.born = blocksSeen

\* A returned block takes the system calls held, and no others.
LEMMA TakenAccounts ==
    ASSUME Accounts, TypeInv, Running, UNCHANGED failures, currentBlock # Nil,
           NEW lib, NEW first, NormalizeInPlace(Assembled, proto, first).ok,
           returned' = Append(returned,
                           Finished(NormalizeInPlace(Assembled, proto, first).block, lib))
    PROVE  SystemCallsAccounted'
<1>1. PICK block, features, b, old, seq :
         /\ block = Assembled /\ features = proto /\ old = returned /\ seq = blocksSeen
         /\ b = Finished(NormalizeInPlace(Assembled, proto, first).block, lib)
  OBVIOUS
<1>2. /\ currentBlock \in Block /\ transactionTraces \in Seq(Trx)
      /\ systemCalls \in Seq(EndedSystemCall)
  BY DEF TypeInv, TypeOK
<1>3. block \in Block /\ block.sys = systemCalls /\ block.seq = blocksSeen
  <2>1. currentBlock.seq = blocksSeen
    BY DEF Accounts, BlockInv
  <2> QED BY <1>1, <1>2, <2>1 DEF Assembled, Block
<1>4. b.block.sys = systemCalls /\ b.seq = blocksSeen
  <2>1. NormalizeInPlace(block, features, first).ok
    BY <1>1
  <2>2. NormalizeInPlace(block, features, first).block.sys = block.sys
    BY <1>3, <2>1, NormalizedBlock
  <2>3. b.block = NormalizeInPlace(block, features, first).block /\ b.seq = block.seq
    BY <1>1 DEF Finished
  <2> QED BY <1>3, <2>2, <2>3
<1>5. /\ Len(old) \in Nat /\ Len(returned') = Len(old) + 1
      /\ \A k \in 1..Len(old) : returned'[k] = old[k]
      /\ returned'[Len(old) + 1] = b
  <2>1. \E S : old \in Seq(S)
    BY <1>1, Zenon DEF Accounts, BlockInv
  <2>2. /\ Len(old) \in Nat /\ Len(Append(old, b)) = Len(old) + 1
        /\ \A k \in 1..Len(old) : Append(old, b)[k] = old[k]
        /\ Append(old, b)[Len(old) + 1] = b
    BY <2>1, AppendAny
  <2>3. returned' = Append(old, b)
    BY <1>1
  <2> QED BY <2>2, <2>3
<1>6. ASSUME NEW i \in 1..Len(returned'), NEW k \in 1..Len(returned'[i].block.sys)
      PROVE  LET born == returned'[i].block.sys[k].born IN
             born = returned'[i].seq \/ born \in failures'
  <2>1. CASE i = Len(old) + 1
    <3>1. returned'[i] = b /\ k \in 1..Len(systemCalls)
      BY <1>4, <1>5, <1>6, <2>1
    <3> QED BY <1>4, <3>1 DEF Accounts
  <2>2. CASE i # Len(old) + 1
    <3>1. i \in 1..Len(old) /\ returned'[i] = returned[i]
      BY <1>1, <1>5, <2>2
    <3> QED BY <1>1, <1>6, <3>1 DEF Accounts, SystemCallsAccounted
  <2> QED BY <2>1, <2>2
<1> QED BY <1>6 DEF SystemCallsAccounted

\* Every step, of the node or of the reader, keeps the accounts.
LEMMA AccountsStep ==
    ASSUME Follows, Accounts, [NodeNext]_allVars
    PROVE  Accounts'
<1>1. BlockInv'
  <2>1. [AnyNext]_vars
    BY NodeLeads, ReaderFollows DEF NodeNext, allVars
  <2> QED BY <2>1, BlockStep DEF Accounts
<1>2. CASE UNCHANGED vars /\ failures \subseteq failures'
  <2>1. UNCHANGED <<returned, systemCalls, currentBlock, currentTrace, blocksSeen, status>>
    BY <1>2 DEF vars, ctxVars, history
  <2> QED BY <1>1, <1>2, <2>1 DEF Accounts, SystemCallsAccounted, Running
<1>3. CASE UNCHANGED allVars
  BY <1>2, <1>3 DEF allVars, nodeVars
<1>4. CASE NodeStep
  BY <1>2, <1>4, NodeLeads, FailuresRemain
<1>5. CASE ReadEnd
  <2>1. status' = "eof" /\ UNCHANGED <<returned, failures>>
    BY <1>5 DEF ReadEnd, LinesClosed, Stop, nodeVars
  <2> QED BY <1>1, <2>1 DEF Accounts, SystemCallsAccounted, Running
<1>6. CASE ReadLine
  <2>1. PICK l : l = lines[1]
    OBVIOUS
  <2>2. PICK path : Path(path)
    BY DEF Follows
  <2>3. /\ UNCHANGED nodeVars /\ Running /\ Dispatch(l)
        /\ path[1] \in View /\ Agrees(path[1]) /\ After(failures, l, path[1], path[2])
    BY <1>6, <2>1, <2>2, PathShrinks
  <2>4. UNCHANGED failures /\ TraceInv
    BY <2>3 DEF nodeVars, Follows
  <2>5. \/ OtherLine \/ TraceBegun \/ BlockBegun \/ BlockFailed(failures)
        \/ SystemCallEnded \/ SystemCallsTaken
    BY <2>3, <2>4, BlockLinesAccount, TraceLinesAccount, CallLinesAccount DEF After
  <2>6. /\ TypeInv /\ SystemCallsAccounted /\ BlockInv
        /\ currentTrace # Nil => currentTrace.born = blocksSeen
        /\ \A k \in 1..Len(systemCalls) :
              \/ systemCalls[k].born \in failures
              \/ currentBlock # Nil /\ systemCalls[k].born = blocksSeen
    BY <2>3, <2>4 DEF Accounts, TraceInv
  <2>7. CASE OtherLine
    BY <1>1, <2>4, <2>6, <2>7 DEF OtherLine, Accounts, SystemCallsAccounted
  <2>8. CASE TraceBegun
    BY <1>1, <2>4, <2>6, <2>8 DEF TraceBegun, Accounts, SystemCallsAccounted
  <2>9. CASE BlockBegun
    BY <1>1, <2>4, <2>6, <2>9 DEF BlockBegun, Accounts, SystemCallsAccounted
  <2>10. CASE BlockFailed(failures)
    BY <1>1, <2>4, <2>6, <2>10 DEF BlockFailed, Accounts, SystemCallsAccounted
  <2>11. CASE SystemCallEnded
    <3> DEFINE ended == SystemCall(currentTrace)
               n == Len(systemCalls)
    <3>1. ended.born = blocksSeen
      BY <2>6, <2>11 DEF SystemCallEnded, SystemCall
    <3> HIDE DEF ended
    <3>2. /\ n \in Nat /\ Len(systemCalls') = n + 1
          /\ \A k \in 1..n : systemCalls'[k] = systemCalls[k]
          /\ systemCalls'[n + 1] = ended
      <4>1. \E S : systemCalls \in Seq(S)
        BY <2>6 DEF TypeInv, TypeOK
      <4>2. systemCalls' = Append(systemCalls, ended)
        BY <2>11 DEF SystemCallEnded, ended
      <4> QED BY <4>1, <4>2, AppendAny
    <3>3. UNCHANGED <<blocksSeen, returned, currentBlock>> /\ currentBlock # Nil
          /\ currentTrace' = Nil
      BY <2>11 DEF SystemCallEnded
    <3>4. ASSUME NEW k \in 1..Len(systemCalls')
          PROVE  \/ systemCalls'[k].born \in failures'
                 \/ currentBlock' # Nil /\ systemCalls'[k].born = blocksSeen'
      <4>1. CASE k = n + 1
        BY <3>1, <3>2, <3>3, <4>1
      <4>2. CASE k # n + 1
        <5>1. k \in 1..n
          BY <3>2, <4>2
        <5> QED BY <2>4, <2>6, <3>2, <3>3, <5>1
      <4> QED BY <4>1, <4>2
    <3>5. SystemCallsAccounted'
      BY <2>4, <2>6, <3>3 DEF SystemCallsAccounted
    <3> QED BY <1>1, <3>3, <3>4, <3>5 DEF Accounts
  <2>12. CASE SystemCallsTaken
    <3>1. SystemCallsAccounted'
      <4>1. CASE UNCHANGED returned
        BY <2>4, <2>6, <4>1 DEF SystemCallsAccounted
      <4>2. ASSUME currentBlock # Nil, NEW lib, NEW first,
                   NormalizeInPlace(Assembled, proto, first).ok,
                   returned' = Append(returned, Finished(
                       NormalizeInPlace(Assembled, proto, first).block, lib))
            PROVE  SystemCallsAccounted'
        BY <2>3, <2>4, <2>6, <4>2, TakenAccounts
      <4> QED BY <2>12, <4>1, <4>2 DEF SystemCallsTaken
    <3>2. Len(systemCalls') = 0 /\ currentTrace' = Nil
      BY <2>12 DEF SystemCallsTaken
    <3> QED BY <1>1, <3>1, <3>2 DEF Accounts
  <2> QED BY <2>5, <2>7, <2>8, <2>9, <2>10, <2>11, <2>12
<1> QED BY <1>3, <1>4, <1>5, <1>6 DEF NodeNext, ReaderStep

\* System calls come out with another block in one way only: a system call in a
\* returned block was made in that block or in one that a failed transaction ended.
THEOREM SystemCallsAreAccounted == NodeSpec => []SystemCallsAccounted
<1>1. NodeInit => Accounts
  <2> SUFFICES ASSUME NodeInit
               PROVE  Accounts
    OBVIOUS
  <2>1. /\ returned = << >> /\ systemCalls = << >> /\ currentTrace = Nil /\ BlockInv
    BY InitBlock DEF NodeInit, Init
  <2>2. Len(returned) = 0 /\ Len(systemCalls) = 0
    BY <2>1
  <2> QED BY <2>1, <2>2 DEF Accounts, SystemCallsAccounted
<1>2. Accounts => SystemCallsAccounted
  BY DEF Accounts
<1> QED BY <1>1, <1>2, AccountsStep, FollowsAlways, PTL DEF NodeSpec

-----------------------------------------------------------------------------
(***************************************************************************)
(* Ordinals.  A tick for each line in the channel says what the node's     *)
(* clock showed before it, as a path says where the node was; the reader's *)
(* transactions have no ordinal beyond the first tick.                     *)
(***************************************************************************)
OwnClock(v) == v \in {"2.3", "2.4", "2.5"}

\* Whether every transaction starts the clock again.
Own == OwnClock(version)

\* The clock that numbers what happens in transactions.
NodeNow == IF Own THEN clocks.trx ELSE clocks.block

\* The clock goes from m to n with a line printed at position s.
Ticks(own, l, s, m, n) ==
    /\ m \in Nat /\ n \in Nat
    /\ l.type = "INIT" => own = OwnClock(l.ver)
    /\ l.type = "BEGIN_APPLY_TRX" /\ own => l.ord = 1 /\ n = 1
    /\ l.type # "BEGIN_BLOCK" /\ ~(l.type = "BEGIN_APPLY_TRX" /\ own) => m <= n
    /\ \/ l.type = "BEGIN_APPLY_TRX" /\ ~own
       \/ /\ l.type \in {"EVM_RUN_CALL", "ADD_LOG", "EVM_END_CALL", "END_APPLY_TRX"}
          /\ ~s.system
       => m < l.ord /\ n = l.ord

Ticked == \E line : Prints(line) /\ Ticks(Own, line, NodeView, NodeNow, NodeNow')

LEMMA NodeTicks ==
    ASSUME NodeInv, NodeStep
    PROVE  Own' = Own /\ (Ticked \/ (node' = "exited" /\ UNCHANGED <<lines, vars>>))
<1>0. /\ clocks.block \in Nat /\ clocks.trx \in Nat /\ Own \in BOOLEAN /\ NodeNow \in Nat
      /\ NodeNow = IF Own THEN clocks.trx ELSE clocks.block
      /\ \A t : TrxClock(t) <=> Own /\ t # Nil /\ ~t.system
      /\ \A t : Now(t) = 1 + IF TrxClock(t) THEN clocks.trx ELSE clocks.block
  BY DEF NodeInv, Own, OwnClock, NodeNow, TrxClock, Now
<1>1. Own' = Own
  <2>1. version' = version
    BY DEF NodeStep, NodeStarts, BlockReward, Seal, CompleteBlock, CancelBlock, NodeExits,
           BeginBlock, BeginTransaction, BeginSystemCall, Begin, RunCall, AddLog, FailCall,
           EndCall, EndSystemCall, EndTransaction, SkipTransaction, FailTransaction
  <2> QED BY <2>1 DEF Own
<1>2. NodeNow' = IF Own THEN clocks'.trx ELSE clocks'.block
  BY <1>1 DEF NodeNow
<1>3. ASSUME NEW line, Emit(line), UNCHANGED clocks, line.type = "INIT" => line.ver = version,
             line.type \notin {"BEGIN_APPLY_TRX", "EVM_RUN_CALL", "ADD_LOG", "EVM_END_CALL",
                               "END_APPLY_TRX"}
      PROVE  Ticked
  <2>1. NodeNow' = NodeNow
    BY <1>0, <1>2, <1>3
  <2>2. Ticks(Own, line, NodeView, NodeNow, NodeNow')
    BY <1>0, <1>3, <2>1 DEF Ticks, Own
  <2> QED BY <1>3, <2>2, Zenon DEF Ticked, Prints, Emit
<1>4. ASSUME NEW line, Emit(line), NEW t, Tick(t), line.ord = Now(t), line.type # "INIT",
             line.type \in {"EVM_RUN_CALL", "ADD_LOG", "EVM_END_CALL", "END_APPLY_TRX"} =>
                 t # Nil /\ NodeView.system = t.system,
             line.type # "BEGIN_APPLY_TRX"
      PROVE  Ticked
  <2>1. IF TrxClock(t) THEN clocks'.trx = clocks.trx + 1 /\ clocks'.block = clocks.block
        ELSE clocks'.block = clocks.block + 1 /\ clocks'.trx = clocks.trx
    BY <1>4 DEF Tick, NodeInv
  <2>2. NodeNow' \in Nat /\ NodeNow <= NodeNow'
    BY <1>0, <1>2, <2>1
  <2>3. t # Nil /\ ~t.system => NodeNow < line.ord /\ NodeNow' = line.ord
    BY <1>0, <1>2, <1>4, <2>1
  <2>4. Ticks(Own, line, NodeView, NodeNow, NodeNow')
    BY <1>0, <1>4, <2>2, <2>3 DEF Ticks
  <2> QED BY <1>4, <2>4, Zenon DEF Ticked, Prints, Emit
<1>5. trx # Nil => NodeView.system = trx.system
  BY DEF NodeView, Inside
<1>6. CASE NodeStarts \/ Seal \/ CompleteBlock \/ CancelBlock \/ FailCall
  BY <1>1, <1>3, <1>6 DEF NodeStarts, Seal, CompleteBlock, CancelBlock, FailCall
<1>7. CASE EndSystemCall \/ SkipTransaction \/ FailTransaction
  BY <1>1, <1>3, <1>7 DEF EndSystemCall, SkipTransaction, FailTransaction
<1>8. CASE NodeExits
  BY <1>1, <1>8 DEF NodeExits
<1>9. CASE BlockReward
  BY <1>1, <1>4, <1>9 DEF BlockReward
<1>10. ASSUME NEW type \in EvmCallTypes, RunCall(type)
       PROVE  Ticked
  BY <1>4, <1>5, <1>10 DEF RunCall
<1>11. ASSUME NEW data \in LogData, AddLog(data)
       PROVE  Ticked
  <2>1. trx # Nil
    BY <1>11 DEF AddLog, Outermost, NodeInv
  <2> QED BY <1>4, <1>5, <1>11, <2>1 DEF AddLog
<1>12. CASE EndCall
  <2>1. trx # Nil
    BY <1>12 DEF EndCall, Outermost, NodeInv
  <2> QED BY <1>1, <1>4, <1>5, <1>12, <2>1 DEF EndCall
<1>13. CASE EndTransaction
  <2>1. trx # Nil
    BY <1>13 DEF EndTransaction, Ended
  <2> QED BY <1>1, <1>4, <1>5, <1>13, <2>1 DEF EndTransaction
<1>14. ASSUME NEW n \in BlockNums, BeginBlock(n)
       PROVE  Ticked
  <2> DEFINE line == [type |-> "BEGIN_BLOCK", num |-> n]
  <2>1. NodeNow' \in Nat
    BY <1>0, <1>2, <1>14 DEF BeginBlock
  <2>2. Ticks(Own, line, NodeView, NodeNow, NodeNow')
    BY <1>0, <2>1 DEF Ticks
  <2> QED BY <1>14, <2>2, Zenon DEF BeginBlock, Ticked, Prints, Emit
<1>15. ASSUME NEW to \in Address, NEW system \in BOOLEAN, NEW line, Begin(to, system, line)
       PROVE  /\ NodeNow' \in Nat
              /\ IF Own /\ ~system THEN NodeNow' = 1
                 ELSE /\ NodeNow <= NodeNow'
                      /\ ~system => NodeNow' = clocks.block + 1 /\ NodeNow = clocks.block
  <2> DEFINE t == [hash |-> begun + 1, to |-> to, system |-> system,
                   calls |-> << >>, logs |-> << >>]
  <2>1. trx' = t /\ t \in NodeTrx /\ t.system = system
    BY <1>15 DEF Begin, NodeInv, NodeTrx
  <2> HIDE DEF t
  <2>2. TrxClock(trx') <=> Own /\ ~system
    <3>1. t # Nil
      BY <2>1, NodeAssumption
    <3> QED BY <1>0, <2>1, <3>1
  <2>3. clocks' = IF TrxClock(trx') THEN [clocks EXCEPT !.trx = 1]
                  ELSE [clocks EXCEPT !.block = clocks.block + 1]
    BY <1>15 DEF Begin
  <2>4. IF Own /\ ~system THEN clocks'.trx = 1
        ELSE clocks'.block = clocks.block + 1 /\ clocks'.trx = clocks.trx
    BY <2>2, <2>3 DEF NodeInv
  <2> QED BY <1>0, <1>2, <2>4
<1>16. ASSUME NEW to \in Recipients, BeginTransaction(to)
       PROVE  Ticked
  <2> DEFINE line == [type |-> "BEGIN_APPLY_TRX", to |-> to, index |-> Len(executing.trxs),
                      ord |-> IF version \in {"2.3", "2.4", "2.5"} THEN 1
                              ELSE clocks.block + 1]
  <2>1. to \in Address /\ Begin(to, FALSE, line)
    BY <1>16, ReaderAssumption DEF BeginTransaction
  <2>2. line.type = "BEGIN_APPLY_TRX" /\ line.ord = IF Own THEN 1 ELSE clocks.block + 1
    BY DEF Own, OwnClock
  <2> HIDE DEF line
  <2>3. /\ NodeNow' \in Nat
        /\ IF Own THEN NodeNow' = 1
           ELSE NodeNow <= NodeNow' /\ NodeNow' = clocks.block + 1 /\ NodeNow = clocks.block
    BY <1>15, <2>1
  <2>4. Ticks(Own, line, NodeView, NodeNow, NodeNow')
    BY <1>0, <2>2, <2>3 DEF Ticks
  <2> QED BY <2>1, <2>4, Zenon DEF Begin, Ticked, Prints, Emit
<1>17. CASE BeginSystemCall
  <2> DEFINE line == [type |-> "SYSTEM_CALL_START"]
  <2>1. NoAddress \in Address /\ Begin(NoAddress, TRUE, line)
    BY <1>17 DEF BeginSystemCall, Address
  <2>2. line.type = "SYSTEM_CALL_START"
    OBVIOUS
  <2> HIDE DEF line
  <2>3. NodeNow' \in Nat /\ NodeNow <= NodeNow'
    BY <1>15, <2>1
  <2>4. Ticks(Own, line, NodeView, NodeNow, NodeNow')
    BY <1>0, <2>2, <2>3 DEF Ticks
  <2> QED BY <1>1, <2>1, <2>4, Zenon DEF Begin, Ticked, Prints, Emit
<1> QED BY <1>1, <1>6, <1>7, <1>8, <1>9, <1>10, <1>11, <1>12, <1>13, <1>14, <1>16, <1>17
        DEF NodeStep

\* A transaction whose open calls are on the stack, after count EVM_RUN_CALL lines:
\* its ordinals are from its own to now, and the calls that are not open have an end.
Opened(t, stack, count, now) ==
    /\ t.hash # MergedHash /\ t.begin \in Nat \ {0} /\ t.begin <= now
    /\ \A i \in 1..Len(t.calls) :
          /\ Within(t.calls[i], t.begin, now)
          /\ \/ t.calls[i].end \in t.begin..now
             \/ i \in Elements(stack) \/ i > count

\* Its calls that are open.
OpenCalls(t, stack, count) ==
    {i \in 1..Len(t.calls) : i \in Elements(stack) \/ i > count}

\* Transactions that ended by now, unless each has its own clock.
Collected(own, ts, now) ==
    /\ \A i \in 1..Len(ts) : /\ Timed(ts[i]) /\ ts[i].hash # MergedHash
                             /\ ~own => ts[i].end <= now
    /\ ~own => Sequential(ts)

\* At position s, where the node's clock showed now, the reader holds no ordinal
\* that is out of order.
Timely(own, s, now) ==
    /\ ~proto.combine /\ proto.reorder = (s.phase # "boot" /\ own)
    /\ highestOrdinalBeforeTransactions >= -1
    /\ Collected(own, transactionTraces, now)
    /\ s.open /\ ~s.system =>
          /\ Opened(currentTrace, s.stack, s.count, now)
          /\ ~own => \A i \in 1..Len(transactionTraces) :
                        transactionTraces[i].end < currentTrace.begin

\* Messages have their fields.
LEMMA FieldsKnown ==
    /\ \A t \in Trx : TrxFields \subseteq DOMAIN t
    /\ \A c \in Call : CallFields \subseteq DOMAIN c
BY DEF Trx, Call, TrxFields, CallFields

LEMMA CollectedLater ==
    ASSUME NEW own \in BOOLEAN, NEW ts \in Seq(Trx), NEW m \in Nat, Collected(own, ts, m),
           NEW n \in Nat, m <= n
    PROVE  Collected(own, ts, n)
<1>1. ASSUME NEW i \in 1..Len(ts), ~own
      PROVE  ts[i].end <= n
  <2>1. ts[i].end \in Nat
    <3>1. ts[i] \in Trx
      OBVIOUS
    <3> QED BY <3>1 DEF Trx
  <2>2. ts[i].end <= m
    BY <1>1, Zenon DEF Collected
  <2> QED BY <2>1, <2>2
<1> QED BY <1>1, Zenon DEF Collected

LEMMA NothingCollected ==
    ASSUME NEW own, NEW n
    PROVE  Collected(own, << >>, n)
<1>1. \A i \in 1..Len(<< >>) : FALSE
  OBVIOUS
<1>2. Listed(<< >>) /\ Len(<< >>) = 0
  <2>1. << >> \in Seq({})
    OBVIOUS
  <2> QED BY <2>1 DEF Listed
<1> QED BY <1>1, <1>2, NothingSequential, Zenon DEF Collected

\* One more transaction, begun after the others ended.
LEMMA CollectedMore ==
    ASSUME NEW own \in BOOLEAN, NEW ts \in Seq(Trx), NEW m \in Nat, Collected(own, ts, m),
           NEW t \in Trx, Timed(t), t.hash # MergedHash, NEW n \in Nat, m <= n,
           ~own => t.end <= n /\ \A i \in 1..Len(ts) : ts[i].end < t.begin
    PROVE  Collected(own, Append(ts, t), n)
<1> DEFINE k == Len(ts)
           r == Append(ts, t)
<1>1. /\ k \in Nat /\ r \in Seq(Trx) /\ Len(r) = k + 1
      /\ (\A i \in 1..k : r[i] = ts[i]) /\ r[k + 1] = t
  BY AppendProperties
<1> HIDE DEF r
<1>2. Collected(own, ts, n)
  BY CollectedLater
<1>3. ASSUME NEW i \in 1..Len(r)
      PROVE  Timed(r[i]) /\ r[i].hash # MergedHash /\ (~own => r[i].end <= n)
  <2>1. i \in 1..k \/ i = k + 1
    BY <1>1
  <2>2. CASE i = k + 1
    BY <1>1, <2>2
  <2>3. CASE i \in 1..k
    BY <1>1, <1>2, <2>3 DEF Collected
  <2> QED BY <2>1, <2>2, <2>3
<1>4. ASSUME ~own
      PROVE  Sequential(r)
  <2>1. ASSUME NEW i \in 1..Len(r) - 1
        PROVE  r[i].end < r[i+1].begin
    <3>1. i = k \/ i \in 1..k - 1
      BY <1>1
    <3>2. CASE i = k
      <4>1. i \in 1..k /\ r[i] = ts[i] /\ r[i+1] = t
        BY <1>1, <2>1, <3>2
      <4> QED BY <1>4, <4>1
    <3>3. CASE i \in 1..k - 1
      <4>1. i \in 1..k /\ i + 1 \in 1..k
        BY <1>1, <3>3
      <4>2. ts[i].end < ts[i+1].begin
        BY <1>2, <1>4, <3>3 DEF Collected, Sequential
      <4> QED BY <1>1, <4>1, <4>2
    <3> QED BY <3>1, <3>2, <3>3
  <2> QED BY <1>1, <1>3, <2>1, Zenon DEF Sequential, Listed
<1> QED BY <1>3, <1>4, Zenon DEF Collected, r

\* The transaction with one of its calls rewritten: a call ends when it leaves the
\* stack.
LEMMA OpenedCall ==
    ASSUME NEW t \in Trx, NEW stack, NEW count \in Nat, NEW m \in Nat,
           Opened(t, stack, count, m), NEW n \in Nat, m <= n,
           NEW i \in 1..Len(t.calls), NEW call \in Call, Within(call, t.begin, n),
           NEW left, NEW after,
           call.end \in t.begin..n \/ i \in OpenCalls(t, left, after),
           OpenCalls(t, stack, count) \subseteq OpenCalls(t, left, after) \cup {i},
           NEW u, u = [t EXCEPT !.calls[i] = call]
    PROVE  Opened(u, left, after, n)
<1> DEFINE calls == t.calls
           new == [calls EXCEPT ![i] = call]
<1>1. calls \in Seq(Call) /\ Len(calls) \in Nat /\ t.begin \in Nat
  BY DEF Trx
<1>2. /\ new \in Seq(Call) /\ Len(new) = Len(calls)
      /\ \A k \in 1..Len(calls) : new[k] = IF k = i THEN call ELSE calls[k]
  BY <1>1
<1>3. u = [t EXCEPT !.calls = new]
  OBVIOUS
<1> HIDE DEF new
<1>4. u.calls = new /\ u.begin = t.begin /\ u.hash = t.hash
  BY <1>3 DEF Trx
<1>5. ASSUME NEW k \in 1..Len(new)
      PROVE  /\ Within(new[k], t.begin, n)
             /\ new[k].end \in t.begin..n \/ k \in Elements(left) \/ k > after
  <2>1. CASE k = i
    <3>1. new[k] = call /\ k \in 1..Len(calls)
      BY <1>2, <2>1
    <3>2. k \in OpenCalls(t, left, after) => k \in Elements(left) \/ k > after
      BY DEF OpenCalls
    <3> QED BY <2>1, <3>1, <3>2
  <2>2. CASE k # i
    <3>1. new[k] = calls[k] /\ k \in 1..Len(calls)
      BY <1>2, <2>2
    <3>2. /\ Within(calls[k], t.begin, m)
          /\ calls[k].end \in t.begin..m \/ k \in Elements(stack) \/ k > count
      BY <3>1, Zenon DEF Opened
    <3>3. Within(calls[k], t.begin, n)
      BY <1>1, <3>2, WithinLonger
    <3>4. calls[k].end \in t.begin..m => calls[k].end \in t.begin..n
      BY <1>1
    <3>5. k \in Elements(stack) \/ k > count => k \in OpenCalls(t, left, after)
      BY <2>2, <3>1, Zenon DEF OpenCalls
    <3>6. k \in OpenCalls(t, left, after) => k \in Elements(left) \/ k > after
      BY DEF OpenCalls
    <3> QED BY <3>1, <3>2, <3>3, <3>4, <3>5, <3>6
  <2> QED BY <2>1, <2>2
<1>6. t.hash # MergedHash /\ t.begin \in Nat \ {0} /\ t.begin <= n
  BY DEF Opened
<1> QED BY <1>4, <1>5, <1>6, Zenon DEF Opened

\* The transaction with one more call, on the stack.
LEMMA OpenedMore ==
    ASSUME NEW t \in Trx, NEW stack, NEW count \in Nat, NEW m \in Nat,
           Opened(t, stack, count, m), NEW n \in Nat, m <= n,
           NEW call \in Call, Within(call, t.begin, n),
           NEW more, NEW after, Len(t.calls) + 1 \in Elements(more),
           \A k \in 1..Len(t.calls) : k \in Elements(stack) \/ k > count =>
               k \in Elements(more) \/ k > after,
           NEW u, u = [t EXCEPT !.calls = Append(t.calls, call)]
    PROVE  Opened(u, more, after, n)
<1> DEFINE calls == t.calls
           new == Append(calls, call)
<1>1. calls \in Seq(Call) /\ Len(calls) \in Nat /\ t.begin \in Nat
  BY DEF Trx
<1>2. /\ new \in Seq(Call) /\ Len(new) = Len(calls) + 1
      /\ (\A k \in 1..Len(calls) : new[k] = calls[k]) /\ new[Len(calls) + 1] = call
  BY <1>1, AppendProperties
<1>3. u = [t EXCEPT !.calls = new]
  OBVIOUS
<1> HIDE DEF new
<1>4. u.calls = new /\ u.begin = t.begin /\ u.hash = t.hash
  BY <1>3 DEF Trx
<1>5. ASSUME NEW k \in 1..Len(new)
      PROVE  /\ Within(new[k], t.begin, n)
             /\ new[k].end \in t.begin..n \/ k \in Elements(more) \/ k > after
  <2>1. CASE k = Len(calls) + 1
    <3>1. new[k] = call
      BY <1>2, <2>1
    <3> QED BY <2>1, <3>1
  <2>2. CASE k # Len(calls) + 1
    <3>1. new[k] = calls[k] /\ k \in 1..Len(calls)
      BY <1>1, <1>2, <2>2
    <3>2. /\ Within(calls[k], t.begin, m)
          /\ calls[k].end \in t.begin..m \/ k \in Elements(stack) \/ k > count
      BY <3>1, Zenon DEF Opened
    <3>3. Within(calls[k], t.begin, n)
      BY <1>1, <3>2, WithinLonger
    <3>4. calls[k].end \in t.begin..m => calls[k].end \in t.begin..n
      BY <1>1
    <3> QED BY <3>1, <3>2, <3>3, <3>4
  <2> QED BY <2>1, <2>2
<1>6. t.hash # MergedHash /\ t.begin \in Nat \ {0} /\ t.begin <= n
  BY DEF Opened
<1> QED BY <1>4, <1>5, <1>6, Zenon DEF Opened

\* When every call of the transaction has ended, it is timed.
LEMMA OpenedEnds ==
    ASSUME NEW t \in Trx, NEW m \in Nat, Opened(t, << >>, Len(t.calls), m),
           NEW n \in Nat, m <= n,
           NEW u \in Trx, u.begin = t.begin, u.end = n, u.hash = t.hash,
           u.calls = PopulateStateReverted(t.calls)
    PROVE  Timed(u) /\ u.hash # MergedHash
<1>1. t.calls \in Seq(Call) /\ Len(t.calls) \in Nat /\ t.begin \in Nat /\ u.index \in Nat
  BY DEF Trx
<1>2. t.hash # MergedHash /\ t.begin \in Nat \ {0} /\ t.begin <= n
  BY DEF Opened
<1>3. Spanned(t.calls, t.begin, n)
  <2>1. ASSUME NEW i \in 1..Len(t.calls)
        PROVE  Within(t.calls[i], t.begin, n) /\ t.calls[i].end \in t.begin..n
    <3>1. i \notin Elements(<< >>) /\ ~(i > Len(t.calls))
      BY <1>1 DEF Elements
    <3>2. Within(t.calls[i], t.begin, m) /\ t.calls[i].end \in t.begin..m
      BY <3>1, Zenon DEF Opened
    <3>3. Within(t.calls[i], t.begin, n)
      BY <1>1, <3>2, WithinLonger
    <3>4. t.calls[i].end \in t.begin..n
      BY <1>1, <3>2
    <3> QED BY <3>3, <3>4
  <2> QED BY <1>1, <2>1, Zenon DEF Spanned, Listed
<1>4. TrxFields \subseteq DOMAIN t /\ TrxFields \subseteq DOMAIN u
  BY FieldsKnown
<1>5. Spanned(Revert(t).calls, t.begin, n)
  <2>1. Keeps(Revert(t), t)
    BY <1>4, RevertKeeps
  <2> QED BY <1>3, <2>1, Zenon DEF Keeps
<1>6. Revert(t).calls = u.calls
  BY <1>4 DEF Revert, TrxFields
<1> QED BY <1>1, <1>2, <1>4, <1>5, <1>6 DEF Timed

\* A line that changes what is returned appends a block in order to it.
ReturnsInOrder ==
    \/ UNCHANGED returned
    \/ \E r : returned' = Append(returned, r) /\ Sequential(r.block.trxs)

\* A line of a block keeps the reader in time ...
LEMMA BlockLinesTimely ==
    ASSUME TraceInv, BlockInv, NEW own \in BOOLEAN, NEW m, NEW n,
           NEW s \in View, NEW t, NEW l, BlockAfter(l, s, t), Agrees(s), Dispatch(l),
           Ticks(own, l, s, m, n), Timely(own, s, m)
    PROVE  ReturnsInOrder /\ Timely(own, t, n)'
<1>0. /\ ~s.open /\ currentTrace = Nil /\ m \in Nat /\ n \in Nat
      /\ l.type # "BEGIN_BLOCK" => m <= n
  BY DEF BlockAfter, Agrees, Ticks
<1>1. /\ transactionTraces \in Seq(Trx) /\ highestOrdinalBeforeTransactions \in Int
      /\ currentBlock \in Block \cup {Nil}
      /\ ~proto.combine /\ proto.reorder = (s.phase # "boot" /\ own)
      /\ highestOrdinalBeforeTransactions >= -1
      /\ Collected(own, transactionTraces, m)
  BY DEF TraceInv, TypeInv, TypeOK, Timely
<1>2. \A phase, num, seq : Outside(phase, num, seq).phase = phase
                           /\ ~Outside(phase, num, seq).open
  BY DEF Outside
<1>3. l.type # "BEGIN_BLOCK" => Collected(own, transactionTraces, n)
  BY <1>0, <1>1, CollectedLater
<1>4. Collected(own, << >>, n)
  BY NothingCollected
<1>5. CASE l.type = "INIT"
  <2>1. /\ l.ver \in Versions /\ l.polygon = FALSE /\ t = Outside("idle", s.num, s.seq)
        /\ s.phase = "boot" /\ ReadInit(l.ver, l.polygon) /\ own = OwnClock(l.ver)
    BY <1>5 DEF BlockAfter, Dispatch, Ticks
  <2>2. l.ver \in KnownVersions
    BY <2>1, NodeAssumption
  <2>3. /\ proto'.reorder = (proto.reorder \/ own)
        /\ proto'.combine = (proto.combine \/ l.polygon)
        /\ UNCHANGED <<transactionTraces, highestOrdinalBeforeTransactions, returned>>
    <3> DEFINE ver == IF l.ver = "2.0" THEN 2 ELSE 3
               indexed == proto.trxIndex \/ l.ver \in {"2.3", "2.4", "2.5"}
    <3>1. proto' = [ver |-> ver, major |-> Major(l.ver), trxIndex |-> indexed,
                    upgrade |-> MustUpgrade(l.ver), reorder |-> proto.reorder \/ own,
                    combine |-> proto.combine \/ l.polygon]
      BY <2>1, <2>2, Zenon DEF ReadInit, OwnClock
    <3> HIDE DEF ver, indexed
    <3>2. /\ proto'.reorder = (proto.reorder \/ own)
          /\ proto'.combine = (proto.combine \/ l.polygon)
      BY <3>1, Zenon
    <3>3. UNCHANGED <<transactionTraces, highestOrdinalBeforeTransactions, returned>>
      BY <2>1, <2>2, Zenon DEF ReadInit, Accept, blockVars
    <3> QED BY <3>2, <3>3
  <2>4. ~t.open /\ t.phase = "idle"
    BY <1>2, <2>1
  <2> QED BY <1>1, <1>3, <1>5, <2>1, <2>3, <2>4 DEF Timely, ReturnsInOrder
<1>6. CASE l.type = "BEGIN_BLOCK"
  <2>1. /\ s.phase = "idle" /\ t = Outside("block", l.num, s.seq + 1)
        /\ ReadBeginBlock(l.num)
    BY <1>6 DEF BlockAfter, Dispatch
  <2>2. transactionTraces = << >> /\ CanBeginBlock
    BY <2>1 DEF CanBeginBlock, Agrees, BlockAgrees, InBlockAt
  <2>3. /\ UNCHANGED <<proto, transactionTraces, returned>>
        /\ highestOrdinalBeforeTransactions' = -1
    BY <2>1, <2>2 DEF ReadBeginBlock, Accept
  <2>4. ~t.open /\ t.phase # "boot"
    BY <1>2, <2>1
  <2> QED BY <1>1, <1>4, <2>1, <2>2, <2>3, <2>4 DEF Timely, ReturnsInOrder
<1>7. CASE l.type = "BALANCE_CHANGE"
  <2>1. /\ l.index = 0 /\ l.ord \in Nat /\ InBlockAt(s) /\ t = Outside(s.phase, s.num, s.seq)
        /\ ReadBalanceChange(l.index, l.ord, TRUE)
    BY <1>7 DEF BlockAfter, Dispatch
  <2>2. currentBlock # Nil
    BY <2>1 DEF Agrees, BlockAgrees
  <2>3. OnBlock("BALANCE", l.ord)
    BY <1>0, <2>1, <2>2 DEF ReadBalanceChange, CallExists
  <2>4. /\ UNCHANGED <<proto, transactionTraces, returned>>
        /\ highestOrdinalBeforeTransactions' \in {l.ord, highestOrdinalBeforeTransactions}
    BY <2>3 DEF OnBlock, DetailFrame, Accept, RememberOrdinal
  <2>5. ~t.open /\ t.phase = s.phase /\ highestOrdinalBeforeTransactions' >= -1
    BY <1>1, <1>2, <2>1, <2>4
  <2> QED BY <1>1, <1>3, <1>7, <2>4, <2>5 DEF Timely, ReturnsInOrder
<1>8. CASE l.type = "FINALIZE_BLOCK"
  <2>1. /\ s.phase = "block" /\ t = Outside("sealed", s.num, s.seq)
        /\ ReadFinalizeBlock(l.num)
    BY <1>8 DEF BlockAfter, Dispatch
  <2>2. UNCHANGED <<proto, transactionTraces, highestOrdinalBeforeTransactions, returned>>
    BY <2>1 DEF ReadFinalizeBlock, Stop, ctxVars, Accept
  <2>3. ~t.open /\ t.phase # "boot" /\ s.phase # "boot"
    BY <1>2, <2>1
  <2> QED BY <1>1, <1>3, <1>8, <2>2, <2>3 DEF Timely, ReturnsInOrder
<1>9. CASE l.type = "CANCEL_BLOCK"
  <2>1. /\ InBlockAt(s) \/ s.phase = "failed"
        /\ t = Outside("idle", s.num, s.seq) /\ ReadCancelBlock(l.num)
    BY <1>9 DEF BlockAfter, Dispatch
  <2>2. /\ UNCHANGED <<proto, highestOrdinalBeforeTransactions, returned>>
        /\ UNCHANGED transactionTraces \/ transactionTraces' = << >>
    BY <2>1 DEF ReadCancelBlock, Stop, vars, ctxVars, ResetBlock, Accept
  <2>3. ~t.open /\ t.phase # "boot" /\ s.phase # "boot"
    BY <1>2, <2>1 DEF InBlockAt
  <2> QED BY <1>1, <1>3, <1>4, <1>9, <2>2, <2>3 DEF Timely, ReturnsInOrder
<1>10. CASE l.type = "END_BLOCK"
  <2>1. /\ s.phase = "sealed" /\ l.num = s.num /\ t = Outside("idle", s.num, s.seq)
        /\ ReadEndBlock(l.num, l.num, Nil, TRUE)
    BY <1>10 DEF BlockAfter, Dispatch
  <2>2. currentBlock # Nil /\ currentBlock.num = l.num /\ finalizing
    BY <2>1 DEF Agrees, BlockAgrees, InBlockAt
  <2>3. PICK first \in Nat : first = highestOrdinalBeforeTransactions + 1
    BY <1>1
  <2>4. PICK out : out = NormalizeInPlace(Assembled, proto, first)
    OBVIOUS
  <2>5. /\ ResetBlock /\ UNCHANGED <<proto, highestOrdinalBeforeTransactions>>
        /\ \E lib : EndWith(out, lib, TRUE)
    BY <2>1, <2>2, <2>3, <2>4 DEF ReadEndBlock
  <2>6. Sequential(out.block.trxs)
    <3>1. PICK block : block = Assembled
      OBVIOUS
    <3>2. /\ {"trxs", "ver", "changes"} \subseteq DOMAIN block
          /\ block.trxs = transactionTraces
      BY <1>1, <2>2, <3>1 DEF Assembled, Block
    <3>3. Listed(block.trxs)
      BY <1>1, <3>2 DEF Listed
    <3>4. /\ \A i \in 1..Len(block.trxs) : /\ Timed(block.trxs[i])
                                           /\ block.trxs[i].hash # MergedHash
          /\ proto.reorder \/ Sequential(block.trxs)
      BY <1>1, <2>1, <3>2 DEF Collected
    <3>5. PICK chain : chain = proto
      OBVIOUS
    <3>6. ~chain.combine /\ (chain.reorder \/ Sequential(block.trxs))
      BY <1>1, <3>4, <3>5
    <3>7. Sequential(NormalizeInPlace(block, chain, first).block.trxs)
      BY <3>2, <3>3, <3>4, <3>6, NormalizedSequential
    <3> QED BY <2>4, <3>1, <3>5, <3>7
  <2>7. ReturnsInOrder
    <3>1. PICK lib : EndWith(out, lib, TRUE)
      BY <2>5
    <3>2. Finished(out.block, lib).block = out.block
      BY DEF Finished
    <3> QED BY <2>6, <3>1, <3>2, Zenon DEF EndWith, ReturnsInOrder
  <2>8. ~t.open /\ t.phase # "boot" /\ s.phase # "boot" /\ transactionTraces' = << >>
    BY <1>2, <2>1, <2>5 DEF ResetBlock
  <2> QED BY <1>1, <1>4, <2>5, <2>7, <2>8 DEF Timely
<1> QED BY <1>5, <1>6, <1>7, <1>8, <1>9, <1>10 DEF BlockAfter

\* ... and so does the line that begins a transaction or a system call ...
LEMMA TraceBeginsTimely ==
    ASSUME TraceInv, NEW own \in BOOLEAN, NEW m, NEW n,
           NEW s \in View, NEW t, NEW l, TraceBeginsAfter(l, s, t), Agrees(s), Dispatch(l),
           Ticks(own, l, s, m, n), Timely(own, s, m)
    PROVE  UNCHANGED returned /\ Timely(own, t, n)'
<1>0. /\ InBlockAt(s) /\ s.phase # "boot" /\ currentTrace = Nil /\ stats = TRUE
      /\ m \in Nat /\ n \in Nat /\ tracesSeen \in Nat
      /\ transactionTraces \in Seq(Trx) /\ \A x \in Trx : x.end \in Nat
  BY DEF TraceBeginsAfter, InBlockAt, Agrees, BlockAgrees, Ticks, TraceInv, TypeInv, TypeOK,
         Trx
<1>1. /\ ~proto.combine /\ proto.reorder = own
      /\ highestOrdinalBeforeTransactions >= -1
      /\ Collected(own, transactionTraces, m)
  BY <1>0 DEF Timely
<1>2. ASSUME NEW trace, StartTrace(trace), Collected(own, transactionTraces, n),
             t.phase = s.phase, t.open,
             ~t.system => /\ Opened(trace, t.stack, t.count, n)
                          /\ ~own => \A i \in 1..Len(transactionTraces) :
                                        transactionTraces[i].end < trace.begin
      PROVE  UNCHANGED returned /\ Timely(own, t, n)'
  <2>1. /\ currentTrace' = trace
        /\ UNCHANGED <<proto, transactionTraces, highestOrdinalBeforeTransactions, returned>>
    BY <1>2 DEF StartTrace, blockVars, Accept
  <2> QED BY <1>0, <1>1, <1>2, <2>1 DEF Timely
<1>3. CASE l.type = "SYSTEM_CALL_START"
  <2>1. ReadSystemCallStart /\ t = Inside(s, NoAddress, TRUE, 0, << >>) /\ m <= n
    BY <1>3 DEF TraceBeginsAfter, Dispatch, Ticks
  <2>2. \E trace : StartTrace(trace)
    BY <1>0, <2>1, Zenon DEF ReadSystemCallStart
  <2>3. t.phase = s.phase /\ t.open /\ t.system
    BY <2>1 DEF Inside
  <2>4. Collected(own, transactionTraces, n)
    BY <1>0, <1>1, <2>1, CollectedLater
  <2> QED BY <1>2, <2>2, <2>3, <2>4, Zenon
<1>4. CASE l.type = "BEGIN_APPLY_TRX"
  <2>1. /\ ReadApplyTrxBegin(l.to, l.index, l.ord) /\ t = Inside(s, l.to, FALSE, 0, << >>)
        /\ l.ord \in Nat
    BY <1>4 DEF TraceBeginsAfter, Dispatch
  <2> DEFINE root == NewCall(1, "CALL", l.to, 0)
             trace == NewTrx(tracesSeen + 1, TrxIndex(l.index), l.to, l.ord, root,
                             blocksSeen, FALSE)
  <2>2. StartTrace(trace)
    BY <1>0, <2>1 DEF ReadApplyTrxBegin
  <2>3. /\ t.phase = s.phase /\ t.open /\ ~t.system /\ t.stack = << >> /\ t.count = 0
    BY <2>1 DEF Inside
  <2>4. /\ l.ord \in Nat \ {0} /\ n = l.ord /\ (own => n = 1) /\ (~own => m < l.ord)
    BY <1>0, <1>4, <2>1 DEF Ticks
  <2>5. Collected(own, transactionTraces, n)
    <3>1. CASE own
      BY <1>1, <3>1, Zenon DEF Collected
    <3>2. CASE ~own
      BY <1>0, <1>1, <2>4, <3>2, CollectedLater
    <3> QED BY <3>1, <3>2
  <2>6. trace.hash = tracesSeen + 1 /\ trace.begin = l.ord /\ trace.calls = <<root>>
    BY DEF NewTrx
  <2>7. /\ CallFields \subseteq DOMAIN root
        /\ root.begin = 0 /\ root.logs = << >> /\ root.changes = << >>
    BY DEF NewCall, CallFields
  <2> HIDE DEF root, trace
  <2>8. Within(root, l.ord, n)
    BY <2>7, NothingDated DEF Within
  <2>9. Opened(trace, t.stack, t.count, n)
    <3>1. trace.hash # MergedHash
      BY <1>0, <2>6 DEF MergedHash
    <3>2. Len(trace.calls) = 1 /\ trace.calls[1] = root
      BY <2>6
    <3>3. \A i \in 1..Len(trace.calls) : i > t.count /\ trace.calls[i] = root
      BY <2>3, <3>2
    <3> QED BY <2>4, <2>6, <2>8, <3>1, <3>3 DEF Opened
  <2>10. ASSUME ~own, NEW i \in 1..Len(transactionTraces)
         PROVE  transactionTraces[i].end < trace.begin
    <3>1. transactionTraces[i].end \in Nat
      BY <1>0
    <3>2. transactionTraces[i].end <= m
      BY <1>1, <2>10, Zenon DEF Collected
    <3> QED BY <1>0, <2>4, <2>6, <2>10, <3>1, <3>2
  <2> QED BY <1>2, <2>2, <2>3, <2>5, <2>9, <2>10, Zenon
<1> QED BY <1>3, <1>4 DEF TraceBeginsAfter

\* ... the line that ends one ...
LEMMA TraceEndsTimely ==
    ASSUME TraceInv, TraceInv', NEW own \in BOOLEAN, NEW m, NEW n, NEW F,
           NEW s \in View, NEW t, NEW l, TraceEndsAfter(F, l, s, t), Agrees(s), Dispatch(l),
           Ticks(own, l, s, m, n), Timely(own, s, m)
    PROVE  UNCHANGED returned /\ Timely(own, t, n)'
<1>0. /\ InBlockAt(s) /\ s.phase # "boot" /\ s.open /\ s.stack = << >>
      /\ m \in Nat /\ n \in Nat /\ m <= n
      /\ transactionTraces \in Seq(Trx) /\ transactionTraces' \in Seq(Trx)
  BY DEF TraceEndsAfter, InBlockAt, Ticks, TraceInv, TypeInv, TypeOK
<1>1. /\ ~proto.combine /\ proto.reorder = own
      /\ highestOrdinalBeforeTransactions >= -1
      /\ Collected(own, transactionTraces, m)
  BY <1>0 DEF Timely
<1>2. /\ currentTrace # Nil /\ currentTrace \in Trx /\ inSystemCall = s.system
      /\ currentBlock # Nil /\ s.count \in Nat
      /\ Len(currentTrace.calls) = IF s.count = 0 THEN 1 ELSE s.count
  BY <1>0 DEF Agrees, TraceAgrees, BlockAgrees, TraceInv, TypeInv, TypeOK, View
<1>3. Collected(own, transactionTraces, n)
  BY <1>0, <1>1, CollectedLater
<1>4. ASSUME ~t.open, t.phase # "boot", Collected(own, transactionTraces', n),
             UNCHANGED <<proto, highestOrdinalBeforeTransactions>>
      PROVE  Timely(own, t, n)'
  BY <1>0, <1>1, <1>4 DEF Timely
<1>5. ~t.open /\ t.phase # "boot"
  BY <1>0 DEF TraceEndsAfter, Outside
<1>6. CASE l.type = "SYSTEM_CALL_END"
  <2>1. ReadSystemCallEnd
    BY <1>6 DEF Dispatch
  <2>2. UNCHANGED <<proto, highestOrdinalBeforeTransactions, transactionTraces, returned>>
    BY <2>1 DEF ReadSystemCallEnd, Stop, ctxVars, Accept
  <2> QED BY <1>3, <1>4, <1>5, <2>2
<1>7. CASE l.type = "SKIPPED_TRX"
  <2>1. ReadSkippedTrx
    BY <1>7 DEF Dispatch
  <2>2. UNCHANGED <<proto, highestOrdinalBeforeTransactions, transactionTraces, returned>>
    BY <2>1 DEF ReadSkippedTrx, Stop, ctxVars, blockVars, Accept
  <2> QED BY <1>3, <1>4, <1>5, <2>2
<1>8. CASE l.type = "FAILED_APPLY_TRX"
  <2>1. ReadFailedApplyTrx /\ ~s.system
    BY <1>8 DEF TraceEndsAfter, Dispatch
  <2>2. /\ UNCHANGED <<proto, highestOrdinalBeforeTransactions, returned>>
        /\ transactionTraces' = << >>
    BY <1>2, <2>1 DEF ReadFailedApplyTrx, InTransaction, Accept
  <2>3. Collected(own, transactionTraces', n)
    BY <2>2, NothingCollected
  <2> QED BY <1>4, <1>5, <2>2, <2>3
<1>9. CASE l.type = "END_APPLY_TRX"
  <2>1. /\ l.ord \in Nat /\ ~s.system /\ s.count >= 1 /\ l.ord = n
        /\ ReadApplyTrxEnd(l.ord, l.receipt)
    BY <1>9 DEF TraceEndsAfter, Dispatch, Ticks
  <2>2. /\ currentTrace.to = NoAddress => currentTrace.calls[1].type = "CREATE"
        /\ ParentsInRange(currentTrace.calls)
    BY <1>0, <2>1 DEF Agrees, TraceAgrees
  <2>3. PICK c : c = currentTrace
    OBVIOUS
  <2>4. PICK done, to, receipt :
           /\ done = blocksSeen /\ to = ResolvedTo(currentTrace)
           /\ receipt = ReceiptLogs(currentTrace.hash, l.receipt)
    OBVIOUS
  <2>5. PICK calls : calls = PopulateStateReverted(c.calls)
    OBVIOUS
  <2> DEFINE u == [c EXCEPT !.end = l.ord, !.to = to, !.receipt = receipt,
                            !.calls = calls, !.done = done]
  <2>6. /\ transactionTraces' = Append(transactionTraces, u)
        /\ UNCHANGED <<proto, highestOrdinalBeforeTransactions, returned>>
    BY <1>2, <2>1, <2>2, <2>3, <2>4, <2>5, Zenon DEF ReadApplyTrxEnd, Accept
  <2>7. u.begin = c.begin /\ u.end = l.ord /\ u.hash = c.hash /\ u.calls = calls
    BY <1>2, <2>3 DEF Trx
  <2> HIDE DEF u
  <2>8. u \in Trx
    <3>1. /\ Len(transactionTraces) \in Nat
          /\ Len(transactionTraces') = Len(transactionTraces) + 1
          /\ transactionTraces'[Len(transactionTraces) + 1] = u
      BY <1>0, <2>6, AppendAny
    <3>2. Len(transactionTraces) + 1 \in 1..Len(transactionTraces')
      BY <3>1
    <3> QED BY <1>0, <3>1, <3>2
  <2>9. /\ Opened(c, << >>, Len(c.calls), m) /\ c \in Trx
        /\ ~own => \A i \in 1..Len(transactionTraces) : transactionTraces[i].end < c.begin
    <3>1. Len(c.calls) = s.count
      BY <1>2, <2>1, <2>3
    <3> QED BY <1>0, <1>2, <2>1, <2>3, <3>1 DEF Timely
  <2>10. Timed(u) /\ u.hash # MergedHash
    BY <1>0, <2>1, <2>5, <2>7, <2>8, <2>9, OpenedEnds
  <2>11. ~own => u.end <= n /\ \A i \in 1..Len(transactionTraces) :
                                  transactionTraces[i].end < u.begin
    BY <1>0, <2>1, <2>7, <2>9
  <2>12. Collected(own, Append(transactionTraces, u), n)
    BY <1>0, <1>1, <2>8, <2>10, <2>11, CollectedMore
  <2> QED BY <1>4, <1>5, <2>6, <2>12
<1> QED BY <1>6, <1>7, <1>8, <1>9 DEF TraceEndsAfter

\* What is on a stack with one more call, and without its top.
LEMMA StackElements ==
    ASSUME NEW q \in Seq(Nat), NEW n
    PROVE  /\ n \in Nat => Elements(Append(q, n)) = Elements(q) \cup {n}
           /\ q # << >> => \A k \in Elements(q) :
                  k = q[Len(q)] \/ k \in Elements(SubSeq(q, 1, Len(q) - 1))
<1>1. n \in Nat => Elements(Append(q, n)) = Elements(q) \cup {n}
  <2> SUFFICES ASSUME n \in Nat
               PROVE  Elements(Append(q, n)) = Elements(q) \cup {n}
    OBVIOUS
  <2> DEFINE r == Append(q, n)
  <2>1. /\ Len(q) \in Nat /\ Len(r) = Len(q) + 1
        /\ (\A k \in 1..Len(q) : r[k] = q[k]) /\ r[Len(q) + 1] = n
    BY AppendProperties
  <2> HIDE DEF r
  <2>2. /\ \A k \in 1..Len(r) : k \in 1..Len(q) \/ k = Len(q) + 1
        /\ \A k \in 1..Len(q) : k \in 1..Len(r)
        /\ Len(q) + 1 \in 1..Len(r)
    BY <2>1
  <2>3. ASSUME NEW x \in Elements(r)
        PROVE  x \in Elements(q) \cup {n}
    <3>1. PICK k \in 1..Len(r) : x = r[k]
      BY DEF Elements
    <3>2. CASE k = Len(q) + 1
      BY <2>1, <3>1, <3>2
    <3>3. CASE k \in 1..Len(q)
      BY <2>1, <3>1, <3>3 DEF Elements
    <3> QED BY <2>2, <3>2, <3>3
  <2>4. ASSUME NEW x \in Elements(q) \cup {n}
        PROVE  x \in Elements(r)
    <3>1. CASE x = n
      BY <2>1, <2>2, <3>1 DEF Elements
    <3>2. CASE x \in Elements(q)
      <4>1. PICK k \in 1..Len(q) : x = q[k]
        BY <3>2 DEF Elements
      <4> QED BY <2>1, <2>2, <4>1 DEF Elements
    <3> QED BY <3>1, <3>2
  <2> QED BY <2>3, <2>4 DEF r
<1>2. ASSUME q # << >>, NEW x \in Elements(q)
      PROVE  x = q[Len(q)] \/ x \in Elements(SubSeq(q, 1, Len(q) - 1))
  <2> DEFINE p == SubSeq(q, 1, Len(q) - 1)
  <2>1. /\ p \in Seq(Nat) /\ Len(p) = Len(q) - 1 /\ \A k \in 1..Len(p) : p[k] = q[k]
    BY <1>2, Popped
  <2> HIDE DEF p
  <2>2. PICK k \in 1..Len(q) : x = q[k]
    BY DEF Elements
  <2>3. k = Len(q) \/ k \in 1..Len(p)
    BY <2>1, <2>2
  <2> QED BY <2>1, <2>2, <2>3 DEF Elements, p
<1> QED BY <1>1, <1>2

\* ... and the lines of its calls.
LEMMA CallLinesTimely ==
    ASSUME TraceInv, NEW own \in BOOLEAN, NEW m, NEW n,
           NEW s \in View, NEW t, NEW l, CallAfter(l, s, t), Agrees(s), Dispatch(l),
           Ticks(own, l, s, m, n), Timely(own, s, m)
    PROVE  UNCHANGED returned /\ Timely(own, t, n)'
<1>0. /\ InBlockAt(s) /\ s.phase # "boot" /\ s.open /\ evmCallStackIndexes = s.stack
      /\ m \in Nat /\ n \in Nat /\ m <= n /\ transactionTraces \in Seq(Trx)
      /\ s.count \in Nat /\ s.stack \in Seq(Nat) /\ s.system \in BOOLEAN
      /\ \A k \in 1..Len(s.stack) : s.stack[k] \in 1..s.count
  BY DEF CallAfter, InBlockAt, Agrees, Ticks, TraceInv, TypeInv, TypeOK, View
<1>1. /\ ~proto.combine /\ proto.reorder = own
      /\ highestOrdinalBeforeTransactions >= -1
      /\ Collected(own, transactionTraces, n)
      /\ ~s.system => /\ Opened(currentTrace, s.stack, s.count, m)
                      /\ ~own => \A i \in 1..Len(transactionTraces) :
                                    transactionTraces[i].end < currentTrace.begin
  BY <1>0, CollectedLater DEF Timely
<1>2. PICK c \in Trx : c = currentTrace
  BY <1>0 DEF Agrees, TraceAgrees, TraceInv, TypeInv, TypeOK
<1>3. /\ inSystemCall = s.system /\ c # Nil /\ c.begin \in Nat /\ c.calls \in Seq(Call)
      /\ Len(c.calls) = IF s.count = 0 THEN 1 ELSE s.count
  BY <1>0, <1>2 DEF Agrees, TraceAgrees, Trx
<1>4. ASSUME NEW count, NEW stack, t = Inside(s, s.to, s.system, count, stack),
             ~s.system => /\ Opened(currentTrace', stack, count, n)
                          /\ currentTrace'.begin = c.begin,
             UNCHANGED <<proto, transactionTraces, highestOrdinalBeforeTransactions, returned>>
      PROVE  UNCHANGED returned /\ Timely(own, t, n)'
  <2>1. t.phase = s.phase /\ t.system = s.system /\ t.count = count /\ t.stack = stack
    BY <1>4 DEF Inside
  <2> QED BY <1>0, <1>1, <1>2, <1>4, <2>1 DEF Timely
<1>5. ASSUME NEW i \in 1..Len(c.calls), NEW call \in Call, WriteCall(i, call)
      PROVE  currentTrace' = [c EXCEPT !.calls[i] = call] /\ currentTrace'.begin = c.begin
  <2>1. currentTrace' = [c EXCEPT !.calls[i] = call]
    BY <1>2, <1>5 DEF WriteCall
  <2>2. PICK calls : currentTrace' = [c EXCEPT !.calls = calls]
    BY <2>1
  <2> QED BY <2>1, <2>2 DEF Trx
<1>6. ASSUME NEW i \in 1..s.count
      PROVE  /\ i \in 1..Len(c.calls) /\ c.calls[i] \in Call
             /\ i \in Nat /\ i # 0 /\ CallExists(i)
             /\ ~s.system => /\ Within(c.calls[i], c.begin, n)
                             /\ \/ c.calls[i].end \in c.begin..n
                                \/ i \in Elements(s.stack) \/ i > s.count
  <2>1. i \in 1..Len(c.calls) /\ i \in Nat /\ i # 0
    BY <1>0, <1>3
  <2>2. c.calls[i] \in Call /\ CallExists(i)
    BY <1>2, <1>3, <2>1 DEF CallExists
  <2>3. ASSUME ~s.system
        PROVE  /\ Within(c.calls[i], c.begin, n)
               /\ \/ c.calls[i].end \in c.begin..n
                  \/ i \in Elements(s.stack) \/ i > s.count
    <3>1. /\ Within(c.calls[i], c.begin, m)
          /\ c.calls[i].end \in c.begin..m \/ i \in Elements(s.stack) \/ i > s.count
      BY <1>1, <1>2, <2>1, <2>3, Zenon DEF Opened
    <3>2. Within(c.calls[i], c.begin, n)
      BY <1>0, <1>3, <3>1, WithinLonger
    <3> QED BY <1>0, <1>3, <3>1, <3>2
  <2> QED BY <2>1, <2>2, <2>3
<1>7. CASE l.type = "EVM_CALL_FAILED"
  <2>1. PICK i \in 1..s.count :
           /\ i = l.index /\ t = Inside(s, s.to, s.system, s.count, s.stack)
           /\ ReadEVMCallFailed(i)
    BY <1>7 DEF CallAfter, Dispatch
  <2>2. PICK d \in Call : d = c.calls[i]
    BY <1>6
  <2> DEFINE call == [d EXCEPT !.statusFailed = TRUE]
  <2>3. /\ call \in Call /\ call.begin = d.begin /\ call.end = d.end
        /\ call.logs = d.logs /\ call.changes = d.changes
    BY DEF Call
  <2>4. OnCall(i, call)
    BY <1>2, <1>6, <2>1, <2>2 DEF ReadEVMCallFailed, Annotate
  <2> HIDE DEF call
  <2>5. /\ WriteCall(i, call)
        /\ UNCHANGED <<proto, transactionTraces, highestOrdinalBeforeTransactions, returned>>
    BY <2>4 DEF OnCall, DetailFrame, Accept
  <2>6. ASSUME ~s.system
        PROVE  /\ Opened(currentTrace', s.stack, s.count, n)
               /\ currentTrace'.begin = c.begin
    <3>1. SameTimes(call.logs, d.logs) /\ CallFields \subseteq DOMAIN call
      BY <2>3, FieldsKnown DEF SameTimes
    <3>2. Within(call, c.begin, n)
      BY <1>6, <2>2, <2>3, <2>6, <3>1, StaysWithin
    <3>3. call.end \in c.begin..n \/ i \in OpenCalls(c, s.stack, s.count)
      BY <1>6, <2>2, <2>3, <2>6 DEF OpenCalls
    <3>4. i \in 1..Len(c.calls) /\ Opened(c, s.stack, s.count, m)
      BY <1>1, <1>2, <1>6, <2>6
    <3>5. /\ currentTrace' = [c EXCEPT !.calls[i] = call]
          /\ currentTrace'.begin = c.begin
      BY <1>5, <2>3, <2>5, <3>4
    <3>6. PICK u : u = [c EXCEPT !.calls[i] = call]
      OBVIOUS
    <3>7. Opened(u, s.stack, s.count, n)
      BY <1>0, <2>3, <3>2, <3>3, <3>4, <3>6, OpenedCall
    <3> QED BY <3>5, <3>6, <3>7
  <2> QED BY <1>4, <2>1, <2>5, <2>6
<1>8. CASE l.type = "ADD_LOG"
  <2>1. PICK i \in 1..s.count :
           /\ i = l.index /\ t = Inside(s, s.to, s.system, s.count, s.stack)
           /\ l.data \in LogData /\ l.ord \in Nat /\ ReadAddLog(i, l.data, 0, l.ord)
    BY <1>8 DEF CallAfter, Dispatch
  <2>2. PICK d \in Call : d = c.calls[i]
    BY <1>6
  <2> DEFINE log == [trx |-> currentTrace.hash, index |-> LogIndex(i), data |-> l.data,
                     ord |-> l.ord, blockIndex |-> 0]
             logs == Append(d.logs, log)
             call == [d EXCEPT !.logs = logs]
  <2>3. log \in Log /\ log.ord = l.ord /\ "ord" \in DOMAIN log
    BY <1>2, <2>1 DEF LogIndex, Log, Trx, TraceInv, TypeInv, TypeOK
  <2>4. /\ WriteCall(i, call)
        /\ UNCHANGED <<proto, transactionTraces, highestOrdinalBeforeTransactions, returned>>
    BY <1>2, <1>6, <2>1, <2>2 DEF ReadAddLog, DetailFrame, Accept
  <2> HIDE DEF log
  <2>5. logs \in Seq(Log)
    <3>1. d.logs \in Seq(Log)
      BY DEF Call
    <3> QED BY <2>3, <3>1
  <2>6. ~s.system => m < l.ord /\ l.ord = n
    BY <1>8 DEF Ticks
  <2>7. ASSUME ~s.system
        PROVE  Dated(logs, c.begin, n)
    <3>1. Dated(d.logs, c.begin, n)
      BY <1>6, <2>2, <2>7, Zenon DEF Within
    <3>2. c.begin <= m
      BY <1>1, <1>2, <2>7 DEF Opened
    <3>3. log.ord \in c.begin..n
      BY <1>0, <1>3, <2>3, <2>6, <2>7, <3>2
    <3> QED BY <2>3, <3>1, <3>3, DatedMore
  <2> HIDE DEF logs
  <2>8. /\ call \in Call /\ call.begin = d.begin /\ call.end = d.end
        /\ call.logs = logs /\ call.changes = d.changes
    BY <2>5 DEF Call
  <2> HIDE DEF call
  <2>9. ASSUME ~s.system
        PROVE  /\ Opened(currentTrace', s.stack, s.count, n)
               /\ currentTrace'.begin = c.begin
    <3>1. CallFields \subseteq DOMAIN call
      BY <2>8, FieldsKnown
    <3>2. Within(call, c.begin, n)
      BY <1>6, <2>2, <2>7, <2>8, <2>9, <3>1, Zenon DEF Within
    <3>3. call.end \in c.begin..n \/ i \in OpenCalls(c, s.stack, s.count)
      BY <1>6, <2>2, <2>8, <2>9 DEF OpenCalls
    <3>4. i \in 1..Len(c.calls) /\ Opened(c, s.stack, s.count, m)
      BY <1>1, <1>2, <1>6, <2>9
    <3>5. /\ currentTrace' = [c EXCEPT !.calls[i] = call]
          /\ currentTrace'.begin = c.begin
      BY <1>5, <2>4, <2>8, <3>4
    <3>6. PICK u : u = [c EXCEPT !.calls[i] = call]
      OBVIOUS
    <3>7. Opened(u, s.stack, s.count, n)
      BY <1>0, <2>8, <3>2, <3>3, <3>4, <3>6, OpenedCall
    <3> QED BY <3>5, <3>6, <3>7
  <2> QED BY <1>4, <2>1, <2>4, <2>9
<1>9. CASE l.type = "EVM_END_CALL"
  <2> DEFINE top == s.stack[Len(s.stack)]
             left == SubSeq(s.stack, 1, Len(s.stack) - 1)
  <2>1. /\ s.stack # << >> /\ l.index = top /\ l.ord \in Nat
        /\ t = Inside(s, s.to, s.system, s.count, left)
        /\ ReadEVMEndCall(l.index, l.ord)
    BY <1>9 DEF CallAfter, Dispatch
  <2>2. PICK i \in 1..s.count : i = top
    <3>1. Len(s.stack) \in 1..Len(s.stack)
      <4>1. Len(s.stack) \in Nat /\ Len(s.stack) # 0
        BY <1>0, <2>1, EmptySeq
      <4> QED BY <4>1
    <3> QED BY <1>0, <3>1
  <2>3. \A k \in Elements(s.stack) : k = i \/ k \in Elements(left)
    BY <1>0, <2>1, <2>2, StackElements
  <2> HIDE DEF top, left
  <2>4. PICK d \in Call : d = c.calls[i]
    BY <1>6
  <2>5. PICK parent \in Nat, depth \in Nat :
           parent = ParentAndDepth.parent /\ depth = ParentAndDepth.depth
    BY <1>0, <2>1, StackTop DEF TraceInv
  <2> DEFINE call == [d EXCEPT !.parent = parent, !.depth = depth, !.end = l.ord]
  <2>6. /\ WriteCall(i, call)
        /\ UNCHANGED <<proto, transactionTraces, highestOrdinalBeforeTransactions, returned>>
    BY <1>0, <1>2, <1>6, <2>1, <2>2, <2>4, <2>5 DEF ReadEVMEndCall, Accept, blockVars
  <2>7. /\ call \in Call /\ call.begin = d.begin /\ call.end = l.ord
        /\ call.logs = d.logs /\ call.changes = d.changes
    BY <2>1 DEF Call
  <2> HIDE DEF call
  <2>8. ASSUME ~s.system
        PROVE  /\ Opened(currentTrace', left, s.count, n)
               /\ currentTrace'.begin = c.begin
    <3>1. SameTimes(call.logs, d.logs) /\ CallFields \subseteq DOMAIN call
      BY <2>7, FieldsKnown DEF SameTimes
    <3>2. Within(call, c.begin, n)
      BY <1>6, <2>4, <2>7, <2>8, <3>1, StaysWithin
    <3>3. call.end \in c.begin..n
      <4>1. m < l.ord /\ l.ord = n
        BY <1>9, <2>8 DEF Ticks
      <4>2. c.begin <= m
        BY <1>1, <1>2, <2>8 DEF Opened
      <4> QED BY <1>0, <1>3, <2>7, <4>1, <4>2
    <3>4. i \in 1..Len(c.calls) /\ Opened(c, s.stack, s.count, m)
      BY <1>1, <1>2, <1>6, <2>8
    <3>5. /\ currentTrace' = [c EXCEPT !.calls[i] = call]
          /\ currentTrace'.begin = c.begin
      BY <1>5, <2>6, <2>7, <3>4
    <3>6. PICK u : u = [c EXCEPT !.calls[i] = call]
      OBVIOUS
    <3>7. OpenCalls(c, s.stack, s.count) \subseteq OpenCalls(c, left, s.count) \cup {i}
      BY <2>3 DEF OpenCalls
    <3>9. Opened(u, left, s.count, n)
      <4>1. /\ s.count \in Nat /\ m \in Nat /\ n \in Nat /\ m <= n
            /\ i \in 1..Len(c.calls) /\ call \in Call
        BY <1>0, <2>7, <3>4, Zenon
      <4> QED BY <3>2, <3>3, <3>4, <3>6, <3>7, <4>1, OpenedCall
    <3> QED BY <3>5, <3>6, <3>9
  <2> QED BY <1>4, <2>1, <2>6, <2>8
<1>10. CASE l.type = "EVM_RUN_CALL"
  <2> DEFINE pushed == Append(s.stack, s.count + 1)
  <2>1. PICK i \in Nat : i = s.count + 1
    BY <1>0
  <2>2. /\ l.index = i /\ l.call \in CallType /\ l.ord \in Nat
        /\ t = Inside(s, s.to, s.system, i, pushed)
        /\ ReadEVMRunCall(l.call, i, l.ord)
    BY <1>10, <2>1, ReaderAssumption DEF CallAfter, Dispatch
  <2>3. Elements(pushed) = Elements(s.stack) \cup {i}
    BY <1>0, <2>1, StackElements
  <2> HIDE DEF pushed
  <2>4. UNCHANGED <<proto, transactionTraces, highestOrdinalBeforeTransactions, returned>>
    BY <1>2, <1>3, <2>2 DEF ReadEVMRunCall, blockVars
  <2>5. \A k \in 1..Len(c.calls) : k \in Elements(s.stack) \/ k > s.count =>
            k \in Elements(pushed) \/ k > i
    BY <1>0, <2>1, <2>3
  <2>6. ASSUME ~s.system, s.count = 0
        PROVE  Opened(currentTrace', pushed, i, n) /\ currentTrace'.begin = c.begin
    <3>1. i = 1 /\ 1 \in 1..Len(c.calls) /\ Len(c.calls) = 1
      BY <1>3, <2>1, <2>6
    <3>2. PICK d \in Call : d = c.calls[1]
      BY <1>3, <3>1
    <3> DEFINE call == [d EXCEPT !.type = l.call]
    <3>3. /\ call \in Call /\ call.begin = d.begin /\ call.end = d.end
          /\ call.logs = d.logs /\ call.changes = d.changes
      BY <2>2 DEF Call
    <3>4. WriteCall(1, call)
      <4>1. d = [d EXCEPT !.begin = d.begin]
        BY DEF Call
      <4>2. [currentTrace.calls[1] EXCEPT !.type = l.call,
                !.begin = IF inSystemCall THEN l.ord ELSE @] = call
        BY <1>2, <1>3, <2>6, <3>2, <4>1 DEF Call
      <4> HIDE DEF call
      <4>3. currentTrace' = [currentTrace EXCEPT !.calls[1] =
                [currentTrace.calls[1] EXCEPT !.type = l.call,
                    !.begin = IF inSystemCall THEN l.ord ELSE @]]
        BY <1>2, <1>3, <2>2, <3>1 DEF ReadEVMRunCall, NextCall
      <4> QED BY <4>2, <4>3 DEF WriteCall
    <3> HIDE DEF call
    <3>5. Within(d, c.begin, m)
      BY <1>1, <1>2, <2>6, <3>1, <3>2 DEF Opened
    <3>6. Within(call, c.begin, n)
      <4>1. Within(d, c.begin, n)
        BY <1>0, <1>3, <3>5, WithinLonger
      <4>2. SameTimes(call.logs, d.logs) /\ CallFields \subseteq DOMAIN call
        BY <3>3, FieldsKnown DEF SameTimes
      <4> QED BY <3>3, <4>1, <4>2, StaysWithin
    <3>7. /\ currentTrace' = [c EXCEPT !.calls[1] = call]
          /\ currentTrace'.begin = c.begin
      BY <1>5, <3>1, <3>3, <3>4
    <3>8. Opened(c, s.stack, s.count, m)
      BY <1>1, <1>2, <2>6
    <3>9. OpenCalls(c, s.stack, s.count) \subseteq OpenCalls(c, pushed, i) \cup {1}
      BY <2>5 DEF OpenCalls
    <3>10. 1 \in OpenCalls(c, pushed, i)
      BY <2>3, <3>1 DEF OpenCalls
    <3>11. PICK u : u = [c EXCEPT !.calls[1] = call]
      OBVIOUS
    <3>12. Opened(u, pushed, i, n)
      <4>1. /\ s.count \in Nat /\ m \in Nat /\ n \in Nat /\ m <= n
            /\ 1 \in 1..Len(c.calls) /\ call \in Call
        BY <1>0, <3>1, <3>3, Zenon
      <4> QED BY <3>6, <3>8, <3>9, <3>10, <3>11, <4>1, OpenedCall
    <3> QED BY <3>7, <3>11, <3>12
  <2>7. ASSUME ~s.system, s.count # 0
        PROVE  Opened(currentTrace', pushed, i, n) /\ currentTrace'.begin = c.begin
    <3>1. i # 1 /\ i - 1 = Len(c.calls) /\ Len(c.calls) + 1 = i
      BY <1>0, <1>3, <2>1, <2>7
    <3> DEFINE call == NewCall(i, l.call, NoAddress, l.ord)
    <3>2. /\ call \in Call /\ call.begin = l.ord
          /\ call.logs = << >> /\ call.changes = << >>
      <4>1. NoAddress \in Address
        BY DEF Address
      <4>2. call \in Call
        BY <2>2, <4>1, NewCallType
      <4> QED BY <4>2 DEF NewCall
    <3>3. currentTrace' = [c EXCEPT !.calls = Append(c.calls, call)]
      BY <1>2, <1>3, <2>2, <3>1 DEF ReadEVMRunCall, NextCall
    <3> HIDE DEF call
    <3>4. Within(call, c.begin, n)
      <4>1. m < l.ord /\ l.ord = n
        BY <1>10, <2>7 DEF Ticks
      <4>2. c.begin <= m
        BY <1>1, <1>2, <2>7 DEF Opened
      <4>3. call.begin \in c.begin..n
        BY <1>0, <1>3, <3>2, <4>1, <4>2
      <4>4. CallFields \subseteq DOMAIN call
        BY <3>2, FieldsKnown
      <4>5. Dated(call.logs, c.begin, n) /\ Dated(call.changes, c.begin, n)
        BY <3>2, NothingDated
      <4> QED BY <4>3, <4>4, <4>5 DEF Within
    <3>5. Opened(c, s.stack, s.count, m)
      BY <1>1, <1>2, <2>7
    <3>6. PICK u : u = [c EXCEPT !.calls = Append(c.calls, call)]
      OBVIOUS
    <3>7. Len(c.calls) + 1 \in Elements(pushed)
      BY <2>3, <3>1
    <3>8. Opened(u, pushed, i, n)
      BY <1>0, <2>5, <3>2, <3>4, <3>5, <3>6, <3>7, OpenedMore
    <3>9. u.begin = c.begin
      BY <3>6 DEF Trx
    <3> QED BY <3>3, <3>6, <3>8, <3>9
  <2>8. ~s.system => Opened(currentTrace', pushed, i, n) /\ currentTrace'.begin = c.begin
    BY <2>6, <2>7
  <2> QED BY <1>4, <2>2, <2>4, <2>8
<1> QED BY <1>7, <1>8, <1>9, <1>10 DEF CallAfter

\* What a sequential block returns is in the order the property states.
LEMMA SequentialOrdered ==
    ASSUME NEW ts, Sequential(ts)
    PROVE  /\ \A i \in 1..Len(ts) :
                 \A o \in TrxOrdinals(ts[i]) \ {0} : ts[i].begin <= o /\ o <= ts[i].end
           /\ \A i \in 1..Len(ts) - 1 : ts[i].end < ts[i+1].begin
<1>1. ASSUME NEW i \in 1..Len(ts), NEW t, t = ts[i], NEW o \in TrxOrdinals(t) \ {0}
      PROVE  t.begin <= o /\ o <= t.end
  <2>1. Timed(t) /\ t.hash # MergedHash
    BY <1>1 DEF Sequential
  <2>2. /\ t.begin \in Nat /\ t.end \in Nat /\ t.begin <= t.end
        /\ Spanned(t.calls, t.begin, t.end)
    BY <2>1 DEF Timed
  <2>3. \/ o = t.begin \/ o = t.end
        \/ \E c \in ToSet(t.calls) : o \in CallOrdinals(c)
    BY DEF TrxOrdinals
  <2>4. ASSUME NEW c \in ToSet(t.calls), o \in CallOrdinals(c)
        PROVE  o \in t.begin..t.end
    <3>1. Within(c, t.begin, t.end) /\ c.end \in t.begin..t.end
      <4>1. ToSet(t.calls) = Elements(t.calls)
        BY <2>2, ListedFacts DEF Spanned
      <4> QED BY <2>2, <4>1 DEF Spanned, Elements
    <3>2. \/ o = c.begin \/ o = c.end
          \/ \E l \in ToSet(c.logs) : o = l.ord
          \/ \E x \in ToSet(c.changes) : o = x.ord
      BY <2>4 DEF CallOrdinals
    <3>3. \A l \in ToSet(c.logs) : l.ord \in t.begin..t.end
      BY <3>1, DatedElements DEF Within
    <3>4. \A x \in ToSet(c.changes) : x.ord \in t.begin..t.end
      BY <3>1, DatedElements DEF Within
    <3>5. o # 0
      OBVIOUS
    <3> QED BY <3>1, <3>2, <3>3, <3>4, <3>5, Zenon DEF Within
  <2> QED BY <2>2, <2>3, <2>4
<1> QED BY <1>1 DEF Sequential

LEMMA OrderedReturns ==
    ASSUME TransactionsOrdered, ReturnsInOrder, \E S : returned \in Seq(S)
    PROVE  TransactionsOrdered'
<1>1. CASE UNCHANGED returned
  BY <1>1 DEF TransactionsOrdered
<1>2. ASSUME NEW r, returned' = Append(returned, r), Sequential(r.block.trxs)
      PROVE  TransactionsOrdered'
  <2>1. /\ Len(returned) \in Nat /\ Len(returned') = Len(returned) + 1
        /\ \A k \in 1..Len(returned) : returned'[k] = returned[k]
        /\ returned'[Len(returned) + 1] = r
    BY <1>2, AppendAny
  <2>2. ASSUME NEW b \in 1..Len(returned'), NEW ts, ts = returned'[b].block.trxs
        PROVE  /\ \A i \in 1..Len(ts) :
                     \A o \in TrxOrdinals(ts[i]) \ {0} : ts[i].begin <= o /\ o <= ts[i].end
               /\ \A i \in 1..Len(ts) - 1 : ts[i].end < ts[i+1].begin
    <3>1. CASE b = Len(returned) + 1
      <4>1. Sequential(ts)
        BY <1>2, <2>1, <2>2, <3>1
      <4> QED BY <4>1, SequentialOrdered
    <3>2. CASE b # Len(returned) + 1
      <4>1. b \in 1..Len(returned) /\ ts = returned[b].block.trxs
        BY <2>1, <2>2, <3>2
      <4> QED BY <4>1, Zenon DEF TransactionsOrdered
    <3> QED BY <3>1, <3>2
  <2> QED BY <2>2, Zenon DEF TransactionsOrdered
<1> QED BY <1>1, <1>2 DEF ReturnsInOrder

\* The clock along a path, and the reader in time with its first tick.
Ticking(path, ticks) ==
    /\ ticks \in Seq(Nat) /\ Len(ticks) = Len(lines) + 1
    /\ \A i \in 1..Len(lines) : Ticks(Own, lines[i], path[i], ticks[i], ticks[i+1])
    /\ node # "exited" => ticks[Len(lines) + 1] = NodeNow
    /\ Running => Timely(Own, path[1], ticks[1])

Timekeeps ==
    /\ BlockInv /\ TransactionsOrdered
    /\ \E path, ticks : Path(path) /\ Ticking(path, ticks)

LEMMA TimelyStays ==
    ASSUME UNCHANGED vars, NEW own, NEW s, NEW now
    PROVE  Timely(own, s, now)' <=> Timely(own, s, now)
BY DEF vars, ctxVars, history, Timely

\* When the node exits its clock may do anything.
LEMMA TicksStay ==
    ASSUME Follows, NodeStep, UNCHANGED lines, node' = "exited",
           NEW path, NEW ticks, Ticking(path, ticks)
    PROVE  Ticking(path, ticks)'
<1>1. UNCHANGED vars /\ (Running' <=> Running)
  BY NodeMoves DEF vars, Running
<1>2. Own' = Own
  BY NodeTicks DEF Follows
<1>3. Timely(Own, path[1], ticks[1])' <=> Timely(Own, path[1], ticks[1])
  <2>1. PICK own : own = Own
    OBVIOUS
  <2>2. Timely(own, path[1], ticks[1])' <=> Timely(own, path[1], ticks[1])
    BY <1>1, TimelyStays
  <2> QED BY <1>2, <2>1, <2>2
<1> QED BY <1>1, <1>2, <1>3 DEF Ticking

\* When the node prints a line the clock goes on.
LEMMA TicksGrow ==
    ASSUME Follows, NodeStep, NEW path, Path(path), NEW ticks, Ticking(path, ticks),
           NEW line, Prints(line), Ticks(Own, line, NodeView, NodeNow, NodeNow'),
           NEW next, NEW now, now = NodeNow'
    PROVE  Ticking(Append(path, next), Append(ticks, now))'
<1> DEFINE m == Len(lines)
           places == Append(path, next)
           longer == Append(ticks, now)
<1>1. /\ m \in Nat /\ Len(lines') = m + 1
      /\ \A k \in 1..m : lines'[k] = lines[k]
      /\ lines'[m + 1] = line
  BY AppendAny DEF Follows, Prints
<1>2. PICK own : own = Own /\ own = Own'
  BY NodeTicks DEF Follows
<1>3. /\ Len(path) = m + 1 /\ path \in Seq(View)
      /\ ticks \in Seq(Nat) /\ Len(ticks) = m + 1
      /\ path[m + 1] = NodeView /\ ticks[m + 1] = NodeNow
      /\ \A i \in 1..m : Ticks(own, lines[i], path[i], ticks[i], ticks[i+1])
      /\ Running => Timely(own, path[1], ticks[1])
  BY <1>2, NodeMoves DEF Path, Ticking
<1>4. now \in Nat
  BY DEF Ticks
<1>5. /\ longer \in Seq(Nat) /\ Len(longer) = m + 2
      /\ \A k \in 1..(m + 1) : longer[k] = ticks[k]
      /\ longer[m + 2] = now
  BY <1>1, <1>3, <1>4, AppendProperties
<1>6. \A k \in 1..(m + 1) : places[k] = path[k]
  BY <1>3, AppendAny
<1> HIDE DEF longer, places
<1>7. ASSUME NEW i \in 1..(m + 1)
      PROVE  Ticks(own, lines'[i], places[i], longer[i], longer[i+1])
  <2>1. CASE i = m + 1
    <3>1. /\ longer[i] = NodeNow /\ longer[i+1] = now /\ lines'[i] = line
          /\ places[i] = NodeView
      BY <1>1, <1>3, <1>5, <1>6, <2>1
    <3> QED BY <1>2, <3>1
  <2>2. CASE i # m + 1
    <3>1. i \in 1..m /\ i \in 1..(m + 1) /\ i + 1 \in 1..(m + 1)
      BY <1>1, <2>2
    <3>2. /\ longer[i] = ticks[i] /\ longer[i+1] = ticks[i+1] /\ lines'[i] = lines[i]
          /\ places[i] = path[i]
      BY <1>1, <1>5, <1>6, <3>1
    <3> QED BY <1>3, <3>1, <3>2
  <2> QED BY <2>1, <2>2
<1>8. longer[1] = ticks[1] /\ places[1] = path[1]
  BY <1>1, <1>5, <1>6
<1>9. Len(longer) = Len(lines') + 1 /\ longer[Len(lines') + 1] = NodeNow'
  BY <1>1, <1>5
<1>10. \A i \in 1..Len(lines') : Ticks(own, lines'[i], places[i], longer[i], longer[i+1])
  BY <1>1, <1>7
<1>11. Running' => Timely(own, places[1], longer[1])'
  <2>1. UNCHANGED vars /\ (Running' <=> Running)
    BY NodeMoves DEF vars, Running
  <2>2. Timely(own, path[1], ticks[1])' <=> Timely(own, path[1], ticks[1])
    BY <2>1, TimelyStays
  <2> QED BY <1>3, <1>8, <2>1, <2>2
<1> QED BY <1>2, <1>5, <1>9, <1>10, <1>11 DEF Ticking, longer, places

\* The reader takes the first line, and is in time with the tick after it.
LEMMA TicksShrink ==
    ASSUME Follows, BlockInv, ReadLine, NEW path, Path(path),
           NEW ticks, Ticking(path, ticks)
    PROVE  ReturnsInOrder /\ Ticking(Tail(path), Tail(ticks))'
<1> DEFINE m == Len(lines)
           places == Tail(path)
           fewer == Tail(ticks)
<1>1. /\ UNCHANGED nodeVars /\ Running /\ AnyNext
      /\ m \in Nat /\ m >= 1 /\ Dispatch(lines[1]) /\ Len(lines') = m - 1
      /\ \A i \in 1..(m - 1) : lines'[i] = lines[i+1]
      /\ path[1] \in View /\ Agrees(path[1])
      /\ After(failures, lines[1], path[1], path[2])
  BY PathShrinks
<1>2. NodeNow' = NodeNow /\ Own' = Own /\ node' = node
  BY <1>1 DEF nodeVars, NodeNow, Own
<1>3. PICK own : own = Own /\ own = Own' /\ own \in BOOLEAN
  <2>1. Own \in BOOLEAN
    BY DEF Own, OwnClock
  <2> QED BY <1>2, <2>1, Zenon
<1>4. /\ path \in Seq(View) /\ Len(path) = m + 1
      /\ ticks \in Seq(Nat) /\ Len(ticks) = m + 1
      /\ \A i \in 1..m : Ticks(own, lines[i], path[i], ticks[i], ticks[i+1])
      /\ node # "exited" => ticks[m + 1] = NodeNow
      /\ Timely(own, path[1], ticks[1])
  BY <1>1, <1>3 DEF Path, Ticking
<1>5. path # << >> /\ ticks # << >>
  BY <1>1, <1>4, EmptySeq
<1>6. /\ fewer \in Seq(Nat) /\ Len(fewer) = m
      /\ \A i \in 1..m : fewer[i] = ticks[i+1]
      /\ \A i \in 1..m : places[i] = path[i+1]
  BY <1>1, <1>4, <1>5, HeadTailProperties
<1> HIDE DEF fewer, places
<1>7. PICK s, t, l, i, n : /\ s \in View /\ s = path[1] /\ t = path[2]
                           /\ l = lines[1] /\ i = ticks[1] /\ n = ticks[2]
  BY <1>1
<1>8. /\ Ticks(own, l, s, i, n) /\ Timely(own, s, i) /\ Agrees(s) /\ Dispatch(l)
      /\ After(failures, l, s, t)
  BY <1>1, <1>4, <1>7
<1>9. TraceInv /\ TraceInv'
  BY <1>1, TraceStep DEF Follows
<1>10. ReturnsInOrder /\ Timely(own, t, n)'
  <2>1. CASE BlockAfter(l, s, t)
    BY <1>3, <1>7, <1>8, <1>9, <2>1, BlockLinesTimely
  <2>2. CASE TraceBeginsAfter(l, s, t)
    BY <1>3, <1>7, <1>8, <1>9, <2>2, TraceBeginsTimely DEF ReturnsInOrder
  <2>3. CASE TraceEndsAfter(failures, l, s, t)
    <3>1. PICK F : F = failures
      OBVIOUS
    <3>2. TraceEndsAfter(F, l, s, t)
      BY <2>3, <3>1
    <3> QED BY <1>3, <1>7, <1>8, <1>9, <3>2, TraceEndsTimely DEF ReturnsInOrder
  <2>4. CASE CallAfter(l, s, t)
    BY <1>3, <1>7, <1>8, <1>9, <2>4, CallLinesTimely DEF ReturnsInOrder
  <2> QED BY <1>8, <2>1, <2>2, <2>3, <2>4 DEF After
<1>11. ASSUME NEW k \in 1..(m - 1)
       PROVE  Ticks(own, lines'[k], places[k], fewer[k], fewer[k+1])
  <2>1. k \in 1..m /\ k + 1 \in 1..m
    BY <1>1
  <2> QED BY <1>1, <1>4, <1>6, <2>1
<1>12. Ticking(places, fewer)'
  <2>1. /\ Len(fewer) = Len(lines') + 1 /\ fewer[1] = n /\ places[1] = t
        /\ fewer[Len(lines') + 1] = ticks[m + 1]
    <3>1. 1 \in 1..m /\ m \in 1..m /\ 1 + 1 = 2 /\ Len(lines') + 1 = m
      BY <1>1
    <3>2. fewer[1] = ticks[1+1] /\ places[1] = path[1+1] /\ fewer[m] = ticks[m + 1]
      BY <1>6, <3>1, Zenon
    <3> QED BY <1>6, <1>7, <3>1, <3>2
  <2> QED BY <1>1, <1>2, <1>3, <1>4, <1>6, <1>10, <1>11, <2>1 DEF Ticking
<1> QED BY <1>10, <1>12 DEF places, fewer

\* Every step, of the node or of the reader, keeps time.
LEMMA TimekeepsStep ==
    ASSUME Follows, Timekeeps, [NodeNext]_allVars
    PROVE  Timekeeps'
<1>1. BlockInv'
  <2>1. [AnyNext]_vars
    BY NodeLeads, ReaderFollows DEF NodeNext, allVars
  <2> QED BY <2>1, BlockStep DEF Timekeeps
<1>2. /\ BlockInv /\ TransactionsOrdered /\ \E S : returned \in Seq(S)
  BY DEF Timekeeps, BlockInv
<1>3. UNCHANGED returned => TransactionsOrdered'
  BY <1>2, OrderedReturns DEF ReturnsInOrder
<1>4. PICK path, ticks : Path(path) /\ Ticking(path, ticks)
  BY DEF Timekeeps
<1>5. CASE UNCHANGED allVars
  <2>1. UNCHANGED <<lines, nodeVars, vars>> /\ UNCHANGED returned
    BY <1>5 DEF allVars, vars, history
  <2>2. Path(path)' <=> Path(path)
    BY <2>1 DEF nodeVars, vars, ctxVars, history, Path, NodeView, Running, Agrees,
                BlockAgrees, TraceAgrees
  <2>3. Ticking(path, ticks)' <=> Ticking(path, ticks)
    BY <2>1 DEF nodeVars, vars, ctxVars, history, Ticking, NodeNow, Own, Running, Timely
  <2> QED BY <1>1, <1>3, <1>4, <2>1, <2>2, <2>3 DEF Timekeeps
<1>6. CASE NodeStep
  <2>1. NodeAdvances /\ UNCHANGED vars /\ NodeInv
    BY <1>6, NodeMoves
  <2>2. TransactionsOrdered'
    BY <1>3, <2>1 DEF vars, history
  <2>3. CASE UNCHANGED lines /\ node' = "exited"
    <3>1. Path(path)' /\ Ticking(path, ticks)'
      BY <1>4, <1>6, <2>3, PathStays, TicksStay
    <3> QED BY <1>1, <2>2, <3>1 DEF Timekeeps
  <2>4. CASE ~(UNCHANGED lines /\ node' = "exited")
    <3>1. PICK line : Prints(line) /\ After(failures', line, NodeView, NodeView')
      BY <2>1, <2>4 DEF NodeAdvances
    <3>2. PICK other : Prints(other) /\ Ticks(Own, other, NodeView, NodeNow, NodeNow')
      BY <1>6, <2>1, <2>4, NodeTicks DEF Ticked
    <3>3. other = line
      <4>1. lines' = Append(lines, line) /\ lines' = Append(lines, other)
        BY <3>1, <3>2 DEF Prints
      <4>2. \E S : lines \in Seq(S)
        BY DEF Follows
      <4>3. lines'[Len(lines) + 1] = line
        BY <4>1, <4>2, AppendAny, Zenon
      <4>4. lines'[Len(lines) + 1] = other
        BY <4>1, <4>2, AppendAny, Zenon
      <4> QED BY <4>3, <4>4
    <3>4. PICK next, now : next = NodeView' /\ now = NodeNow'
      OBVIOUS
    <3>5. Path(Append(path, next))'
      BY <1>4, <1>6, <3>1, <3>4, PathGrows
    <3>6. Ticking(Append(path, next), Append(ticks, now))'
      BY <1>4, <1>6, <3>2, <3>4, TicksGrow
    <3> QED BY <1>1, <2>2, <3>5, <3>6 DEF Timekeeps
  <2> QED BY <2>3, <2>4
<1>7. CASE ReadEnd
  <2>1. /\ status' = "eof" /\ lines' = lines /\ UNCHANGED nodeVars /\ UNCHANGED returned
    BY <1>7 DEF ReadEnd, LinesClosed, Stop
  <2>2. NodeView' = NodeView /\ NodeNow' = NodeNow /\ Own' = Own
    BY <2>1 DEF nodeVars, NodeView, NodeNow, Own
  <2>3. Path(path)'
    BY <1>4, <2>1, <2>2 DEF Path, Running, nodeVars
  <2>4. Ticking(path, ticks)'
    BY <1>4, <2>1, <2>2 DEF Ticking, Running, nodeVars
  <2> QED BY <1>1, <1>3, <2>1, <2>3, <2>4 DEF Timekeeps
<1>8. CASE ReadLine
  <2>1. ReturnsInOrder /\ Ticking(Tail(path), Tail(ticks))'
    BY <1>2, <1>4, <1>8, TicksShrink
  <2>2. Path(Tail(path))'
    BY <1>4, <1>8, PathShrinks
  <2>3. TransactionsOrdered'
    BY <1>2, <2>1, OrderedReturns
  <2> QED BY <1>1, <2>1, <2>2, <2>3 DEF Timekeeps
<1> QED BY <1>5, <1>6, <1>7, <1>8 DEF NodeNext, ReaderStep

\* In every block returned the ordinals follow the execution, whichever of its two
\* clocks the node's version numbers them with: those of a transaction are between
\* its first and its last one, and those of the next transaction are greater.
THEOREM TransactionsAreOrdered == NodeSpec => []TransactionsOrdered
<1>1. NodeInit => Timekeeps
  <2> SUFFICES ASSUME NodeInit
               PROVE  Timekeeps
    OBVIOUS
  <2>1. /\ returned = << >> /\ transactionTraces = << >> /\ BlockInv
        /\ lines = << >> /\ Len(lines) = 0 /\ node = "boot" /\ trx = Nil
        /\ executing.num = 0 /\ executing.seq = 0
    BY InitBlock, EmptySeqType DEF NodeInit, Init
  <2>2. TransactionsOrdered
    BY <2>1 DEF TransactionsOrdered
  <2>3. PICK now \in Nat : now = NodeNow
    BY DEF NodeInit, NodeNow
  <2>4. PICK own : own = Own /\ own \in BOOLEAN
    <3>1. Own \in BOOLEAN
      BY DEF Own, OwnClock
    <3> QED BY <3>1, Zenon
  <2>5. PICK v : v = NodeView
    OBVIOUS
  <2>6. v = Outside("boot", 0, 0)
    BY <2>1, <2>5 DEF NodeView
  <2>7. v \in View /\ v.phase = "boot" /\ ~v.open
    BY <2>6, EmptySeqType DEF View, Outside, Address
  <2>8. Agrees(v)
    BY <2>6 DEF NodeInit, Init, Agrees, BlockAgrees, InBlockAt, Outside
  <2>9. /\ <<v>> \in Seq(View) /\ Len(<<v>>) = 1 /\ <<v>>[1] = v
        /\ <<now>> \in Seq(Nat) /\ Len(<<now>>) = 1 /\ <<now>>[1] = now
    BY <2>3, <2>7
  <2>10. Path(<<v>>)
    BY <2>1, <2>5, <2>8, <2>9 DEF Path
  <2>11. Timely(own, v, now)
    <3>1. Collected(own, << >>, now)
      BY NothingCollected
    <3>2. /\ ~proto.combine /\ proto.reorder = FALSE
          /\ highestOrdinalBeforeTransactions >= -1
      BY DEF NodeInit, Init
    <3> QED BY <2>1, <2>7, <3>1, <3>2, Zenon DEF Timely
  <2>12. Ticking(<<v>>, <<now>>)
    BY <2>1, <2>3, <2>4, <2>9, <2>11 DEF Ticking
  <2> QED BY <2>1, <2>2, <2>10, <2>12 DEF Timekeeps
<1>2. Timekeeps => TransactionsOrdered
  BY DEF Timekeeps
<1> QED BY <1>1, <1>2, TimekeepsStep, FollowsAlways, PTL DEF NodeSpec

=============================================================================

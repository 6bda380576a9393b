---------------------------- MODULE Normalization ----------------------------
(***************************************************************************)
(* normalizeInPlace over the blocks a node can have executed.  A block is  *)
(* executed call by call (the part played by the node is not in this       *)
(* repository, see NodeReader), put together as the console reader would,  *)
(* and normalized once; the properties are about the result.               *)
(***************************************************************************)
EXTENDS Postprocess

CONSTANTS
    Nil,
    Bounds,        \* for each record of normalizationFeatures to try, the blocks
                   \* to try it on: a record of
                   \*   kinds     "normal", "stateSync" or "validator" transactions
                   \*   callTypes types of the calls below the root
                   \*   endings   "ok", "failed" or "reverted"
                   \*   trxs, calls, logs   bounds on those of the block, the
                   \*                       root calls included
                   \*   rewards   how many block-level changes may come first
    StartOrdinal   \* first ordinal of a transaction that has its own clock

ASSUME NormalizationAssumption ==
    /\ DOMAIN Bounds \subseteq [combine : BOOLEAN, reorder : BOOLEAN, upgrade : BOOLEAN]
    /\ \A f \in DOMAIN Bounds :
           /\ Bounds[f].kinds \subseteq {"normal", "stateSync", "validator"}
           /\ Bounds[f].callTypes \subseteq CallType
           /\ Bounds[f].endings \subseteq {"ok", "failed", "reverted"}
           /\ {Bounds[f].trxs, Bounds[f].calls, Bounds[f].logs} \subseteq Nat
           /\ Bounds[f].rewards \subseteq Nat
    /\ StartOrdinal \in Nat

VARIABLES
    features,  \* normalizationFeatures of the session
    trxs,      \* transactions executed
    open,      \* the transaction being executed, or Nil
    frames,    \* its open calls, innermost last
    clock,     \* the next ordinal
    changes,   \* block-level changes that preceded the transactions
    result     \* what normalizeInPlace made of the block, or Nil

vars == <<features, trxs, open, frames, clock, changes, result>>

\* The bounds on the block being executed.
bounds == Bounds[features]

Init ==
    /\ features \in DOMAIN Bounds
    /\ trxs = << >> /\ open = Nil /\ frames = << >>
    /\ \E n \in bounds.rewards :
           /\ changes = [i \in 1..n |-> [kind |-> "BALANCE", ord |-> i]]
           /\ clock = n + 1
    /\ result = Nil

Building == result = Nil

Executed == IF open = Nil THEN trxs ELSE Append(trxs, open)

BlockCalls == FlattenSeq([i \in 1..Len(Executed) |-> Executed[i].calls])

BlockLogs == FlattenSeq([i \in 1..Len(BlockCalls) |-> BlockCalls[i].logs])

Sender(kind) == IF kind = "normal" THEN "alice" ELSE PolygonSystemAddress

Recipient(kind) ==
    CASE kind = "normal" -> "bob"
      [] kind = "stateSync" -> PolygonStateReceiverAddress
      [] kind = "validator" -> PolygonValidatorContract

\* Neighbouring calls have different addresses.
CalleeAddress(i) == IF i % 2 = 1 THEN "bob" ELSE "carol"

BeginTrx(kind, index) ==
    LET start == IF features.reorder THEN StartOrdinal ELSE clock
        root == [NewCall(1, "CALL", Recipient(kind), 0) EXCEPT !.caller = Sender(kind)]
    IN
    /\ Building /\ open = Nil /\ Len(trxs) < bounds.trxs /\ Len(BlockCalls) < bounds.calls
    /\ open' = [NewTrx(Len(trxs) + 1, index, Recipient(kind), start, root, 1, FALSE)
                   EXCEPT !.from = Sender(kind)]
    /\ frames' = <<1>>
    /\ clock' = start + 2   \* BEGIN_APPLY_TRX and the root's EVM_RUN_CALL
    /\ UNCHANGED <<features, trxs, changes, result>>

RunCall(type) ==
    LET i == Len(open.calls) + 1
        parent == Last(frames)
        call == [NewCall(i, type, CalleeAddress(i), clock) EXCEPT
                    !.parent = parent, !.depth = Len(frames),
                    !.caller = open.calls[parent].address]
    IN
    /\ Building /\ open # Nil /\ frames # << >> /\ Len(BlockCalls) < bounds.calls
    /\ open' = [open EXCEPT !.calls = Append(@, call)]
    /\ frames' = Append(frames, i)
    /\ clock' = clock + 1
    /\ UNCHANGED <<features, trxs, changes, result>>

LogCount(t) == Len(FlattenSeq([i \in 1..Len(t.calls) |-> t.calls[i].logs]))

AddLog(data) ==
    LET log == [trx |-> open.hash, index |-> LogCount(open), data |-> data,
                ord |-> clock, blockIndex |-> LogCount(open)]
    IN
    /\ Building /\ open # Nil /\ frames # << >> /\ Len(BlockLogs) < bounds.logs
    /\ open' = [open EXCEPT !.calls[Last(frames)].logs = Append(@, log)]
    /\ clock' = clock + 1
    /\ UNCHANGED <<features, trxs, frames, changes, result>>

\* A call ends well, fails (EVM_CALL_FAILED), or fails by a revert (EVM_REVERTED
\* follows).
EndCall(ending) ==
    /\ Building /\ open # Nil /\ frames # << >>
    /\ open' = [open EXCEPT !.calls[Last(frames)] =
                   [@ EXCEPT !.end = clock, !.statusFailed = ending # "ok",
                             !.statusReverted = ending = "reverted"]]
    /\ frames' = Front(frames)
    /\ clock' = clock + 1
    /\ UNCHANGED <<features, trxs, changes, result>>

\* Whether the call, or one it was made from, failed.
Undone(calls) ==
    LET undone[i \in 0..Len(calls)] ==
            i # 0 /\ (calls[i].statusFailed \/ undone[calls[i].parent])
    IN  undone

\* The logs the chain keeps of a transaction, in the order they were emitted.
KeptLogs(t) ==
    LET undone == Undone(t.calls)
        kept == FlattenSeq([i \in 1..Len(t.calls) |->
                    Select(t.calls[i].logs,
                           {l \in ToSet(t.calls[i].logs) : ~undone[i] \/ l.data = PolygonFeeLog})])
    IN  SortBy(kept, MapSeq(kept, LAMBDA l : l.ord))

EndTrx ==
    LET kept == KeptLogs(open)
        receipt == [k \in 1..Len(kept) |-> [kept[k] EXCEPT
                       !.index = k - 1, !.ord = 0, !.blockIndex = 0]]
    IN
    /\ Building /\ open # Nil /\ frames = << >>
    /\ trxs' = Append(trxs, [open EXCEPT !.end = clock, !.receipt = receipt])
    /\ open' = Nil
    /\ clock' = clock + 1
    /\ UNCHANGED <<features, frames, changes, result>>

Normal(t) == t.from # PolygonSystemAddress

\* The block ends, with a reward after the transactions.
Normalize ==
    LET late == [kind |-> "BALANCE",
                 ord |-> IF features.reorder THEN Len(changes) + 1 ELSE clock]
        first == IF changes = << >> THEN 0 ELSE Len(changes) + 1
        block == [num |-> 1, ver |-> 2, seq |-> 1, trxs |-> trxs, sys |-> << >>,
                  changes |-> Append(changes, late)]
        normal == {i \in 1..Len(trxs) : Normal(trxs[i])}
    IN
    /\ Building /\ open = Nil /\ trxs # << >>
    /\ {trxs[i].index : i \in normal} = 0..(Cardinality(normal) - 1)
    /\ result' = NormalizeInPlace(block, features, first)
    /\ UNCHANGED <<features, trxs, open, frames, clock, changes>>

\* Parallel execution may print transactions in any order; system transactions
\* get their index when they are combined.
Indexes(kind) ==
    IF kind # "normal" THEN {0}
    ELSE LET taken == {trxs[i].index : i \in {j \in 1..Len(trxs) : Normal(trxs[j])}} IN
         IF features.reorder THEN (0..(bounds.trxs - 1)) \ taken ELSE {Cardinality(taken)}

Next ==
    \/ \E kind \in bounds.kinds : \E index \in Indexes(kind) : BeginTrx(kind, index)
    \/ \E type \in bounds.callTypes : RunCall(type)
    \/ \E data \in LogData : AddLog(data)
    \/ \E ending \in bounds.endings : EndCall(ending)
    \/ EndTrx
    \/ Normalize

Spec == Init /\ [][Next]_vars

-----------------------------------------------------------------------------
Normalized == result # Nil

Out == result.block.trxs

Merged == {t \in ToSet(Out) : t.hash = MergedHash}

\* The transaction of the node that became t (t is not the merged one).
Origin(t) == CHOOSE o \in ToSet(trxs) : o.hash = t.hash

\* normalizeInPlace panics on no block a node can execute: the logs of the
\* receipts always pair with the surviving logs of the calls, and every delegate
\* call has an ancestor that is not one.
NeverPanics == Normalized => result.ok

\* A call is marked as state-reverted exactly when it or a call around it failed,
\* which one pass over the flat list of calls has to find out.
StateRevertedIsInherited ==
    Normalized => \A t \in ToSet(Out) \ Merged : \A i \in 1..Len(t.calls) :
        t.calls[i].stateReverted = Undone(Origin(t).calls)[i]

\* For each call, the first one on the way up from it that is not a delegate call.
NotDelegate(calls) ==
    LET up[i \in 1..Len(calls)] ==
            IF calls[i].type # "DELEGATE" THEN i ELSE up[calls[i].parent]
    IN  up

\* After the upgrade to version 3 a delegate call is made by its nearest ancestor
\* that is not a delegate call, whatever the nesting; other callers are kept.
DelegateCallers ==
    (Normalized /\ result.block.ver = 3) =>
        \A t \in ToSet(Out) \ Merged : \A i \in 1..Len(t.calls) :
            t.calls[i].caller =
                IF t.calls[i].type = "DELEGATE"
                THEN t.calls[NotDelegate(t.calls)[i]].address
                ELSE Origin(t).calls[i].caller

\* The receipts of a block number its logs 0, 1, 2, ... in transaction order, and
\* each receipt log stands for one log of its own transaction that survived: the
\* same ordinal, the same data, and (but for the validator transactions, which
\* are not retouched) the same block index on both sides.
ReceiptsMatchCalls ==
    (Normalized /\ result.ok) =>
        LET receipts == FlattenSeq([i \in 1..Len(Out) |-> Out[i].receipt]) IN
        /\ \A k \in 1..Len(receipts) : receipts[k].blockIndex = k - 1
        /\ \A t \in ToSet(Out) : t.hash = MergedHash \/ Normal(t) =>
               \A l \in ToSet(t.receipt) :
                   Cardinality({c \in ToSet(t.calls) :
                       l \in ToSet(c.logs)
                       /\ (~c.stateReverted \/ l.data = PolygonFeeLog)}) = 1

\* The calls of the merged system transaction form one tree under an artificial
\* root: positions are indexes, parents come before their children one level up,
\* and every original call keeps its parent.
MergedTree ==
    Normalized => \A t \in Merged : \A i \in 1..Len(t.calls) :
        LET c == t.calls[i] IN
        /\ c.index = i
        /\ IF i = 1 THEN c.parent = 0 /\ c.depth = 0
           ELSE c.parent \in 1..(i - 1) /\ c.depth = t.calls[c.parent].depth + 1

\* Combining loses no transaction and keeps indexes contiguous: the normal ones
\* keep theirs, the merged one and the validator ones follow.
IndexesContiguous ==
    Normalized =>
        /\ \A i \in 1..Len(Out) : Out[i].index = i - 1
        /\ \A t \in ToSet(Out) : Normal(t) /\ t.hash # MergedHash =>
               t.index = Origin(t).index
        /\ Cardinality({t \in ToSet(Out) : t.hash # MergedHash}) =
               Cardinality({t \in ToSet(trxs) : ~(features.combine /\ Mergeable(t))})

\* What combinePolygonSystemTransactions makes of a block.
WellCombined == MergedTree /\ IndexesContiguous

CallOrdinals(c) == {c.begin, c.end} \cup {l.ord : l \in ToSet(c.logs)}

TrxOrdinals(t) == {t.begin, t.end} \cup UNION {CallOrdinals(c) : c \in ToSet(t.calls)}

\* Sorting by ordinal gives back the order of execution: early rewards, then the
\* transactions by index, each between its first and last ordinal, then the late
\* reward.
OrdinalsFollowExecution ==
    (Normalized /\ features.reorder) =>
        LET change(i) == result.block.changes[i].ord
            late == Len(changes) + 1
        IN
        /\ \A t \in ToSet(Out) \ Merged :
              \A o \in TrxOrdinals(t) \ {0} : t.begin <= o /\ o <= t.end
        /\ \A i \in 1..Len(Out) - 1 : Out[i].end < Out[i+1].begin
        /\ \A i \in 1..late - 1 : change(i) = i /\ change(i) < Out[1].begin
        /\ Out[Len(Out)].end < change(late)

\* "If you take all of the message in the Block that have an 'ordinal' field ...
\* you will get the exact order of execution": the logs of the merged transaction
\* come between its first and its last ordinal.
MergedLogsInside ==
    Normalized => \A t \in Merged : \A c \in ToSet(t.calls) : \A l \in ToSet(c.logs) :
        ~c.stateReverted => t.begin <= l.ord /\ l.ord <= t.end
=============================================================================

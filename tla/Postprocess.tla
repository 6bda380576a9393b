---------------------------- MODULE Postprocess ----------------------------
(***************************************************************************)
(* codec/postprocess.go: normalizeInPlace and the passes it runs, in its   *)
(* order, over a block assembled by the console reader.  A pass is an      *)
(* operator from the block's transactions to the rewritten ones; the two   *)
(* passes that can panic say so in an "ok" field.                          *)
(*                                                                         *)
(* A definition named ...Mutant is a plausible bug in the one that follows *)
(* it; nothing uses it but the mutation runs that PROJECT.json lists.      *)
(***************************************************************************)
EXTENDS EthBlock, SequenceOps

SameLogMutant(l, m) == l.index = m.index

\* Both are the same *pbeth.Log.
SameLog(l, m) == l.trx = m.trx /\ l.index = m.index

(***************************************************************************)
(* populateStateReverted: one pass over the flat calls.  A call reads the  *)
(* StateReverted of calls[ParentIndex-1], which this pass has already      *)
(* written when the parent comes before the child, and which still has its *)
(* old value otherwise.  A parent beyond the slice is an index panic.      *)
(***************************************************************************)
ParentsInRange(calls) ==
    \A i \in 1..Len(calls) : calls[i].parent <= Len(calls)

PopulateStateRevertedMutant(calls) ==
    [i \in 1..Len(calls) |->
        [calls[i] EXCEPT !.stateReverted = calls[i].statusFailed]]

\* Whether the pass reverts the state of each call.
RevertedCalls(calls) ==
    LET reverts(c, i, reverted) ==
            \/ c.statusFailed
            \/ /\ c.parent > 0
               /\ IF c.parent < i THEN c.parent \in reverted
                  ELSE calls[c.parent].stateReverted
        upTo[i \in 0..Len(calls)] ==
            IF i = 0 THEN {}
            ELSE upTo[i-1] \cup {k \in {i} : reverts(calls[i], i, upTo[i-1])}
    IN  [i \in 1..Len(calls) |-> i \in upTo[Len(calls)]]

PopulateStateReverted(calls) ==
    LET reverted == RevertedCalls(calls) IN
    [i \in 1..Len(calls) |-> [calls[i] EXCEPT !.stateReverted = reverted[i]]]

IsPolygonException(log) == log.data = PolygonFeeLog

\* The logs of a transaction that made it to its receipt: those of calls whose
\* state was kept, and the fee logs, which survive any revert.
SurvivingLogsMutant(calls) ==
    FlattenSeq([i \in 1..Len(calls) |->
        Select(calls[i].logs, {l \in ToSet(calls[i].logs) : ~calls[i].stateReverted})])

SurvivingLogs(calls) ==
    FlattenSeq([i \in 1..Len(calls) |->
        Select(calls[i].logs,
               {l \in ToSet(calls[i].logs) : ~calls[i].stateReverted \/ IsPolygonException(l)})])

(***************************************************************************)
(* CombinePolygonSystemTransactions: the state-sync transactions become    *)
(* one transaction under an artificial root call, the validator-contract   *)
(* ones stay apart; both follow the normal transactions and are renumbered *)
(* from the highest normal index.                                          *)
(***************************************************************************)
Mergeable(t) ==
    t.from = PolygonSystemAddress /\ t.to = PolygonStateReceiverAddress

Unmergeable(t) ==
    t.from = PolygonSystemAddress /\ t.to = PolygonValidatorContract

CallIdxOffsetMutant(merge) == [k \in 1..Len(merge) |-> 1]

\* callIdxOffset when the k-th transaction is merged, 1 for the first because
\* of the artificial root call.
CallIdxOffset(merge) ==
    LET off[k \in 1..Len(merge)] ==
            IF k = 1 THEN 1
            ELSE Max({off[k-1]} \cup {c.index + off[k-1] : c \in ToSet(merge[k-1].calls)})
    IN  off

ShiftCall(c, off) ==
    [c EXCEPT !.index = @ + off,
              !.depth = @ + 1,
              !.parent = IF @ = 0 THEN 1 ELSE @ + off]

MergedSystemTrx(merge, index) ==
    LET off == CallIdxOffset(merge)
        calls == FlattenSeq([k \in 1..Len(merge) |->
                     MapSeq(merge[k].calls, LAMBDA c : ShiftCall(c, off[k]))])
        logs == FlattenSeq([k \in 1..Len(merge) |->
                     LET surviving == SurvivingLogs(merge[k].calls) IN
                     SortBy(surviving, MapSeq(surviving, LAMBDA l : l.blockIndex))])
        top == [NewCall(1, "CALL", NullAddress, Min({c.begin : c \in ToSet(calls)}))
                   EXCEPT !.caller = NullAddress,
                          !.end = Max({c.end : c \in ToSet(calls)})]
    IN  [hash |-> MergedHash, index |-> index, from |-> NullAddress,
         to |-> NullAddress, begin |-> Min({t.begin : t \in ToSet(merge)}),
         end |-> Max({t.end : t \in ToSet(merge)}), status |-> "SUCCEEDED",
         calls |-> <<top>> \o calls, receipt |-> logs,
         born |-> Max({t.born : t \in ToSet(merge)}),
         done |-> Max({t.done : t \in ToSet(merge)}), system |-> FALSE]

NextIndex(normal) == 1 + Max({-1} \cup {t.index : t \in ToSet(normal)})

CombinePolygonSystemTransactions(trxs) ==
    LET normal == Select(trxs, {t \in ToSet(trxs) : ~Mergeable(t) /\ ~Unmergeable(t)})
        merge == Select(trxs, {t \in ToSet(trxs) : Mergeable(t)})
        unmerge == Select(trxs, {t \in ToSet(trxs) : Unmergeable(t)})
        next == NextIndex(normal)
        merged == IF merge = << >> THEN << >> ELSE <<MergedSystemTrx(merge, next)>>
        moved == [i \in 1..Len(unmerge) |->
                    [unmerge[i] EXCEPT !.index = next + Len(merged) + i - 1]]
    IN  [trxs |-> normal \o merged \o moved,
         systemHashes |-> {t.hash : t \in ToSet(merged \o moved)}]

(***************************************************************************)
(* reorderTransactionsAndRenumberOrdinals: transactions by Index, each     *)
(* shifted by the end ordinal of its predecessor (the first by             *)
(* firstTransactionOrdinal), then the block-level changes that came after  *)
(* the transactions.  System calls are not touched.  The receipt of the    *)
(* merged Polygon transaction holds the very logs of its calls, which are  *)
(* thus shifted twice.                                                     *)
(***************************************************************************)
ShiftOrdinals(t, base) ==
    LET shared(l) == t.hash = MergedHash /\ \E r \in ToSet(t.receipt) : SameLog(l, r)
        shiftLog(l) == [l EXCEPT !.ord = @ + (IF shared(l) THEN 2 * base ELSE base)]
        shiftCall(c) ==
            [c EXCEPT !.begin = IF @ = 0 THEN 0 ELSE @ + base,
                      !.end = @ + base,
                      !.logs = MapSeq(@, shiftLog),
                      !.changes = MapSeq(@, LAMBDA ch : [ch EXCEPT !.ord = @ + base])]
    IN  [t EXCEPT !.begin = @ + base, !.end = @ + base,
                  !.calls = MapSeq(@, shiftCall),
                  !.receipt = MapSeq(@, shiftLog)]

BaselinesMutant(trxs, first) == [i \in 0..Len(trxs) |-> first]

\* What is added to the ordinals of the transaction after the i-th.
Baselines(trxs, first) ==
    LET baseline[i \in 0..Len(trxs)] ==
            IF i = 0 THEN first ELSE trxs[i].end + baseline[i-1]
    IN  baseline

ReorderTransactionsAndRenumberOrdinals(block, first) ==
    LET trxs == SortBy(block.trxs, MapSeq(block.trxs, LAMBDA t : t.index))
        baseline == Baselines(trxs, first)
        shiftChange(ch) ==
            IF ch.ord >= first
            THEN [ch EXCEPT !.ord = @ + baseline[Len(trxs)]] ELSE ch
    IN  [block EXCEPT
            !.trxs = [i \in 1..Len(trxs) |-> ShiftOrdinals(trxs[i], baseline[i-1])],
            !.changes = MapSeq(@, shiftChange)]

(***************************************************************************)
(* populateTrxStatus: the root call decides.                               *)
(***************************************************************************)
PopulateTrxStatus(t) ==
    LET root == t.calls[1] IN
    IF t.status # "UNKNOWN" \/ t.calls = << >> THEN t
    ELSE [t EXCEPT !.status =
            IF ~root.statusFailed THEN "SUCCEEDED"
            ELSE IF root.statusReverted THEN "REVERTED" ELSE "FAILED"]

(***************************************************************************)
(* populateLogBlockIndices, for blocks of version 2 and up (the reader     *)
(* makes no other).  Receipt logs are numbered in transaction order; the   *)
(* surviving call logs in ordinal order, those of the system transactions  *)
(* last and in receipt order.  The two numberings must pair equal logs, or *)
(* the reader panics; the receipt then takes ordinal and index from its    *)
(* call log.                                                               *)
(***************************************************************************)
NumberedLogs(trxs, systemHashes) ==
    LET normal == Select(trxs, {t \in ToSet(trxs) : t.hash \notin systemHashes})
        system == Select(trxs, {t \in ToSet(trxs) : t.hash \in systemHashes})
        surviving == FlattenSeq(MapSeq(normal, LAMBDA t : SurvivingLogs(t.calls)))
    IN  SortBy(surviving, MapSeq(surviving, LAMBDA l : l.ord))
        \o FlattenSeq(MapSeq(system, LAMBDA t : t.receipt))

\* t, the first log of whose receipt comes after "before" others.
Retouch(t, before, numbered, systemHashes) ==
    LET receiptLog(l, k) == [l EXCEPT !.ord = numbered[k].ord,
                                      !.index = numbered[k].index,
                                      !.blockIndex = k - 1]
        callLog(l) ==
            LET at == {k \in 1..Len(numbered) : SameLog(l, numbered[k])} IN
            IF t.hash \in systemHashes /\ t.hash # MergedHash THEN l
            ELSE IF at # {} THEN [l EXCEPT !.blockIndex = Min(at) - 1]
            ELSE IF t.hash = MergedHash THEN l ELSE [l EXCEPT !.blockIndex = 0]
    IN  [t EXCEPT !.receipt = [k \in 1..Len(@) |-> receiptLog(@[k], before + k)],
                  !.calls = MapSeq(@, LAMBDA c : [c EXCEPT !.logs = MapSeq(@, callLog)])]

PopulateLogBlockIndices(trxs, systemHashes) ==
    LET receipts == FlattenSeq([i \in 1..Len(trxs) |-> trxs[i].receipt])
        numbered == NumberedLogs(trxs, systemHashes)
        ok == /\ Len(receipts) = Len(numbered)
              /\ \A k \in 1..Len(receipts) : receipts[k].data = numbered[k].data
        before[i \in 1..Len(trxs)] ==
            IF i = 1 THEN 0 ELSE before[i-1] + Len(trxs[i-1].receipt)
    IN  [ok |-> ok,
         trxs |-> IF ok THEN [i \in 1..Len(trxs) |->
                                 Retouch(trxs[i], before[i], numbered, systemHashes)]
                  ELSE trxs]

(***************************************************************************)
(* upgradeBlockV2ToV3: the caller of a delegate call becomes the address   *)
(* of its nearest ancestor that is not a delegate call.  heads[k] is the   *)
(* headParents map after the k-th call, 0 where it has no entry; the walk  *)
(* up jumps through it.  A walk that leaves the tree, at 0, is a panic.    *)
(***************************************************************************)
CallerOf(calls, k) == calls[k].parent

\* Where the walk up from each call ends.
WalkUp(calls, heads) ==
    LET to[i \in 0..Len(calls)] ==
            IF i = 0 \/ calls[i].type # "DELEGATE" THEN i
            ELSE LET p == CallerOf(calls, i) IN to[IF heads[p] # 0 THEN heads[p] ELSE p]
    IN  to

HeadParents(calls) ==
    LET heads[k \in 0..Len(calls)] ==
            IF k = 0 THEN [i \in 0..Len(calls) |-> 0]
            ELSE IF calls[k].type # "DELEGATE" THEN heads[k-1]
            ELSE [heads[k-1] EXCEPT ![k] = WalkUp(calls, heads[k-1])[CallerOf(calls, k)]]
    IN  heads[Len(calls)]

UpgradeCallsMutant(calls) ==
    [i \in 1..Len(calls) |->
        IF calls[i].type = "DELEGATE"
        THEN [calls[i] EXCEPT !.caller = calls[calls[i].parent].address] ELSE calls[i]]

UpgradeCalls(calls) ==
    LET heads == HeadParents(calls) IN
    [i \in 1..Len(calls) |->
        IF heads[i] # 0
        THEN [calls[i] EXCEPT !.caller = calls[heads[i]].address] ELSE calls[i]]

CanUpgradeV2ToV3(trxs) ==
    \A i \in 1..Len(trxs) :
        LET calls == trxs[i].calls IN
        \A k \in 1..Len(calls) : calls[k].type = "DELEGATE" => HeadParents(calls)[k] # 0

UpgradeBlockV2ToV3(block) ==
    IF block.ver # 2 THEN block
    ELSE [block EXCEPT !.ver = 3,
             !.trxs = MapSeq(@, LAMBDA t : [t EXCEPT !.calls = UpgradeCalls(@)])]

(***************************************************************************)
(* normalizeInPlace.                                                       *)
(***************************************************************************)
Revert(t) == [t EXCEPT !.calls = PopulateStateReverted(@)]

\* The passes that follow the combination of system transactions: ordering, the
\* pairing of logs (which may panic), and the upgrade (which may, too).
Finish(ordered, indexed, features) ==
    LET done == [ordered EXCEPT !.trxs = indexed.trxs]
        upgrade == features.upgrade /\ done.ver = 2
    IN  IF indexed.ok /\ (upgrade => CanUpgradeV2ToV3(done.trxs))
        THEN [ok |-> TRUE,
              block |-> IF upgrade THEN UpgradeBlockV2ToV3(done) ELSE done]
        ELSE [ok |-> FALSE, block |-> done]

Arrange(block, combined, features, first) ==
    LET whole == [block EXCEPT !.trxs = combined.trxs]
        ordered == IF features.reorder
                   THEN ReorderTransactionsAndRenumberOrdinals(whole, first) ELSE whole
    IN  Finish(ordered, PopulateLogBlockIndices(MapSeq(ordered.trxs, PopulateTrxStatus),
                                                combined.systemHashes), features)

NormalizeInPlace(block, features, first) ==
    LET reverted == MapSeq(block.trxs, Revert) IN
    Arrange(block,
            IF features.combine THEN CombinePolygonSystemTransactions(reverted)
            ELSE [trxs |-> reverted, systemHashes |-> {}],
            features, first)
=============================================================================

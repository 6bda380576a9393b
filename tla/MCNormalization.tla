--------------------------- MODULE MCNormalization ---------------------------
(***************************************************************************)
(* Small instances of Normalization.                                       *)
(***************************************************************************)
EXTENDS RPCComparison

\* A 2.0 session; a 2.1 or 2.2 one of Polygon; a 2.3 to 2.5 one; of Polygon.
Upgrade == [combine |-> FALSE, reorder |-> FALSE, upgrade |-> TRUE]
Combine == [combine |-> TRUE, reorder |-> FALSE, upgrade |-> FALSE]
Reorder == [combine |-> FALSE, reorder |-> TRUE, upgrade |-> FALSE]
Polygon == [combine |-> TRUE, reorder |-> TRUE, upgrade |-> FALSE]

\* Deep trees of delegate calls for the upgrade; reverts and early rewards for
\* the renumbering; several system transactions on Polygon.
Block ==
    [kinds |-> {"normal"}, callTypes |-> {"CALL"}, endings |-> {"ok", "failed"},
     trxs |-> 2, calls |-> 4, logs |-> 1, rewards |-> {0}]
Delegates == [Block EXCEPT !.callTypes = {"CALL", "DELEGATE"}]
Reverts ==
    [Block EXCEPT !.endings = {"ok", "failed", "reverted"}, !.rewards = {2}, !.calls = 3, !.logs = 2]
SystemTrxs == [Block EXCEPT !.kinds = {"normal", "stateSync", "validator"}, !.trxs = 3]
TwoLogs == [SystemTrxs EXCEPT !.logs = 2]
OneSystemTrx == [Block EXCEPT !.kinds = {"normal", "stateSync"}, !.calls = 2]

EveryChain ==
    Upgrade :> Delegates @@ Reorder :> Reverts @@ Combine :> SystemTrxs @@ Polygon :> TwoLogs
OnlyPolygon == Polygon :> OneSystemTrx
=============================================================================

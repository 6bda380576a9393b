------------------------------ MODULE EthBlock ------------------------------
(***************************************************************************)
(* The messages of types/pb/sf/ethereum/type/v2 that the codec builds and  *)
(* rewrites: blocks, transaction traces, calls and logs, reduced to the    *)
(* fields that decide control flow or that a property relates.  Balances,  *)
(* gas, code and payload bytes are left out; a log's address, topics and   *)
(* data are one value of LogData, and every other change recorded on a     *)
(* call (gas, nonce, balance, storage, code, account creation) is its kind *)
(* and its ordinal.                                                        *)
(***************************************************************************)
EXTENDS Integers, Sequences

CONSTANTS
    Users,          \* ordinary account addresses
    LogData,        \* what a log may say (address, topics and data)
    PolygonFeeLog   \* the log data the reader never treats as reverted

ASSUME LogDataAssumption == PolygonFeeLog \in LogData

NoAddress == "none"
NullAddress == "null"
PolygonSystemAddress == "system"
PolygonStateReceiverAddress == "stateReceiver"
PolygonValidatorContract == "validator"
Address == Users \cup {NoAddress, NullAddress, PolygonSystemAddress,
                       PolygonStateReceiverAddress, PolygonValidatorContract}

CallType == {"CALL", "DELEGATE", "CREATE"}
Mark == {"executedCode", "suicide", "keccak"}
ChangeKind == {"GAS", "NONCE", "BALANCE", "STORAGE", "CODE", "CREATED"}
TrxStatus == {"UNKNOWN", "SUCCEEDED", "FAILED", "REVERTED"}

Change == [kind: ChangeKind, ord: Nat]

\* "trx" is the hash of the transaction that emitted the log.  The protobuf
\* message has no such field: it stands for the identity of the *pbeth.Log,
\* which the merged Polygon transaction shares between calls and receipt.
Log == [trx: Nat, index: Nat, data: LogData, ord: Nat, blockIndex: Nat]

Call == [index: Nat, parent: Nat, depth: Nat, type: CallType,
         begin: Nat, end: Nat, statusFailed: BOOLEAN, statusReverted: BOOLEAN,
         stateReverted: BOOLEAN, address: Address, caller: Address,
         marks: SUBSET Mark, logs: Seq(Log), changes: Seq(Change)]

\* A fresh &pbeth.Call{...}: every field at its zero value but the named ones.
NewCall(index, type, address, begin) ==
    [index |-> index, parent |-> 0, depth |-> 0, type |-> type,
     begin |-> begin, end |-> 0, statusFailed |-> FALSE,
     statusReverted |-> FALSE, stateReverted |-> FALSE, address |-> address,
     caller |-> NoAddress, marks |-> {}, logs |-> << >>, changes |-> << >>]

\* Transaction hashes are numbers: the reader's transactions take 1, 2, ...
\* and the merged Polygon transaction takes MergedHash.
MergedHash == 0

\* "born" and "done" are history: the block (counted by BEGIN_BLOCK lines)
\* during which the transaction was begun and ended; "system" marks the fake
\* trace that carries a system call.
Trx == [hash: Nat, index: Nat, from: Address, to: Address, begin: Nat,
        end: Nat, status: TrxStatus, calls: Seq(Call), receipt: Seq(Log),
        born: Nat, done: Nat, system: BOOLEAN]

NewTrx(hash, index, to, begin, root, born, system) ==
    [hash |-> hash, index |-> index, from |-> NoAddress, to |-> to,
     begin |-> begin, end |-> 0, status |-> "UNKNOWN", calls |-> <<root>>,
     receipt |-> << >>, born |-> born, done |-> 0, system |-> system]
=============================================================================

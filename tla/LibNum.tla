------------------------------- MODULE LibNum -------------------------------
(***************************************************************************)
(* The last irreversible block number the codec attaches to a block: by    *)
(* distance when the node reports no finalized block, by the reported      *)
(* block otherwise.                                                        *)
(***************************************************************************)
EXTENDS Naturals

CONSTANTS
    FirstStreamable,  \* bstream.GetProtocolFirstStreamableBlock
    Irreversible      \* the distance after which a block is final: 200

ASSUME LibAssumption == FirstStreamable \in Nat /\ Irreversible \in Nat

ComputeProofOfWorkLIBNum(blockNum) ==
    IF blockNum <= FirstStreamable + Irreversible
    THEN FirstStreamable ELSE blockNum - Irreversible

ComputeProofOfStakeLIBNumMutant(blockNum, finalized) ==
    IF blockNum <= FirstStreamable THEN FirstStreamable ELSE finalized

ComputeProofOfStakeLIBNum(blockNum, finalized) ==
    IF blockNum <= FirstStreamable THEN FirstStreamable
    ELSE IF finalized >= blockNum THEN blockNum ELSE finalized
=============================================================================

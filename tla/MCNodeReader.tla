---------------------------- MODULE MCNodeReader ----------------------------
(***************************************************************************)
(* Small instances of NodeReader.                                          *)
(***************************************************************************)
EXTENDS NodeReader

FirstBlockOnly == [b \in 1..MaxBlocks |-> IF b = 1 THEN 1 ELSE 0]
=============================================================================

--------------------------- MODULE MCBlockFetcher ---------------------------
(***************************************************************************)
(* Small instances of BlockFetcher.                                        *)
(***************************************************************************)
EXTENDS BlockFetcher

OneLog == [status |-> "0x1", logs |-> <<"transfer">>]
Ancient == [status |-> "none", logs |-> <<"transfer", "fee">>]

\* Empty blocks, and blocks of two transactions in either order.
SmallBlocks == {<< >>, <<OneLog, Ancient>>}
=============================================================================

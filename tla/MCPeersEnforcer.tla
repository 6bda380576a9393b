-------------------------- MODULE MCPeersEnforcer --------------------------
(***************************************************************************)
(* A small instance of the reader's pod.                                   *)
(***************************************************************************)
EXTENDS PeersEnforcer

\* --datadir in one argument; in two; after a flag with the same beginning.
EveryFlag == {<<"--datadir=D">>, <<"--http", "--datadir", "D">>,
              <<"--datadir.ancient=A", "--datadir=D">>}
=============================================================================

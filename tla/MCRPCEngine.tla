----------------------------- MODULE MCRPCEngine -----------------------------
(***************************************************************************)
(* Small instances of RPCEngine.                                           *)
(***************************************************************************)
EXTENDS RPCEngine

\* One answer of each kind, and the orders in which two kinds may meet.
SmallBatches ==
    {<<"ok">>, <<"transient">>, <<"reverted", "ok">>, <<"timeout", "transient">>,
     <<"transient", "timeout">>}

Retries == {-1, 0, 1}
=============================================================================

----------------------------- MODULE BlockStream -----------------------------
(***************************************************************************)
(* What an instrumented node and its console reader promise together: the  *)
(* blocks the node completes come out of ReadBlock one at a time, in order *)
(* and unchanged, never before they were completed, and every one of them  *)
(* in the end.                                                             *)
(***************************************************************************)
EXTENDS Naturals, SequencesExt

CONSTANT Horizon  \* how many blocks the liveness property looks at

VARIABLES
    produced,   \* blocks the node completed
    delivered   \* blocks ReadBlock returned

vars == <<produced, delivered>>

Init == produced = << >> /\ delivered = << >>

\* The node completes a block, whichever it is.
Produce ==
    /\ Len(produced') = Len(produced) + 1
    /\ IsPrefix(produced, produced')
    /\ UNCHANGED delivered

Deliver ==
    /\ Len(delivered) < Len(produced)
    /\ delivered' = Append(delivered, produced[Len(delivered) + 1])
    /\ UNCHANGED produced

Next == Produce \/ Deliver

Spec == Init /\ [][Next]_vars

\* Every block completed is delivered in the end, and so are those before it.
AllDelivered ==
    \A k \in 1..Horizon : (Len(produced) >= k) ~> (Len(delivered) >= k)
=============================================================================

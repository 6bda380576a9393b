----------------------------- MODULE SequenceOps -----------------------------
(***************************************************************************)
(* The operators on sequences that the passes over a block are made of.    *)
(***************************************************************************)
EXTENDS Integers, SequencesExt

MapSeq(s, Op(_)) == [i \in 1..Len(s) |-> Op(s[i])]

\* The elements of s that are in S, in their order.  Select and SortBy are what
\* SelectSeq and SortSeq are, in a form that can be reasoned about.
Select(s, S) ==
    LET taken[i \in 0..Len(s)] ==
            IF i = 0 THEN << >>
            ELSE IF s[i] \in S THEN Append(taken[i-1], s[i]) ELSE taken[i-1]
    IN  taken[Len(s)]

\* sort.Slice by keys: key[i] is that of s[i].
SortBy(s, key) ==
    LET least(S) == CHOOSE i \in S : \A j \in S :
                        key[i] < key[j] \/ (key[i] = key[j] /\ i <= j)
        rest[k \in 0..Len(s)] ==
            IF k = 0 THEN 1..Len(s) ELSE rest[k-1] \ {least(rest[k-1])}
    IN  [k \in 1..Len(s) |-> s[least(rest[k-1])]]
=============================================================================

------------------------- MODULE NormalizationProofs -------------------------
(***************************************************************************)
(* What normalizeInPlace makes of every block a node can execute, whatever *)
(* the bounds on its transactions, calls and logs: which calls it marks as *)
(* reverted, and who makes a delegate call.                                *)
(*                                                                         *)
(* The two passes that compute these walk the flat list of calls once and  *)
(* read what they wrote before; RevertedCalls and HeadParents are shown to *)
(* be what a walk up the tree of calls finds.  The other passes are shown  *)
(* to carry every call along, whatever order or index they give to its     *)
(* transaction, and to leave the transactions of a block numbered, and the *)
(* calls of the merged one a tree.  Last come the logs, which the calls    *)
(* and the receipts have each on their own: numbering them finds one in    *)
(* the calls for every one of the receipts, and the right one; so that the *)
(* block compares with the one the endpoint of the node shows.             *)
(***************************************************************************)
EXTENDS RPCComparison, PostprocessProofs

-----------------------------------------------------------------------------
(***************************************************************************)
(* The tree of calls, as RevertedCalls and HeadParents read it.            *)
(***************************************************************************)
\* Undone is well defined.
LEMMA UndoneFacts ==
    ASSUME NEW calls, NodeCalls(calls)
    PROVE  /\ ~Undone(calls)[0]
           /\ \A i \in 1..Len(calls) : Undone(calls)[i] =
                  (calls[i].statusFailed \/ Undone(calls)[calls[i].parent])
<1> DEFINE n == Len(calls)
           link == [i \in 1..n |-> calls[i].parent]
           step == [p \in BOOLEAN \X (1..n) |-> calls[p[2]].statusFailed \/ p[1]]
           Spreads(f) == f = [i \in 0..n |->
                                 i # 0 /\ (calls[i].statusFailed \/ f[calls[i].parent])]
<1>1. /\ n \in Nat /\ \A i \in 1..n : link[i] = calls[i].parent /\ link[i] \in 0..(i - 1)
      /\ 0 \in 0..n /\ \A i \in 0..n : i # 0 <=> i \in 1..n
  BY ListedFacts DEF NodeCalls
<1>2. step \in [BOOLEAN \X (1..n) -> BOOLEAN]
  OBVIOUS
<1>3. ASSUME NEW b \in BOOLEAN, NEW i \in 1..n
      PROVE  step[<<b, i>>] = (calls[i].statusFailed \/ b)
  <2>1. <<b, i>> \in BOOLEAN \X (1..n)
    OBVIOUS
  <2>2. PICK p : p = <<b, i>>
    OBVIOUS
  <2>3. p[1] = b /\ p[2] = i
    BY <2>2
  <2>4. step[p] = (calls[p[2]].statusFailed \/ p[1])
    BY <2>1, <2>2, Zenon
  <2> QED BY <2>2, <2>3, <2>4, Zenon
<1> HIDE DEF step, link
<1>4. PICK F \in [0..n -> BOOLEAN] : Climbs(F, n, FALSE, step, link)
  BY <1>1, <1>2, RecursionOnTree
<1>5. ASSUME NEW i \in 1..n
      PROVE  calls[i].parent \in 0..n /\ F[i] = (calls[i].statusFailed \/ F[calls[i].parent])
  <2>1. calls[i].parent \in 0..n
    <3>1. calls[i].parent \in 0..(i - 1)
      BY <1>1
    <3> QED BY <1>1, <3>1
  <2>2. F[i] = step[<<F[calls[i].parent], i>>] /\ F[calls[i].parent] \in BOOLEAN
    BY <1>1, <1>4, <2>1, Zenon DEF Climbs
  <2> QED BY <1>3, <2>1, <2>2, Zenon
<1>6. ASSUME NEW i \in 0..n
      PROVE  F[i] = (i # 0 /\ (calls[i].statusFailed \/ F[calls[i].parent]))
  <2>1. CASE i = 0
    BY <1>4, <2>1, Zenon DEF Climbs
  <2>2. CASE i # 0
    BY <1>1, <1>5, <2>2, Zenon
  <2> QED BY <2>1, <2>2, Zenon
<1>7. Spreads(F)
  BY <1>6, Zenon
<1>8. Spreads(Undone(calls))
  BY <1>7, Zenon DEF Undone
<1>9. \A i \in 0..n : Undone(calls)[i] =
          (i # 0 /\ (calls[i].statusFailed \/ Undone(calls)[calls[i].parent]))
  BY <1>8, Zenon
<1>10. ~Undone(calls)[0]
  <2>1. Undone(calls)[0] =
            (0 # 0 /\ (calls[0].statusFailed \/ Undone(calls)[calls[0].parent]))
    BY <1>1, <1>9, Zenon
  <2> QED BY <2>1, Zenon
<1>11. ASSUME NEW i \in 1..n
       PROVE  Undone(calls)[i] = (calls[i].statusFailed \/ Undone(calls)[calls[i].parent])
  <2>1. i \in 0..n /\ i # 0
    BY <1>1
  <2>2. Undone(calls)[i] =
            (i # 0 /\ (calls[i].statusFailed \/ Undone(calls)[calls[i].parent]))
    BY <1>9, <2>1, Zenon
  <2> QED BY <2>1, <2>2, Zenon
<1> QED BY <1>10, <1>11, Zenon

\* One pass over the calls finds what the walk up the tree finds.
LEMMA RevertedIsUndone ==
    ASSUME NEW calls, NodeCalls(calls)
    PROVE  \A i \in 1..Len(calls) : RevertedCalls(calls)[i] = Undone(calls)[i]
<1> DEFINE n == Len(calls)
           failed == {i \in 1..n : calls[i].statusFailed}
           undone == {i \in 1..n : Undone(calls)[i]}
           reverts(c, i, reverted) ==
               \/ c.statusFailed
               \/ /\ c.parent > 0
                  /\ IF c.parent < i THEN c.parent \in reverted
                     ELSE calls[c.parent].stateReverted
           step == [p \in (SUBSET (1..n)) \X (1..n) |->
                       p[1] \cup {k \in {p[2]} : reverts(calls[p[2]], p[2], p[1])}]
           Marks(f) == f = [i \in 0..n |->
                               IF i = 0 THEN {}
                               ELSE f[i-1] \cup {k \in {i} : reverts(calls[i], i, f[i-1])}]
           upTo == CHOOSE f : Marks(f)
<1>1. n \in Nat /\ \A i \in 1..n : calls[i].parent \in 0..(i - 1)
  BY ListedFacts DEF NodeCalls
<1>2. \A i \in 1..n : i \in undone <=> i \in failed \/ calls[i].parent \in undone
  <2>1. \A i \in 1..n : calls[i].parent # 0 => calls[i].parent \in 1..n
    BY <1>1
  <2> QED BY <2>1, UndoneFacts, ZenonT(30)
<1>3. \A Q : \A i \in 1..n : reverts(calls[i], i, Q) <=>
          i \in failed \/ (calls[i].parent # 0 /\ calls[i].parent \in Q)
  <2>1. \A i \in 1..n : calls[i].parent < i /\ (calls[i].parent > 0 <=> calls[i].parent # 0)
    BY <1>1
  <2> QED BY <2>1, Zenon
<1> HIDE DEF reverts, failed
<1>4. step \in [(SUBSET (1..n)) \X (1..n) -> SUBSET (1..n)]
  OBVIOUS
<1>5. \A Q \in SUBSET (1..n), i \in 1..n :
          step[<<Q, i>>] = Q \cup {k \in {i} : reverts(calls[i], i, Q)}
  OBVIOUS
<1> HIDE DEF step
<1>6. PICK F \in [0..n -> SUBSET (1..n)] : Unfolds(F, n, {}, step)
  BY <1>1, <1>4, RecursionFromZero
<1>7. ASSUME NEW i \in 0..n
      PROVE  F[i] = IF i = 0 THEN {}
                    ELSE F[i-1] \cup {k \in {i} : reverts(calls[i], i, F[i-1])}
  <2>1. i # 0 => i \in 1..n /\ i - 1 \in 0..n
    BY <1>1
  <2>2. F[0] = {} /\ \A k \in 1..n : F[k] = step[<<F[k-1], k>>]
    BY <1>6, Zenon DEF Unfolds
  <2>3. i # 0 => F[i-1] \in SUBSET (1..n)
    BY <1>6, <2>1
  <2> QED BY <1>5, <2>1, <2>2, <2>3, Zenon
<1>8. Marks(F)
  BY <1>7
<1>9. Marks(upTo)
  BY <1>8, Zenon
<1> HIDE DEF upTo
<1>10. \A i \in 0..n : upTo[i] = IF i = 0 THEN {}
                  ELSE upTo[i-1] \cup {k \in {i} : reverts(calls[i], i, upTo[i-1])}
  BY <1>9
<1> HIDE DEF undone
<1> DEFINE P == {m \in Nat : m <= n => upTo[m] = undone \cap (1..m)}
<1>11. 0 \in P
  <2>1. 0 \in 0..n /\ 1..0 = {}
    BY <1>1
  <2>2. upTo[0] = {}
    BY <1>10, <2>1
  <2> QED BY <2>1, <2>2
<1>12. ASSUME NEW m \in Nat, m \in P PROVE m + 1 \in P
  <2> SUFFICES ASSUME m + 1 <= n PROVE upTo[m + 1] = undone \cap (1..(m + 1))
    OBVIOUS
  <2> DEFINE i == m + 1
  <2>1. upTo[m] = undone \cap (1..m) /\ i \in 1..n /\ i \in 0..n /\ i # 0 /\ i - 1 = m
        /\ 1..i = (1..m) \cup {i} /\ calls[i].parent \in 0..m
    <3>1. i \in 1..n
      OBVIOUS
    <3>2. calls[i].parent \in 0..(i - 1)
      BY <1>1, <3>1
    <3> QED BY <1>12, <3>1, <3>2
  <2> HIDE DEF i
  <2>2. upTo[i] = upTo[m] \cup {k \in {i} : reverts(calls[i], i, upTo[m])}
    BY <1>10, <2>1
  <2>3. calls[i].parent # 0 /\ calls[i].parent \in upTo[m] <=> calls[i].parent \in undone
    <3>1. calls[i].parent # 0 <=> calls[i].parent \in 1..m
      BY <2>1
    <3>2. calls[i].parent \in undone => calls[i].parent \in 1..n
      BY DEF undone
    <3>3. 0 \notin 1..n
      OBVIOUS
    <3> QED BY <2>1, <3>1, <3>2, <3>3
  <2>4. reverts(calls[i], i, upTo[m]) <=> i \in undone
    BY <1>2, <1>3, <2>1, <2>3
  <2>5. upTo[i] = undone \cap (1..i)
    BY <2>1, <2>2, <2>4
  <2> QED BY <2>5 DEF i
<1>13. n \in P
  <2> HIDE DEF P
  <2> QED BY <1>1, <1>11, <1>12, NaturalsOf
<1>14. \A i \in 1..n : i \in upTo[n] <=> i \in undone
  BY <1>1, <1>13
<1>15. \A i \in 1..n : RevertedCalls(calls)[i] = (i \in upTo[n])
  BY Zenon DEF RevertedCalls, upTo, reverts
<1>16. ASSUME NEW i \in 1..n PROVE RevertedCalls(calls)[i] = Undone(calls)[i]
  <2>1. Undone(calls)[i] \in BOOLEAN
    BY UndoneFacts, Zenon
  <2>2. i \in undone <=> Undone(calls)[i]
    BY Zenon DEF undone
  <2>3. RevertedCalls(calls)[i] = (i \in upTo[n]) /\ (i \in upTo[n] <=> i \in undone)
    BY <1>14, <1>15, Zenon
  <2>4. CASE i \in undone
    <3>1. RevertedCalls(calls)[i] = TRUE
      BY <2>3, <2>4, Zenon
    <3>2. Undone(calls)[i] = TRUE
      BY <2>1, <2>2, <2>4, Zenon
    <3> QED BY <3>1, <3>2, Zenon
  <2>5. CASE i \notin undone
    <3>1. RevertedCalls(calls)[i] = FALSE
      <4>1. (i \in upTo[n]) = FALSE
        BY <2>3, <2>5
      <4> QED BY <2>3, <4>1, Zenon
    <3>2. Undone(calls)[i] = FALSE
      BY <2>1, <2>2, <2>5, Zenon
    <3> QED BY <3>1, <3>2, Zenon
  <2> QED BY <2>4, <2>5, Zenon
<1> QED BY <1>16, Zenon

\* NotDelegate is well defined, and finds a call that is not a delegate call.
LEMMA NotDelegateFacts ==
    ASSUME NEW calls, NodeCalls(calls)
    PROVE  \A i \in 1..Len(calls) :
               /\ NotDelegate(calls)[i] \in 1..i
               /\ calls[NotDelegate(calls)[i]].type # "DELEGATE"
               /\ NotDelegate(calls)[i] =
                      IF calls[i].type # "DELEGATE" THEN i
                      ELSE NotDelegate(calls)[calls[i].parent]
<1> DEFINE n == Len(calls)
           link == [i \in 1..n |-> calls[i].parent]
           step == [p \in (0..n) \X (1..n) |->
                       IF calls[p[2]].type # "DELEGATE" THEN p[2] ELSE p[1]]
           Ups(f) == f = [i \in 1..n |->
                             IF calls[i].type # "DELEGATE" THEN i ELSE f[calls[i].parent]]
           up == NotDelegate(calls)
<1>1. n \in Nat /\ \A i \in 1..n : link[i] = calls[i].parent /\ link[i] \in 0..(i - 1)
  BY ListedFacts DEF NodeCalls
<1>2. \A i \in 1..n : /\ calls[i].parent \in 0..(i - 1)
                      /\ calls[i].type = "DELEGATE" => calls[i].parent \in 1..(i - 1)
  BY <1>1 DEF NodeCalls
<1>3. step \in [(0..n) \X (1..n) -> 0..n]
  OBVIOUS
<1>4. \A j \in 0..n, i \in 1..n :
          step[<<j, i>>] = IF calls[i].type # "DELEGATE" THEN i ELSE j
  OBVIOUS
<1> HIDE DEF step, link
<1>5. PICK F \in [0..n -> 0..n] : Climbs(F, n, 0, step, link)
  <2>1. 0 \in 0..n
    BY <1>1
  <2> QED BY <1>1, <1>3, <2>1, RecursionOnTree
<1> DEFINE G == [i \in 1..n |-> F[i]]
<1>6. ASSUME NEW i \in 1..n
      PROVE  G[i] = IF calls[i].type # "DELEGATE" THEN i ELSE G[calls[i].parent]
  <2>1. calls[i].parent \in 0..n /\ (calls[i].type = "DELEGATE" => calls[i].parent \in 1..n)
    BY <1>1, <1>2
  <2>2. F[i] = step[<<F[calls[i].parent], i>>] /\ F[calls[i].parent] \in 0..n
    BY <1>1, <1>5, <2>1 DEF Climbs
  <2>3. F[i] = IF calls[i].type # "DELEGATE" THEN i ELSE F[calls[i].parent]
    BY <1>4, <2>2
  <2> QED BY <2>1, <2>3
<1> HIDE DEF G
<1>7. Ups([i \in 1..n |-> G[i]])
  <2>1. \A i \in 1..n : calls[i].type = "DELEGATE" => calls[i].parent \in 1..n
    BY <1>1, <1>2
  <2> QED BY <1>6, <2>1
<1>8. Ups(up)
  BY <1>7, Zenon DEF NotDelegate
<1>9. \A i \in 1..n : up[i] = IF calls[i].type # "DELEGATE" THEN i ELSE up[calls[i].parent]
  BY <1>8
<1> HIDE DEF up
<1> DEFINE Found(i) == up[i] \in 1..i /\ calls[up[i]].type # "DELEGATE"
           P == {m \in Nat : \A i \in 1..n : i <= m => Found(i)}
<1>10. 0 \in P
  OBVIOUS
<1>11. ASSUME NEW m \in Nat, m \in P PROVE m + 1 \in P
  <2> SUFFICES ASSUME NEW i \in 1..n, i <= m + 1 PROVE Found(i)
    OBVIOUS
  <2>1. CASE calls[i].type # "DELEGATE"
    <3>1. up[i] = i
      BY <1>9, <2>1
    <3> QED BY <2>1, <3>1
  <2>2. CASE calls[i].type = "DELEGATE"
    <3> DEFINE p == calls[i].parent
    <3>1. p \in 1..(i - 1) /\ p \in 1..n /\ p <= m
      <4>1. p \in 1..(i - 1)
        BY <1>2, <2>2
      <4> QED BY <4>1
    <3>2. up[i] = up[p]
      BY <1>9, <2>2
    <3>3. Found(p)
      BY <1>11, <3>1
    <3> QED BY <3>1, <3>2, <3>3
  <2> QED BY <2>1, <2>2
<1>12. \A m \in Nat : m \in P
  <2> HIDE DEF P
  <2> QED BY <1>10, <1>11, NaturalsOf
<1>13. \A i \in 1..n : Found(i)
  <2>1. n \in P
    <3> HIDE DEF P
    <3> QED BY <1>1, <1>12
  <2>2. \A i \in 1..n : i <= n => Found(i)
    BY <2>1
  <2> HIDE DEF Found
  <2> QED BY <1>1, <2>2
<1> QED BY <1>9, <1>13 DEF up

\* What headParents may hold: for some delegate calls, the call NotDelegate names.
Heads(calls) ==
    {h \in [0..Len(calls) -> 0..Len(calls)] :
        /\ h[0] = 0
        /\ \A i \in 1..Len(calls) :
               h[i] # 0 => calls[i].type = "DELEGATE" /\ h[i] = NotDelegate(calls)[i]}

\* With such a map, wherever the walk up jumps to, it ends there too.
LEMMA WalkUpFacts ==
    ASSUME NEW calls, NodeCalls(calls), NEW heads \in Heads(calls)
    PROVE  \A i \in 1..Len(calls) : WalkUp(calls, heads)[i] = NotDelegate(calls)[i]
<1> DEFINE n == Len(calls)
           up == NotDelegate(calls)
           next(i) == IF heads[calls[i].parent] # 0 THEN heads[calls[i].parent]
                      ELSE calls[i].parent
           Ends(f) == f = [i \in 0..n |->
                              IF i = 0 \/ calls[i].type # "DELEGATE" THEN i
                              ELSE LET p == calls[i].parent IN
                                   f[IF heads[p] # 0 THEN heads[p] ELSE p]]
           to == WalkUp(calls, heads)
           end == [i \in 0..n |-> IF i = 0 THEN 0 ELSE up[i]]
<1>1. n \in Nat
  BY ListedFacts DEF NodeCalls
<1>2. \A i \in 1..n : calls[i].type = "DELEGATE" => calls[i].parent \in 1..(i - 1)
  BY <1>1 DEF NodeCalls
<1>3. \A i \in 1..n : /\ up[i] \in 1..i /\ calls[up[i]].type # "DELEGATE"
                      /\ up[i] = IF calls[i].type # "DELEGATE" THEN i ELSE up[calls[i].parent]
  BY NotDelegateFacts
<1>4. \A i \in 1..n : heads[i] # 0 => heads[i] = up[i]
  BY DEF Heads
<1> HIDE DEF up
<1>5. ASSUME NEW i \in 1..n, calls[i].type = "DELEGATE"
      PROVE  next(i) \in 1..(i - 1) /\ next(i) \in 1..n /\ up[next(i)] = up[i]
  <2> DEFINE p == calls[i].parent
  <2>1. p \in 1..(i - 1) /\ p \in 1..n /\ up[i] = up[p]
    <3>1. p \in 1..(i - 1)
      BY <1>2, <1>5
    <3> QED BY <1>1, <1>3, <1>5, <3>1
  <2>2. CASE heads[p] # 0
    <3>1. next(i) = up[p] /\ up[p] \in 1..p /\ calls[up[p]].type # "DELEGATE"
      BY <1>3, <1>4, <2>1, <2>2
    <3>2. up[p] \in 1..n
      BY <2>1, <3>1
    <3>3. up[up[p]] = up[p]
      BY <1>3, <3>1, <3>2
    <3> QED BY <2>1, <3>1, <3>2, <3>3
  <2>3. CASE heads[p] = 0
    BY <2>1, <2>3
  <2> QED BY <2>2, <2>3
<1>6. ASSUME NEW i \in 0..n
      PROVE  end[i] = IF i = 0 \/ calls[i].type # "DELEGATE" THEN i ELSE end[next(i)]
  <2>1. CASE i = 0
    BY <2>1
  <2>2. CASE i # 0
    <3>1. i \in 1..n /\ end[i] = up[i]
      BY <1>1, <2>2
    <3>2. CASE calls[i].type # "DELEGATE"
      BY <1>3, <3>1, <3>2
    <3>3. CASE calls[i].type = "DELEGATE"
      <4>1. next(i) \in 1..n /\ up[next(i)] = up[i]
        BY <1>5, <3>1, <3>3
      <4>2. end[next(i)] = up[next(i)]
        <5>1. \A j \in 1..n : end[j] = up[j]
          BY <1>1
        <5> HIDE DEF next, end
        <5> QED BY <4>1, <5>1
      <4> HIDE DEF next, end
      <4> QED BY <2>2, <3>1, <3>3, <4>1, <4>2
    <3> QED BY <3>2, <3>3
  <2> QED BY <2>1, <2>2
<1>7. Ends(end)
  <2>1. end = [i \in 0..n |-> end[i]]
    OBVIOUS
  <2> HIDE DEF end
  <2> QED BY <1>6, <2>1
<1>8. Ends(to)
  BY <1>7, Zenon DEF WalkUp, CallerOf
<1>9. \A i \in 0..n : to[i] = IF i = 0 \/ calls[i].type # "DELEGATE" THEN i ELSE to[next(i)]
  BY <1>8
<1> HIDE DEF to, end, next
<1> DEFINE P == {m \in Nat : \A i \in 1..n : i <= m => to[i] = up[i]}
<1>10. 0 \in P
  OBVIOUS
<1>11. ASSUME NEW m \in Nat, m \in P PROVE m + 1 \in P
  <2> SUFFICES ASSUME NEW i \in 1..n, i <= m + 1 PROVE to[i] = up[i]
    OBVIOUS
  <2>1. i \in 0..n /\ i # 0
    OBVIOUS
  <2>2. CASE calls[i].type # "DELEGATE"
    BY <1>3, <1>9, <2>1, <2>2
  <2>3. CASE calls[i].type = "DELEGATE"
    <3>1. next(i) \in 1..(i - 1) /\ next(i) \in 1..n /\ up[next(i)] = up[i]
      BY <1>5, <2>3
    <3>2. to[i] = to[next(i)]
      BY <1>9, <2>1, <2>3
    <3>3. to[next(i)] = up[next(i)]
      BY <1>11, <3>1
    <3> QED BY <3>1, <3>2, <3>3
  <2> QED BY <2>2, <2>3
<1>12. \A m \in Nat : m \in P
  <2> HIDE DEF P
  <2> QED BY <1>10, <1>11, NaturalsOf
<1>13. \A i \in 1..n : to[i] = up[i]
  BY <1>1, <1>12
<1> QED BY <1>13 DEF to, up

\* One pass over the calls finds the caller of every delegate call.
LEMMA HeadsAreFound ==
    ASSUME NEW calls, NodeCalls(calls)
    PROVE  \A i \in 1..Len(calls) : HeadParents(calls)[i] =
               IF calls[i].type = "DELEGATE" THEN NotDelegate(calls)[i] ELSE 0
<1> DEFINE n == Len(calls)
           up == NotDelegate(calls)
           H == Heads(calls)
           none == [i \in 0..n |-> 0]
           walk(h, k) == WalkUp(calls, h)[calls[k].parent]
           step == [p \in H \X (1..n) |->
                       IF calls[p[2]].type # "DELEGATE" THEN p[1]
                       ELSE [p[1] EXCEPT ![p[2]] = walk(p[1], p[2])]]
           Learns(f) == f = [k \in 0..n |->
                                IF k = 0 THEN none
                                ELSE IF calls[k].type # "DELEGATE" THEN f[k-1]
                                ELSE [f[k-1] EXCEPT ![k] = walk(f[k-1], k)]]
           heads == CHOOSE f : Learns(f)
<1>1. n \in Nat /\ 0 \in 0..n
  BY ListedFacts DEF NodeCalls
<1>2. \A i \in 1..n : /\ up[i] \in 1..n
                      /\ calls[i].type = "DELEGATE" =>
                            calls[i].parent \in 1..n /\ up[i] = up[calls[i].parent]
  <2>1. \A i \in 1..n : calls[i].type = "DELEGATE" => calls[i].parent \in 1..n
    BY <1>1 DEF NodeCalls
  <2>2. \A i \in 1..n : up[i] \in 1..i
    BY NotDelegateFacts
  <2>3. \A i \in 1..n : up[i] \in 1..n
    BY <1>1, <2>2
  <2> QED BY <2>1, <2>3, NotDelegateFacts
<1>3. \A h \in H, k \in 1..n : calls[k].type = "DELEGATE" => walk(h, k) = up[k]
  BY <1>2, WalkUpFacts
<1> HIDE DEF up, walk
<1>4. none \in H
  BY <1>1 DEF Heads
<1>5. ASSUME NEW h \in H, NEW k \in 1..n, calls[k].type = "DELEGATE"
      PROVE  /\ [h EXCEPT ![k] = walk(h, k)] \in H
             /\ [h EXCEPT ![k] = walk(h, k)] = [h EXCEPT ![k] = up[k]]
  <2>1. walk(h, k) = up[k] /\ up[k] \in 0..n /\ k \in 0..n /\ k # 0
    <3>1. walk(h, k) = up[k] /\ up[k] \in 1..n
      BY <1>2, <1>3, <1>5
    <3> QED BY <1>1, <3>1
  <2>2. [h EXCEPT ![k] = up[k]] \in H
    <3>1. /\ h \in [0..n -> 0..n] /\ h[0] = 0
          /\ \A i \in 1..n : h[i] # 0 => calls[i].type = "DELEGATE" /\ h[i] = up[i]
      BY DEF Heads, up
    <3>2. [h EXCEPT ![k] = up[k]] \in [0..n -> 0..n]
      BY <2>1, <3>1
    <3>3. [h EXCEPT ![k] = up[k]][0] = 0
      BY <1>1, <2>1, <3>1
    <3>4. \A i \in 1..n : [h EXCEPT ![k] = up[k]][i] = IF i = k THEN up[k] ELSE h[i]
      BY <1>1, <3>1
    <3> QED BY <1>5, <3>1, <3>2, <3>3, <3>4 DEF Heads, up
  <2> QED BY <2>1, <2>2
<1>6. step \in [H \X (1..n) -> H]
  <2>1. ASSUME NEW p \in H \X (1..n)
        PROVE  (IF calls[p[2]].type # "DELEGATE" THEN p[1]
                ELSE [p[1] EXCEPT ![p[2]] = walk(p[1], p[2])]) \in H
    <3>1. p[1] \in H /\ p[2] \in 1..n
      OBVIOUS
    <3> QED BY <1>5, <3>1
  <2> HIDE DEF H
  <2> QED BY <2>1
<1> HIDE DEF H, none
<1>7. \A h \in H, k \in 1..n :
          step[<<h, k>>] = IF calls[k].type # "DELEGATE" THEN h
                           ELSE [h EXCEPT ![k] = walk(h, k)]
  OBVIOUS
<1> HIDE DEF step
<1>8. PICK F \in [0..n -> H] : Unfolds(F, n, none, step)
  BY <1>1, <1>4, <1>6, RecursionFromZero
<1>9. ASSUME NEW k \in 0..n
      PROVE  F[k] = IF k = 0 THEN none
                    ELSE IF calls[k].type # "DELEGATE" THEN F[k-1]
                    ELSE [F[k-1] EXCEPT ![k] = walk(F[k-1], k)]
  <2>1. k # 0 => k \in 1..n /\ k - 1 \in 0..n
    BY <1>1
  <2> QED BY <1>7, <1>8, <2>1 DEF Unfolds
<1>10. Learns(F)
  BY <1>9
<1>11. Learns(heads)
  BY <1>10, Zenon
<1>12. HeadParents(calls) = heads[n]
  BY Zenon DEF HeadParents, CallerOf, walk, none
<1> HIDE DEF heads
<1>13. \A k \in 0..n : heads[k] = IF k = 0 THEN none
                       ELSE IF calls[k].type # "DELEGATE" THEN heads[k-1]
                       ELSE [heads[k-1] EXCEPT ![k] = walk(heads[k-1], k)]
  BY <1>11
<1> DEFINE Knows(m) == /\ heads[m] \in H
                       /\ \A i \in 1..n : i <= m /\ calls[i].type = "DELEGATE" =>
                              heads[m][i] = up[i]
           P == {m \in Nat : m <= n => Knows(m)}
<1>14. 0 \in P
  <2>1. heads[0] = none
    BY <1>1, <1>13
  <2> QED BY <1>4, <2>1
<1>15. ASSUME NEW m \in Nat, m \in P PROVE m + 1 \in P
  <2> SUFFICES ASSUME m + 1 <= n PROVE Knows(m + 1)
    OBVIOUS
  <2> DEFINE k == m + 1
  <2>1. Knows(m) /\ k \in 0..n /\ k \in 1..n /\ k # 0 /\ k - 1 = m
    BY <1>1, <1>15
  <2>2. \A i \in 1..n : i <= k <=> i <= m \/ i = k
    OBVIOUS
  <2> HIDE DEF k
  <2>3. CASE calls[k].type # "DELEGATE"
    <3>1. heads[k] = heads[m]
      BY <1>13, <2>1, <2>3
    <3> QED BY <2>1, <2>2, <2>3, <3>1 DEF k
  <2>4. CASE calls[k].type = "DELEGATE"
    <3>1. heads[k] = [heads[m] EXCEPT ![k] = up[k]] /\ heads[k] \in H
      <4>1. heads[k] = [heads[m] EXCEPT ![k] = walk(heads[m], k)]
        BY <1>13, <2>1, <2>4
      <4>2. PICK h : h = heads[m]
        OBVIOUS
      <4>3. h \in H
        BY <2>1, <4>2
      <4>4. [h EXCEPT ![k] = walk(h, k)] \in H /\ [h EXCEPT ![k] = walk(h, k)] = [h EXCEPT ![k] = up[k]]
        BY <1>5, <2>1, <2>4, <4>3
      <4> QED BY <4>1, <4>2, <4>4, Zenon
    <3>2. heads[m] \in [0..n -> 0..n]
      BY <2>1 DEF H, Heads
    <3>3. \A i \in 1..n : i \in 0..n
      BY <1>1
    <3>4. \A i \in 1..n : heads[k][i] = IF i = k THEN up[k] ELSE heads[m][i]
      BY <3>1, <3>2, <3>3
    <3> QED BY <2>1, <2>2, <3>1, <3>4 DEF k
  <2> QED BY <2>3, <2>4
<1>16. n \in P
  <2> HIDE DEF P
  <2> QED BY <1>1, <1>14, <1>15, NaturalsOf
<1>17. Knows(n)
  BY <1>1, <1>16
<1>18. ASSUME NEW i \in 1..n
       PROVE  heads[n][i] = IF calls[i].type = "DELEGATE" THEN up[i] ELSE 0
  <2>1. i <= n /\ heads[n] \in Heads(calls)
    BY <1>1, <1>17 DEF H
  <2>2. heads[n][i] # 0 => calls[i].type = "DELEGATE"
    BY <2>1 DEF Heads
  <2> QED BY <1>17, <2>1, <2>2
<1> QED BY <1>12, <1>18 DEF up

-----------------------------------------------------------------------------
(***************************************************************************)
(* normalizeInPlace, from the transactions of a node to the result.        *)
(***************************************************************************)
NodeTrx(t) == TrxFields \subseteq DOMAIN t /\ t.index \in Nat /\ NodeCalls(t.calls)

\* The transactions of a block, in the order the node ended them.
NodeTrxs(ts) == Listed(ts) /\ \A j \in 1..Len(ts) : NodeTrx(ts[j]) /\ ts[j].hash = j

\* PopulateStateReverted marks the calls that were undone, and leaves the tree.
LEMMA MarkedCalls ==
    ASSUME NEW cs, NodeCalls(cs)
    PROVE  LET rs == PopulateStateReverted(cs) IN
           /\ NodeCalls(rs) /\ Len(rs) = Len(cs)
           /\ \A i \in 1..Len(cs) :
                  /\ rs[i].parent = cs[i].parent /\ rs[i].type = cs[i].type
                  /\ rs[i].address = cs[i].address /\ rs[i].caller = cs[i].caller
                  /\ rs[i].logs = cs[i].logs /\ rs[i].stateReverted = Undone(cs)[i]
<1> DEFINE rs == PopulateStateReverted(cs)
           marked(i) == [cs[i] EXCEPT !.stateReverted = RevertedCalls(cs)[i]]
<1>1. rs = [i \in 1..Len(cs) |-> marked(i)]
  BY Zenon DEF PopulateStateReverted
<1>2. ASSUME NEW i \in 1..Len(cs)
      PROVE  /\ CallFields \subseteq DOMAIN marked(i)
             /\ SamePlace(marked(i), cs[i])
             /\ marked(i).address = cs[i].address /\ marked(i).caller = cs[i].caller
             /\ marked(i).logs = cs[i].logs
             /\ marked(i).stateReverted = RevertedCalls(cs)[i]
  <2>1. CallFields \subseteq DOMAIN cs[i]
    BY Zenon DEF NodeCalls
  <2>2. PICK b : b = RevertedCalls(cs)[i]
    OBVIOUS
  <2>3. marked(i) = [cs[i] EXCEPT !.stateReverted = b]
    BY <2>2
  <2> HIDE DEF marked
  <2> QED BY <2>1, <2>2, <2>3 DEF CallFields, SamePlace
<1> HIDE DEF rs, marked
<1>3. /\ rs = [i \in 1..Len(cs) |-> rs[i]]
      /\ \A i \in 1..Len(cs) : rs[i] = marked(i)
  BY <1>1
<1>4. NodeCalls(rs) /\ Len(rs) = Len(cs)
  <2>1. \A i \in 1..Len(cs) : CallFields \subseteq DOMAIN rs[i] /\ SamePlace(rs[i], cs[i])
    BY <1>2, <1>3, Zenon
  <2> QED BY <1>3, <2>1, TreeKept
<1>5. \A i \in 1..Len(cs) : RevertedCalls(cs)[i] = Undone(cs)[i]
  BY RevertedIsUndone
<1>6. ASSUME NEW i \in 1..Len(cs)
      PROVE  /\ rs[i].parent = cs[i].parent /\ rs[i].type = cs[i].type
             /\ rs[i].address = cs[i].address /\ rs[i].caller = cs[i].caller
             /\ rs[i].logs = cs[i].logs /\ rs[i].stateReverted = Undone(cs)[i]
  BY <1>2, <1>3, <1>5, ZenonT(40) DEF SamePlace
<1> QED BY <1>4, <1>6 DEF rs

\* The transactions after populateStateReverted.
LEMMA RevertedTrxs ==
    ASSUME NEW ts, NodeTrxs(ts)
    PROVE  LET us == MapSeq(ts, Revert) IN
           /\ Family(us, us) /\ Len(us) = Len(ts)
           /\ \A j \in 1..Len(ts) :
                  /\ us[j].hash = j /\ us[j].calls = PopulateStateReverted(ts[j].calls)
                  /\ us[j].index = ts[j].index /\ us[j].from = ts[j].from
                  /\ us[j].to = ts[j].to
<1> DEFINE us == MapSeq(ts, Revert)
<1>1. us = [j \in 1..Len(ts) |-> Revert(ts[j])]
  BY Zenon DEF MapSeq
<1> HIDE DEF us
<1>2. us = [j \in 1..Len(ts) |-> us[j]] /\ \A j \in 1..Len(ts) : us[j] = Revert(ts[j])
  BY <1>1
<1>3. Listed(us) /\ Len(us) = Len(ts)
  BY <1>2, ListedFacts, Tabled DEF NodeTrxs
<1>4. ASSUME NEW j \in 1..Len(ts)
      PROVE  /\ us[j].hash = j /\ us[j].calls = PopulateStateReverted(ts[j].calls)
             /\ us[j].index = ts[j].index /\ us[j].from = ts[j].from
             /\ us[j].to = ts[j].to
             /\ TrxFields \subseteq DOMAIN us[j] /\ us[j].index \in Nat
             /\ NodeCalls(us[j].calls)
  <2>1. NodeTrx(ts[j]) /\ ts[j].hash = j
    BY Zenon DEF NodeTrxs
  <2>2. PICK calls : calls = PopulateStateReverted(ts[j].calls)
    OBVIOUS
  <2>3. us[j] = [ts[j] EXCEPT !.calls = calls]
    BY <1>2, <2>2, Zenon DEF Revert
  <2>4. /\ us[j].hash = j /\ us[j].calls = calls
        /\ us[j].index = ts[j].index /\ us[j].from = ts[j].from /\ us[j].to = ts[j].to
        /\ TrxFields \subseteq DOMAIN us[j] /\ us[j].index \in Nat
    BY <2>1, <2>3 DEF NodeTrx, TrxFields
  <2>5. NodeCalls(calls)
    BY <2>1, <2>2, MarkedCalls DEF NodeTrx
  <2> QED BY <2>2, <2>4, <2>5, Zenon
<1>5. ASSUME NEW u \in Elements(us)
      PROVE  Descends(u, us)
  <2>1. PICK j \in 1..Len(ts) : u = us[j]
    BY <1>3 DEF Elements
  <2>2. SameCalls(u.calls, u.calls)
    BY DEF SameCalls, CallAlike
  <2> QED BY <1>4, <2>1, <2>2, Zenon DEF Descends
<1>6. Family(us, us)
  BY <1>3, <1>5, Zenon DEF Family
<1> QED BY <1>3, <1>4, <1>6 DEF us

\* ts is cs, sorted by index when they are to be, and what the passes that follow make
\* of it.
Follows(ts, cs, reorder) ==
    Alike(ts, IF reorder THEN SortBy(cs, MapSeq(cs, LAMBDA t : t.index)) ELSE cs)

LEMMA AlikeTwice ==
    ASSUME NEW us, NEW vs, Alike(us, vs), NEW ws, Alike(vs, ws)
    PROVE  Alike(us, ws)
<1>1. /\ Len(us) = Len(vs) /\ Len(vs) = Len(ws)
      /\ \A i \in 1..Len(vs) : /\ us[i].hash = vs[i].hash /\ us[i].index = vs[i].index
                                /\ us[i].from = vs[i].from
      /\ \A i \in 1..Len(ws) : /\ vs[i].hash = ws[i].hash /\ vs[i].index = ws[i].index
                                /\ vs[i].from = ws[i].from
  BY Zenon DEF Alike
<1> QED BY <1>1, Zenon DEF Alike

\* What normalizeInPlace returns: the transactions of the node and the merged one,
\* upgraded or not.
LEMMA NormalizedTrxs ==
    ASSUME NEW block, {"trxs", "ver", "changes"} \subseteq DOMAIN block,
           block.ver = 2, NodeTrxs(block.trxs), NEW chain, NEW first
    PROVE  LET out == NormalizeInPlace(block, chain, first).block
               us == MapSeq(block.trxs, Revert)
               cs == IF chain.combine THEN CombinePolygonSystemTransactions(us).trxs ELSE us
           IN  \E ts : /\ Family(ts, us) /\ Follows(ts, cs, chain.reorder)
                       /\ \/ out.trxs = ts /\ out.ver = 2
                          \/ out.trxs = MapSeq(ts, LAMBDA t : [t EXCEPT !.calls = UpgradeCalls(@)])
<1> DEFINE us == MapSeq(block.trxs, Revert)
           combined == IF chain.combine THEN CombinePolygonSystemTransactions(us)
                       ELSE [trxs |-> us, systemHashes |-> {}]
           whole == [block EXCEPT !.trxs = combined.trxs]
           ordered == IF chain.reorder
                      THEN ReorderTransactionsAndRenumberOrdinals(whole, first) ELSE whole
           indexed == PopulateLogBlockIndices(MapSeq(ordered.trxs, PopulateTrxStatus),
                                              combined.systemHashes)
           done == [ordered EXCEPT !.trxs = indexed.trxs]
           upgrade == chain.upgrade /\ done.ver = 2
           upgraded == [done EXCEPT !.ver = 3, !.trxs = MapSeq(@, LAMBDA t :
                                        [t EXCEPT !.calls = UpgradeCalls(@)])]
           made == NormalizeInPlace(block, chain, first)
<1>1. made = IF indexed.ok /\ (upgrade => CanUpgradeV2ToV3(done.trxs))
               THEN [ok |-> TRUE, block |-> IF upgrade THEN UpgradeBlockV2ToV3(done) ELSE done]
               ELSE [ok |-> FALSE, block |-> done]
  BY Zenon DEF NormalizeInPlace, Arrange, Finish
<1>2. Family(us, us)
  BY RevertedTrxs
<1> HIDE DEF us
<1> DEFINE cs == IF chain.combine THEN CombinePolygonSystemTransactions(us).trxs ELSE us
<1>0. combined.trxs = cs
  OBVIOUS
<1>3. Family(combined.trxs, us)
  <2>1. CASE chain.combine
    BY <1>2, <2>1, CombinedFamily
  <2>2. CASE ~chain.combine
    BY <1>2, <2>2
  <2> QED BY <2>1, <2>2
<1> HIDE DEF combined
<1>4. /\ whole.trxs = combined.trxs /\ whole.ver = 2
      /\ {"trxs", "ver", "changes"} \subseteq DOMAIN whole
  OBVIOUS
<1> HIDE DEF whole
<1>5. /\ Family(ordered.trxs, us) /\ Follows(ordered.trxs, cs, chain.reorder)
      /\ ordered.ver = 2 /\ {"trxs", "ver"} \subseteq DOMAIN ordered
  <2>1. CASE chain.reorder
    <3> DEFINE key == MapSeq(whole.trxs, LAMBDA t : t.index)
    <3>1. /\ Family(ReorderTransactionsAndRenumberOrdinals(whole, first).trxs, us)
          /\ Alike(ReorderTransactionsAndRenumberOrdinals(whole, first).trxs,
                   SortBy(whole.trxs, key))
      BY <1>3, <1>4, ReorderedFamily
    <3>2. PICK trxs1, moved : ReorderTransactionsAndRenumberOrdinals(whole, first) =
                                  [whole EXCEPT !.trxs = trxs1, !.changes = moved]
      BY Zenon DEF ReorderTransactionsAndRenumberOrdinals
    <3>3. ordered = [whole EXCEPT !.trxs = trxs1, !.changes = moved]
      BY <2>1, <3>2
    <3>4. ordered.ver = 2 /\ {"trxs", "ver"} \subseteq DOMAIN ordered
      <4> HIDE DEF ordered
      <4> QED BY <1>4, <3>3
    <3>5. ordered = ReorderTransactionsAndRenumberOrdinals(whole, first)
      BY <2>1
    <3> HIDE DEF ordered
    <3>6. whole.trxs = cs
      BY <1>0, <1>4
    <3>7. Follows(ordered.trxs, cs, chain.reorder)
      BY <2>1, <3>1, <3>5, <3>6, Zenon DEF Follows
    <3> QED BY <3>1, <3>4, <3>5, <3>7
  <2>2. CASE ~chain.reorder
    <3>1. Alike(cs, cs)
      BY DEF Alike
    <3>2. Follows(cs, cs, chain.reorder)
      BY <2>2, <3>1, Zenon DEF Follows
    <3> QED BY <1>0, <1>3, <1>4, <2>2, <3>2
  <2> QED BY <2>1, <2>2
<1> HIDE DEF ordered, cs
<1>6. Family(indexed.trxs, us) /\ Follows(indexed.trxs, cs, chain.reorder)
  <2>1. /\ Family(MapSeq(ordered.trxs, PopulateTrxStatus), us)
        /\ Alike(MapSeq(ordered.trxs, PopulateTrxStatus), ordered.trxs)
    BY <1>5, StatusFamily
  <2>2. /\ Family(indexed.trxs, us)
        /\ Alike(indexed.trxs, MapSeq(ordered.trxs, PopulateTrxStatus))
    BY <2>1, IndexedFamily
  <2> HIDE DEF indexed
  <2>3. Alike(indexed.trxs, ordered.trxs)
    BY <2>1, <2>2, AlikeTwice
  <2> QED BY <1>5, <2>2, <2>3, AlikeTwice DEF Follows
<1> HIDE DEF indexed
<1>7. done.trxs = indexed.trxs /\ done.ver = 2 /\ {"trxs", "ver"} \subseteq DOMAIN done
  BY <1>5
<1> HIDE DEF done
<1>8. made.block = done \/ made.block = UpgradeBlockV2ToV3(done)
  <2> DEFINE can == indexed.ok /\ (upgrade => CanUpgradeV2ToV3(done.trxs))
             final == UpgradeBlockV2ToV3(done)
  <2>1. made = IF can THEN [ok |-> TRUE, block |-> IF upgrade THEN final ELSE done]
                 ELSE [ok |-> FALSE, block |-> done]
    BY <1>1
  <2> HIDE DEF can, final, made, upgrade
  <2>2. \/ made = [ok |-> TRUE, block |-> final]
        \/ made = [ok |-> TRUE, block |-> done]
        \/ made = [ok |-> FALSE, block |-> done]
    BY <2>1, Zenon
  <2>3. made.block = done \/ made.block = final
    BY <2>2
  <2> QED BY <2>3 DEF final
<1>9. UpgradeBlockV2ToV3(done) = upgraded
  BY <1>7, Zenon DEF UpgradeBlockV2ToV3
<1>10. upgraded.trxs = MapSeq(indexed.trxs, LAMBDA t : [t EXCEPT !.calls = UpgradeCalls(@)])
  BY <1>7 DEF MapSeq
<1> HIDE DEF made, upgraded
<1>11. CASE made.block = done
  BY <1>6, <1>7, <1>11, Zenon DEF made, us, cs
<1>12. CASE made.block = upgraded
  BY <1>6, <1>10, <1>12, Zenon DEF made, us, cs
<1> QED BY <1>8, <1>9, <1>11, <1>12

\* Calls with the same tree have the same ancestors.
LEMMA SameAncestors ==
    ASSUME NEW ds, NodeCalls(ds), NEW cs, NodeCalls(cs), Len(cs) = Len(ds),
           \A i \in 1..Len(ds) : cs[i].parent = ds[i].parent /\ cs[i].type = ds[i].type
    PROVE  \A i \in 1..Len(ds) : NotDelegate(cs)[i] = NotDelegate(ds)[i]
<1> DEFINE n == Len(ds)
           P == {m \in Nat : \A i \in 1..n : i <= m => NotDelegate(cs)[i] = NotDelegate(ds)[i]}
<1>1. n \in Nat
  BY ListedFacts DEF NodeCalls
<1>2. \A i \in 1..n : ds[i].type = "DELEGATE" => ds[i].parent \in 1..(i - 1)
  BY <1>1 DEF NodeCalls
<1>3. \A i \in 1..n : NotDelegate(ds)[i] =
          IF ds[i].type # "DELEGATE" THEN i ELSE NotDelegate(ds)[ds[i].parent]
  BY NotDelegateFacts
<1>4. \A i \in 1..n : NotDelegate(cs)[i] =
          IF ds[i].type # "DELEGATE" THEN i ELSE NotDelegate(cs)[ds[i].parent]
  BY NotDelegateFacts
<1>5. 0 \in P
  OBVIOUS
<1>6. ASSUME NEW m \in Nat, m \in P PROVE m + 1 \in P
  <2> SUFFICES ASSUME NEW i \in 1..n, i <= m + 1
               PROVE  NotDelegate(cs)[i] = NotDelegate(ds)[i]
    OBVIOUS
  <2>1. CASE ds[i].type # "DELEGATE"
    BY <1>3, <1>4, <2>1
  <2>2. CASE ds[i].type = "DELEGATE"
    <3> DEFINE p == ds[i].parent
    <3>1. p \in 1..n /\ p <= m
      <4>1. p \in 1..(i - 1)
        BY <1>2, <2>2
      <4> QED BY <4>1
    <3>2. NotDelegate(cs)[p] = NotDelegate(ds)[p]
      BY <1>6, <3>1
    <3> QED BY <1>3, <1>4, <2>2, <3>2
  <2> QED BY <2>1, <2>2
<1>7. n \in P
  <2> HIDE DEF P
  <2> QED BY <1>1, <1>5, <1>6, NaturalsOf
<1> QED BY <1>1, <1>7

\* UpgradeCalls leaves the tree, and gives each delegate call its caller.
LEMMA UpgradedCalls ==
    ASSUME NEW ds, NodeCalls(ds)
    PROVE  LET cs == UpgradeCalls(ds) IN
           /\ NodeCalls(cs) /\ Len(cs) = Len(ds)
           /\ \A i \in 1..Len(ds) :
                  /\ cs[i].stateReverted = ds[i].stateReverted
                  /\ cs[i].caller = IF cs[i].type = "DELEGATE"
                                    THEN cs[NotDelegate(cs)[i]].address ELSE ds[i].caller
<1> DEFINE cs == UpgradeCalls(ds)
           heads == HeadParents(ds)
           new(i) == IF heads[i] # 0
                     THEN [ds[i] EXCEPT !.caller = ds[heads[i]].address] ELSE ds[i]
<1>1. cs = [i \in 1..Len(ds) |-> new(i)]
  BY Zenon DEF UpgradeCalls
<1>2. ASSUME NEW i \in 1..Len(ds)
      PROVE  /\ CallFields \subseteq DOMAIN new(i)
             /\ SamePlace(new(i), ds[i])
             /\ new(i).address = ds[i].address
             /\ new(i).stateReverted = ds[i].stateReverted
             /\ new(i).caller = IF ds[i].type = "DELEGATE"
                                THEN ds[NotDelegate(ds)[i]].address ELSE ds[i].caller
  <2>1. CallFields \subseteq DOMAIN ds[i]
    BY Zenon DEF NodeCalls
  <2>2. heads[i] = IF ds[i].type = "DELEGATE" THEN NotDelegate(ds)[i] ELSE 0
    BY HeadsAreFound
  <2>3. NotDelegate(ds)[i] # 0
    <3>1. NotDelegate(ds)[i] \in 1..i
      BY NotDelegateFacts
    <3> QED BY <3>1
  <2> HIDE DEF heads
  <2>4. CASE ds[i].type = "DELEGATE"
    <3>1. PICK a : a = ds[NotDelegate(ds)[i]].address
      OBVIOUS
    <3>2. new(i) = [ds[i] EXCEPT !.caller = a]
      BY <2>2, <2>3, <2>4, <3>1
    <3> HIDE DEF new
    <3> QED BY <2>1, <2>4, <3>1, <3>2 DEF CallFields, SamePlace
  <2>5. CASE ds[i].type # "DELEGATE"
    <3>1. new(i) = ds[i]
      BY <2>2, <2>5
    <3> HIDE DEF new
    <3> QED BY <2>1, <2>5, <3>1 DEF SamePlace
  <2> QED BY <2>4, <2>5
<1> HIDE DEF cs, new
<1>3. cs = [i \in 1..Len(ds) |-> cs[i]] /\ \A i \in 1..Len(ds) : cs[i] = new(i)
  BY <1>1
<1>4. NodeCalls(cs) /\ Len(cs) = Len(ds)
  BY <1>2, <1>3, TreeKept
<1>5. \A i \in 1..Len(ds) : NotDelegate(cs)[i] = NotDelegate(ds)[i]
  BY <1>2, <1>3, <1>4, SameAncestors DEF SamePlace
<1>6. ASSUME NEW i \in 1..Len(ds)
      PROVE  /\ cs[i].stateReverted = ds[i].stateReverted
             /\ cs[i].caller = IF cs[i].type = "DELEGATE"
                               THEN cs[NotDelegate(cs)[i]].address ELSE ds[i].caller
  <2>1. NotDelegate(ds)[i] \in 1..Len(ds)
    <3>1. NotDelegate(ds)[i] \in 1..i /\ Len(ds) \in Nat
      BY NotDelegateFacts, ListedFacts DEF NodeCalls
    <3> QED BY <3>1
  <2>2. cs[NotDelegate(cs)[i]].address = ds[NotDelegate(ds)[i]].address
    <3>1. PICK k \in 1..Len(ds) : k = NotDelegate(ds)[i]
      BY <2>1
    <3>2. cs[k].address = ds[k].address
      BY <1>2, <1>3
    <3>3. NotDelegate(cs)[i] = k
      BY <1>5, <3>1
    <3> QED BY <3>1, <3>2, <3>3, Zenon
  <2> QED BY <1>2, <1>3, <2>2 DEF SamePlace
<1> QED BY <1>4, <1>6 DEF cs

\* t is what becomes of the transaction o: it marks the calls that were undone, and
\* after an upgrade each call has its true caller.
Becomes(t, o, upgraded) ==
    /\ t.hash = o.hash /\ Len(t.calls) = Len(o.calls)
    /\ \A i \in 1..Len(o.calls) : t.calls[i].stateReverted = Undone(o.calls)[i]
    /\ upgraded => \A i \in 1..Len(o.calls) :
           t.calls[i].caller = IF t.calls[i].type = "DELEGATE"
                               THEN t.calls[NotDelegate(t.calls)[i]].address
                               ELSE o.calls[i].caller

LEMMA NormalizedBecomes ==
    ASSUME NEW block, {"trxs", "ver", "changes"} \subseteq DOMAIN block,
           block.ver = 2, NodeTrxs(block.trxs), NEW chain, NEW first
    PROVE  LET out == NormalizeInPlace(block, chain, first).block IN
           \A t \in ToSet(out.trxs) :
               \/ t.hash = MergedHash
               \/ \E j \in 1..Len(block.trxs) : Becomes(t, block.trxs[j], out.ver = 3)
<1> DEFINE us == MapSeq(block.trxs, Revert)
           out == NormalizeInPlace(block, chain, first).block
<1>1. PICK ts : /\ Family(ts, us)
                /\ \/ out.trxs = ts /\ out.ver = 2
                   \/ out.trxs = MapSeq(ts, LAMBDA t : [t EXCEPT !.calls = UpgradeCalls(@)])
  BY NormalizedTrxs
<1>2. /\ Family(us, us) /\ Len(us) = Len(block.trxs)
      /\ \A j \in 1..Len(block.trxs) :
             us[j].hash = j /\ us[j].calls = PopulateStateReverted(block.trxs[j].calls)
  BY RevertedTrxs
<1> HIDE DEF us, out
<1>3. ASSUME NEW t \in Elements(ts), t.hash # MergedHash
      PROVE  /\ NodeCalls(t.calls)
             /\ \E j \in 1..Len(block.trxs) :
                    /\ t.hash = block.trxs[j].hash
                    /\ Len(t.calls) = Len(block.trxs[j].calls)
                    /\ \A i \in 1..Len(block.trxs[j].calls) :
                           /\ t.calls[i].stateReverted = Undone(block.trxs[j].calls)[i]
                           /\ t.calls[i].caller = block.trxs[j].calls[i].caller
  <2>1. PICK s \in Elements(us) :
            NodeCalls(t.calls) /\ t.hash = s.hash /\ SameCalls(t.calls, s.calls)
    BY <1>1, <1>3, Zenon DEF Family, Descends
  <2>2. PICK j \in 1..Len(block.trxs) : s = us[j]
    BY <1>2 DEF Elements
  <2> DEFINE cs == block.trxs[j].calls
             rs == PopulateStateReverted(cs)
  <2>3. block.trxs[j].hash = j /\ NodeCalls(cs) /\ s.hash = j /\ s.calls = rs
    BY <1>2, <2>2, Zenon DEF NodeTrxs, NodeTrx
  <2>4. /\ Len(rs) = Len(cs)
        /\ \A i \in 1..Len(cs) : /\ rs[i].stateReverted = Undone(cs)[i]
                                 /\ rs[i].caller = cs[i].caller
    BY <2>3, MarkedCalls
  <2> HIDE DEF rs, cs
  <2>5. /\ Len(t.calls) = Len(cs)
        /\ \A i \in 1..Len(cs) : /\ t.calls[i].stateReverted = Undone(cs)[i]
                                 /\ t.calls[i].caller = cs[i].caller
    <3>1. SameCalls(t.calls, rs)
      BY <2>1, <2>3
    <3> QED BY <2>4, <3>1, Zenon DEF SameCalls, CallAlike
  <2> QED BY <2>1, <2>3, <2>5, Zenon DEF cs
<1>4. CASE out.trxs = ts /\ out.ver = 2
  <2> SUFFICES ASSUME NEW t \in Elements(ts), t.hash # MergedHash
               PROVE  \E j \in 1..Len(block.trxs) : Becomes(t, block.trxs[j], out.ver = 3)
    BY <1>1, <1>4, ListedFacts DEF Family, out
  <2>1. out.ver # 3
    BY <1>4
  <2> QED BY <1>3, <2>1, Zenon DEF Becomes
<1>5. CASE out.trxs = MapSeq(ts, LAMBDA t : [t EXCEPT !.calls = UpgradeCalls(@)])
  <2> DEFINE vs == [k \in 1..Len(ts) |-> [ts[k] EXCEPT !.calls = UpgradeCalls(ts[k].calls)]]
  <2>1. out.trxs = vs
    BY <1>5, Zenon DEF MapSeq
  <2>2. Len(ts) \in Nat /\ \A k \in 1..Len(ts) : ts[k] \in Elements(ts)
    <3>1. Listed(ts)
      BY <1>1 DEF Family
    <3> QED BY <3>1, ListedFacts DEF Elements
  <2>3. /\ DOMAIN vs = 1..Len(ts)
        /\ \A k \in 1..Len(ts) : vs[k] = [ts[k] EXCEPT !.calls = UpgradeCalls(ts[k].calls)]
    OBVIOUS
  <2> HIDE DEF vs
  <2>4. ASSUME NEW k \in 1..Len(ts), vs[k].hash # MergedHash
        PROVE  \E j \in 1..Len(block.trxs) : Becomes(vs[k], block.trxs[j], out.ver = 3)
    <3> DEFINE t == ts[k]
    <3>1. TrxFields \subseteq DOMAIN t /\ t \in Elements(ts)
      BY <1>1, <2>2, Zenon DEF Family, Descends
    <3>2. PICK cs : cs = UpgradeCalls(t.calls)
      OBVIOUS
    <3>3. vs[k] = [t EXCEPT !.calls = cs]
      BY <2>3, <3>2, Zenon
    <3>4. vs[k].hash = t.hash /\ vs[k].calls = cs
      BY <3>1, <3>3 DEF TrxFields
    <3> HIDE DEF t
    <3>5. PICK j \in 1..Len(block.trxs) :
             /\ t.hash = block.trxs[j].hash
             /\ Len(t.calls) = Len(block.trxs[j].calls)
             /\ \A i \in 1..Len(block.trxs[j].calls) :
                    /\ t.calls[i].stateReverted = Undone(block.trxs[j].calls)[i]
                    /\ t.calls[i].caller = block.trxs[j].calls[i].caller
      BY <1>3, <2>4, <3>1, <3>4, Zenon
    <3>6. /\ Len(cs) = Len(t.calls)
          /\ \A i \in 1..Len(t.calls) :
                 /\ cs[i].stateReverted = t.calls[i].stateReverted
                 /\ cs[i].caller = IF cs[i].type = "DELEGATE"
                                   THEN cs[NotDelegate(cs)[i]].address ELSE t.calls[i].caller
      BY <1>3, <2>4, <3>1, <3>2, <3>4, UpgradedCalls
    <3>7. Becomes(vs[k], block.trxs[j], out.ver = 3)
      BY <3>4, <3>5, <3>6 DEF Becomes
    <3> QED BY <3>7
  <2>5. ToSet(vs) = {vs[k] : k \in 1..Len(ts)}
    BY <2>3 DEF ToSet
  <2>6. ASSUME NEW t \in ToSet(vs)
        PROVE  \/ t.hash = MergedHash
               \/ \E j \in 1..Len(block.trxs) : Becomes(t, block.trxs[j], out.ver = 3)
    <3>1. PICK k \in 1..Len(ts) : t = vs[k]
      BY <2>5
    <3> QED BY <2>4, <3>1, Zenon
  <2> QED BY <2>1, <2>6, Zenon DEF out
<1> QED BY <1>1, <1>4, <1>5

-----------------------------------------------------------------------------
(***************************************************************************)
(* The invariant: what a node has executed, and what became of it.         *)
(***************************************************************************)
Outcome ==
    Normalized => \A t \in ToSet(Out) :
        \/ t.hash = MergedHash
        \/ \E j \in 1..Len(trxs) : Becomes(t, trxs[j], result.block.ver = 3)

\* The open calls, each one level below the one before it.
Nested(fr, calls) ==
    /\ fr \in Seq(1..Len(calls))
    /\ \A k \in 1..Len(fr) : calls[fr[k]].depth = k - 1

NodeInv ==
    /\ features \in DOMAIN Bounds
    /\ NodeTrxs(trxs)
    /\ open # Nil => /\ NodeTrx(open) /\ open.hash = Len(trxs) + 1
                     /\ Nested(frames, open.calls)
    /\ Outcome

\* A call made from another one.
LEMMA CallAppended ==
    ASSUME NEW cs, NodeCalls(cs), NEW c, CallFields \subseteq DOMAIN c,
           c.statusFailed \in BOOLEAN, c.parent \in 1..Len(cs),
           c.index = Len(cs) + 1, c.depth = cs[c.parent].depth + 1
    PROVE  NodeCalls(Append(cs, c)) /\ Len(Append(cs, c)) = Len(cs) + 1
<1> DEFINE ds == Append(cs, c)
<1>1. /\ \E S : ds \in Seq(S)
      /\ Len(cs) \in Nat /\ Len(ds) = Len(cs) + 1
      /\ \A k \in 1..Len(cs) : ds[k] = cs[k]
      /\ ds[Len(cs) + 1] = c
  BY AppendAny DEF NodeCalls, Listed
<1> HIDE DEF ds
<1>2. ASSUME NEW i \in 1..Len(ds)
      PROVE  /\ CallFields \subseteq DOMAIN ds[i]
             /\ ds[i].statusFailed \in BOOLEAN
             /\ ds[i].parent \in 0..(i - 1)
             /\ ds[i].type = "DELEGATE" => ds[i].parent # 0
             /\ InPlace(ds, i)
  <2>1. CASE i \in 1..Len(cs)
    <3>1. InPlace(cs, i) /\ cs[i].parent \in 0..(i - 1)
      BY <2>1, Zenon DEF NodeCalls
    <3>2. i # 1 => cs[i].parent \in 1..Len(cs)
      BY <1>1, <2>1, <3>1 DEF InPlace
    <3>3. InPlace(ds, i)
      BY <1>1, <2>1, <3>1, <3>2 DEF InPlace
    <3> QED BY <1>1, <2>1, <3>3, Zenon DEF NodeCalls
  <2>2. CASE i = Len(cs) + 1
    <3>1. cs[c.parent].depth \in Nat
      BY Zenon DEF NodeCalls, InPlace
    <3>2. InPlace(ds, i)
      BY <1>1, <2>2, <3>1 DEF InPlace
    <3> QED BY <1>1, <2>2, <3>2
  <2> QED BY <1>1, <2>1, <2>2
<1> QED BY <1>1, <1>2, Zenon DEF NodeCalls, Listed, ds

\* A call that changes.
LEMMA CallReplaced ==
    ASSUME NEW cs, NodeCalls(cs), NEW k \in 1..Len(cs), NEW c, CallFields \subseteq DOMAIN c,
           c.statusFailed \in BOOLEAN, c.parent = cs[k].parent, c.type = cs[k].type,
           c.index = cs[k].index, c.depth = cs[k].depth
    PROVE  NodeCalls([cs EXCEPT ![k] = c]) /\ Len([cs EXCEPT ![k] = c]) = Len(cs)
<1> DEFINE n == Len(cs)
           ds == [cs EXCEPT ![k] = c]
<1>1. n \in Nat /\ DOMAIN cs = 1..n
  BY ListedFacts DEF NodeCalls
<1>2. ds = [i \in 1..n |-> ds[i]] /\ \A i \in 1..n : ds[i] = IF i = k THEN c ELSE cs[i]
  BY <1>1
<1> HIDE DEF ds
<1>3. Listed(ds) /\ Len(ds) = n
  BY <1>1, <1>2, Tabled
<1>4. ASSUME NEW i \in 1..n
      PROVE  /\ CallFields \subseteq DOMAIN ds[i]
             /\ ds[i].statusFailed \in BOOLEAN
             /\ ds[i].parent \in 0..(i - 1)
             /\ ds[i].type = "DELEGATE" => ds[i].parent # 0
             /\ InPlace(ds, i)
  <2>1. /\ CallFields \subseteq DOMAIN cs[i]
        /\ cs[i].statusFailed \in BOOLEAN
        /\ cs[i].parent \in 0..(i - 1)
        /\ cs[i].type = "DELEGATE" => cs[i].parent # 0
        /\ InPlace(cs, i)
    BY Zenon DEF NodeCalls
  <2>2. \A j \in 1..n : /\ ds[j].index = cs[j].index /\ ds[j].depth = cs[j].depth
                        /\ ds[j].parent = cs[j].parent
    BY <1>2
  <2>3. i # 1 => cs[i].parent \in 1..n
    BY <1>1, <2>1 DEF InPlace
  <2>4. InPlace(ds, i)
    BY <2>1, <2>2, <2>3 DEF InPlace
  <2>5. CASE i = k
    <3>1. ds[i] = c
      BY <1>2, <2>5
    <3> QED BY <2>1, <2>4, <2>5, <3>1, Zenon
  <2>6. CASE i # k
    <3>1. ds[i] = cs[i]
      BY <1>2, <2>6
    <3> QED BY <2>1, <2>4, <3>1, Zenon
  <2> QED BY <2>5, <2>6
<1> QED BY <1>3, <1>4, Zenon DEF NodeCalls, ds

\* A transaction begins with its root call.
LEMMA RootCall ==
    ASSUME NEW root, CallFields \subseteq DOMAIN root, root.statusFailed \in BOOLEAN,
           root.index = 1, root.parent = 0, root.depth = 0, root.type = "CALL"
    PROVE  NodeCalls(<<root>>) /\ Len(<<root>>) = 1
<1>1. <<root>> \in Seq({root}) /\ Len(<<root>>) = 1 /\ <<root>>[1] = root
  OBVIOUS
<1>2. Listed(<<root>>)
  BY <1>1 DEF Listed
<1>3. ASSUME NEW i \in 1..Len(<<root>>)
      PROVE  /\ CallFields \subseteq DOMAIN <<root>>[i]
             /\ <<root>>[i].statusFailed \in BOOLEAN
             /\ <<root>>[i].parent \in 0..(i - 1)
             /\ <<root>>[i].type = "DELEGATE" => <<root>>[i].parent # 0
             /\ InPlace(<<root>>, i)
  <2>1. i = 1 /\ <<root>>[i] = root /\ 0 \in 0..(i - 1)
    BY <1>1
  <2> QED BY <2>1 DEF InPlace
<1> QED BY <1>1, <1>2, <1>3 DEF NodeCalls

\* A transaction more.
LEMMA TrxAppended ==
    ASSUME NEW ts, NodeTrxs(ts), NEW t, NodeTrx(t), t.hash = Len(ts) + 1
    PROVE  NodeTrxs(Append(ts, t))
<1> DEFINE us == Append(ts, t)
<1>1. /\ \E S : us \in Seq(S)
      /\ Len(ts) \in Nat /\ Len(us) = Len(ts) + 1
      /\ \A k \in 1..Len(ts) : us[k] = ts[k]
      /\ us[Len(ts) + 1] = t
  BY AppendAny DEF NodeTrxs, Listed
<1> HIDE DEF us
<1>2. ASSUME NEW j \in 1..Len(us)
      PROVE  NodeTrx(us[j]) /\ us[j].hash = j
  <2>1. CASE j \in 1..Len(ts)
    BY <1>1, <2>1, Zenon DEF NodeTrxs
  <2>2. CASE j = Len(ts) + 1
    BY <1>1, <2>2, Zenon
  <2> QED BY <1>1, <2>1, <2>2
<1> QED BY <1>1, <1>2, Zenon DEF NodeTrxs, Listed, us

\* The index of a transaction is a number.
LEMMA IndexType ==
    ASSUME NodeInv, NEW kind, NEW index \in Indexes(kind)
    PROVE  index \in Nat
<1> DEFINE D == {j \in 1..Len(trxs) : Normal(trxs[j])}
           taken == {trxs[i].index : i \in D}
           f == [i \in D |-> trxs[i].index]
<1>1. Len(trxs) \in Nat
  BY ListedFacts DEF NodeInv, NodeTrxs
<1>2. IsFiniteSet(D)
  <2>1. IsFiniteSet(1..Len(trxs))
    BY <1>1, FS_Interval
  <2>2. D \in SUBSET (1..Len(trxs))
    OBVIOUS
  <2> HIDE DEF D
  <2> QED BY <2>1, <2>2, FS_Subset
<1>3. f \in Surjection(D, taken)
  <2> HIDE DEF D
  <2> QED BY DEF Surjection
<1>4. Cardinality(taken) \in Nat
  <2> HIDE DEF D, taken, f
  <2>1. IsFiniteSet(taken)
    BY <1>2, <1>3, FS_Surjection
  <2> QED BY <2>1, FS_CardinalityType
<1>5. bounds.trxs \in Nat
  BY NormalizationAssumption DEF NodeInv, bounds
<1>6. index \in {0} \/ index \in (0..(bounds.trxs - 1)) \ taken \/ index \in {Cardinality(taken)}
  BY Zenon DEF Indexes
<1> HIDE DEF taken
<1> QED BY <1>4, <1>5, <1>6

\* As long as the block is not normalized there is nothing to say of the result.
LEMMA NotYet ==
    ASSUME Building, UNCHANGED result
    PROVE  Outcome'
  BY DEF Building, Outcome, Normalized

LEMMA NodeStep ==
    ASSUME NodeInv, [Next]_vars
    PROVE  NodeInv'
<1>0. Listed(trxs) /\ Len(trxs) \in Nat
  BY ListedFacts DEF NodeInv, NodeTrxs
<1>1. ASSUME NEW kind \in bounds.kinds, NEW index \in Indexes(kind), BeginTrx(kind, index)
      PROVE  NodeInv'
  <2> DEFINE start == IF features.reorder THEN StartOrdinal ELSE clock
             root == [NewCall(1, "CALL", Recipient(kind), 0) EXCEPT !.caller = Sender(kind)]
             t == [NewTrx(Len(trxs) + 1, index, Recipient(kind), start, root, 1, FALSE)
                      EXCEPT !.from = Sender(kind)]
  <2>1. /\ open' = t /\ frames' = <<1>> /\ Building
        /\ UNCHANGED <<features, trxs, result>>
    BY <1>1, Zenon DEF BeginTrx
  <2>2. /\ CallFields \subseteq DOMAIN root /\ root.statusFailed \in BOOLEAN
        /\ root.index = 1 /\ root.parent = 0 /\ root.depth = 0 /\ root.type = "CALL"
    <3>1. PICK a, c : a = Recipient(kind) /\ c = Sender(kind)
      OBVIOUS
    <3>2. root = [NewCall(1, "CALL", a, 0) EXCEPT !.caller = c]
      BY <3>1
    <3> HIDE DEF root
    <3> QED BY <3>2 DEF NewCall, CallFields
  <2> HIDE DEF root, start
  <2>3. NodeCalls(<<root>>) /\ Len(<<root>>) = 1
    BY <2>2, RootCall
  <2>4. NodeTrx(t) /\ t.hash = Len(trxs) + 1 /\ t.calls = <<root>>
    <3>1. index \in Nat
      BY IndexType
    <3>2. PICK a, c : a = Recipient(kind) /\ c = Sender(kind)
      OBVIOUS
    <3>3. t = [NewTrx(Len(trxs) + 1, index, a, start, root, 1, FALSE) EXCEPT !.from = c]
      BY <3>2
    <3> HIDE DEF t
    <3>4. /\ TrxFields \subseteq DOMAIN t /\ t.index = index /\ t.calls = <<root>>
          /\ t.hash = Len(trxs) + 1
      BY <3>3 DEF NewTrx, TrxFields
    <3> QED BY <2>3, <3>1, <3>4, Zenon DEF NodeTrx
  <2> HIDE DEF t
  <2>5. Nested(frames', open'.calls)
    <3>1. Len(open'.calls) = 1 /\ open'.calls[1] = root
      BY <2>1, <2>3, <2>4
    <3>2. frames' \in Seq(1..Len(open'.calls)) /\ Len(frames') = 1 /\ frames'[1] = 1
      BY <2>1, <3>1
    <3> QED BY <2>2, <3>1, <3>2 DEF Nested
  <2>6. Outcome'
    BY <2>1, NotYet
  <2>7. NodeTrx(open') /\ open'.hash = Len(trxs') + 1 /\ NodeTrxs(trxs') /\ features' \in DOMAIN Bounds
    BY <2>1, <2>4, Zenon DEF NodeInv
  <2> QED BY <2>5, <2>6, <2>7, Zenon DEF NodeInv
<1>2. ASSUME NEW type \in bounds.callTypes, RunCall(type)
      PROVE  NodeInv'
  <2> DEFINE i == Len(open.calls) + 1
             parent == Last(frames)
             call == [NewCall(i, type, CalleeAddress(i), clock) EXCEPT
                         !.parent = parent, !.depth = Len(frames),
                         !.caller = open.calls[parent].address]
  <2>1. /\ open # Nil /\ frames # << >> /\ Building
        /\ open' = [open EXCEPT !.calls = Append(open.calls, call)]
        /\ frames' = Append(frames, i)
        /\ UNCHANGED <<features, trxs, result>>
    BY <1>2, Zenon DEF RunCall
  <2>2. /\ NodeTrx(open) /\ open.hash = Len(trxs) + 1
        /\ frames \in Seq(1..Len(open.calls)) /\ Nested(frames, open.calls)
    BY <2>1, Zenon DEF NodeInv, Nested
  <2>3. NodeCalls(open.calls) /\ Len(open.calls) \in Nat
    BY <2>2, ListedFacts DEF NodeTrx, NodeCalls
  <2>4. parent \in 1..Len(open.calls) /\ open.calls[parent].depth + 1 = Len(frames)
    <3>1. Len(frames) \in 1..Len(frames) /\ parent = frames[Len(frames)]
      BY <2>1, <2>2 DEF Last
    <3>2. parent \in 1..Len(open.calls) /\ open.calls[parent].depth = Len(frames) - 1
      BY <2>2, <3>1 DEF Nested
    <3>3. Len(frames) \in Nat
      BY <2>2
    <3> HIDE DEF parent
    <3> QED BY <3>2, <3>3
  <2>5. /\ CallFields \subseteq DOMAIN call /\ call.statusFailed \in BOOLEAN
        /\ call.parent = parent /\ call.index = i /\ call.depth = Len(frames)
    <3>1. PICK a, c : a = CalleeAddress(i) /\ c = open.calls[parent].address
      OBVIOUS
    <3>2. call = [NewCall(i, type, a, clock) EXCEPT !.parent = parent, !.depth = Len(frames),
                                                    !.caller = c]
      BY <3>1
    <3> HIDE DEF call, parent, i
    <3> QED BY <3>2 DEF NewCall, CallFields
  <2> HIDE DEF call, parent
  <2>6. /\ NodeCalls(Append(open.calls, call))
        /\ Len(Append(open.calls, call)) = Len(open.calls) + 1
    BY <2>3, <2>4, <2>5, CallAppended
  <2>7. /\ TrxFields \subseteq DOMAIN open' /\ open'.index = open.index
        /\ open'.hash = open.hash /\ open'.calls = Append(open.calls, call)
    <3>1. TrxFields \subseteq DOMAIN open
      BY <2>2 DEF NodeTrx
    <3> QED BY <2>1, <3>1 DEF TrxFields
  <2>8. Nested(frames', open'.calls)
    <3>1. Len(open'.calls) = i
      BY <2>6, <2>7, Zenon
    <3>2. frames \in Seq(1..i) /\ i \in 1..i
      <4>1. 1..Len(open.calls) \subseteq 1..i
        BY <2>3
      <4> QED BY <2>2, <2>3, <4>1
    <3>3. /\ open'.calls[i] = call
          /\ \A k \in 1..Len(open.calls) : open'.calls[k] = open.calls[k]
      BY <2>3, <2>7, AppendAny DEF NodeCalls, Listed
    <3> HIDE DEF i
    <3>4. /\ frames' \in Seq(1..i) /\ Len(frames') = Len(frames) + 1
          /\ frames'[Len(frames) + 1] = i
          /\ \A k \in 1..Len(frames) : frames'[k] = frames[k]
      BY <2>1, <3>2, AppendProperties
    <3>5. ASSUME NEW k \in 1..Len(frames') PROVE open'.calls[frames'[k]].depth = k - 1
      <4>1. CASE k \in 1..Len(frames)
        <5>1. frames[k] \in 1..Len(open.calls) /\ open.calls[frames[k]].depth = k - 1
          BY <2>2, <4>1 DEF Nested
        <5> QED BY <3>3, <3>4, <4>1, <5>1
      <4>2. CASE k = Len(frames) + 1
        BY <2>2, <2>5, <3>3, <3>4, <4>2
      <4> QED BY <2>2, <3>4, <4>1, <4>2
    <3> QED BY <3>1, <3>4, <3>5 DEF Nested
  <2>9. Outcome'
    BY <2>1, NotYet
  <2>10. /\ NodeTrx(open') /\ open'.hash = Len(trxs') + 1 /\ NodeTrxs(trxs')
         /\ features' \in DOMAIN Bounds
    BY <2>1, <2>2, <2>6, <2>7, Zenon DEF NodeInv, NodeTrx
  <2> QED BY <2>8, <2>9, <2>10, Zenon DEF NodeInv
<1>3. ASSUME NEW k, NEW c,
             open # Nil, frames # << >>, Building,
             k = Last(frames), open' = [open EXCEPT !.calls = [open.calls EXCEPT ![k] = c]],
             CallFields \subseteq DOMAIN open.calls[k] =>
                 /\ CallFields \subseteq DOMAIN c
                 /\ c.index = open.calls[k].index /\ c.depth = open.calls[k].depth
                 /\ c.parent = open.calls[k].parent /\ c.type = open.calls[k].type
                 /\ c.statusFailed \in BOOLEAN \/ c.statusFailed = open.calls[k].statusFailed,
             frames' = frames \/ frames' = Front(frames),
             UNCHANGED <<features, trxs, result>>
      PROVE  NodeInv'
  <2>1. /\ NodeTrx(open) /\ open.hash = Len(trxs) + 1
        /\ frames \in Seq(1..Len(open.calls)) /\ Nested(frames, open.calls)
    BY <1>3, Zenon DEF NodeInv, Nested
  <2>2. NodeCalls(open.calls) /\ k \in 1..Len(open.calls)
    BY <1>3, <2>1 DEF NodeTrx, Last
  <2>3. /\ CallFields \subseteq DOMAIN c
        /\ c.index = open.calls[k].index /\ c.depth = open.calls[k].depth
        /\ c.parent = open.calls[k].parent /\ c.type = open.calls[k].type
        /\ c.statusFailed \in BOOLEAN
    <3>1. CallFields \subseteq DOMAIN open.calls[k] /\ open.calls[k].statusFailed \in BOOLEAN
      BY <2>2, Zenon DEF NodeCalls
    <3> QED BY <1>3, <3>1, Zenon
  <2> DEFINE cs == [open.calls EXCEPT ![k] = c]
  <2>4. NodeCalls(cs) /\ Len(cs) = Len(open.calls)
    BY <2>2, <2>3, CallReplaced
  <2>5. /\ TrxFields \subseteq DOMAIN open' /\ open'.index = open.index
        /\ open'.hash = open.hash /\ open'.calls = cs
    <3>1. TrxFields \subseteq DOMAIN open /\ open' = [open EXCEPT !.calls = cs]
      BY <1>3, <2>1 DEF NodeTrx
    <3> HIDE DEF cs
    <3> QED BY <3>1 DEF TrxFields
  <2> HIDE DEF cs
  <2>6. Nested(frames', open'.calls)
    <3>1. /\ frames' \in Seq(1..Len(open.calls)) /\ Len(frames') <= Len(frames)
          /\ \A j \in 1..Len(frames') : j \in 1..Len(frames) /\ frames'[j] = frames[j]
      <4>1. CASE frames' = frames
        BY <2>1, <4>1
      <4>2. CASE frames' = Front(frames)
        <5> DEFINE n == Len(frames) - 1
        <5>1. n \in Int /\ 1 \in 1..(Len(frames) + 1) /\ n \in (1 - 1)..Len(frames)
              /\ n \in Nat /\ n - 1 + 1 = n /\ Len(frames) \in Nat /\ n <= Len(frames)
          BY <1>3, <2>1
        <5>2. frames' = SubSeq(frames, 1, n)
          BY <4>2 DEF Front
        <5> HIDE DEF n
        <5>3. /\ frames' \in Seq(1..Len(open.calls)) /\ Len(frames') = n
              /\ \A j \in 1..n : frames'[j] = frames[j]
          BY <2>1, <5>1, <5>2, SMTT(30)
        <5> QED BY <5>1, <5>3
      <4> QED BY <1>3, <4>1, <4>2
    <3>2. Len(open'.calls) = Len(open.calls)
      BY <2>4, <2>5
    <3>3. \A j \in 1..Len(open.calls) : open'.calls[j].depth = open.calls[j].depth
      <4>1. DOMAIN open.calls = 1..Len(open.calls)
        BY <2>2, ListedFacts DEF NodeCalls
      <4>2. \A j \in 1..Len(open.calls) : cs[j].depth = open.calls[j].depth
        BY <2>2, <2>3, <4>1 DEF cs
      <4> QED BY <2>5, <4>2
    <3>4. ASSUME NEW j \in 1..Len(frames') PROVE open'.calls[frames'[j]].depth = j - 1
      <4>1. frames[j] \in 1..Len(open.calls) /\ open.calls[frames[j]].depth = j - 1
        <5>1. j \in 1..Len(frames)
          BY <3>1
        <5>2. open.calls[frames[j]].depth = j - 1
          BY <2>1, <5>1, Zenon DEF Nested
        <5>3. PICK S : S = 1..Len(open.calls)
          OBVIOUS
        <5>4. frames \in Seq(S)
          BY <2>1, <5>3
        <5>5. frames[j] \in S
          BY <5>1, <5>4
        <5> QED BY <5>2, <5>3, <5>5
      <4> QED BY <3>1, <3>3, <4>1
    <3> QED BY <3>1, <3>2, <3>4 DEF Nested
  <2>7. Outcome'
    BY <1>3, NotYet
  <2>8. /\ NodeTrx(open') /\ open'.hash = Len(trxs') + 1 /\ NodeTrxs(trxs')
        /\ features' \in DOMAIN Bounds
    BY <1>3, <2>1, <2>4, <2>5, Zenon DEF NodeInv, NodeTrx
  <2> QED BY <2>6, <2>7, <2>8, Zenon DEF NodeInv
<1>4. ASSUME NEW data \in LogData, AddLog(data)
      PROVE  NodeInv'
  <2> DEFINE k == Last(frames)
  <2>1. PICK log :
           /\ open # Nil /\ frames # << >> /\ Building
           /\ open' = [open EXCEPT !.calls[k].logs = Append(@, log)]
           /\ UNCHANGED <<features, trxs, frames, result>>
    BY <1>4, Zenon DEF AddLog
  <2>2. PICK c : c = [open.calls[k] EXCEPT !.logs = Append(open.calls[k].logs, log)]
    OBVIOUS
  <2>3. open' = [open EXCEPT !.calls = [open.calls EXCEPT ![k] = c]]
    BY <2>1, <2>2, Zenon
  <2>4. CallFields \subseteq DOMAIN open.calls[k] =>
            /\ CallFields \subseteq DOMAIN c
            /\ c.index = open.calls[k].index /\ c.depth = open.calls[k].depth
            /\ c.parent = open.calls[k].parent /\ c.type = open.calls[k].type
            /\ c.statusFailed = open.calls[k].statusFailed
    BY <2>2 DEF CallFields
  <2> QED BY <1>3, <2>1, <2>3, <2>4, Zenon
<1>5. ASSUME NEW ending \in bounds.endings, EndCall(ending)
      PROVE  NodeInv'
  <2> DEFINE k == Last(frames)
  <2>1. PICK end :
           /\ open # Nil /\ frames # << >> /\ Building
           /\ open' = [open EXCEPT !.calls[k] =
                          [@ EXCEPT !.end = end, !.statusFailed = ending # "ok",
                                    !.statusReverted = ending = "reverted"]]
           /\ frames' = Front(frames)
           /\ UNCHANGED <<features, trxs, result>>
    BY <1>5, Zenon DEF EndCall
  <2>2. PICK failed, reverted : failed = (ending # "ok") /\ reverted = (ending = "reverted")
    OBVIOUS
  <2>3. PICK c : c = [open.calls[k] EXCEPT !.end = end, !.statusFailed = failed,
                                           !.statusReverted = reverted]
    OBVIOUS
  <2>4. open' = [open EXCEPT !.calls = [open.calls EXCEPT ![k] = c]]
    BY <2>1, <2>2, <2>3, Zenon
  <2>5. CallFields \subseteq DOMAIN open.calls[k] =>
            /\ CallFields \subseteq DOMAIN c
            /\ c.index = open.calls[k].index /\ c.depth = open.calls[k].depth
            /\ c.parent = open.calls[k].parent /\ c.type = open.calls[k].type
            /\ c.statusFailed = failed
    BY <2>3 DEF CallFields
  <2>6. failed \in BOOLEAN
    BY <2>2, Zenon
  <2>7. CallFields \subseteq DOMAIN open.calls[k] =>
            /\ CallFields \subseteq DOMAIN c
            /\ c.index = open.calls[k].index /\ c.depth = open.calls[k].depth
            /\ c.parent = open.calls[k].parent /\ c.type = open.calls[k].type
            /\ c.statusFailed \in BOOLEAN \/ c.statusFailed = open.calls[k].statusFailed
    <3>1. c.statusFailed = failed => c.statusFailed \in BOOLEAN
      BY <2>6
    <3> QED BY <2>5, <3>1, Zenon
  <2> QED BY <1>3, <2>1, <2>4, <2>7, Zenon
<1>6. CASE EndTrx
  <2>1. PICK receipt :
           /\ Building /\ open # Nil
           /\ trxs' = Append(trxs, [open EXCEPT !.end = clock, !.receipt = receipt])
           /\ open' = Nil /\ UNCHANGED <<features, result>>
    BY <1>6, Zenon DEF EndTrx
  <2>2. PICK t : t = [open EXCEPT !.end = clock, !.receipt = receipt]
    OBVIOUS
  <2>3. NodeTrx(open) /\ open.hash = Len(trxs) + 1
    BY <2>1, Zenon DEF NodeInv
  <2>4. /\ TrxFields \subseteq DOMAIN t /\ t.index = open.index
        /\ t.hash = open.hash /\ t.calls = open.calls
    <3>1. TrxFields \subseteq DOMAIN open
      BY <2>3, Zenon DEF NodeTrx
    <3> QED BY <2>2, <3>1 DEF TrxFields
  <2>5. NodeTrx(t) /\ t.hash = Len(trxs) + 1
    BY <2>3, <2>4, Zenon DEF NodeTrx
  <2>6. NodeTrxs(trxs')
    <3>1. NodeTrxs(Append(trxs, t))
      BY <2>5, TrxAppended DEF NodeInv
    <3> QED BY <2>1, <2>2, <3>1, Zenon
  <2>7. Outcome'
    BY <2>1, NotYet
  <2> QED BY <2>1, <2>6, <2>7, Zenon DEF NodeInv
<1>7. CASE Normalize
  <2>1. PICK all, first :
           /\ UNCHANGED <<features, trxs, open, frames>>
           /\ result' = NormalizeInPlace([num |-> 1, ver |-> 2, seq |-> 1, trxs |-> trxs,
                                          sys |-> << >>, changes |-> all], features, first)
    BY <1>7, Zenon DEF Normalize
  <2>2. PICK block : block = [num |-> 1, ver |-> 2, seq |-> 1, trxs |-> trxs,
                              sys |-> << >>, changes |-> all]
    OBVIOUS
  <2>3. /\ {"trxs", "ver", "changes"} \subseteq DOMAIN block
        /\ block.ver = 2 /\ block.trxs = trxs
    BY <2>2
  <2>4. NodeTrxs(block.trxs)
    BY <2>3, Zenon DEF NodeInv
  <2>5. PICK chain : chain = features
    OBVIOUS
  <2>6. LET out == NormalizeInPlace(block, chain, first).block IN
        \A t \in ToSet(out.trxs) :
            \/ t.hash = MergedHash
            \/ \E j \in 1..Len(block.trxs) : Becomes(t, block.trxs[j], out.ver = 3)
    BY <2>3, <2>4, NormalizedBecomes
  <2>7. result' = NormalizeInPlace(block, chain, first)
    BY <2>1, <2>2, <2>5, Zenon
  <2>8. Outcome'
    BY <2>1, <2>3, <2>6, <2>7, Zenon DEF Outcome, Out
  <2> QED BY <2>1, <2>8, Zenon DEF NodeInv
<1>8. CASE UNCHANGED vars
  BY <1>8, Zenon DEF vars, NodeInv, Outcome, Normalized, Out
<1> QED BY <1>1, <1>2, <1>4, <1>5, <1>6, <1>7, <1>8, Zenon DEF Next

\* NodeInv holds of every block, normalized or not.
LEMMA NodeAlways == Spec => []NodeInv
<1>1. Init => NodeInv
  <2> SUFFICES ASSUME Init PROVE NodeInv
    OBVIOUS
  <2>1. NodeTrxs(<< >>)
    <3>1. << >> \in Seq({}) /\ Len(<< >>) = 0
      OBVIOUS
    <3>2. Listed(<< >>)
      BY <3>1, Zenon DEF Listed
    <3>3. \A j \in 1..Len(<< >>) : FALSE
      BY <3>1
    <3> QED BY <3>2, <3>3, Zenon DEF NodeTrxs
  <2>2. features \in DOMAIN Bounds /\ trxs = << >> /\ open = Nil /\ result = Nil
    BY DEF Init
  <2> QED BY <2>1, <2>2, Zenon DEF NodeInv, Outcome, Normalized
<1> QED BY <1>1, NodeStep, PTL DEF Spec

\* A transaction that is not the merged one comes from the one of the node that has
\* its hash.
LEMMA OriginFound ==
    ASSUME NodeInv, Normalized, NEW t \in ToSet(Out) \ Merged
    PROVE  Becomes(t, Origin(t), result.block.ver = 3)
<1>1. t.hash # MergedHash
  BY DEF Merged
<1>2. PICK j \in 1..Len(trxs) : Becomes(t, trxs[j], result.block.ver = 3)
  BY <1>1, Zenon DEF NodeInv, Outcome
<1>3. ToSet(trxs) = {trxs[k] : k \in 1..Len(trxs)}
  BY ListedFacts DEF NodeInv, NodeTrxs, Elements
<1>4. \A k \in 1..Len(trxs) : trxs[k].hash = k
  BY Zenon DEF NodeInv, NodeTrxs
<1>5. t.hash = trxs[j].hash
  BY <1>2, Zenon DEF Becomes
<1>6. \A o \in ToSet(trxs) : o.hash = t.hash <=> o = trxs[j]
  BY <1>3, <1>4, <1>5
<1>7. trxs[j] \in ToSet(trxs)
  BY <1>3
<1>8. Origin(t) = trxs[j]
  <2>1. Origin(t) \in ToSet(trxs) /\ Origin(t).hash = t.hash
    BY <1>5, <1>7, Zenon DEF Origin
  <2> QED BY <1>6, <2>1
<1> QED BY <1>2, <1>8

\* A call is marked as state-reverted exactly when it or a call around it failed,
\* which populateStateReverted finds in one pass over the flat list of calls,
\* whatever tree they form and whatever the passes after it do to the block.
THEOREM RevertedIsInherited == Spec => []StateRevertedIsInherited
<1>1. NodeInv => StateRevertedIsInherited
  <2> SUFFICES ASSUME NodeInv, Normalized, NEW t \in ToSet(Out) \ Merged,
                      NEW i \in 1..Len(t.calls)
               PROVE  t.calls[i].stateReverted = Undone(Origin(t).calls)[i]
    BY Zenon DEF StateRevertedIsInherited
  <2>1. Becomes(t, Origin(t), result.block.ver = 3)
    BY OriginFound
  <2> QED BY <2>1, Zenon DEF Becomes
<1> QED BY <1>1, NodeAlways, PTL

\* upgradeBlockV2ToV3 gives every delegate call, however deep, the address of its
\* nearest ancestor that is not one as caller, and no other call a new caller.
THEOREM DelegateCallersFound == Spec => []DelegateCallers
<1>1. NodeInv => DelegateCallers
  <2> SUFFICES ASSUME NodeInv, Normalized, result.block.ver = 3,
                      NEW t \in ToSet(Out) \ Merged, NEW i \in 1..Len(t.calls)
               PROVE  t.calls[i].caller = IF t.calls[i].type = "DELEGATE"
                                          THEN t.calls[NotDelegate(t.calls)[i]].address
                                          ELSE Origin(t).calls[i].caller
    BY Zenon DEF DelegateCallers
  <2>1. Becomes(t, Origin(t), result.block.ver = 3)
    BY OriginFound
  <2> QED BY <2>1, Zenon DEF Becomes
<1> QED BY <1>1, NodeAlways, PTL

-----------------------------------------------------------------------------
(***************************************************************************)
(* The clock of a node that executes a block.                              *)
(***************************************************************************)
\* All ordinals of t so far are from its first one to the last one given, but for
\* the end of the calls that are open.
Running(t, fr, now) ==
    /\ t.begin \in Nat \ {0} /\ t.begin < now
    /\ \A i \in 1..Len(t.calls) :
           /\ Within(t.calls[i], t.begin, now - 1)
           /\ t.calls[i].end \in t.begin..(now - 1) \/ i \in Elements(fr)

ClockInv ==
    /\ clock \in Nat \ {0}
    /\ \E n \in Nat : changes = [i \in 1..n |-> [kind |-> "BALANCE", ord |-> i]]
    /\ \A t \in Elements(trxs) : Timed(t)
    /\ open # Nil => Running(open, frames, clock)
    /\ OrdinalsFollowExecution

\* A call that changes, or ends.
LEMMA CallTimed ==
    ASSUME NEW t, NodeTrx(t), NEW fr, NEW now \in Nat, Running(t, fr, now),
           NEW k \in 1..Len(t.calls), NEW c, Within(c, t.begin, now),
           NEW gr, c.end \in t.begin..now \/ k \in Elements(gr),
           \A i \in Elements(fr) : i \in Elements(gr) \/ i = k,
           NEW u, u = [t EXCEPT !.calls = [t.calls EXCEPT ![k] = c]]
    PROVE  Running(u, gr, now + 1)
<1> DEFINE n == Len(t.calls)
           cs == [t.calls EXCEPT ![k] = c]
<1>1. n \in Nat /\ DOMAIN t.calls = 1..n
  BY ListedFacts DEF NodeTrx, NodeCalls
<1>2. cs = [i \in 1..n |-> cs[i]] /\ \A i \in 1..n : cs[i] = IF i = k THEN c ELSE t.calls[i]
  BY <1>1
<1> HIDE DEF cs
<1>3. Len(cs) = n
  BY <1>1, <1>2, Tabled
<1>4. u.calls = cs /\ u.begin = t.begin
  <2>1. TrxFields \subseteq DOMAIN t /\ u = [t EXCEPT !.calls = cs]
    BY DEF NodeTrx, cs
  <2> QED BY <2>1 DEF TrxFields
<1>5. t.begin \in Nat \ {0} /\ t.begin < now + 1 /\ now - 1 \in Nat /\ now - 1 <= now
      /\ (now + 1) - 1 = now
  <2>1. t.begin \in Nat \ {0} /\ t.begin < now
    BY Zenon DEF Running
  <2> QED BY <2>1
<1>6. ASSUME NEW i \in 1..n
      PROVE  Within(cs[i], t.begin, now) /\ (cs[i].end \in t.begin..now \/ i \in Elements(gr))
  <2>1. CASE i = k
    <3>1. cs[i] = c
      BY <1>2, <2>1
    <3> QED BY <2>1, <3>1
  <2>2. CASE i # k
    <3>1. cs[i] = t.calls[i]
      BY <1>2, <2>2
    <3>2. /\ Within(cs[i], t.begin, now - 1)
          /\ cs[i].end \in t.begin..(now - 1) \/ i \in Elements(fr)
      BY <3>1, Zenon DEF Running
    <3>3. Within(cs[i], t.begin, now)
      BY <1>5, <3>2, WithinLonger
    <3>4. cs[i].end \in t.begin..(now - 1) => cs[i].end \in t.begin..now
      BY <1>5
    <3> QED BY <2>2, <3>2, <3>3, <3>4
  <2> QED BY <2>1, <2>2
<1>7. u.begin < now + 1 /\ u.begin \in Nat \ {0}
  BY <1>4, <1>5
<1>8. \A i \in 1..Len(u.calls) :
          /\ Within(u.calls[i], u.begin, (now + 1) - 1)
          /\ u.calls[i].end \in u.begin..((now + 1) - 1) \/ i \in Elements(gr)
  BY <1>3, <1>4, <1>5, <1>6
<1> QED BY <1>7, <1>8, Zenon DEF Running

\* A call more.
LEMMA CallBegun ==
    ASSUME NEW t, NodeTrx(t), NEW fr, NEW now \in Nat, Running(t, fr, now),
           NEW c, Within(c, t.begin, now),
           NEW gr, Elements(gr) = Elements(fr) \cup {Len(t.calls) + 1},
           NEW u, u = [t EXCEPT !.calls = Append(t.calls, c)]
    PROVE  Running(u, gr, now + 1)
<1> DEFINE n == Len(t.calls)
           cs == Append(t.calls, c)
<1>1. n \in Nat /\ Len(cs) = n + 1 /\ (\A i \in 1..n : cs[i] = t.calls[i]) /\ cs[n + 1] = c
  BY AppendAny DEF NodeTrx, NodeCalls, Listed
<1> HIDE DEF cs
<1>2. u.calls = cs /\ u.begin = t.begin
  <2>1. TrxFields \subseteq DOMAIN t /\ u = [t EXCEPT !.calls = cs]
    BY DEF NodeTrx, cs
  <2> QED BY <2>1 DEF TrxFields
<1>3. t.begin \in Nat \ {0} /\ t.begin < now + 1 /\ now - 1 \in Nat /\ now - 1 <= now
      /\ (now + 1) - 1 = now
  <2>1. t.begin \in Nat \ {0} /\ t.begin < now
    BY Zenon DEF Running
  <2> QED BY <2>1
<1>4. ASSUME NEW i \in 1..(n + 1)
      PROVE  Within(cs[i], t.begin, now) /\ (cs[i].end \in t.begin..now \/ i \in Elements(gr))
  <2>1. CASE i = n + 1
    BY <1>1, <2>1
  <2>2. CASE i # n + 1
    <3>1. i \in 1..n /\ cs[i] = t.calls[i]
      BY <1>1, <2>2
    <3>2. /\ Within(cs[i], t.begin, now - 1)
          /\ cs[i].end \in t.begin..(now - 1) \/ i \in Elements(fr)
      BY <3>1, Zenon DEF Running
    <3>3. Within(cs[i], t.begin, now)
      BY <1>3, <3>2, WithinLonger
    <3>4. cs[i].end \in t.begin..(now - 1) => cs[i].end \in t.begin..now
      BY <1>3
    <3> QED BY <3>2, <3>3, <3>4
  <2> QED BY <2>1, <2>2
<1>5. u.begin < now + 1 /\ u.begin \in Nat \ {0}
  BY <1>2, <1>3
<1>6. \A i \in 1..Len(u.calls) :
          /\ Within(u.calls[i], u.begin, (now + 1) - 1)
          /\ u.calls[i].end \in u.begin..((now + 1) - 1) \/ i \in Elements(gr)
  BY <1>1, <1>2, <1>3, <1>4
<1> QED BY <1>5, <1>6, Zenon DEF Running

\* What it means for transactions to be in turn.
LEMMA InTurnFollows ==
    ASSUME NEW us, NEW base, InTurn(us, base)
    PROVE  /\ \A t \in ToSet(us) : t.hash # MergedHash =>
                  \A o \in TrxOrdinals(t) \ {0} : t.begin <= o /\ o <= t.end
           /\ \A i \in 1..Len(us) - 1 : us[i].end < us[i+1].begin
           /\ us[1].begin \in Nat /\ base[0] \in Nat /\ base[0] < us[1].begin
           /\ us[Len(us)].end = base[Len(us)] /\ base[Len(us)] \in Nat
<1>1. /\ Listed(us) /\ Len(us) \in Nat /\ Len(us) # 0 /\ ToSet(us) = Elements(us)
      /\ base \in [0..Len(us) -> Nat]
  BY ListedFacts, NotEmpty DEF InTurn
<1>2. \A i \in 1..Len(us) : /\ Timed(us[i])
                            /\ us[i].begin > base[i-1] /\ us[i].end = base[i]
  BY Zenon DEF InTurn
<1>3. ASSUME NEW t \in ToSet(us), t.hash # MergedHash, NEW o \in TrxOrdinals(t) \ {0}
      PROVE  t.begin <= o /\ o <= t.end
  <2>1. Timed(t)
    BY <1>1, <1>2 DEF Elements
  <2>2. /\ t.begin \in Nat /\ t.end \in Nat /\ t.begin <= t.end
        /\ Spanned(t.calls, t.begin, t.end)
    BY <1>3, <2>1 DEF Timed
  <2>3. \/ o = t.begin \/ o = t.end
        \/ \E c \in ToSet(t.calls) : o \in CallOrdinals(c)
    BY DEF TrxOrdinals
  <2>4. ASSUME NEW c \in ToSet(t.calls), o \in CallOrdinals(c)
        PROVE  o \in t.begin..t.end
    <3>1. Within(c, t.begin, t.end) /\ c.end \in t.begin..t.end
      <4>1. ToSet(t.calls) = Elements(t.calls)
        BY <2>2, ListedFacts DEF Spanned
      <4> QED BY <2>2, <4>1 DEF Spanned, Elements
    <3>2. o = c.begin \/ o = c.end \/ \E l \in ToSet(c.logs) : o = l.ord
      BY <2>4 DEF CallOrdinals
    <3>3. \A l \in ToSet(c.logs) : l.ord \in t.begin..t.end
      BY <3>1, DatedElements DEF Within
    <3>4. o # 0
      OBVIOUS
    <3> QED BY <3>1, <3>2, <3>3, <3>4, Zenon DEF Within
  <2> QED BY <2>2, <2>3, <2>4
<1>4. \A i \in 1..Len(us) - 1 : us[i].end < us[i+1].begin
  <2> SUFFICES ASSUME NEW i \in 1..Len(us) - 1
               PROVE  us[i].end < us[i+1].begin
    OBVIOUS
  <2>1. i \in 1..Len(us) /\ i + 1 \in 1..Len(us) /\ (i + 1) - 1 = i /\ i \in 0..Len(us)
    BY <1>1
  <2>2. us[i+1].begin \in Nat
    BY <1>2, <2>1 DEF Timed
  <2>3. us[i+1].begin > base[i] /\ us[i].end = base[i] /\ base[i] \in Nat
    BY <1>1, <1>2, <2>1
  <2> QED BY <2>2, <2>3
<1>5. us[1].begin \in Nat /\ base[0] \in Nat /\ base[0] < us[1].begin
  <2>1. 1 \in 1..Len(us) /\ 1 - 1 = 0 /\ 0 \in 0..Len(us)
    BY <1>1
  <2>2. us[1].begin \in Nat
    BY <1>2, <2>1 DEF Timed
  <2>3. us[1].begin > base[0] /\ base[0] \in Nat
    BY <1>1, <1>2, <2>1
  <2> QED BY <2>2, <2>3
<1>6. us[Len(us)].end = base[Len(us)] /\ base[Len(us)] \in Nat
  <2>1. Len(us) \in 1..Len(us) /\ Len(us) \in 0..Len(us)
    BY <1>1
  <2> QED BY <1>1, <1>2, <2>1
<1> QED BY <1>3, <1>4, <1>5, <1>6

\* The rewards before the transactions, and the one after them.
EarlyChanges(n) == [i \in 1..n |-> [kind |-> "BALANCE", ord |-> i]]

LateChange(n) == [kind |-> "BALANCE", ord |-> n + 1]

FirstOrdinal(n) == IF EarlyChanges(n) = << >> THEN 0 ELSE n + 1

ChangesAround(n, by) ==
    ShiftedChanges(Append(EarlyChanges(n), LateChange(n)), FirstOrdinal(n), by)

\* The first keep their ordinals, and the last stays behind everything.
LEMMA ChangesFollow ==
    ASSUME NEW n \in Nat, NEW by \in Nat
    PROVE  /\ \A i \in 1..n : ChangesAround(n, by)[i].ord = i /\ i < FirstOrdinal(n)
           /\ ChangesAround(n, by)[n + 1].ord = n + 1 + by
<1> DEFINE early == EarlyChanges(n)
           late == LateChange(n)
           first == FirstOrdinal(n)
           after == ChangesAround(n, by)
<1>1. Listed(early) /\ Len(early) = n
  <2>1. early = [i \in 1..n |-> early[i]]
    BY DEF EarlyChanges
  <2> QED BY <2>1, Tabled
<1>2. first \in Nat /\ (first = 0 \/ first = n + 1) /\ (n # 0 => first = n + 1)
  <2>1. n # 0 => early # << >>
    BY <1>1, NotEmpty
  <2> QED BY <2>1 DEF FirstOrdinal
<1> DEFINE all == Append(early, late)
<1>3. Len(all) = n + 1 /\ (\A i \in 1..n : all[i] = early[i]) /\ all[n + 1] = late
  BY <1>1, AppendAny DEF Listed
<1> HIDE DEF all, early, late, first, after
<1>4. \A i \in 1..(n + 1) :
          after[i] = IF all[i].ord >= first THEN [all[i] EXCEPT !.ord = all[i].ord + by]
                     ELSE all[i]
  BY <1>3, Zenon DEF ChangesAround, ShiftedChanges, all, early, late, first, after
<1>5. ASSUME NEW i \in 1..n
      PROVE  after[i].ord = i /\ i < first
  <2>1. all[i].ord = i /\ first = n + 1 /\ ~(i >= first) /\ i \in 1..(n + 1)
    <3>1. early[i] = [kind |-> "BALANCE", ord |-> i]
      BY DEF EarlyChanges, early
    <3>2. all[i].ord = i
      BY <1>3, <3>1
    <3>3. first = n + 1 /\ ~(i >= first) /\ i \in 1..(n + 1)
      BY <1>2
    <3> QED BY <3>2, <3>3
  <2>2. after[i] = all[i]
    BY <1>4, <2>1
  <2> QED BY <2>1, <2>2
<1>6. after[n + 1].ord = n + 1 + by
  <2>1. n + 1 \in 1..(n + 1) /\ n + 1 >= first
    BY <1>2
  <2>2. after[n + 1] = [late EXCEPT !.ord = late.ord + by]
    <3>1. all[n + 1] = late /\ late.ord >= first
      BY <1>3, <2>1 DEF late, LateChange
    <3> QED BY <1>4, <2>1, <3>1, Zenon
  <2> QED BY <2>2 DEF late, LateChange
<1> QED BY <1>5, <1>6 DEF first, after

LEMMA NotYetOrdered ==
    ASSUME Building, UNCHANGED result
    PROVE  OrdinalsFollowExecution'
BY Zenon DEF Building, OrdinalsFollowExecution, Normalized

LEMMA ClockStep ==
    ASSUME StartOrdinal # 0, NodeInv, ClockInv, [Next]_vars
    PROVE  ClockInv'
<1>1. ASSUME NEW kind \in bounds.kinds, NEW index \in Indexes(kind), BeginTrx(kind, index)
      PROVE  ClockInv'
  <2> DEFINE start == IF features.reorder THEN StartOrdinal ELSE clock
             root == [NewCall(1, "CALL", Recipient(kind), 0) EXCEPT !.caller = Sender(kind)]
             t == [NewTrx(Len(trxs) + 1, index, Recipient(kind), start, root, 1, FALSE)
                      EXCEPT !.from = Sender(kind)]
  <2>1. /\ open' = t /\ frames' = <<1>> /\ clock' = start + 2 /\ Building
        /\ UNCHANGED <<features, trxs, changes, result>>
    BY <1>1, Zenon DEF BeginTrx
  <2>2. start \in Nat \ {0}
    BY NormalizationAssumption DEF ClockInv
  <2>3. /\ CallFields \subseteq DOMAIN root /\ root.begin = 0
        /\ root.logs = << >> /\ root.changes = << >>
    <3>1. PICK a, c : a = Recipient(kind) /\ c = Sender(kind)
      OBVIOUS
    <3>2. root = [NewCall(1, "CALL", a, 0) EXCEPT !.caller = c]
      BY <3>1
    <3> HIDE DEF root
    <3> QED BY <3>2 DEF NewCall, CallFields
  <2> HIDE DEF root, start
  <2>4. t.begin = start /\ t.calls = <<root>>
    <3>1. PICK a, c : a = Recipient(kind) /\ c = Sender(kind)
      OBVIOUS
    <3>2. t = [NewTrx(Len(trxs) + 1, index, a, start, root, 1, FALSE) EXCEPT !.from = c]
      BY <3>1
    <3> HIDE DEF t
    <3> QED BY <3>2 DEF NewTrx
  <2> HIDE DEF t
  <2>5. Within(root, start, (start + 2) - 1)
    BY <2>3, NothingDated DEF Within
  <2>6. Running(t, <<1>>, start + 2)
    <3>1. start < start + 2
      BY <2>2
    <3>2. Len(<<root>>) = 1 /\ <<root>>[1] = root /\ Elements(<<1>>) = {1}
      BY DEF Elements
    <3>3. \A i \in 1..Len(t.calls) : i = 1 /\ t.calls[i] = root
      BY <2>4, <3>2
    <3> QED BY <2>2, <2>4, <2>5, <3>1, <3>2, <3>3 DEF Running
  <2>7. clock' \in Nat \ {0}
    BY <2>1, <2>2
  <2>8. OrdinalsFollowExecution'
    BY <2>1, NotYetOrdered
  <2> QED BY <2>1, <2>6, <2>7, <2>8 DEF ClockInv
<1>2. ASSUME NEW type \in bounds.callTypes, RunCall(type)
      PROVE  ClockInv'
  <2> DEFINE i == Len(open.calls) + 1
             parent == Last(frames)
             call == [NewCall(i, type, CalleeAddress(i), clock) EXCEPT
                         !.parent = parent, !.depth = Len(frames),
                         !.caller = open.calls[parent].address]
  <2>1. /\ open # Nil /\ frames # << >> /\ Building
        /\ open' = [open EXCEPT !.calls = Append(open.calls, call)]
        /\ frames' = Append(frames, i) /\ clock' = clock + 1
        /\ UNCHANGED <<features, trxs, changes, result>>
    BY <1>2, Zenon DEF RunCall
  <2>2. /\ NodeTrx(open) /\ frames \in Seq(1..Len(open.calls)) /\ Running(open, frames, clock)
        /\ clock \in Nat /\ open.begin \in Nat /\ open.begin < clock
    BY <2>1 DEF NodeInv, Nested, ClockInv, Running
  <2>3. Within(call, open.begin, clock)
    <3>1. PICK a, c : a = CalleeAddress(i) /\ c = open.calls[parent].address
      OBVIOUS
    <3>2. call = [NewCall(i, type, a, clock) EXCEPT !.parent = parent, !.depth = Len(frames),
                                                    !.caller = c]
      BY <3>1
    <3> HIDE DEF call, parent, i
    <3>3. /\ CallFields \subseteq DOMAIN call /\ call.begin = clock
          /\ call.logs = << >> /\ call.changes = << >>
      BY <3>2 DEF NewCall, CallFields
    <3>4. clock \in open.begin..clock
      BY <2>2
    <3> QED BY <3>3, <3>4, NothingDated DEF Within
  <2> HIDE DEF call
  <2>4. Elements(frames') = Elements(frames) \cup {i}
    <3> DEFINE T == (1..Len(open.calls)) \cup {i}
    <3>1. frames \in Seq(T) /\ i \in T
      BY <2>2
    <3> HIDE DEF T, i
    <3> QED BY <2>1, <3>1, ElementsAppended
  <2>5. Running(open', frames', clock + 1)
    BY <2>1, <2>2, <2>3, <2>4, CallBegun
  <2>6. OrdinalsFollowExecution'
    BY <2>1, NotYetOrdered
  <2>7. clock' \in Nat \ {0}
    BY <2>1, <2>2
  <2> QED BY <2>1, <2>5, <2>6, <2>7 DEF ClockInv
<1>3. ASSUME NEW k, NEW c,
             open # Nil, frames # << >>, Building,
             k = Last(frames), open' = [open EXCEPT !.calls = [open.calls EXCEPT ![k] = c]],
             Within(open.calls[k], open.begin, clock - 1) => Within(c, open.begin, clock),
             \/ c.end = clock /\ frames' = Front(frames)
             \/ CallFields \subseteq DOMAIN open.calls[k] =>
                    c.end = open.calls[k].end /\ frames' = frames,
             clock' = clock + 1, UNCHANGED <<features, trxs, changes, result>>
      PROVE  ClockInv'
  <2>1. /\ NodeTrx(open) /\ frames \in Seq(1..Len(open.calls)) /\ Running(open, frames, clock)
        /\ clock \in Nat /\ open.begin \in Nat /\ open.begin < clock
    BY <1>3 DEF NodeInv, Nested, ClockInv, Running
  <2>2. k \in 1..Len(open.calls) /\ k = frames[Len(frames)] /\ Len(frames) \in Nat \ {0}
    BY <1>3, <2>1 DEF Last
  <2>3. Within(open.calls[k], open.begin, clock - 1) /\ Within(c, open.begin, clock)
    BY <1>3, <2>1, <2>2, Zenon DEF Running
  <2>4. k \in Elements(frames)
    BY <2>2 DEF Elements
  <2>5. c.end \in open.begin..clock \/ k \in Elements(frames')
    <3>1. CASE c.end = clock
      BY <2>1, <3>1
    <3>2. CASE c.end = open.calls[k].end /\ frames' = frames
      BY <2>4, <3>2
    <3> QED BY <1>3, <2>3, <3>1, <3>2 DEF Within
  <2>6. \A j \in Elements(frames) : j \in Elements(frames') \/ j = k
    <3>1. CASE frames' = frames
      BY <3>1
    <3>2. CASE frames' = Front(frames)
      <4> DEFINE m == Len(frames) - 1
                 T == 1..Len(open.calls)
      <4>1. /\ 1 \in 1..(Len(frames) + 1) /\ m \in (1 - 1)..Len(frames) /\ m \in Nat
        BY <2>2
      <4> HIDE DEF m, T
      <4>2. frames \in Seq(T)
        BY <2>1 DEF T
      <4>3. /\ Len(SubSeq(frames, 1, m)) = IF 1 <= m THEN m - 1 + 1 ELSE 0
            /\ \A j \in 1..(m - 1 + 1) : SubSeq(frames, 1, m)[j] = frames[1 + j - 1]
        BY <4>1, <4>2, SubSeqProperties
      <4>4. frames' = SubSeq(frames, 1, m)
        BY <3>2, Zenon DEF Front, m
      <4>5. Len(frames') = m /\ \A j \in 1..m : frames'[j] = frames[j]
        BY <4>1, <4>3, <4>4
      <4>6. \A j \in 1..Len(frames) : j \in 1..m \/ j = Len(frames)
        BY <2>2 DEF m
      <4> QED BY <2>2, <4>5, <4>6 DEF Elements
    <3>3. CallFields \subseteq DOMAIN open.calls[k]
      BY <2>3 DEF Within
    <3> QED BY <1>3, <3>1, <3>2, <3>3
  <2>7. Running(open', frames', clock + 1)
    BY <1>3, <2>1, <2>2, <2>3, <2>5, <2>6, CallTimed
  <2>8. OrdinalsFollowExecution'
    BY <1>3, NotYetOrdered
  <2>9. clock' \in Nat \ {0}
    BY <1>3, <2>1
  <2> QED BY <1>3, <2>7, <2>8, <2>9 DEF ClockInv
<1>4. ASSUME NEW data \in LogData, AddLog(data)
      PROVE  ClockInv'
  <2> DEFINE k == Last(frames)
             log == [trx |-> open.hash, index |-> LogCount(open), data |-> data,
                     ord |-> clock, blockIndex |-> LogCount(open)]
  <2>1. /\ open # Nil /\ frames # << >> /\ Building
        /\ open' = [open EXCEPT !.calls[k].logs = Append(@, log)]
        /\ clock' = clock + 1
        /\ UNCHANGED <<features, trxs, frames, changes, result>>
    BY <1>4, Zenon DEF AddLog
  <2>2. "ord" \in DOMAIN log /\ log.ord = clock
    OBVIOUS
  <2> HIDE DEF log
  <2>3. PICK c : c = [open.calls[k] EXCEPT !.logs = Append(open.calls[k].logs, log)]
    OBVIOUS
  <2>4. open' = [open EXCEPT !.calls = [open.calls EXCEPT ![k] = c]]
    BY <2>1, <2>3, Zenon
  <2>5. CallFields \subseteq DOMAIN open.calls[k] =>
            /\ CallFields \subseteq DOMAIN c
            /\ c.begin = open.calls[k].begin /\ c.end = open.calls[k].end
            /\ c.logs = Append(open.calls[k].logs, log)
            /\ c.changes = open.calls[k].changes
    BY <2>3 DEF CallFields
  <2>6. clock \in Nat /\ open.begin \in Nat \ {0} /\ open.begin < clock
    BY <2>1 DEF ClockInv, Running
  <2>7. ASSUME Within(open.calls[k], open.begin, clock - 1)
        PROVE  Within(c, open.begin, clock)
    <3>1. Within(open.calls[k], open.begin, clock)
      <4>1. clock - 1 \in Nat /\ clock - 1 <= clock
        BY <2>6
      <4> QED BY <2>6, <2>7, <4>1, WithinLonger
    <3>2. clock \in open.begin..clock
      BY <2>6
    <3>3. Dated(Append(open.calls[k].logs, log), open.begin, clock)
      BY <2>2, <3>1, <3>2, DatedMore DEF Within
    <3> QED BY <2>5, <3>1, <3>3, Zenon DEF Within
  <2> QED BY <1>3, <2>1, <2>4, <2>5, <2>7
<1>5. ASSUME NEW ending \in bounds.endings, EndCall(ending)
      PROVE  ClockInv'
  <2> DEFINE k == Last(frames)
  <2>1. /\ open # Nil /\ frames # << >> /\ Building
        /\ open' = [open EXCEPT !.calls[k] =
                       [@ EXCEPT !.end = clock, !.statusFailed = ending # "ok",
                                 !.statusReverted = ending = "reverted"]]
        /\ frames' = Front(frames) /\ clock' = clock + 1
        /\ UNCHANGED <<features, trxs, changes, result>>
    BY <1>5, Zenon DEF EndCall
  <2>2. PICK failed, reverted : failed = (ending # "ok") /\ reverted = (ending = "reverted")
    OBVIOUS
  <2>3. PICK c : c = [open.calls[k] EXCEPT !.end = clock, !.statusFailed = failed,
                                           !.statusReverted = reverted]
    OBVIOUS
  <2>4. open' = [open EXCEPT !.calls = [open.calls EXCEPT ![k] = c]]
    BY <2>1, <2>2, <2>3, Zenon
  <2>5. CallFields \subseteq DOMAIN open.calls[k] =>
            /\ CallFields \subseteq DOMAIN c
            /\ c.begin = open.calls[k].begin /\ c.logs = open.calls[k].logs
            /\ c.changes = open.calls[k].changes /\ c.end = clock
    BY <2>3 DEF CallFields
  <2>6. clock \in Nat /\ clock - 1 \in Nat /\ clock - 1 <= clock /\ open.begin \in Nat
    BY <2>1 DEF ClockInv, Running
  <2>7. CallFields \subseteq DOMAIN open.calls[k]
    <3>1. NodeTrx(open) /\ frames \in Seq(1..Len(open.calls))
      BY <2>1, Zenon DEF NodeInv, Nested
    <3>2. k \in 1..Len(open.calls)
      BY <2>1, <3>1 DEF Last
    <3> QED BY <3>1, <3>2, Zenon DEF NodeTrx, NodeCalls
  <2>8. ASSUME Within(open.calls[k], open.begin, clock - 1)
        PROVE  Within(c, open.begin, clock)
    <3>1. Within(open.calls[k], open.begin, clock)
      BY <2>6, <2>8, WithinLonger
    <3> QED BY <2>5, <2>7, <3>1, StaysWithin DEF SameTimes
  <2> QED BY <1>3, <2>1, <2>4, <2>5, <2>7, <2>8
<1>6. CASE EndTrx
  <2>1. PICK receipt :
           /\ Building /\ open # Nil /\ frames = << >>
           /\ trxs' = Append(trxs, [open EXCEPT !.end = clock, !.receipt = receipt])
           /\ open' = Nil /\ clock' = clock + 1
           /\ UNCHANGED <<features, changes, result>>
    BY <1>6, Zenon DEF EndTrx
  <2>2. PICK t : t = [open EXCEPT !.end = clock, !.receipt = receipt]
    OBVIOUS
  <2>3. /\ NodeTrx(open) /\ Running(open, << >>, clock)
        /\ clock \in Nat \ {0} /\ open.begin \in Nat \ {0} /\ open.begin < clock
    BY <2>1 DEF NodeInv, Nested, ClockInv, Running
  <2>4. /\ TrxFields \subseteq DOMAIN t /\ t.index = open.index /\ t.begin = open.begin
        /\ t.end = clock /\ t.calls = open.calls
    <3>1. TrxFields \subseteq DOMAIN open
      BY <2>3, Zenon DEF NodeTrx
    <3> QED BY <2>2, <3>1 DEF TrxFields
  <2>5. Spanned(open.calls, open.begin, clock)
    <3>1. clock - 1 \in Nat /\ clock - 1 <= clock
      BY <2>3
    <3>2. ASSUME NEW i \in 1..Len(open.calls)
          PROVE  Within(open.calls[i], open.begin, clock)
                 /\ open.calls[i].end \in open.begin..clock
      <4>1. Elements(<< >>) = {}
        BY DEF Elements
      <4>2. /\ Within(open.calls[i], open.begin, clock - 1)
            /\ open.calls[i].end \in open.begin..(clock - 1)
        BY <2>3, <4>1 DEF Running
      <4>3. Within(open.calls[i], open.begin, clock)
        BY <2>3, <3>1, <4>2, WithinLonger
      <4>4. open.calls[i].end \in open.begin..clock
        BY <2>3, <4>2
      <4> QED BY <4>3, <4>4
    <3> QED BY <2>3, <3>2, Zenon DEF NodeTrx, NodeCalls, Spanned
  <2>6. Timed(t)
    <3>1. open.begin <= clock /\ open.index \in Nat
      BY <2>3 DEF NodeTrx
    <3> QED BY <2>3, <2>4, <2>5, <3>1 DEF Timed
  <2>7. \A s \in Elements(trxs') : Timed(s)
    <3>1. trxs \in Seq(Elements(trxs))
      BY ListedFacts DEF NodeInv, NodeTrxs
    <3> DEFINE T == Elements(trxs) \cup {t}
    <3>2. trxs \in Seq(T) /\ t \in T
      BY <3>1
    <3> HIDE DEF T
    <3>3. Elements(trxs') = Elements(trxs) \cup {t}
      BY <2>1, <2>2, <3>2, ElementsAppended
    <3> QED BY <2>6, <3>3 DEF ClockInv
  <2>8. OrdinalsFollowExecution'
    BY <2>1, NotYetOrdered
  <2>9. clock' \in Nat \ {0}
    BY <2>1, <2>3
  <2> QED BY <2>1, <2>7, <2>8, <2>9 DEF ClockInv
<1>7. CASE Normalize
  <2> DEFINE late == [kind |-> "BALANCE",
                      ord |-> IF features.reorder THEN Len(changes) + 1 ELSE clock]
             first == IF changes = << >> THEN 0 ELSE Len(changes) + 1
             block == [num |-> 1, ver |-> 2, seq |-> 1, trxs |-> trxs, sys |-> << >>,
                       changes |-> Append(changes, late)]
  <2>1. /\ trxs # << >> /\ open = Nil
        /\ UNCHANGED <<features, trxs, open, frames, clock, changes>>
        /\ result' = NormalizeInPlace(block, features, first)
    BY <1>7, Zenon DEF Normalize
  <2>2. SUFFICES ASSUME features.reorder PROVE OrdinalsFollowExecution'
    <3>1. features.reorder' = features.reorder
      BY <2>1
    <3>2. OrdinalsFollowExecution'
      BY <2>2, <3>1 DEF OrdinalsFollowExecution
    <3> QED BY <2>1, <3>2 DEF ClockInv
  <2>3. PICK n \in Nat : changes = [i \in 1..n |-> [kind |-> "BALANCE", ord |-> i]]
    BY DEF ClockInv
  <2>4. Len(changes) = n
    <3>1. changes = [i \in 1..n |-> changes[i]]
      BY <2>3
    <3> QED BY <3>1, Tabled
  <2>5. first \in Nat /\ first = IF changes = << >> THEN 0 ELSE n + 1
    BY <2>4
  <2>6. late = [kind |-> "BALANCE", ord |-> n + 1]
    BY <2>2, <2>4
  <2>7. /\ {"trxs", "ver", "changes"} \subseteq DOMAIN block /\ block.ver = 2
        /\ block.trxs = trxs /\ block.changes = Append(changes, late)
    OBVIOUS
  <2> HIDE DEF late, first, block
  <2>8. TimedTrxs(block.trxs)
    BY <2>1, <2>7 DEF TimedTrxs, ClockInv, NodeInv, NodeTrxs
  <2>9. PICK base :
           LET out == NormalizeInPlace(block, features, first).block IN
           /\ InTurn(out.trxs, base) /\ base[0] = first
           /\ out.changes = ShiftedChanges(block.changes, first, base[Len(out.trxs)])
    <3>1. PICK b, chain, f : b = block /\ chain = features /\ f = first
      OBVIOUS
    <3>2. /\ {"trxs", "ver", "changes"} \subseteq DOMAIN b /\ b.ver = 2 /\ TimedTrxs(b.trxs)
          /\ chain.reorder /\ f \in Nat
      BY <2>2, <2>5, <2>7, <2>8, <3>1
    <3>3. PICK base :
             LET out == NormalizeInPlace(b, chain, f).block IN
             /\ InTurn(out.trxs, base) /\ base[0] = f
             /\ out.changes = ShiftedChanges(b.changes, f, base[Len(out.trxs)])
      BY <3>2, NormalizedInTurn
    <3> QED BY <3>1, <3>3
  <2>10. PICK out : out = result'.block
    OBVIOUS
  <2>11. /\ InTurn(out.trxs, base) /\ base[0] = first
         /\ out.changes = ShiftedChanges(Append(changes, late), first, base[Len(out.trxs)])
    BY <2>1, <2>7, <2>9, <2>10
  <2> DEFINE us == out.trxs
  <2>12. /\ \A t \in ToSet(us) : t.hash # MergedHash =>
                \A o \in TrxOrdinals(t) \ {0} : t.begin <= o /\ o <= t.end
         /\ \A i \in 1..Len(us) - 1 : us[i].end < us[i+1].begin
         /\ us[1].begin \in Nat /\ base[0] \in Nat /\ base[0] < us[1].begin
         /\ us[Len(us)].end = base[Len(us)] /\ base[Len(us)] \in Nat
    BY <2>11, InTurnFollows
  <2>13. /\ \A i \in 1..n : out.changes[i].ord = i /\ i < first
         /\ out.changes[n + 1].ord = n + 1 + base[Len(us)]
    <3>1. PICK by \in Nat : by = base[Len(us)]
      BY <2>12
    <3>2. changes = EarlyChanges(n) /\ late = LateChange(n)
      BY <2>3, <2>6 DEF EarlyChanges, LateChange
    <3>3. first = FirstOrdinal(n)
      BY <2>5, <3>2 DEF FirstOrdinal
    <3>4. out.changes = ChangesAround(n, by)
      BY <2>11, <3>1, <3>2, <3>3 DEF ChangesAround
    <3>5. /\ \A i \in 1..n : ChangesAround(n, by)[i].ord = i /\ i < FirstOrdinal(n)
          /\ ChangesAround(n, by)[n + 1].ord = n + 1 + by
      BY ChangesFollow
    <3> QED BY <3>1, <3>3, <3>4, <3>5
  <2>14. /\ Out' = us /\ Len(changes') + 1 = n + 1 /\ result'.block.changes = out.changes
         /\ ToSet(us) \ Merged' = {t \in ToSet(us) : t.hash # MergedHash}
    BY <2>1, <2>4, <2>10 DEF Out, Merged
  <2>15. \A i \in 1..(n + 1) - 1 : out.changes[i].ord = i /\ out.changes[i].ord < us[1].begin
    BY <2>5, <2>11, <2>12, <2>13
  <2>16. us[Len(us)].end < out.changes[n + 1].ord
    BY <2>12, <2>13
  <2>17. \A t \in ToSet(us) \ Merged' : \A o \in TrxOrdinals(t) \ {0} : t.begin <= o /\ o <= t.end
    BY <2>12, <2>14
  <2> HIDE DEF us
  <2> QED BY <2>12, <2>14, <2>15, <2>16, <2>17, Zenon DEF OrdinalsFollowExecution
<1>8. CASE UNCHANGED vars
  BY <1>8, Zenon DEF vars, ClockInv, OrdinalsFollowExecution, Normalized, Out, Merged
<1> QED BY <1>1, <1>2, <1>4, <1>5, <1>6, <1>7, <1>8, Zenon DEF Next

\* reorderTransactionsAndRenumberOrdinals puts a block back in the order of execution,
\* if a node begins no transaction at ordinal 0: the last ordinal of a transaction is
\* what the next one is shifted by.
THEOREM OrdinalsFollow ==
    ASSUME StartOrdinal # 0
    PROVE  Spec => []OrdinalsFollowExecution
<1>1. Init => ClockInv
  <2> SUFFICES ASSUME Init PROVE ClockInv
    OBVIOUS
  <2>1. PICK n \in bounds.rewards :
            /\ changes = [i \in 1..n |-> [kind |-> "BALANCE", ord |-> i]]
            /\ clock = n + 1
    BY DEF Init
  <2>2. n \in Nat
    BY NormalizationAssumption DEF Init, bounds
  <2>3. trxs = << >> /\ open = Nil /\ result = Nil /\ Elements(<< >>) = {}
    BY DEF Init, Elements
  <2>4. clock \in Nat \ {0}
    BY <2>1, <2>2
  <2> QED BY <2>1, <2>2, <2>3, <2>4, Zenon DEF ClockInv, OrdinalsFollowExecution, Normalized
<1>2. NodeInv /\ ClockInv /\ [Next]_vars => ClockInv'
  BY ClockStep
<1>3. ClockInv => OrdinalsFollowExecution
  BY DEF ClockInv
<1> QED BY <1>1, <1>2, <1>3, NodeAlways, PTL DEF Spec

-----------------------------------------------------------------------------
(***************************************************************************)
(* Indexes of transactions in a block, and places of their calls.          *)
(***************************************************************************)
\* The transaction u of a block is the merged one or comes from one of ts, which,
\* when it is a normal one, it has the index of.
Comes(u, ts, combine) ==
    \/ u.hash = MergedHash
    \/ \E h \in 1..Len(ts) :
          /\ u.hash = h /\ ~(combine /\ Mergeable(ts[h]))
          /\ Normal(u) => Normal(ts[h]) /\ u.index = ts[h].index

\* us is what combining makes of ts: no transaction but the mergeable ones is lost
\* and none is there twice.
Placing(us, ts, combine) ==
    /\ Listed(us)
    /\ \A i \in 1..Len(us) : Comes(us[i], ts, combine)
    /\ \A h \in 1..Len(ts) : ~(combine /\ Mergeable(ts[h])) =>
           \E i \in 1..Len(us) : us[i].hash = h
    /\ \A i, j \in 1..Len(us) : us[i].hash = us[j].hash => i = j

IndexOf(us) == [i \in 1..Len(us) |-> us[i].index]

Contiguous(us) == \A i \in 1..Len(us) : us[i].index = i - 1

\* The normal transactions of a block.
Normals(ts) == {i \in 1..Len(ts) : Normal(ts[i])}

\* Every transaction is a normal one or one that combining knows.
Known(t) == Normal(t) \/ Mergeable(t) \/ Unmergeable(t)

\* The transactions of a node by their hashes, with the indexes that normalizeInPlace
\* counts on.
Ranked(ts) ==
    /\ Listed(ts)
    /\ \A j \in 1..Len(ts) : /\ ts[j].hash = j /\ ts[j].index \in Nat
                              /\ TrxFields \subseteq DOMAIN ts[j]
    /\ {ts[i].index : i \in Normals(ts)} = 0..(Cardinality(Normals(ts)) - 1)

\* The indexes of the normal transactions grow.
Ascending(ts) == \A i, j \in Normals(ts) : i < j => ts[i].index < ts[j].index

\* The normal transactions, taken in order, are numbered from 0 on.
LEMMA NormalsNumbered ==
    ASSUME NEW ts, Ranked(ts), NEW a \in Nat, NEW g, NEW p \in [1..a -> Normals(ts)],
           Increasing(p, a), \A x \in Normals(ts) : \E k \in 1..a : p[k] = x,
           \A k \in 1..a : g[k] = ts[p[k]].index
    PROVE  /\ Cardinality(Normals(ts)) = a
           /\ Numbers(g, a)
           /\ Ascending(ts) => \A k \in 1..a : g[k] = k - 1
<1> DEFINE N == Normals(ts)
           rank == [x \in N |-> ts[x].index]
<1>1. \A i, j \in 1..a : p[i] = p[j] => i = j
  BY DEF Increasing
<1>2. ImageOf(rank, N) = 0..(Cardinality(N) - 1)
  BY DEF Ranked, ImageOf
<1>3. \A k \in 1..a : g[k] = rank[p[k]]
  OBVIOUS
<1>4. Lists(p, a, N)
  BY <1>1 DEF Lists
<1>5. Cardinality(N) = a /\ Numbers(g, a)
  <2> HIDE DEF rank, N
  <2> QED BY <1>2, <1>3, <1>4, RanksNumber
<1>6. ASSUME Ascending(ts) PROVE \A k \in 1..a : g[k] = k - 1
  <2>1. ASSUME NEW i \in 1..a, NEW j \in 1..a, i < j PROVE g[i] < g[j]
    <3>1. p[i] < p[j] /\ p[i] \in Normals(ts) /\ p[j] \in Normals(ts)
      BY <2>1 DEF Increasing
    <3>2. ts[p[i]].index < ts[p[j]].index
      BY <1>6, <3>1 DEF Ascending
    <3> QED BY <3>2
  <2> QED BY <1>5, <2>1, NumbersInOrder
<1> QED BY <1>5, <1>6 DEF N

\* Without system transactions there is nothing to combine.
LEMMA UncombinedPlaced ==
    ASSUME NEW ts, Ranked(ts), \A i \in 1..Len(ts) : Normal(ts[i])
    PROVE  /\ Placing(ts, ts, FALSE) /\ Numbers(IndexOf(ts), Len(ts))
           /\ Ascending(ts) => Contiguous(ts)
<1> DEFINE n == Len(ts)
           p == [i \in 1..n |-> i]
<1>1. n \in Nat /\ Normals(ts) = 1..n
  BY ListedFacts DEF Ranked, Normals
<1>2. p \in [1..n -> Normals(ts)] /\ Increasing(p, n)
  BY <1>1 DEF Increasing
<1>3. \A x \in Normals(ts) : \E k \in 1..n : p[k] = x
  BY <1>1
<1> DEFINE g == IndexOf(ts)
<1>4. \A k \in 1..n : g[k] = ts[k].index /\ p[k] = k
  BY DEF IndexOf
<1> HIDE DEF p, g
<1>5. Numbers(g, n) /\ (Ascending(ts) => \A k \in 1..n : g[k] = k - 1)
  BY <1>1, <1>2, <1>3, <1>4, NormalsNumbered
<1>6. Placing(ts, ts, FALSE)
  BY DEF Placing, Comes, Ranked
<1> QED BY <1>4, <1>5, <1>6 DEF g, Contiguous

Unmergeables(ts) == {i \in 1..Len(ts) : Unmergeable(ts[i])}

\* us is the normal transactions of ts, at the positions p, the merged one when b is
\* not 0, and the unmergeable ones, at the positions q.
LaidOut(us, ts, a, b, c, p, q) ==
    /\ a \in Nat /\ b \in 0..1 /\ c \in Nat /\ Len(us) = a + b + c
    /\ p \in [1..a -> Normals(ts)] /\ Increasing(p, a)
    /\ \A x \in Normals(ts) : \E k \in 1..a : p[k] = x
    /\ q \in [1..c -> Unmergeables(ts)] /\ Increasing(q, c)
    /\ \A x \in Unmergeables(ts) : \E k \in 1..c : q[k] = x
    /\ \A k \in 1..a : us[k].hash = p[k] /\ us[k].index = ts[p[k]].index
    /\ \A k \in 1..b : us[a + k].hash = MergedHash /\ us[a + k].index = a
    /\ \A k \in 1..c : /\ us[a + b + k].hash = q[k] /\ us[a + b + k].index = a + b + k - 1
                        /\ ~Normal(us[a + b + k])

\* The part of a position, and its hash.
InPart(us, ts, a, b, c, p, q, i) ==
    \/ i \in 1..a /\ us[i].hash = p[i] /\ us[i].index = ts[p[i]].index
    \/ i = a + 1 /\ b = 1 /\ us[i].hash = MergedHash /\ us[i].index = i - 1
    \/ \E k \in 1..c : /\ i = a + b + k /\ us[i].hash = q[k] /\ us[i].index = i - 1
                        /\ ~Normal(us[i])

LEMMA PartOf ==
    ASSUME NEW us, NEW ts, NEW a, NEW b, NEW c, NEW p, NEW q, LaidOut(us, ts, a, b, c, p, q),
           NEW i \in 1..Len(us)
    PROVE  InPart(us, ts, a, b, c, p, q, i)
<1>1. a \in Nat /\ b \in 0..1 /\ c \in Nat /\ Len(us) = a + b + c
  BY DEF LaidOut
<1>2. CASE i <= a
  <2>1. i \in 1..a
    BY <1>1, <1>2
  <2>2. us[i].hash = p[i] /\ us[i].index = ts[p[i]].index
    BY <2>1, Zenon DEF LaidOut
  <2> QED BY <2>1, <2>2, Zenon DEF InPart
<1>3. CASE i > a /\ i <= a + b
  <2>1. i = a + 1 /\ b = 1 /\ 1 \in 1..b
    BY <1>1, <1>3
  <2>2. us[a + 1].hash = MergedHash /\ us[a + 1].index = a
    BY <2>1 DEF LaidOut
  <2>3. a = i - 1
    BY <1>1, <2>1
  <2>4. us[i].hash = MergedHash /\ us[i].index = i - 1
    BY <2>1, <2>2, <2>3
  <2> QED BY <2>1, <2>4, Zenon DEF InPart
<1>4. CASE i > a + b
  <2>1. PICK k \in 1..c : i = a + b + k
    <3>1. i - (a + b) \in 1..c /\ i = a + b + (i - (a + b))
      BY <1>1, <1>4
    <3> QED BY <3>1
  <2>2. /\ us[a + b + k].hash = q[k] /\ us[a + b + k].index = a + b + k - 1
        /\ ~Normal(us[a + b + k])
    BY Zenon DEF LaidOut
  <2>3. a + b + k - 1 = i - 1
    BY <1>1, <2>1
  <2>4. us[i].hash = q[k] /\ us[i].index = i - 1 /\ ~Normal(us[i])
    BY <2>1, <2>2, <2>3, Zenon
  <2> QED BY <2>1, <2>4, Zenon DEF InPart
<1> QED BY <1>1, <1>2, <1>3, <1>4

LEMMA LaidOutPlacing ==
    ASSUME NEW us, Listed(us), NEW ts, Ranked(ts), \A i \in 1..Len(ts) : Known(ts[i]),
           NEW a, NEW b, NEW c, NEW p, NEW q, LaidOut(us, ts, a, b, c, p, q),
           \A k \in 1..a : Normal(us[k])
    PROVE  Placing(us, ts, TRUE)
<1>1. a \in Nat /\ b \in 0..1 /\ c \in Nat /\ Len(us) = a + b + c
  BY DEF LaidOut
<1>2. /\ \A k \in 1..a : p[k] \in 1..Len(ts) /\ Normal(ts[p[k]])
      /\ \A k \in 1..c : q[k] \in 1..Len(ts) /\ Unmergeable(ts[q[k]])
  BY DEF LaidOut, Normals, Unmergeables
<1>3. \A j \in 1..Len(ts) : /\ Normal(ts[j]) => ~Mergeable(ts[j]) /\ ~Unmergeable(ts[j])
                            /\ Unmergeable(ts[j]) => ~Mergeable(ts[j])
  BY DEF Normal, Mergeable, Unmergeable, PolygonStateReceiverAddress, PolygonValidatorContract
<1>4. Len(ts) \in Nat
  BY ListedFacts DEF Ranked
<1>0. \A i \in 1..Len(us) : InPart(us, ts, a, b, c, p, q, i)
  BY PartOf
<1>5. ASSUME NEW i \in 1..Len(us) PROVE Comes(us[i], ts, TRUE)
  <2>1. CASE i \in 1..a /\ us[i].hash = p[i] /\ us[i].index = ts[p[i]].index
    BY <1>2, <1>3, <2>1, Zenon DEF Comes
  <2>2. CASE us[i].hash = MergedHash
    BY <2>2 DEF Comes
  <2>3. CASE \E k \in 1..c : us[i].hash = q[k] /\ ~Normal(us[i])
    BY <1>2, <1>3, <2>3, Zenon DEF Comes
  <2> QED BY <1>0, <2>1, <2>2, <2>3, Zenon DEF InPart
<1>6. ASSUME NEW h \in 1..Len(ts), ~(TRUE /\ Mergeable(ts[h]))
      PROVE  \E i \in 1..Len(us) : us[i].hash = h
  <2>1. CASE Normal(ts[h])
    <3>1. h \in Normals(ts)
      BY <2>1 DEF Normals
    <3>2. PICK k \in 1..a : p[k] = h
      BY <3>1 DEF LaidOut
    <3>3. k \in 1..Len(us) /\ us[k].hash = h
      BY <1>1, <3>2 DEF LaidOut
    <3> QED BY <3>3
  <2>2. CASE Unmergeable(ts[h])
    <3>1. h \in Unmergeables(ts)
      BY <2>2 DEF Unmergeables
    <3>2. PICK k \in 1..c : q[k] = h
      BY <3>1 DEF LaidOut
    <3>3. (a + b + k) \in 1..Len(us)
      BY <1>1
    <3>4. us[a + b + k].hash = h
      BY <3>2 DEF LaidOut
    <3> QED BY <3>3, <3>4
  <2> QED BY <1>6, <2>1, <2>2 DEF Known
<1>7. ASSUME NEW i \in 1..Len(us), NEW j \in 1..Len(us), us[i].hash = us[j].hash
      PROVE  i = j
  <2>1. MergedHash \notin 1..Len(ts)
    BY <1>4 DEF MergedHash
  <2>2. /\ \A k, m \in 1..a : p[k] = p[m] => k = m
        /\ \A k, m \in 1..c : q[k] = q[m] => k = m
    <3>1. Increasing(p, a) /\ Increasing(q, c)
      BY Zenon DEF LaidOut
    <3> QED BY <1>1, <3>1, IncreasingOnce
  <2>3. \A k \in 1..a : \A m \in 1..c : p[k] # q[m]
    BY <1>2, <1>3
  <2>4. CASE i \in 1..a /\ us[i].hash = p[i]
    <3>1. p[i] \in 1..Len(ts)
      BY <1>2, <2>4
    <3>2. j \in 1..a /\ us[j].hash = p[j]
      BY <1>0, <1>7, <2>1, <2>3, <2>4, <3>1, Zenon DEF InPart
    <3> QED BY <1>7, <2>2, <2>4, <3>2
  <2>5. CASE i = a + 1 /\ us[i].hash = MergedHash
    <3>1. j = a + 1
      <4>1. \A k \in 1..a : p[k] # us[j].hash
        BY <1>2, <1>7, <2>1, <2>5
      <4>2. \A k \in 1..c : q[k] # us[j].hash
        BY <1>2, <1>7, <2>1, <2>5
      <4> QED BY <1>0, <4>1, <4>2, Zenon DEF InPart
    <3> QED BY <2>5, <3>1
  <2>6. CASE \E k \in 1..c : i = a + b + k /\ us[i].hash = q[k]
    <3>1. PICK k \in 1..c : i = a + b + k /\ us[i].hash = q[k]
      BY <2>6
    <3>2. q[k] \in 1..Len(ts)
      BY <1>2
    <3>3. PICK m \in 1..c : j = a + b + m /\ us[j].hash = q[m]
      <4>1. \A m \in 1..a : p[m] # us[j].hash
        BY <1>7, <2>3, <3>1
      <4>2. us[j].hash # MergedHash
        BY <1>7, <2>1, <3>1, <3>2
      <4> QED BY <1>0, <4>1, <4>2, Zenon DEF InPart
    <3>4. k = m
      BY <1>7, <2>2, <3>1, <3>3
    <3> QED BY <3>1, <3>3, <3>4
  <2> QED BY <1>0, <2>4, <2>5, <2>6, Zenon DEF InPart
<1> QED BY <1>5, <1>6, <1>7 DEF Placing

LEMMA LaidOutNumbered ==
    ASSUME NEW us, NEW ts, Ranked(ts),
           NEW a, NEW b, NEW c, NEW p, NEW q, LaidOut(us, ts, a, b, c, p, q)
    PROVE  Numbers(IndexOf(us), Len(us)) /\ (Ascending(ts) => Contiguous(us))
<1>1. a \in Nat /\ b \in 0..1 /\ c \in Nat /\ Len(us) = a + b + c
  BY DEF LaidOut
<1>2. PICK f : f = IndexOf(us)
  OBVIOUS
<1>3. \A i \in 1..Len(us) : f[i] = us[i].index
  BY <1>2 DEF IndexOf
<1>4. \A k \in 1..a : f[k] = ts[p[k]].index
  <2>1. \A k \in 1..a : k \in 1..Len(us)
    BY <1>1
  <2>2. \A k \in 1..a : us[k].index = ts[p[k]].index
    BY Zenon DEF LaidOut
  <2> QED BY <1>3, <2>1, <2>2
<1>5. Numbers(f, a) /\ (Ascending(ts) => \A k \in 1..a : f[k] = k - 1)
  <2>1. /\ p \in [1..a -> Normals(ts)] /\ Increasing(p, a)
        /\ \A x \in Normals(ts) : \E k \in 1..a : p[k] = x
    BY Zenon DEF LaidOut
  <2>2. /\ Cardinality(Normals(ts)) = a /\ Numbers(f, a)
        /\ Ascending(ts) => \A k \in 1..a : f[k] = k - 1
    <3>1. a \in Nat
      BY <1>1
    <3> QED BY <1>4, <2>1, <3>1, NormalsNumbered, SMTT(30)
  <2> QED BY <2>2
<1>6. \A i \in 1..Len(us) : i \notin 1..a => f[i] = i - 1
  <2>1. \A i \in 1..Len(us) : InPart(us, ts, a, b, c, p, q, i)
    BY PartOf
  <2> QED BY <1>3, <2>1, Zenon DEF InPart
<1>7. \A i \in 1..Len(us) : f[i] \in 0..(Len(us) - 1) /\ (i \in 1..a <=> f[i] \in 0..(a - 1))
  BY <1>1, <1>5, <1>6 DEF Numbers
<1>8. ASSUME NEW x \in 0..(Len(us) - 1) PROVE \E i \in 1..Len(us) : f[i] = x
  <2>1. CASE x \in 0..(a - 1)
    <3>1. PICK i \in 1..a : f[i] = x
      BY <1>5, <2>1 DEF Numbers
    <3>2. i \in 1..Len(us)
      BY <1>1
    <3> QED BY <3>1, <3>2
  <2>2. CASE x \notin 0..(a - 1)
    <3>1. (x + 1) \in 1..Len(us) /\ (x + 1) \notin 1..a /\ (x + 1) - 1 = x
      BY <1>1, <2>2
    <3>2. f[x + 1] = x
      BY <1>6, <3>1
    <3> QED BY <3>1, <3>2
  <2> QED BY <2>1, <2>2
<1>9. ASSUME NEW i \in 1..Len(us), NEW j \in 1..Len(us), f[i] = f[j] PROVE i = j
  <2>1. CASE i \in 1..a
    <3>1. j \in 1..a
      BY <1>7, <1>9, <2>1
    <3> QED BY <1>5, <1>9, <2>1, <3>1 DEF Numbers
  <2>2. CASE i \notin 1..a
    <3>1. j \notin 1..a
      BY <1>7, <1>9, <2>2
    <3> QED BY <1>6, <1>9, <2>2, <3>1
  <2> QED BY <2>1, <2>2
<1>10. Numbers(f, Len(us))
  BY <1>7, <1>8, <1>9 DEF Numbers
<1>11. Ascending(ts) => Contiguous(us)
  BY <1>3, <1>5, <1>6 DEF Contiguous
<1> QED BY <1>2, <1>10, <1>11

\* The transactions that are merged.
MergeablesOf(ts) == Select(ts, {t \in ToSet(ts) : Mergeable(t)})

\* So us is what combining makes of ts, hashes those of the merged transaction and of the
\* unmergeable ones, which are what they were but for their indexes.
Combines(us, hashes, ts, a, b, c, p, q) ==
    /\ Listed(us) /\ LaidOut(us, ts, a, b, c, p, q)
    /\ \A k \in 1..a : us[k] = ts[p[k]]
    /\ \A k \in 1..b : /\ us[a + k] = MergedSystemTrx(MergeablesOf(ts), a)
                        /\ MergeablesOf(ts) # << >>
    /\ \A k \in 1..c : us[a + b + k] = [ts[q[k]] EXCEPT !.index = a + b + k - 1]
    /\ \A i \in 1..Len(us) : us[i].hash \in hashes <=> i > a

LEMMA CombinedParts ==
    ASSUME NEW ts, Ranked(ts), \A i \in 1..Len(ts) : Known(ts[i])
    PROVE  LET made == CombinePolygonSystemTransactions(ts) IN
           \E a, b, c, p, q : Combines(made.trxs, made.systemHashes, ts, a, b, c, p, q)
<1> DEFINE N == {t \in ToSet(ts) : ~Mergeable(t) /\ ~Unmergeable(t)}
           U == {t \in ToSet(ts) : Unmergeable(t)}
           normal == Select(ts, N)
           merge == Select(ts, {t \in ToSet(ts) : Mergeable(t)})
           unmerge == Select(ts, U)
           next == NextIndex(normal)
           system == MergedSystemTrx(merge, next)
           merged == IF merge = << >> THEN << >> ELSE <<system>>
           moved == [i \in 1..Len(unmerge) |->
                       [unmerge[i] EXCEPT !.index = next + Len(merged) + i - 1]]
           us == CombinePolygonSystemTransactions(ts).trxs
           hashes == CombinePolygonSystemTransactions(ts).systemHashes
<1>1. us = (normal \o merged) \o moved /\ hashes = {t.hash : t \in ToSet(merged \o moved)}
  <2>1. CombinePolygonSystemTransactions(ts) =
            [trxs |-> normal \o merged \o moved,
             systemHashes |-> {t.hash : t \in ToSet(merged \o moved)}]
    BY ZenonT(40) DEF CombinePolygonSystemTransactions
  <2> HIDE DEF normal, merged, moved
  <2> QED BY <2>1
<1>2. /\ ts \in Seq(Elements(ts)) /\ ToSet(ts) = Elements(ts) /\ Len(ts) \in Nat
      /\ \A i \in 1..Len(ts) : ts[i] \in ToSet(ts)
  <2>1. Listed(ts)
    BY Zenon DEF Ranked
  <2>2. ts \in Seq(Elements(ts)) /\ ToSet(ts) = Elements(ts) /\ Len(ts) \in Nat
    BY <2>1, ListedFacts, Zenon
  <2>3. \A i \in 1..Len(ts) : ts[i] \in Elements(ts)
    BY Zenon DEF Elements
  <2> QED BY <2>2, <2>3, Zenon
<1>3. \A i \in 1..Len(ts) : /\ ts[i] \in N <=> i \in Normals(ts)
                            /\ ts[i] \in U <=> i \in Unmergeables(ts)
  <2>1. \A i \in 1..Len(ts) : /\ Normal(ts[i]) => ~Mergeable(ts[i]) /\ ~Unmergeable(ts[i])
                              /\ Known(ts[i])
    BY DEF Normal, Mergeable, Unmergeable
  <2> QED BY <1>2, <2>1, Zenon DEF Known, Normals, Unmergeables
<1>4. normal \in Seq(Elements(ts)) /\ unmerge \in Seq(Elements(ts))
  <2> HIDE DEF N, U
  <2> QED BY <1>2, SelectInOrder
<1>5. PICK p : TakenAt(normal, ts, N, p)
  <2> HIDE DEF N, normal
  <2> QED BY <1>2, SelectInOrder DEF normal
<1>6. PICK q : TakenAt(unmerge, ts, U, q)
  <2> HIDE DEF U, unmerge
  <2> QED BY <1>2, SelectInOrder DEF unmerge
<1>0. merge = MergeablesOf(ts)
  BY Zenon DEF MergeablesOf
<1> HIDE DEF normal, merge, unmerge, us, hashes, N, U
<1>7. PICK a, c \in Nat : a = Len(normal) /\ c = Len(unmerge)
  BY <1>4
<1>8. /\ p \in [1..a -> Normals(ts)] /\ Increasing(p, a)
      /\ \A x \in Normals(ts) : \E k \in 1..a : p[k] = x
      /\ \A k \in 1..a : normal[k] = ts[p[k]]
  <2>1. /\ p \in [1..a -> 1..Len(ts)] /\ Increasing(p, a)
        /\ \A k \in 1..a : normal[k] = ts[p[k]] /\ normal[k] \in N
        /\ \A i \in 1..Len(ts) : ts[i] \in N => \E k \in 1..a : p[k] = i
    BY <1>5, <1>7, Zenon DEF TakenAt
  <2>2. \A k \in 1..a : p[k] \in Normals(ts)
    BY <1>3, <2>1
  <2>3. \A x \in Normals(ts) : x \in 1..Len(ts)
    BY DEF Normals
  <2> QED BY <1>3, <2>1, <2>2, <2>3
<1>9. /\ q \in [1..c -> Unmergeables(ts)] /\ Increasing(q, c)
      /\ \A x \in Unmergeables(ts) : \E k \in 1..c : q[k] = x
      /\ \A k \in 1..c : unmerge[k] = ts[q[k]]
  <2>1. /\ q \in [1..c -> 1..Len(ts)] /\ Increasing(q, c)
        /\ \A k \in 1..c : unmerge[k] = ts[q[k]] /\ unmerge[k] \in U
        /\ \A i \in 1..Len(ts) : ts[i] \in U => \E k \in 1..c : q[k] = i
    BY <1>6, <1>7, Zenon DEF TakenAt
  <2>2. \A k \in 1..c : q[k] \in Unmergeables(ts)
    BY <1>3, <2>1
  <2>3. \A x \in Unmergeables(ts) : x \in 1..Len(ts)
    BY DEF Unmergeables
  <2> QED BY <1>3, <2>1, <2>2, <2>3
<1>10. /\ \A k \in 1..a : p[k] \in 1..Len(ts) /\ Normal(ts[p[k]])
       /\ \A k \in 1..c : q[k] \in 1..Len(ts) /\ Unmergeable(ts[q[k]])
  BY <1>8, <1>9 DEF Normals, Unmergeables
<1>11. \A j \in 1..Len(ts) : /\ ts[j].hash = j /\ ts[j].index \in Nat
                             /\ TrxFields \subseteq DOMAIN ts[j]
  BY Zenon DEF Ranked
<1>12. Listed(normal) /\ Listed(unmerge)
  BY <1>4 DEF Listed
<1>13. next = a
  <2>1. /\ Elements(normal) = {normal[k] : k \in 1..a}
        /\ \A k \in 1..a : normal[k].index = ts[p[k]].index /\ normal[k].index \in Nat
    BY <1>7, <1>8, <1>10, <1>11 DEF Elements
  <2>2. PICK f : f = [k \in 1..a |-> normal[k].index]
    OBVIOUS
  <2>3. \A k \in 1..a : f[k] = ts[p[k]].index /\ f[k] = normal[k].index
    BY <2>1, <2>2
  <2>4. Numbers(f, a)
    BY <1>8, <2>3, NormalsNumbered
  <2>5. /\ next \in Nat /\ \A t \in Elements(normal) : t.index < next
        /\ next = 0 \/ \E t \in Elements(normal) : next = t.index + 1
    BY <1>12, <2>1, HighestIndex
  <2> HIDE DEF next
  <2>6. \A k \in 1..a : f[k] < next
    BY <2>1, <2>3, <2>5
  <2>7. next = 0 \/ \E k \in 1..a : next = f[k] + 1
    BY <2>1, <2>3, <2>5
  <2>8. next <= a
    BY <2>4, <2>7 DEF Numbers
  <2>9. CASE a = 0
    BY <2>5, <2>8, <2>9
  <2>10. CASE a # 0
    <3>1. a - 1 \in 0..(a - 1)
      BY <2>10
    <3>2. PICK k \in 1..a : f[k] = a - 1
      BY <2>4, <3>1 DEF Numbers
    <3> QED BY <2>5, <2>6, <2>8, <3>2
  <2> QED BY <2>9, <2>10
<1>14. system.hash = MergedHash /\ system.index = next
  <2>1. PICK begin, end, calls, receipt, born, done :
            system = [hash |-> MergedHash, index |-> next, from |-> NullAddress,
                      to |-> NullAddress, begin |-> begin, end |-> end,
                      status |-> "SUCCEEDED", calls |-> calls, receipt |-> receipt,
                      born |-> born, done |-> done, system |-> FALSE]
    BY Zenon DEF MergedSystemTrx
  <2> HIDE DEF system, next
  <2> QED BY <2>1
<1> HIDE DEF system, next
<1>15. PICK b \in 0..1 : /\ b = Len(merged) /\ Listed(merged)
                         /\ \A k \in 1..b : /\ merged[k] = system /\ k = 1
                                             /\ merge # << >>
  <2>1. CASE merge = << >>
    <3>1. merged = << >> /\ << >> \in Seq({}) /\ Len(<< >>) = 0
      BY <2>1
    <3> QED BY <3>1 DEF Listed
  <2>2. CASE merge # << >>
    <3>1. /\ merged = <<system>> /\ <<system>> \in Seq({system})
          /\ Len(<<system>>) = 1 /\ <<system>>[1] = system
      BY <2>2
    <3>2. Listed(merged) /\ Len(merged) = 1
      BY <3>1, Zenon DEF Listed
    <3> QED BY <2>2, <3>1, <3>2
  <2> QED BY <2>1, <2>2
<1> HIDE DEF merged
<1>16. /\ Listed(moved) /\ Len(moved) = c
       /\ \A k \in 1..c : /\ moved[k].hash = q[k] /\ moved[k].index = a + b + k - 1
                          /\ moved[k].from = PolygonSystemAddress
                          /\ moved[k] = [ts[q[k]] EXCEPT !.index = a + b + k - 1]
  <2>1. /\ moved = [i \in 1..c |-> moved[i]]
        /\ \A i \in 1..c : moved[i] = [unmerge[i] EXCEPT !.index = a + b + i - 1]
    BY <1>7, <1>13, <1>15
  <2> HIDE DEF moved
  <2>2. Listed(moved) /\ Len(moved) = c
    BY <2>1, Tabled
  <2>3. ASSUME NEW k \in 1..c
        PROVE  /\ moved[k].hash = q[k] /\ moved[k].index = a + b + k - 1
               /\ moved[k].from = PolygonSystemAddress
               /\ moved[k] = [ts[q[k]] EXCEPT !.index = a + b + k - 1]
    <3>1. PICK t, x : t = unmerge[k] /\ x = a + b + k - 1
      OBVIOUS
    <3>2. t = ts[q[k]] /\ q[k] \in 1..Len(ts) /\ Unmergeable(t)
      BY <1>9, <1>10, <3>1
    <3>3. t.hash = q[k] /\ TrxFields \subseteq DOMAIN t /\ t.from = PolygonSystemAddress
      BY <1>11, <3>2, Zenon DEF Unmergeable
    <3>4. moved[k] = [t EXCEPT !.index = x]
      BY <2>1, <3>1
    <3>5. moved[k].hash = t.hash /\ moved[k].index = x /\ moved[k].from = t.from
      BY <3>3, <3>4 DEF TrxFields
    <3>6. moved[k] = [ts[q[k]] EXCEPT !.index = a + b + k - 1]
      BY <3>1, <3>2, <3>4
    <3> QED BY <3>1, <3>3, <3>5, <3>6
  <2> QED BY <2>2, <2>3
<1> HIDE DEF moved
<1>17. /\ Listed(us) /\ Len(us) = a + b + c
       /\ \A i \in 1..a : us[i] = normal[i]
       /\ \A i \in 1..b : us[a + i] = merged[i]
       /\ \A i \in 1..c : us[a + b + i] = moved[i]
  <2>1. Listed(us) /\ ThreeParts(us, normal, merged, moved)
    BY <1>1, <1>12, <1>15, <1>16, ThreeJoined
  <2> QED BY <1>7, <1>15, <1>16, <2>1 DEF ThreeParts
<1>18. /\ \A k \in 1..a : us[k].hash = p[k] /\ us[k].index = ts[p[k]].index /\ Normal(us[k])
       /\ \A k \in 1..b : us[a + k].hash = MergedHash /\ us[a + k].index = a
       /\ \A k \in 1..c : /\ us[a + b + k].hash = q[k] /\ us[a + b + k].index = a + b + k - 1
                          /\ ~Normal(us[a + b + k])
  <2>1. ASSUME NEW k \in 1..a
        PROVE  us[k].hash = p[k] /\ us[k].index = ts[p[k]].index /\ Normal(us[k])
    <3>1. us[k] = ts[p[k]] /\ p[k] \in 1..Len(ts) /\ Normal(ts[p[k]])
      BY <1>8, <1>10, <1>17
    <3> QED BY <1>11, <3>1
  <2>2. ASSUME NEW k \in 1..b PROVE us[a + k].hash = MergedHash /\ us[a + k].index = a
    BY <1>13, <1>14, <1>15, <1>17
  <2>3. ASSUME NEW k \in 1..c
        PROVE  /\ us[a + b + k].hash = q[k] /\ us[a + b + k].index = a + b + k - 1
               /\ ~Normal(us[a + b + k])
    <3>1. us[a + b + k] = moved[k]
      BY <1>17
    <3> QED BY <1>16, <3>1 DEF Normal
  <2> QED BY <2>1, <2>2, <2>3
<1>19. LaidOut(us, ts, a, b, c, p, q)
  BY <1>8, <1>9, <1>17, <1>18, Zenon DEF LaidOut
<1>20. \A i \in 1..Len(us) : us[i].hash \in hashes <=> i > a
  <2>1. hashes = {t.hash : t \in Elements(merged) \cup Elements(moved)}
    <3>1. /\ Listed(merged \o moved)
          /\ Elements(merged \o moved) = Elements(merged) \cup Elements(moved)
      <4> DEFINE T == Elements(merged) \cup Elements(moved)
      <4>1. merged \in Seq(Elements(merged)) /\ moved \in Seq(Elements(moved))
        BY <1>15, <1>16, ListedFacts
      <4>2. merged \in Seq(T) /\ moved \in Seq(T)
        BY <4>1
      <4> HIDE DEF T
      <4>3. /\ merged \o moved \in Seq(T)
            /\ Elements(merged \o moved) = Elements(merged) \cup Elements(moved)
        BY <4>2, ElementsJoined
      <4> QED BY <4>3, Zenon DEF Listed
    <3>2. ToSet(merged \o moved) = Elements(merged) \cup Elements(moved)
      BY <3>1, ListedFacts
    <3> QED BY <1>1, <3>2
  <2>2. \A h : h \in hashes <=> (b = 1 /\ h = MergedHash) \/ \E k \in 1..c : h = q[k]
    <3>1. Elements(merged) = {merged[k] : k \in 1..b} /\ Elements(moved) = {moved[k] : k \in 1..c}
      BY <1>15, <1>16 DEF Elements
    <3>2. b = 0 \/ b = 1
      OBVIOUS
    <3>3. \A t \in Elements(merged) : b = 1 /\ t.hash = MergedHash
      BY <1>14, <1>15, <3>1, <3>2
    <3>4. b = 1 => merged[1] \in Elements(merged) /\ merged[1].hash = MergedHash
      BY <1>14, <1>15, <3>1
    <3>5. \A k \in 1..c : moved[k].hash = q[k] /\ moved[k] \in Elements(moved)
      BY <1>16, <3>1
    <3>6. \A t \in Elements(moved) : \E k \in 1..c : t.hash = q[k]
      BY <3>1, <3>5
    <3> QED BY <2>1, <3>3, <3>4, <3>5, <3>6
  <2>3. ASSUME NEW i \in 1..Len(us), i > a PROVE us[i].hash \in hashes
    <3>1. InPart(us, ts, a, b, c, p, q, i)
      BY <1>19, PartOf
    <3>2. i \notin 1..a
      BY <1>7, <2>3
    <3> QED BY <2>2, <3>1, <3>2, Zenon DEF InPart
  <2>4. ASSUME NEW i \in 1..Len(us), ~(i > a) PROVE us[i].hash \notin hashes
    <3>1. i \in 1..a
      BY <1>7, <2>4
    <3>2. us[i].hash = p[i] /\ p[i] \in 1..Len(ts) /\ Normal(ts[p[i]])
      BY <1>10, <1>18, <3>1
    <3>3. p[i] # MergedHash
      BY <3>2 DEF MergedHash
    <3>4. \A k \in 1..c : q[k] # p[i]
      BY <1>10, <3>2 DEF Normal, Unmergeable
    <3> QED BY <2>2, <3>2, <3>3, <3>4
  <2> QED BY <2>3, <2>4
<1>21. /\ \A k \in 1..a : us[k] = ts[p[k]]
       /\ \A k \in 1..b : us[a + k] = MergedSystemTrx(MergeablesOf(ts), a) /\ MergeablesOf(ts) # << >>
       /\ \A k \in 1..c : us[a + b + k] = [ts[q[k]] EXCEPT !.index = a + b + k - 1]
  <2>1. \A k \in 1..a : us[k] = ts[p[k]]
    BY <1>8, <1>17
  <2>2. \A k \in 1..b : us[a + k] = MergedSystemTrx(MergeablesOf(ts), a) /\ MergeablesOf(ts) # << >>
    BY <1>0, <1>13, <1>15, <1>17 DEF system
  <2>3. \A k \in 1..c : us[a + b + k] = [ts[q[k]] EXCEPT !.index = a + b + k - 1]
    BY <1>16, <1>17
  <2> QED BY <2>1, <2>2, <2>3
<1>22. Combines(us, hashes, ts, a, b, c, p, q)
  BY <1>17, <1>19, <1>20, <1>21, Zenon DEF Combines
<1> QED BY <1>22 DEF us, hashes

LEMMA CombinedPlaced ==
    ASSUME NEW ts, Ranked(ts), \A i \in 1..Len(ts) : Known(ts[i])
    PROVE  LET us == CombinePolygonSystemTransactions(ts).trxs IN
           /\ Placing(us, ts, TRUE) /\ Numbers(IndexOf(us), Len(us))
           /\ Ascending(ts) => Contiguous(us)
<1>1. PICK made : made = CombinePolygonSystemTransactions(ts)
  OBVIOUS
<1>2. PICK a, b, c, p, q : Combines(made.trxs, made.systemHashes, ts, a, b, c, p, q)
  BY <1>1, CombinedParts
<1>3. PICK us : us = made.trxs
  OBVIOUS
<1>4. /\ Listed(us) /\ LaidOut(us, ts, a, b, c, p, q)
      /\ \A k \in 1..a : us[k] = ts[p[k]]
  BY <1>2, <1>3, Zenon DEF Combines
<1>5. \A k \in 1..a : Normal(us[k])
  BY <1>4 DEF LaidOut, Normals
<1>6. Placing(us, ts, TRUE)
  BY <1>4, <1>5, LaidOutPlacing
<1>7. Numbers(IndexOf(us), Len(us)) /\ (Ascending(ts) => Contiguous(us))
  BY <1>4, LaidOutNumbered
<1> QED BY <1>1, <1>3, <1>6, <1>7

\* Sorting transactions by their indexes puts each where its index says.
LEMMA SortedPlaced ==
    ASSUME NEW us, Listed(us), Numbers(IndexOf(us), Len(us)), NEW ts, NEW combine,
           Placing(us, ts, combine), NEW key, \A i \in 1..Len(us) : key[i] = us[i].index
    PROVE  Placing(SortBy(us, key), ts, combine) /\ Contiguous(SortBy(us, key))
<1> DEFINE vs == SortBy(us, key)
           n == Len(us)
<1>1. us \in Seq(Elements(us)) /\ n \in Nat
  BY ListedFacts
<1>2. Numbers(key, n)
  <2>1. \A i \in 1..n : key[i] = IndexOf(us)[i]
    BY DEF IndexOf
  <2> QED BY <2>1, NumbersAlike
<1>3. \A i \in 1..n : key[i] \in Nat
  BY <1>1, <1>2 DEF Numbers
<1>4. vs \in Seq(Elements(us)) /\ \E p : SortedAt(vs, us, key, p)
  BY <1>1, <1>3, SortedInOrder
<1> HIDE DEF vs
<1>5. PICK p : SortedAt(vs, us, key, p)
  BY <1>4
<1>6. /\ Len(vs) = n /\ \A k \in 1..n : vs[k] = us[p[k]] /\ p[k] \in 1..n
      /\ \A i \in 1..n : \E k \in 1..n : p[k] = i
      /\ \A j, k \in 1..n : j < k => Before(key, p[j], p[k])
  BY <1>5 DEF SortedAt, Orders
<1>7. \A j, k \in 1..n : j < k => key[p[j]] < key[p[k]]
  <2> SUFFICES ASSUME NEW j \in 1..n, NEW k \in 1..n, j < k PROVE key[p[j]] < key[p[k]]
    OBVIOUS
  <2>1. Before(key, p[j], p[k]) /\ p[j] \in 1..n /\ p[k] \in 1..n
    BY <1>6
  <2>2. key[p[j]] = key[p[k]] => p[j] = p[k]
    <3>1. \A x, y \in 1..n : key[x] = key[y] => x = y
      BY <1>2, Zenon DEF Numbers
    <3> HIDE DEF n
    <3> QED BY <2>1, <3>1, Zenon
  <2>3. key[p[j]] \in Nat /\ key[p[k]] \in Nat /\ p[j] \in Nat /\ p[k] \in Nat
    BY <1>1, <1>3, <2>1
  <2>4. p[j] # p[k]
    BY <2>1, <2>3 DEF Before
  <2> QED BY <2>1, <2>2, <2>3, <2>4 DEF Before
<1> DEFINE f == [k \in 1..n |-> key[p[k]]]
<1>8. \A k \in 1..n : f[k] = key[p[k]]
  OBVIOUS
<1> HIDE DEF f
<1>9. \A j, k \in 1..n : j < k => f[j] < f[k]
  BY <1>7, <1>8
<1>10. Numbers(f, n)
  <2>1. \A k \in 1..n : f[k] \in 0..(n - 1)
    BY <1>2, <1>6, <1>8, ZenonT(40) DEF Numbers
  <2>2. ASSUME NEW x \in 0..(n - 1) PROVE \E k \in 1..n : f[k] = x
    <3>1. PICK i \in 1..n : key[i] = x
      BY <1>2 DEF Numbers
    <3>2. PICK k \in 1..n : p[k] = i
      BY <1>6
    <3> QED BY <1>8, <3>1, <3>2
  <2>3. \A j, k \in 1..n : f[j] = f[k] => j = k
    <3>1. ASSUME NEW j \in 1..n, NEW k \in 1..n, f[j] = f[k] PROVE j = k
      <4>1. ~(j < k) /\ ~(k < j)
        BY <1>9, <2>1, <3>1
      <4> QED BY <4>1
    <3> QED BY <3>1
  <2> QED BY <2>1, <2>2, <2>3 DEF Numbers
<1>11. \A k \in 1..n : f[k] = k - 1
  BY <1>1, <1>9, <1>10, NumbersInOrder
<1>12. Contiguous(vs)
  <2>1. \A k \in 1..n : vs[k].index = key[p[k]]
    BY <1>6
  <2> QED BY <1>6, <1>8, <1>11, <2>1 DEF Contiguous
<1>13. \A j, k \in 1..n : p[j] = p[k] => j = k
  <2>1. ASSUME NEW j \in 1..n, NEW k \in 1..n, p[j] = p[k] PROVE j = k
    <3>1. f[j] = f[k]
      BY <1>8, <2>1
    <3> QED BY <1>10, <3>1 DEF Numbers
  <2> QED BY <2>1
<1>14. Placing(vs, ts, combine)
  <2>1. Listed(vs)
    BY <1>4 DEF Listed
  <2>2. \A k \in 1..n : Comes(vs[k], ts, combine)
    <3>1. \A i \in 1..n : Comes(us[i], ts, combine)
      BY Zenon DEF Placing
    <3> QED BY <1>6, <3>1
  <2>3. ASSUME NEW h \in 1..Len(ts), ~(combine /\ Mergeable(ts[h]))
        PROVE  \E k \in 1..n : vs[k].hash = h
    <3>1. PICK i \in 1..n : us[i].hash = h
      BY <2>3 DEF Placing
    <3>2. PICK k \in 1..n : p[k] = i
      BY <1>6
    <3> QED BY <1>6, <3>1, <3>2
  <2>4. \A j, k \in 1..n : vs[j].hash = vs[k].hash => j = k
    <3>1. ASSUME NEW j \in 1..n, NEW k \in 1..n, vs[j].hash = vs[k].hash PROVE j = k
      <4>0. \A i, m \in 1..n : us[i].hash = us[m].hash => i = m
        BY Zenon DEF Placing
      <4>1. p[j] = p[k]
        <5>1. PICK x, y \in 1..n : x = p[j] /\ y = p[k]
          BY <1>6
        <5>2. us[x].hash = us[y].hash
          BY <1>6, <3>1, <5>1
        <5> QED BY <4>0, <5>1, <5>2
      <4> QED BY <1>13, <4>1
    <3> QED BY <3>1
  <2> QED BY <1>6, <2>1, <2>2, <2>3, <2>4 DEF Placing
<1> QED BY <1>12, <1>14 DEF vs

\* A pass that keeps hash, index and sender keeps the places.
LEMMA PassedPlaced ==
    ASSUME NEW us, NEW ts, NEW combine, Placing(us, ts, combine), Contiguous(us),
           NEW vs, Listed(vs), Len(vs) = Len(us),
           \A i \in 1..Len(us) : /\ vs[i].hash = us[i].hash /\ vs[i].index = us[i].index
                                 /\ vs[i].from = us[i].from
    PROVE  Placing(vs, ts, combine) /\ Contiguous(vs)
<1>1. \A i \in 1..Len(us) : Comes(vs[i], ts, combine)
  <2> SUFFICES ASSUME NEW i \in 1..Len(us) PROVE Comes(vs[i], ts, combine)
    OBVIOUS
  <2>1. Comes(us[i], ts, combine) /\ (Normal(vs[i]) <=> Normal(us[i]))
    BY DEF Placing, Normal
  <2> QED BY <2>1, Zenon DEF Comes
<1>2. Contiguous(vs)
  BY DEF Contiguous
<1> QED BY <1>1, <1>2, SMTT(30) DEF Placing

(***************************************************************************)
(* What the passes of normalizeInPlace make of the indexes.                *)
(***************************************************************************)

\* What is said of the transactions of a block is said of them once they are marked.
LEMMA RevertedPlaced ==
    ASSUME NEW ts, Listed(ts), NEW us, Len(us) = Len(ts),
           \A j \in 1..Len(ts) : /\ us[j].index = ts[j].index /\ us[j].from = ts[j].from
                                 /\ us[j].to = ts[j].to,
           NEW vs, NEW combine, Placing(vs, us, combine)
    PROVE  Placing(vs, ts, combine)
<1>1. \A j \in 1..Len(ts) : /\ Mergeable(us[j]) <=> Mergeable(ts[j])
                            /\ Normal(us[j]) <=> Normal(ts[j])
  BY DEF Mergeable, Normal
<1>2. \A i \in 1..Len(vs) : Comes(vs[i], us, combine) => Comes(vs[i], ts, combine)
  BY <1>1, Zenon DEF Comes
<1> QED BY <1>1, <1>2, Zenon DEF Placing

\* The transactions of a node that normalizeInPlace puts in order.
Orderly(ts, chain) ==
    /\ chain.combine \in BOOLEAN
    /\ \A i \in 1..Len(ts) : Known(ts[i]) /\ (chain.combine \/ Normal(ts[i]))
    /\ {ts[i].index : i \in Normals(ts)} = 0..(Cardinality(Normals(ts)) - 1)
    /\ chain.reorder \/ Ascending(ts)

\* Each transaction of the result is at its index, with a tree of calls.
Arranged(us, ts, combine) ==
    /\ Placing(us, ts, combine) /\ Contiguous(us)
    /\ \A t \in Elements(us) : NodeCalls(t.calls)

LEMMA NormalizedPlaced ==
    ASSUME NEW block, {"trxs", "ver", "changes"} \subseteq DOMAIN block,
           block.ver = 2, NodeTrxs(block.trxs), NEW chain, Orderly(block.trxs, chain), NEW first
    PROVE  Arranged(NormalizeInPlace(block, chain, first).block.trxs, block.trxs, chain.combine)
<1> DEFINE bs == block.trxs
           us == MapSeq(bs, Revert)
           cs == IF chain.combine THEN CombinePolygonSystemTransactions(us).trxs ELSE us
           out == NormalizeInPlace(block, chain, first).block
<1>1. PICK ts : /\ Family(ts, us) /\ Follows(ts, cs, chain.reorder)
                /\ \/ out.trxs = ts /\ out.ver = 2
                   \/ out.trxs = MapSeq(ts, LAMBDA t : [t EXCEPT !.calls = UpgradeCalls(@)])
  BY NormalizedTrxs
<1>2. /\ Family(us, us) /\ Len(us) = Len(bs) /\ Listed(bs) /\ Len(bs) \in Nat
      /\ \A j \in 1..Len(bs) : us[j].hash = j
      /\ \A j \in 1..Len(bs) : /\ us[j].index = bs[j].index /\ us[j].from = bs[j].from
                               /\ us[j].to = bs[j].to
  BY RevertedTrxs, ListedFacts DEF NodeTrxs
<1> HIDE DEF us, out, bs
<1>3. \A j \in 1..Len(bs) : /\ Mergeable(us[j]) <=> Mergeable(bs[j])
                            /\ Unmergeable(us[j]) <=> Unmergeable(bs[j])
                            /\ Normal(us[j]) <=> Normal(bs[j])
  BY <1>2 DEF Mergeable, Unmergeable, Normal
<1>4. Normals(us) = Normals(bs) /\ {us[i].index : i \in Normals(us)} = {bs[i].index : i \in Normals(bs)}
  <2>1. Normals(us) = Normals(bs)
    BY <1>2, <1>3 DEF Normals
  <2>2. \A i \in Normals(bs) : us[i].index = bs[i].index
    BY <1>2 DEF Normals
  <2> QED BY <2>1, <2>2
<1>5. Ranked(us)
  <2>1. \A j \in 1..Len(us) : us[j].index \in Nat /\ TrxFields \subseteq DOMAIN us[j]
    <3>1. \A j \in 1..Len(us) : us[j] \in Elements(us)
      BY DEF Elements
    <3> QED BY <1>2, <3>1, Zenon DEF Family, Descends
  <2>2. Listed(us)
    BY <1>2 DEF Family
  <2>3. {us[i].index : i \in Normals(us)} = 0..(Cardinality(Normals(us)) - 1)
    BY <1>4 DEF Orderly, bs
  <2> QED BY <1>2, <2>1, <2>2, <2>3 DEF Ranked
<1>6. \A i \in 1..Len(us) : Known(us[i]) /\ (chain.combine \/ Normal(us[i]))
  BY <1>2, <1>3 DEF Orderly, Known, bs
<1>7. chain.reorder \/ Ascending(us)
  <2>1. Ascending(bs) => Ascending(us)
    BY <1>2, <1>4 DEF Ascending, Normals
  <2> QED BY <2>1 DEF Orderly, bs
<1>8. /\ Placing(cs, us, chain.combine) /\ Numbers(IndexOf(cs), Len(cs))
      /\ Ascending(us) => Contiguous(cs)
  <2>1. CASE chain.combine = TRUE
    BY <1>5, <1>6, <2>1, CombinedPlaced
  <2>2. CASE chain.combine = FALSE
    BY <1>5, <1>6, <2>2, UncombinedPlaced
  <2> QED BY <2>1, <2>2 DEF Orderly
<1> HIDE DEF cs
<1> DEFINE key == MapSeq(cs, LAMBDA t : t.index)
           ws == IF chain.reorder THEN SortBy(cs, key) ELSE cs
<1>9. Placing(ws, us, chain.combine) /\ Contiguous(ws)
  <2>1. CASE chain.reorder
    <3>1. Listed(cs)
      BY <1>8 DEF Placing
    <3>2. \A i \in 1..Len(cs) : key[i] = cs[i].index
      BY DEF MapSeq
    <3> HIDE DEF key
    <3>3. Placing(SortBy(cs, key), us, chain.combine) /\ Contiguous(SortBy(cs, key))
      BY <1>8, <3>1, <3>2, SortedPlaced
    <3> QED BY <2>1, <3>3
  <2>2. CASE ~chain.reorder
    BY <1>7, <1>8, <2>2
  <2> QED BY <2>1, <2>2
<1>10. Alike(ts, ws)
  BY <1>1, Zenon DEF Follows
<1> HIDE DEF ws
<1>11. Placing(ts, us, chain.combine) /\ Contiguous(ts)
  <2>1. Listed(ts)
    BY <1>1 DEF Family
  <2> QED BY <1>9, <1>10, <2>1, PassedPlaced DEF Alike
<1>12. Placing(ts, bs, chain.combine)
  BY <1>2, <1>11, RevertedPlaced
<1>13. \A t \in Elements(ts) : TrxFields \subseteq DOMAIN t /\ NodeCalls(t.calls)
  BY <1>1, Zenon DEF Family, Descends
<1>14. CASE out.trxs = ts
  BY <1>11, <1>12, <1>13, <1>14 DEF Arranged, out, bs
<1>15. CASE out.trxs = MapSeq(ts, LAMBDA t : [t EXCEPT !.calls = UpgradeCalls(@)])
  <2> DEFINE vs == [k \in 1..Len(ts) |-> [ts[k] EXCEPT !.calls = UpgradeCalls(ts[k].calls)]]
  <2>1. out.trxs = vs
    BY <1>15, Zenon DEF MapSeq
  <2>2. Listed(ts) /\ Len(ts) \in Nat /\ \A k \in 1..Len(ts) : ts[k] \in Elements(ts)
    <3>1. Listed(ts)
      BY <1>1 DEF Family
    <3> QED BY <3>1, ListedFacts DEF Elements
  <2>3. /\ vs = [k \in 1..Len(ts) |-> vs[k]]
        /\ \A k \in 1..Len(ts) : vs[k] = [ts[k] EXCEPT !.calls = UpgradeCalls(ts[k].calls)]
    OBVIOUS
  <2> HIDE DEF vs
  <2>4. Listed(vs) /\ Len(vs) = Len(ts)
    BY <2>2, <2>3, Tabled
  <2>5. ASSUME NEW k \in 1..Len(ts)
        PROVE  /\ vs[k].hash = ts[k].hash /\ vs[k].index = ts[k].index
               /\ vs[k].from = ts[k].from /\ NodeCalls(vs[k].calls)
    <3>1. PICK t, calls : t = ts[k] /\ calls = UpgradeCalls(ts[k].calls)
      OBVIOUS
    <3>2. TrxFields \subseteq DOMAIN t /\ NodeCalls(t.calls)
      BY <1>13, <2>2, <3>1
    <3>3. NodeCalls(calls)
      BY <3>1, <3>2, UpgradedCalls
    <3>4. vs[k] = [t EXCEPT !.calls = calls]
      BY <2>3, <3>1
    <3>5. /\ vs[k].hash = t.hash /\ vs[k].index = t.index
          /\ vs[k].from = t.from /\ vs[k].calls = calls
      BY <3>2, <3>4 DEF TrxFields
    <3> QED BY <3>1, <3>3, <3>5
  <2>6. Placing(vs, bs, chain.combine) /\ Contiguous(vs)
    BY <1>11, <1>12, <2>4, <2>5, PassedPlaced
  <2>7. \A t \in Elements(vs) : NodeCalls(t.calls)
    BY <2>4, <2>5 DEF Elements
  <2> QED BY <2>1, <2>6, <2>7 DEF Arranged, out, bs
<1> QED BY <1>1, <1>14, <1>15

(***************************************************************************)
(* What execution has to keep for the passes to find such transactions.    *)
(***************************************************************************)

\* The normal transactions of a node that prints them in order are numbered as they
\* come.
Counted(ts) ==
    /\ Ascending(ts)
    /\ \E m \in Nat : {ts[i].index : i \in Normals(ts)} = 0..(m - 1)

LEMMA CountedAlike ==
    ASSUME NEW ts, Counted(ts), NEW us, Alike(us, ts)
    PROVE  Counted(us)
<1>1. Normals(us) = Normals(ts)
  BY DEF Normals, Normal, Alike
<1>2. \A i \in Normals(ts) : us[i].index = ts[i].index
  BY DEF Normals, Alike
<1>3. Ascending(us)
  BY <1>1, <1>2 DEF Ascending, Counted
<1>4. {us[i].index : i \in Normals(us)} = {ts[i].index : i \in Normals(ts)}
  BY <1>1, <1>2
<1> QED BY <1>3, <1>4 DEF Counted

LEMMA AppendAlike ==
    ASSUME NEW ts, Listed(ts), NEW t, NEW u,
           u.hash = t.hash, u.index = t.index, u.from = t.from
    PROVE  Alike(Append(ts, u), Append(ts, t))
<1> DEFINE vs == Append(ts, u)
           ws == Append(ts, t)
<1>1. /\ Len(ts) \in Nat /\ Len(vs) = Len(ts) + 1 /\ vs[Len(ts) + 1] = u
      /\ \A k \in 1..Len(ts) : vs[k] = ts[k]
  BY AppendAny DEF Listed
<1>2. /\ Len(ws) = Len(ts) + 1 /\ ws[Len(ts) + 1] = t
      /\ \A k \in 1..Len(ts) : ws[k] = ts[k]
  BY AppendAny DEF Listed
<1> HIDE DEF vs, ws
<1>3. ASSUME NEW k \in 1..Len(ws)
      PROVE  /\ vs[k].hash = ws[k].hash /\ vs[k].index = ws[k].index
             /\ vs[k].from = ws[k].from
  <2>1. CASE k \in 1..Len(ts)
    BY <1>1, <1>2, <2>1
  <2>2. CASE k = Len(ts) + 1
    BY <1>1, <1>2, <2>2
  <2> QED BY <1>1, <1>2, <2>1, <2>2
<1> QED BY <1>1, <1>2, <1>3 DEF Alike, vs, ws

\* The next transaction, when it is a normal one, has the number of those before it as
\* its index.
LEMMA CountedNext ==
    ASSUME NEW ts, Listed(ts), Counted(ts), NEW t,
           Normal(t) => t.index = Cardinality({ts[i].index : i \in Normals(ts)})
    PROVE  Counted(Append(ts, t))
<1> DEFINE us == Append(ts, t)
           n == Len(ts)
<1>1. /\ n \in Nat /\ Len(us) = n + 1 /\ us[n + 1] = t
      /\ \A k \in 1..n : us[k] = ts[k]
  BY AppendAny DEF Listed
<1> HIDE DEF us
<1>2. PICK m \in Nat : {ts[i].index : i \in Normals(ts)} = 0..(m - 1)
  BY DEF Counted
<1>3. Cardinality(0..(m - 1)) = m
  BY FS_Interval
<1>4. \A i \in Normals(ts) : i \in 1..n /\ us[i].index = ts[i].index /\ ts[i].index \in 0..(m - 1)
  BY <1>1, <1>2 DEF Normals
<1>5. CASE Normal(t)
  <2>1. t.index = m
    BY <1>2, <1>3, <1>5
  <2>2. Normals(us) = Normals(ts) \cup {n + 1}
    BY <1>1, <1>5 DEF Normals
  <2>3. {us[i].index : i \in Normals(us)} = {ts[i].index : i \in Normals(ts)} \cup {m}
    BY <1>1, <1>4, <2>1, <2>2
  <2>4. {us[i].index : i \in Normals(us)} = 0..((m + 1) - 1)
    <3>1. 0..((m + 1) - 1) = (0..(m - 1)) \cup {m}
      OBVIOUS
    <3> QED BY <1>2, <2>3, <3>1
  <2>5. Ascending(us)
    <3>1. ASSUME NEW i \in Normals(us), NEW j \in Normals(us), i < j
          PROVE  us[i].index < us[j].index
      <4>1. i \in Normals(ts)
        <5>1. j \in Nat /\ j <= n + 1
          BY <1>1, <2>2, <1>4
        <5>2. i # n + 1
          BY <1>1, <3>1, <5>1
        <5> QED BY <2>2, <5>2
      <4>2. CASE j \in Normals(ts)
        BY <1>4, <3>1, <4>1, <4>2 DEF Counted, Ascending
      <4>3. CASE j = n + 1
        BY <1>1, <1>4, <2>1, <4>1, <4>3
      <4> QED BY <2>2, <4>2, <4>3
    <3> QED BY <3>1 DEF Ascending
  <2>6. m + 1 \in Nat
    OBVIOUS
  <2>7. Counted(us)
    BY <2>4, <2>5, <2>6, Zenon DEF Counted
  <2> QED BY <2>7 DEF us
<1>6. CASE ~Normal(t)
  <2>1. Normals(us) = Normals(ts)
    BY <1>1, <1>6 DEF Normals
  <2>2. {us[i].index : i \in Normals(us)} = {ts[i].index : i \in Normals(ts)}
    BY <1>4, <2>1
  <2>3. Ascending(us)
    BY <1>4, <2>1 DEF Counted, Ascending
  <2> QED BY <2>2, <2>3 DEF Counted, us
<1> QED BY <1>5, <1>6

KnownTrx(t, combine) == Known(t) /\ (combine \/ Normal(t))

\* The kinds and the indexes of the transactions executed, and the order of the result.
PlaceInv ==
    /\ \A i \in 1..Len(trxs) : KnownTrx(trxs[i], features.combine)
    /\ open # Nil => KnownTrx(open, features.combine)
    /\ features.reorder \/ (Counted(trxs) /\ (open # Nil => Counted(Append(trxs, open))))
    /\ Normalized => Arranged(Out, trxs, features.combine)

\* A step inside a transaction.
LEMMA PlaceKept ==
    ASSUME PlaceInv, NodeInv, Building, open # Nil, UNCHANGED <<features, trxs, result>>,
           open'.hash = open.hash, open'.index = open.index, open'.from = open.from,
           open'.to = open.to
    PROVE  PlaceInv'
<1>1. KnownTrx(open', features.combine)
  BY DEF PlaceInv, KnownTrx, Known, Normal, Mergeable, Unmergeable
<1>2. features.reorder \/ (Counted(trxs) /\ Counted(Append(trxs, open')))
  <2>1. Alike(Append(trxs, open'), Append(trxs, open))
    BY AppendAlike DEF NodeInv, NodeTrxs
  <2> QED BY <2>1, CountedAlike DEF PlaceInv
<1>3. ~Normalized'
  BY DEF Normalized, Building
<1> QED BY <1>1, <1>2, <1>3 DEF PlaceInv

\* Where combining is off no system transaction is executed: their chain has it on.
CombinesSystem == \A f \in DOMAIN Bounds : f.combine \/ Bounds[f].kinds \subseteq {"normal"}

LEMMA PlaceStep ==
    ASSUME CombinesSystem, PlaceInv, NodeInv, [Next]_vars
    PROVE  PlaceInv'
<1>0. Listed(trxs)
  BY DEF NodeInv, NodeTrxs
<1>1. ASSUME NEW kind \in bounds.kinds, NEW index \in Indexes(kind), BeginTrx(kind, index)
      PROVE  PlaceInv'
  <2>1. PICK start, root :
            /\ open' = [NewTrx(Len(trxs) + 1, index, Recipient(kind), start, root, 1, FALSE)
                           EXCEPT !.from = Sender(kind)]
            /\ Building /\ UNCHANGED <<features, trxs, result>>
    BY <1>1, Zenon DEF BeginTrx
  <2>2. PICK a, c : a = Recipient(kind) /\ c = Sender(kind)
    OBVIOUS
  <2>3. open'.index = index /\ open'.from = c /\ open'.to = a
    <3>1. PICK t : t = [NewTrx(Len(trxs) + 1, index, a, start, root, 1, FALSE) EXCEPT !.from = c]
      OBVIOUS
    <3>2. t.index = index /\ t.from = c /\ t.to = a
      BY <3>1 DEF NewTrx
    <3> QED BY <2>1, <2>2, <3>1, <3>2
  <2>4. /\ kind \in {"normal", "stateSync", "validator"}
        /\ features.combine \/ kind = "normal"
    BY NormalizationAssumption DEF NodeInv, bounds, CombinesSystem
  <2>5. Normal(open') <=> kind = "normal"
    BY <2>2, <2>3, <2>4 DEF Normal, Sender, PolygonSystemAddress
  <2>6. KnownTrx(open', features.combine)
    <3>1. CASE kind = "normal"
      BY <2>5, <3>1 DEF KnownTrx, Known
    <3>2. CASE kind = "stateSync"
      BY <2>2, <2>3, <2>4, <3>2 DEF KnownTrx, Known, Mergeable, Sender, Recipient
    <3>3. CASE kind = "validator"
      BY <2>2, <2>3, <2>4, <3>3 DEF KnownTrx, Known, Unmergeable, Sender, Recipient
    <3> QED BY <2>4, <3>1, <3>2, <3>3
  <2>7. features.reorder \/ Counted(Append(trxs, open'))
    <3> SUFFICES ASSUME ~features.reorder PROVE Counted(Append(trxs, open'))
      OBVIOUS
    <3>1. kind = "normal" =>
              index \in {Cardinality({trxs[i].index : i \in {j \in 1..Len(trxs) : Normal(trxs[j])}})}
      BY Zenon DEF Indexes
    <3>2. Normal(open') => open'.index = Cardinality({trxs[i].index : i \in Normals(trxs)})
      BY <2>3, <2>5, <3>1 DEF Normals
    <3>3. Counted(trxs)
      BY DEF PlaceInv
    <3> QED BY <1>0, <3>2, <3>3, CountedNext
  <2>8. ~Normalized'
    BY <2>1 DEF Normalized, Building
  <2> QED BY <2>1, <2>6, <2>7, <2>8 DEF PlaceInv
<1>2. ASSUME NodeTrx(open), Building, open # Nil, UNCHANGED <<features, trxs, result>>,
             NEW calls, open' = [open EXCEPT !.calls = calls]
      PROVE  PlaceInv'
  <2>1. TrxFields \subseteq DOMAIN open
    BY <1>2 DEF NodeTrx
  <2>2. /\ open'.hash = open.hash /\ open'.index = open.index /\ open'.from = open.from
        /\ open'.to = open.to
    BY <1>2, <2>1 DEF TrxFields
  <2> QED BY <1>2, <2>2, PlaceKept
<1>3. ASSUME NEW type \in bounds.callTypes, RunCall(type)
      PROVE  PlaceInv'
  <2>1. PICK calls : /\ open # Nil /\ Building /\ open' = [open EXCEPT !.calls = calls]
                     /\ UNCHANGED <<features, trxs, result>>
    BY <1>3, Zenon DEF RunCall
  <2>2. NodeTrx(open)
    BY <2>1 DEF NodeInv
  <2> QED BY <1>2, <2>1, <2>2
<1>4. ASSUME NEW data \in LogData, AddLog(data)
      PROVE  PlaceInv'
  <2>1. PICK calls : /\ open # Nil /\ Building /\ open' = [open EXCEPT !.calls = calls]
                     /\ UNCHANGED <<features, trxs, result>>
    BY <1>4, Zenon DEF AddLog
  <2>2. NodeTrx(open)
    BY <2>1 DEF NodeInv
  <2> QED BY <1>2, <2>1, <2>2
<1>5. ASSUME NEW ending \in bounds.endings, EndCall(ending)
      PROVE  PlaceInv'
  <2>1. PICK calls : /\ open # Nil /\ Building /\ open' = [open EXCEPT !.calls = calls]
                     /\ UNCHANGED <<features, trxs, result>>
    BY <1>5, Zenon DEF EndCall
  <2>2. NodeTrx(open)
    BY <2>1 DEF NodeInv
  <2> QED BY <1>2, <2>1, <2>2
<1>6. CASE EndTrx
  <2>1. PICK receipt :
           /\ Building /\ open # Nil
           /\ trxs' = Append(trxs, [open EXCEPT !.end = clock, !.receipt = receipt])
           /\ open' = Nil /\ UNCHANGED <<features, result>>
    BY <1>6, Zenon DEF EndTrx
  <2>2. PICK t : t = [open EXCEPT !.end = clock, !.receipt = receipt]
    OBVIOUS
  <2>3. TrxFields \subseteq DOMAIN open
    BY <2>1 DEF NodeInv, NodeTrx
  <2>4. t.hash = open.hash /\ t.index = open.index /\ t.from = open.from /\ t.to = open.to
    BY <2>2, <2>3 DEF TrxFields
  <2>5. trxs' = Append(trxs, t)
    BY <2>1, <2>2
  <2>6. /\ Len(trxs) \in Nat /\ Len(trxs') = Len(trxs) + 1 /\ trxs'[Len(trxs) + 1] = t
        /\ \A k \in 1..Len(trxs) : trxs'[k] = trxs[k]
    BY <1>0, <2>5, AppendAny DEF Listed
  <2>7. KnownTrx(t, features.combine)
    BY <2>1, <2>4 DEF PlaceInv, KnownTrx, Known, Normal, Mergeable, Unmergeable
  <2>8. \A i \in 1..Len(trxs') : KnownTrx(trxs'[i], features.combine)
    <3>1. ASSUME NEW i \in 1..Len(trxs') PROVE KnownTrx(trxs'[i], features.combine)
      <4>1. CASE i \in 1..Len(trxs)
        BY <2>6, <4>1 DEF PlaceInv
      <4>2. CASE i = Len(trxs) + 1
        BY <2>6, <2>7, <4>2
      <4> QED BY <2>6, <4>1, <4>2
    <3> QED BY <3>1
  <2>9. features.reorder \/ Counted(trxs')
    <3>1. Alike(trxs', Append(trxs, open))
      BY <1>0, <2>4, <2>5, AppendAlike
    <3> QED BY <2>1, <3>1, CountedAlike DEF PlaceInv
  <2>10. ~Normalized'
    BY <2>1 DEF Normalized, Building
  <2> QED BY <2>1, <2>8, <2>9, <2>10 DEF PlaceInv
<1>7. CASE Normalize
  <2>1. PICK all, first :
           /\ UNCHANGED <<features, trxs, open>> /\ open = Nil
           /\ {trxs[i].index : i \in {j \in 1..Len(trxs) : Normal(trxs[j])}} =
                  0..(Cardinality({j \in 1..Len(trxs) : Normal(trxs[j])}) - 1)
           /\ result' = NormalizeInPlace([num |-> 1, ver |-> 2, seq |-> 1, trxs |-> trxs,
                                          sys |-> << >>, changes |-> all], features, first)
    BY <1>7, Zenon DEF Normalize
  <2>2. PICK block : block = [num |-> 1, ver |-> 2, seq |-> 1, trxs |-> trxs,
                              sys |-> << >>, changes |-> all]
    OBVIOUS
  <2>3. /\ {"trxs", "ver", "changes"} \subseteq DOMAIN block
        /\ block.ver = 2 /\ block.trxs = trxs
    BY <2>2
  <2>4. NodeTrxs(block.trxs)
    BY <2>3, Zenon DEF NodeInv
  <2>5. PICK chain : chain = features
    OBVIOUS
  <2>6. Orderly(block.trxs, chain)
    <3>1. chain.combine \in BOOLEAN
      BY <2>5, NormalizationAssumption DEF NodeInv
    <3>2. \A i \in 1..Len(trxs) : Known(trxs[i]) /\ (chain.combine \/ Normal(trxs[i]))
      BY <2>5 DEF PlaceInv, KnownTrx
    <3>3. {trxs[i].index : i \in Normals(trxs)} = 0..(Cardinality(Normals(trxs)) - 1)
      BY <2>1 DEF Normals
    <3>4. chain.reorder \/ Ascending(trxs)
      BY <2>5 DEF PlaceInv, Counted
    <3> QED BY <2>3, <3>1, <3>2, <3>3, <3>4 DEF Orderly
  <2>7. Arranged(NormalizeInPlace(block, chain, first).block.trxs, block.trxs, chain.combine)
    BY <2>3, <2>4, <2>6, NormalizedPlaced
  <2>8. result' = NormalizeInPlace(block, chain, first)
    BY <2>1, <2>2, <2>5, Zenon
  <2>9. Arranged(Out', trxs, features.combine)
    BY <2>3, <2>5, <2>7, <2>8, Zenon DEF Out
  <2> QED BY <2>1, <2>9 DEF PlaceInv
<1>8. CASE UNCHANGED vars
  <2>1. UNCHANGED <<features, trxs, open, result>>
    BY <1>8, Zenon DEF vars
  <2> QED BY <2>1 DEF PlaceInv, Normalized, Out
<1> QED BY <1>1, <1>3, <1>4, <1>5, <1>6, <1>7, <1>8, Zenon DEF Next

\* A finite choice of transactions, counted by the ones they come from.
LEMMA AsMany ==
    ASSUME NEW S, IsFiniteSet(S), NEW T, NEW f \in [S -> T],
           \A x, y \in S : f[x] = f[y] => x = y, \A y \in T : \E x \in S : f[x] = y
    PROVE  Cardinality(S) = Cardinality(T)
<1>1. f \in Injection(S, T) /\ f \in Surjection(S, T)
  BY DEF Injection, Surjection, IsInjective
<1>2. ExistsBijection(S, T)
  BY <1>1 DEF ExistsBijection, Bijection
<1> QED BY <1>2, FS_Bijection

LEMMA MergedIsATree ==
    ASSUME NodeInv, PlaceInv
    PROVE  MergedTree
<1> SUFFICES ASSUME Normalized, NEW t \in Merged, NEW i \in 1..Len(t.calls)
             PROVE  /\ t.calls[i].index = i
                    /\ IF i = 1 THEN t.calls[i].parent = 0 /\ t.calls[i].depth = 0
                       ELSE /\ t.calls[i].parent \in 1..(i - 1)
                            /\ t.calls[i].depth = t.calls[t.calls[i].parent].depth + 1
  BY Zenon DEF MergedTree
<1>1. NodeCalls(t.calls)
  <2>1. t \in ToSet(Out) /\ Listed(Out)
    BY DEF Merged, PlaceInv, Arranged, Placing
  <2> QED BY <2>1, ListedFacts DEF PlaceInv, Arranged
<1>2. PICK cs : cs = t.calls
  OBVIOUS
<1>3. cs[i].parent \in 0..(i - 1) /\ InPlace(cs, i)
  BY <1>1, <1>2, Zenon DEF NodeCalls
<1>4. Len(cs) \in Nat
  BY <1>1, <1>2, ListedFacts DEF NodeCalls
<1> QED BY <1>2, <1>3, <1>4 DEF InPlace

LEMMA IndexesFollow ==
    ASSUME NodeInv, PlaceInv
    PROVE  IndexesContiguous
<1> SUFFICES ASSUME Normalized PROVE IndexesContiguous
  BY DEF IndexesContiguous
<1> DEFINE L == {t \in ToSet(Out) : t.hash # MergedHash}
           R == {t \in ToSet(trxs) : ~(features.combine /\ Mergeable(t))}
           n == Len(Out)
<1>1. Placing(Out, trxs, features.combine) /\ Contiguous(Out)
  BY DEF PlaceInv, Arranged
<1>2. n \in Nat /\ ToSet(Out) = {Out[i] : i \in 1..n}
  BY <1>1, ListedFacts DEF Placing, Elements
<1>3. /\ ToSet(trxs) = {trxs[k] : k \in 1..Len(trxs)} /\ Len(trxs) \in Nat
      /\ \A k \in 1..Len(trxs) : trxs[k].hash = k
  BY ListedFacts DEF NodeInv, NodeTrxs, Elements
<1>4. ASSUME NEW t, NEW h \in 1..Len(trxs), t.hash = h
      PROVE  Origin(t) = trxs[h]
  <2>1. \A o \in ToSet(trxs) : o.hash = t.hash <=> o = trxs[h]
    BY <1>3, <1>4
  <2>2. trxs[h] \in ToSet(trxs)
    BY <1>3
  <2> QED BY <2>1, <2>2, Zenon DEF Origin
<1>5. ASSUME NEW t \in L
      PROVE  /\ Origin(t) \in R /\ Origin(t).hash = t.hash
             /\ Normal(t) => t.index = Origin(t).index
  <2>1. PICK i \in 1..n : t = Out[i]
    BY <1>2
  <2>2. Comes(t, trxs, features.combine)
    BY <1>1, <2>1 DEF Placing
  <2>3. PICK h \in 1..Len(trxs) :
           /\ t.hash = h /\ ~(features.combine /\ Mergeable(trxs[h]))
           /\ Normal(t) => Normal(trxs[h]) /\ t.index = trxs[h].index
    BY <2>2 DEF Comes
  <2>4. Origin(t) = trxs[h]
    BY <1>4, <2>3
  <2> QED BY <1>3, <2>3, <2>4
<1>6. \A x, y \in L : x.hash = y.hash => x = y
  <2> SUFFICES ASSUME NEW x \in L, NEW y \in L, x.hash = y.hash PROVE x = y
    OBVIOUS
  <2>1. PICK i \in 1..n : x = Out[i]
    BY <1>2
  <2>2. PICK j \in 1..n : y = Out[j]
    BY <1>2
  <2>3. i = j
    BY <1>1, <2>1, <2>2 DEF Placing
  <2> QED BY <2>1, <2>2, <2>3
<1>7. ASSUME NEW o \in R
      PROVE  \E t \in L : Origin(t) = o
  <2>1. PICK h \in 1..Len(trxs) : o = trxs[h]
    BY <1>3
  <2>2. PICK i \in 1..n : Out[i].hash = h
    BY <1>1, <2>1 DEF Placing
  <2>3. h # MergedHash
    BY <1>3 DEF MergedHash
  <2>4. Out[i] \in L
    BY <1>2, <2>2, <2>3
  <2> QED BY <1>4, <2>1, <2>2, <2>4
<1>8. IsFiniteSet(L)
  <2>1. PICK f : f = [i \in 1..n |-> Out[i]]
    OBVIOUS
  <2>2. f \in Surjection(1..n, ToSet(Out))
    BY <1>2, <2>1 DEF Surjection
  <2>3. IsFiniteSet(ToSet(Out))
    BY <1>2, <2>2, FS_Interval, FS_Surjection
  <2> QED BY <2>3, FS_Subset
<1>9. Cardinality(L) = Cardinality(R)
  <2> DEFINE f == [t \in L |-> Origin(t)]
  <2> HIDE DEF L, R
  <2>1. f \in [L -> R]
    BY <1>5
  <2>2. \A x, y \in L : f[x] = f[y] => x = y
    BY <1>5, <1>6
  <2>3. \A y \in R : \E x \in L : f[x] = y
    BY <1>7
  <2> HIDE DEF f
  <2> QED BY <1>8, <2>1, <2>2, <2>3, AsMany
<1>10. \A t \in ToSet(Out) : Normal(t) /\ t.hash # MergedHash => t.index = Origin(t).index
  BY <1>5
<1> QED BY <1>1, <1>9, <1>10 DEF IndexesContiguous, Contiguous

LEMMA PlaceAlways ==
    ASSUME CombinesSystem
    PROVE  Spec => []PlaceInv
<1>1. Init => PlaceInv
  <2> SUFFICES ASSUME Init PROVE PlaceInv
    OBVIOUS
  <2>1. trxs = << >> /\ open = Nil /\ result = Nil /\ Len(<< >>) = 0
    BY DEF Init
  <2>2. Normals(trxs) = {}
    BY <2>1 DEF Normals
  <2>3. Counted(trxs)
    <3>1. 0 \in Nat /\ {trxs[i].index : i \in Normals(trxs)} = 0..(0 - 1)
      BY <2>2
    <3>2. Ascending(trxs)
      BY <2>2 DEF Ascending
    <3> QED BY <3>1, <3>2 DEF Counted
  <2> QED BY <2>1, <2>3 DEF PlaceInv, Normalized
<1>2. NodeInv /\ PlaceInv /\ [Next]_vars => PlaceInv'
  BY PlaceStep
<1> QED BY <1>1, <1>2, NodeAlways, PTL DEF Spec

\* What combinePolygonSystemTransactions makes of a block: the state-sync transactions
\* become one, whose calls form a tree under an artificial root; no other is lost; and
\* each transaction of the block is at its index, the normal ones the one the node gave
\* them.
THEOREM BlocksAreWellCombined ==
    ASSUME CombinesSystem
    PROVE  Spec => []WellCombined
<1>1. NodeInv /\ PlaceInv => WellCombined
  BY MergedIsATree, IndexesFollow DEF WellCombined
<1> QED BY <1>1, NodeAlways, PlaceAlways, PTL

-----------------------------------------------------------------------------
(***************************************************************************)
(* Receipts through each step of normalizeInPlace.                         *)
(***************************************************************************)
\* The receipt has the logs that the chain keeps.
Accounted(t) ==
    /\ Listed(t.receipt) /\ \A k \in 1..Len(t.receipt) : {"data", "trx"} \subseteq DOMAIN t.receipt[k]
    /\ Paired(KeptLogsOf(t.calls, Undone(t.calls)), t.receipt)

\* Once the calls are marked, those are the logs that survive.
LEMMA RevertReady ==
    ASSUME NEW t, TrxFields \subseteq DOMAIN t, NodeCalls(t.calls), Accounted(t),
           NEW b, NEW e, Emits(t.calls, b, e)
    PROVE  Ready(Revert(t), b, e)
<1> DEFINE cs == t.calls
           rs == PopulateStateReverted(cs)
           u == Revert(t)
           undone == Undone(cs)
<1>1. u = [t EXCEPT !.calls = rs]
  BY Zenon DEF Revert
<1>2. /\ NodeCalls(rs) /\ Len(rs) = Len(cs)
      /\ \A i \in 1..Len(cs) : rs[i].logs = cs[i].logs /\ rs[i].stateReverted = undone[i]
  BY MarkedCalls
<1> HIDE DEF u, rs, undone
<1>3. TrxFields \subseteq DOMAIN u /\ u.calls = rs /\ u.receipt = t.receipt
  BY <1>1 DEF TrxFields
<1>4. Emits(rs, b, e)
  <2>1. \A i \in 1..Len(cs) : Tells(cs[i], b, e)
    BY Zenon DEF Emits
  <2>2. \A i \in 1..Len(cs) : CallFields \subseteq DOMAIN rs[i]
    BY <1>2, Zenon DEF NodeCalls
  <2>3. \A i \in 1..Len(cs) : Tells(rs[i], b, e)
    BY <1>2, <2>1, <2>2, Zenon DEF Tells
  <2> QED BY <1>2, <2>3, Zenon DEF Emits, NodeCalls
<1>5. SurvivingLogs(rs) = KeptLogsOf(rs, undone)
  BY <1>2, SurvivingIsKept
<1>6. KeptLogsOf(rs, undone) = KeptLogsOf(cs, undone)
  <2>1. \A i \in 1..Len(cs) : KeptOf(rs, undone, i) = KeptOf(cs, undone, i)
    BY <1>2, Zenon DEF KeptOf
  <2>2. [i \in 1..Len(rs) |-> KeptOf(rs, undone, i)] = [i \in 1..Len(cs) |-> KeptOf(cs, undone, i)]
    BY <1>2, <2>1, Zenon
  <2> QED BY <2>2, Zenon DEF KeptLogsOf
<1>7. /\ Listed(u.receipt) /\ \A k \in 1..Len(u.receipt) : {"data", "trx"} \subseteq DOMAIN u.receipt[k]
      /\ Paired(SurvivingLogs(u.calls), u.receipt)
  BY <1>3, <1>5, <1>6, Zenon DEF Accounted, undone
<1>8. Ready(u, b, e)
  BY <1>3, <1>4, <1>7, Zenon DEF Ready
<1> QED BY <1>8 DEF u

\* The transactions of a block before their logs are numbered: the first a of them, whose
\* logs come one transaction after the other, from b[i] to e[i], and the system ones.
Queue(ts, hashes, a, b, e) ==
    /\ Listed(ts) /\ a \in 0..Len(ts)
    /\ \A i \in 1..a : /\ ts[i].hash \notin hashes
                       /\ b[i] \in Nat /\ e[i] \in Nat /\ Ready(ts[i], b[i], e[i])
    /\ \A i, j \in 1..a : i < j => e[i] < b[j]
    /\ \A i \in 1..Len(ts) : i > a => ts[i].hash \in hashes
    /\ \A i \in 1..Len(ts) : Listed(ts[i].receipt)

\* What populateLogBlockIndices calls the normal transactions, and the system ones.
NormalOf(ts, hashes) == Select(ts, {t \in ToSet(ts) : t.hash \notin hashes})

SystemOf(ts, hashes) == Select(ts, {t \in ToSet(ts) : t.hash \in hashes})

LEMMA QueueParts ==
    ASSUME NEW ts, NEW hashes, NEW a, NEW b, NEW e, Queue(ts, hashes, a, b, e)
    PROVE  /\ Len(NormalOf(ts, hashes)) = a
           /\ \A k \in 1..a : NormalOf(ts, hashes)[k] = ts[k]
           /\ Len(SystemOf(ts, hashes)) = Len(ts) - a
           /\ \A k \in 1..(Len(ts) - a) : SystemOf(ts, hashes)[k] = ts[a + k]
<1> DEFINE n == Len(ts)
           N == {t \in ToSet(ts) : t.hash \notin hashes}
           S == {t \in ToSet(ts) : t.hash \in hashes}
<1>1. /\ ts \in Seq(Elements(ts)) /\ ToSet(ts) = Elements(ts) /\ n \in Nat
      /\ \A i \in 1..n : ts[i] \in ToSet(ts)
  <2>1. ts \in Seq(Elements(ts)) /\ ToSet(ts) = Elements(ts) /\ n \in Nat
    BY ListedFacts DEF Queue
  <2>2. \A i \in 1..n : ts[i] \in Elements(ts)
    BY DEF Elements
  <2> QED BY <2>1, <2>2
<1>2. n \in Nat /\ a \in 0..n /\ a \in Nat /\ n - a \in Nat
  BY <1>1 DEF Queue
<1>3. \A i \in 1..n : IF i <= a THEN ts[i] \in N /\ ts[i] \notin S
                      ELSE ts[i] \notin N /\ ts[i] \in S
  <2>1. \A i \in 1..n : (i <= a => ts[i].hash \notin hashes) /\ (i > a => ts[i].hash \in hashes)
    BY <1>2 DEF Queue
  <2>2. \A i \in 1..n : i <= a \/ i > a
    BY <1>2
  <2> QED BY <1>1, <2>1, <2>2
<1> HIDE DEF N, S, n
<1>4. Len(Select(ts, N)) = a /\ \A k \in 1..a : Select(ts, N)[k] = ts[k]
  BY <1>1, <1>2, <1>3, PrefixSelected DEF n
<1>5. Len(Select(ts, S)) = n - a /\ \A k \in 1..(n - a) : Select(ts, S)[k] = ts[a + k]
  BY <1>1, <1>2, <1>3, SuffixSelected DEF n
<1> QED BY <1>4, <1>5 DEF n, N, S, NormalOf, SystemOf

-----------------------------------------------------------------------------
(***************************************************************************)
(* PopulateLogBlockIndices: transactions in a queue are numbered.          *)
(***************************************************************************)
\* The logs of the first a transactions that survive, in the order of their ordinals, and
\* their receipts.
SortedLogs(ts, a) ==
    LET surviving == FlattenSeq([i \in 1..a |-> SurvivingLogs(ts[i].calls)])
    IN  SortBy(surviving, Ords(surviving))

ReceiptsOf(ts, a) == FlattenSeq([i \in 1..a |-> ts[i].receipt])

\* One pairs with the other, which is made of T.
SameData(s, r, T) ==
    s \in Seq(T) /\ Len(s) = Len(r) /\ \A k \in 1..Len(r) : Echoes(r[k], s[k])

\* The logs of the first a transactions that survive.
Survivors(ts, a) == UNION {Elements(SurvivingLogs(ts[i].calls)) : i \in 1..a}

LEMMA QueuePaired ==
    ASSUME NEW ts, NEW hashes, NEW a, NEW b, NEW e, Queue(ts, hashes, a, b, e)
    PROVE  SameData(SortedLogs(ts, a), ReceiptsOf(ts, a), Survivors(ts, a))
<1> DEFINE T == Survivors(ts, a)
           R == UNION {Elements(ts[i].receipt) : i \in 1..a}
           ss == [i \in 1..a |-> SurvivingLogs(ts[i].calls)]
           rs == [i \in 1..a |-> ts[i].receipt]
           surviving == FlattenSeq(ss)
           receipts == FlattenSeq(rs)
           sorted == SortBy(surviving, Ords(surviving))
<1>0. a \in Nat
  <2>1. Len(ts) \in Nat
    BY ListedFacts DEF Queue
  <2> QED BY <2>1 DEF Queue
<1>1. \A i \in 1..a : b[i] \in Nat /\ e[i] \in Nat /\ Ready(ts[i], b[i], e[i])
  BY Zenon DEF Queue
<1>2. ASSUME NEW i \in 1..a
      PROVE  /\ SurvivingLogs(ts[i].calls) \in Seq(EmittedLogs(ts[i].calls))
             /\ \A l \in EmittedLogs(ts[i].calls) : l.ord \in b[i]..e[i]
  <2> DEFINE cs == ts[i].calls
             undone == [k \in 1..Len(cs) |-> cs[k].stateReverted]
  <2>1. Emits(cs, b[i], e[i])
    BY <1>1, Zenon DEF Ready
  <2>2. SurvivingLogs(cs) = KeptLogsOf(cs, undone)
    <3>1. \A k \in 1..Len(cs) : cs[k].stateReverted = undone[k]
      OBVIOUS
    <3> HIDE DEF cs, undone
    <3> QED BY <3>1, SurvivingIsKept
  <2> HIDE DEF cs, undone
  <2>3. KeptLogsOf(cs, undone) \in Seq(EmittedLogs(cs)) /\ \A l \in EmittedLogs(cs) : l.ord \in b[i]..e[i]
    BY <2>1, KeptLogsType, EmittedLogsFacts
  <2> QED BY <2>2, <2>3 DEF cs
<1>3. \A l \in T : l.ord \in Nat
  <2> SUFFICES ASSUME NEW l \in T PROVE l.ord \in Nat
    OBVIOUS
  <2>1. PICK i \in 1..a : l \in Elements(SurvivingLogs(ts[i].calls))
    BY DEF Survivors
  <2>3. l \in EmittedLogs(ts[i].calls)
    BY <1>2, <2>1 DEF Elements
  <2>2. l.ord \in b[i]..e[i] /\ b[i] \in Nat /\ e[i] \in Nat
    BY <1>1, <1>2, <2>3
  <2> QED BY <2>2
<1>4. ASSUME NEW i \in 1..a
      PROVE  SurvivingLogs(ts[i].calls) \in Seq(T) /\ ts[i].receipt \in Seq(R)
  <2>1. Elements(SurvivingLogs(ts[i].calls)) \subseteq T /\ Elements(ts[i].receipt) \subseteq R
    BY DEF Survivors
  <2> HIDE DEF T, R
  <2>2. ts[i].receipt \in Seq(Elements(ts[i].receipt))
    BY <1>1, ListedFacts DEF Ready
  <2>3. Listed(SurvivingLogs(ts[i].calls))
    BY <1>2, Zenon DEF Listed
  <2>4. SurvivingLogs(ts[i].calls) \in Seq(Elements(SurvivingLogs(ts[i].calls)))
    BY <2>3, ListedFacts
  <2> QED BY <2>1, <2>2, <2>4
<1>5. ss \in Seq(Seq(T)) /\ rs \in Seq(Seq(R)) /\ Len(ss) = a /\ Len(rs) = a
      /\ \A i \in 1..a : ss[i] = SurvivingLogs(ts[i].calls) /\ rs[i] = ts[i].receipt
  <2> HIDE DEF T, R
  <2> QED BY <1>0, <1>4
<1>6. \A i \in 1..a : Paired(ss[i], rs[i])
  <2> HIDE DEF ss, rs
  <2> QED BY <1>1, <1>5, Zenon DEF Ready
<1>7. ASSUME NEW i \in 1..a, NEW j \in 1..a, i < j PROVE Precedes(ss[i], ss[j])
  <2>1. e[i] < b[j] /\ e[i] \in Nat /\ b[j] \in Nat /\ b[i] \in Nat /\ e[j] \in Nat
    BY <1>1, <1>7 DEF Queue
  <2>2. ASSUME NEW k \in 1..a, NEW l \in Elements(ss[k]) PROVE l.ord \in b[k]..e[k]
    <3>1. ss[k] \in Seq(EmittedLogs(ts[k].calls))
      BY <1>2, <1>5
    <3> HIDE DEF ss
    <3>2. l \in EmittedLogs(ts[k].calls)
      BY <2>2, <3>1 DEF Elements
    <3> QED BY <1>2, <3>2
  <2> HIDE DEF ss
  <2>3. ASSUME NEW l \in Elements(ss[i]), NEW m \in Elements(ss[j]) PROVE l.ord < m.ord
    <3>1. l.ord \in b[i]..e[i] /\ m.ord \in b[j]..e[j]
      BY <2>2
    <3> QED BY <2>1, <3>1
  <2> QED BY <2>3 DEF Precedes
<1> HIDE DEF T, R, ss, rs
<1>8. Paired(surviving, receipts)
  <2>1. Len(rs) = Len(ss) /\ (\A k \in 1..Len(ss) : Paired(ss[k], rs[k]))
    BY <1>5, <1>6
  <2>2. \A j, k \in 1..Len(ss) : j < k => Precedes(ss[j], ss[k])
    BY <1>5, <1>7
  <2> QED BY <1>3, <1>5, <2>1, <2>2, PairedFlattened
<1>9. surviving \in Seq(T)
  BY <1>5, FlattenedAt
<1> HIDE DEF surviving, receipts
<1>10. /\ sorted \in Seq(T) /\ Len(sorted) = Len(receipts)
       /\ \A k \in 1..Len(receipts) : Echoes(receipts[k], sorted[k])
  BY <1>3, <1>8, <1>9, PairedSorted
<1> HIDE DEF sorted
<1>11. SameData(sorted, receipts, T)
  BY <1>10, Zenon DEF SameData
<1> QED BY <1>11 DEF T, sorted, surviving, receipts, ss, rs, SortedLogs, ReceiptsOf

\* The logs that are numbered are the sorted ones, which the first receipts tell, and
\* the very receipts that follow.
Numbering(receipts, numbered, sorted, m, T) ==
    /\ Listed(numbered) /\ Len(receipts) = Len(numbered)
    /\ sorted \in Seq(T) /\ Len(sorted) = m
    /\ \A k \in 1..Len(receipts) :
           IF k <= m THEN numbered[k] = sorted[k] /\ Echoes(receipts[k], numbered[k])
           ELSE numbered[k] = receipts[k]

LEMMA QueueLogs ==
    ASSUME NEW ts, NEW hashes, NEW a, NEW b, NEW e, Queue(ts, hashes, a, b, e)
    PROVE  Numbering(FlattenSeq([i \in 1..Len(ts) |-> ts[i].receipt]),
                     NumberedLogs(ts, hashes), SortedLogs(ts, a), Len(ReceiptsOf(ts, a)),
                     Survivors(ts, a))
<1> DEFINE n == Len(ts)
           normal == NormalOf(ts, hashes)
           system == SystemOf(ts, hashes)
           all == [i \in 1..n |-> ts[i].receipt]
           first == [i \in 1..a |-> ts[i].receipt]
           last == [i \in 1..(n - a) |-> ts[a + i].receipt]
           sorted == SortedLogs(ts, a)
           receipts == FlattenSeq(all)
           numbered == NumberedLogs(ts, hashes)
<1>0. n \in Nat /\ a \in Nat /\ a \in 0..n /\ n - a \in Nat
      /\ \A i \in 1..n : Listed(ts[i].receipt)
  <2>1. n \in Nat
    BY ListedFacts DEF Queue
  <2> QED BY <2>1 DEF Queue
<1>1. /\ Len(normal) = a /\ \A k \in 1..a : normal[k] = ts[k]
      /\ Len(system) = n - a /\ \A k \in 1..(n - a) : system[k] = ts[a + k]
  BY QueueParts
<1>2. LET surviving == FlattenSeq(MapSeq(normal, LAMBDA t : SurvivingLogs(t.calls))) IN
      numbered = SortBy(surviving, Ords(surviving))
                     \o FlattenSeq(MapSeq(system, LAMBDA t : t.receipt))
  BY Zenon DEF NumberedLogs, Ords, NormalOf, SystemOf
<1> HIDE DEF normal, system
<1>3. MapSeq(normal, LAMBDA t : SurvivingLogs(t.calls)) = [i \in 1..a |-> SurvivingLogs(ts[i].calls)]
  BY <1>1 DEF MapSeq
<1>4. MapSeq(system, LAMBDA t : t.receipt) = last
  BY <1>1 DEF MapSeq
<1>5. /\ SameData(sorted, FlattenSeq(first), Survivors(ts, a))
      /\ numbered = sorted \o FlattenSeq(last)
  <2>1. SameData(sorted, FlattenSeq(first), Survivors(ts, a))
    BY QueuePaired DEF ReceiptsOf
  <2>2. numbered = sorted \o FlattenSeq(last)
    BY <1>2, <1>3, <1>4, Zenon DEF SortedLogs
  <2> QED BY <2>1, <2>2
<1> DEFINE R == UNION {Elements(ts[i].receipt) : i \in 1..n}
<1>6. \A i \in 1..n : ts[i].receipt \in Seq(R)
  <2> SUFFICES ASSUME NEW i \in 1..n PROVE ts[i].receipt \in Seq(R)
    OBVIOUS
  <2>1. Elements(ts[i].receipt) \subseteq R
    OBVIOUS
  <2> HIDE DEF R
  <2>2. ts[i].receipt \in Seq(Elements(ts[i].receipt))
    BY <1>0, ListedFacts
  <2> QED BY <2>1, <2>2
<1> HIDE DEF R
<1>7. all \in Seq(Seq(R)) /\ Len(all) = n /\ \A i \in 1..n : all[i] = ts[i].receipt
  BY <1>0, <1>6
<1>8. first \in Seq(Seq(R)) /\ Len(first) = a /\ \A i \in 1..a : first[i] = ts[i].receipt
  <2>1. \A i \in 1..a : i \in 1..n
    BY <1>0
  <2> QED BY <1>0, <1>6, <2>1
<1>9. last \in Seq(Seq(R)) /\ Len(last) = n - a
      /\ \A i \in 1..(n - a) : last[i] = ts[a + i].receipt
  <2>1. \A i \in 1..(n - a) : a + i \in 1..n
    BY <1>0
  <2>2. \A i \in 1..(n - a) : ts[a + i].receipt \in Seq(R)
    BY <1>6, <2>1
  <2> HIDE DEF n
  <2>3. last \in [1..(n - a) -> Seq(R)]
    BY <2>2
  <2> QED BY <1>0, <2>3
<1> HIDE DEF all, first, last
<1>10. receipts = FlattenSeq(first) \o FlattenSeq(last)
  <2>1. \A k \in 1..a : first[k] = all[k]
    <3>1. \A i \in 1..a : i \in 1..n
      BY <1>0
    <3> QED BY <1>7, <1>8, <3>1
  <2>2. \A k \in 1..(Len(all) - a) : last[k] = all[a + k]
    <3>1. \A i \in 1..(n - a) : a + i \in 1..n
      BY <1>0
    <3> QED BY <1>7, <1>9, <3>1
  <2>3. a \in 0..Len(all) /\ Len(last) = Len(all) - a
    BY <1>0, <1>7, <1>9
  <2> QED BY <1>7, <1>8, <1>9, <2>1, <2>2, <2>3, FlattenedInParts, ZenonT(40)
<1> DEFINE u == FlattenSeq(first)
           v == FlattenSeq(last)
<1>11. u \in Seq(R) /\ v \in Seq(R)
  BY <1>8, <1>9, FlattenedAt
<1>12. numbered = sorted \o v /\ receipts = u \o v
  BY <1>5, <1>10
<1> DEFINE S == Survivors(ts, a)
<1>13. sorted \in Seq(S) /\ Len(sorted) = Len(u) /\ \A k \in 1..Len(u) : Echoes(u[k], sorted[k])
  BY <1>5, Zenon DEF SameData
<1>14. u = ReceiptsOf(ts, a)
  BY Zenon DEF u, first, ReceiptsOf
<1> HIDE DEF u, v, sorted, receipts, numbered, S
<1>15. /\ Len(receipts) = Len(u) + Len(v)
       /\ \A k \in 1..(Len(u) + Len(v)) : receipts[k] = IF k <= Len(u) THEN u[k] ELSE v[k - Len(u)]
  BY <1>11, <1>12, ConcatProperties
<1>16. /\ numbered \in Seq(R \cup S) /\ Len(numbered) = Len(u) + Len(v)
       /\ \A k \in 1..(Len(u) + Len(v)) :
              numbered[k] = IF k <= Len(u) THEN sorted[k] ELSE v[k - Len(u)]
  <2>1. v \in Seq(R \cup S) /\ sorted \in Seq(R \cup S)
    BY <1>11, <1>13
  <2>2. PICK x, y : x = sorted /\ y = v
    OBVIOUS
  <2>3. x \in Seq(R \cup S) /\ y \in Seq(R \cup S)
    BY <2>1, <2>2, Zenon
  <2>4. /\ x \o y \in Seq(R \cup S) /\ Len(x \o y) = Len(x) + Len(y)
        /\ \A k \in 1..(Len(x) + Len(y)) : (x \o y)[k] = IF k <= Len(x) THEN x[k] ELSE y[k - Len(x)]
    BY <2>3, ConcatProperties
  <2>5. numbered = x \o y /\ Len(x) = Len(u)
    BY <1>12, <1>13, <2>2, Zenon
  <2> QED BY <2>2, <2>4, <2>5, Zenon
<1>17. Len(u) \in Nat /\ Len(v) \in Nat
  BY <1>11
<1>18. ASSUME NEW k \in 1..Len(receipts)
       PROVE  IF k <= Len(u) THEN numbered[k] = sorted[k] /\ Echoes(receipts[k], numbered[k])
              ELSE numbered[k] = receipts[k]
  <2>1. k \in 1..(Len(u) + Len(v)) /\ (k <= Len(u) => k \in 1..Len(u))
    BY <1>15, <1>17
  <2> QED BY <1>13, <1>15, <1>16, <2>1
<1>19. Listed(numbered) /\ Len(receipts) = Len(numbered)
  BY <1>15, <1>16, Zenon DEF Listed
<1>20. Numbering(receipts, numbered, sorted, Len(u), S)
  BY <1>13, <1>18, <1>19, Zenon DEF Numbering
<1> QED BY <1>14, <1>20, Zenon DEF receipts, numbered, sorted, S, all

\* populateLogBlockIndices does not panic on a queue.
LEMMA QueueNumbered ==
    ASSUME NEW ts, NEW hashes, NEW a, NEW b, NEW e, Queue(ts, hashes, a, b, e)
    PROVE  PopulateLogBlockIndices(ts, hashes).ok
<1>1. PICK receipts, numbered : /\ receipts = FlattenSeq([i \in 1..Len(ts) |-> ts[i].receipt])
                                /\ numbered = NumberedLogs(ts, hashes)
  OBVIOUS
<1>2. PICK sorted, m, T : Numbering(receipts, numbered, sorted, m, T)
  BY <1>1, QueueLogs
<1>3. /\ Len(receipts) = Len(numbered)
      /\ \A k \in 1..Len(receipts) : receipts[k].data = numbered[k].data
  BY <1>2 DEF Numbering, Echoes
<1>4. PICK made : PopulateLogBlockIndices(ts, hashes) =
           [ok |-> /\ Len(receipts) = Len(numbered)
                   /\ \A k \in 1..Len(receipts) : receipts[k].data = numbered[k].data,
            trxs |-> made]
  BY <1>1, Zenon DEF PopulateLogBlockIndices
<1> QED BY <1>3, <1>4

-----------------------------------------------------------------------------
(***************************************************************************)
(* Combining, sorting and renumbering bring the transactions into a queue. *)
(***************************************************************************)
\* A transaction that can be numbered, with its logs after its first ordinal.
Delivered(t) ==
    /\ t.begin \in Nat /\ t.end \in Nat /\ t.index \in Nat /\ t.hash # MergedHash
    /\ Ready(t, t.begin + 1, t.end)

\* The transactions of a block, the first a of them in full and the system ones after them.
Lined(us, hashes, a) ==
    /\ Listed(us) /\ a \in 0..Len(us)
    /\ \A i \in 1..Len(us) :
          /\ us[i].hash \in hashes <=> i > a
          /\ i <= a => Delivered(us[i])
          /\ TrxFields \subseteq DOMAIN us[i] /\ Listed(us[i].receipt)
          /\ us[i].index \in Nat /\ us[i].end \in Nat

\* The merged transaction has an end and a receipt.
LEMMA MergedParts ==
    ASSUME NEW merge, Listed(merge), merge # << >>,
           \A i \in 1..Len(merge) : Delivered(merge[i]), NEW index \in Nat
    PROVE  LET u == MergedSystemTrx(merge, index) IN
           /\ TrxFields \subseteq DOMAIN u /\ Listed(u.receipt)
           /\ u.index \in Nat /\ u.end \in Nat
<1> DEFINE n == Len(merge)
           u == MergedSystemTrx(merge, index)
           sorted(k) == SortBy(SurvivingLogs(merge[k].calls),
                               MapSeq(SurvivingLogs(merge[k].calls), LAMBDA l : l.blockIndex))
           ss == [k \in 1..n |-> sorted(k)]
<1>1. n \in Nat /\ n # 0 /\ ToSet(merge) = {merge[i] : i \in 1..n}
      /\ \A i \in 1..n : merge[i].end \in Nat
  <2>1. n \in Nat /\ n # 0 /\ ToSet(merge) = {merge[i] : i \in 1..n}
    BY ListedFacts, NotEmpty DEF Elements
  <2>2. \A i \in 1..n : merge[i].end \in Nat
    BY Zenon DEF Delivered
  <2> QED BY <2>1, <2>2
<1>2. Max({t.end : t \in ToSet(merge)}) \in Nat
  <2> DEFINE f == [i \in 1..n |-> merge[i].end]
  <2>1. \A i \in 1..n : f[i] \in Nat /\ f[i] = merge[i].end
    BY <1>1
  <2> HIDE DEF f
  <2>2. {t.end : t \in ToSet(merge)} = {f[i] : i \in 1..n}
    BY <1>1, <2>1
  <2>3. Max({f[i] : i \in 1..n}) \in {f[i] : i \in 1..n}
    BY <1>1, <2>1, GreatestOf
  <2> QED BY <2>1, <2>2, <2>3
<1>3. \A k \in 1..n : Listed(sorted(k))
  <2> SUFFICES ASSUME NEW k \in 1..n PROVE Listed(sorted(k))
    OBVIOUS
  <2> DEFINE cs == merge[k].calls
             undone == [i \in 1..Len(cs) |-> cs[i].stateReverted]
  <2>1. \E b, e : Emits(cs, b, e)
    BY Zenon DEF Delivered, Ready
  <2>2. SurvivingLogs(cs) = KeptLogsOf(cs, undone)
    <3>1. \A i \in 1..Len(cs) : cs[i].stateReverted = undone[i]
      OBVIOUS
    <3> HIDE DEF cs, undone
    <3> QED BY <3>1, SurvivingIsKept
  <2> HIDE DEF cs, undone
  <2>3. Listed(SurvivingLogs(cs))
    <3>1. KeptLogsOf(cs, undone) \in Seq(EmittedLogs(cs))
      BY <2>1, KeptLogsType
    <3> QED BY <2>2, <3>1 DEF Listed
  <2> QED BY <2>3, SortByListed DEF cs
<1>4. Listed(FlattenSeq(ss))
  <2> DEFINE T == UNION {Elements(sorted(k)) : k \in 1..n}
  <2>1. \A k \in 1..n : sorted(k) \in Seq(Elements(sorted(k)))
    BY <1>3, ListedFacts
  <2>2. \A k \in 1..n : Elements(sorted(k)) \subseteq T
    OBVIOUS
  <2> HIDE DEF T, sorted
  <2>3. \A k \in 1..n : sorted(k) \in Seq(T)
    BY <2>1, <2>2
  <2>4. ss \in Seq(Seq(T))
    BY <1>1, <2>3
  <2> HIDE DEF ss
  <2>5. FlattenSeq(ss) \in Seq(T)
    BY <2>4, FlattenedAt
  <2> QED BY <2>5, Zenon DEF Listed
<1>5. PICK end, receipt : /\ end = Max({t.end : t \in ToSet(merge)})
                          /\ receipt = FlattenSeq(ss)
  OBVIOUS
<1>6. PICK begin, calls, born, done :
          u = [hash |-> MergedHash, index |-> index, from |-> NullAddress,
               to |-> NullAddress, begin |-> begin, end |-> end,
               status |-> "SUCCEEDED", calls |-> calls, receipt |-> receipt,
               born |-> born, done |-> done, system |-> FALSE]
  BY <1>5, Zenon DEF MergedSystemTrx
<1> HIDE DEF u, ss
<1>7. TrxFields \subseteq DOMAIN u /\ u.receipt = receipt /\ u.index = index /\ u.end = end
  BY <1>6 DEF TrxFields
<1>8. Listed(u.receipt) /\ u.index \in Nat /\ u.end \in Nat
  BY <1>2, <1>4, <1>5, <1>7
<1> QED BY <1>7, <1>8 DEF u

\* The merged transactions are some of the transactions.
LEMMA MergeablesDelivered ==
    ASSUME NEW ts, Listed(ts), \A i \in 1..Len(ts) : Delivered(ts[i])
    PROVE  LET merge == MergeablesOf(ts) IN
           Listed(merge) /\ \A i \in 1..Len(merge) : Delivered(merge[i])
<1> DEFINE merge == MergeablesOf(ts)
<1>1. ts \in Seq(Elements(ts))
  BY ListedFacts
<1>2. merge \in Seq(Elements(ts))
  <2>1. \A S : Select(ts, S) \in Seq(Elements(ts))
    BY <1>1, SelectType
  <2> QED BY <2>1, Zenon DEF MergeablesOf
<1> HIDE DEF merge
<1>3. ASSUME NEW i \in 1..Len(merge) PROVE Delivered(merge[i])
  <2>1. merge[i] \in Elements(ts)
    BY <1>2
  <2>2. PICK j \in 1..Len(ts) : merge[i] = ts[j]
    BY <2>1 DEF Elements
  <2> QED BY <2>2
<1>4. Listed(merge)
  BY <1>2, Zenon DEF Listed
<1> QED BY <1>3, <1>4 DEF merge

\* Combining puts the system transactions last, and their indexes follow.
LEMMA CombinedLined ==
    ASSUME NEW ts, Ranked(ts), \A i \in 1..Len(ts) : Delivered(ts[i]),
           NEW us, NEW hashes, NEW a, NEW b, NEW c, NEW p, NEW q,
           Combines(us, hashes, ts, a, b, c, p, q)
    PROVE  /\ Lined(us, hashes, a)
           /\ \A i \in 1..Len(us) : us[i].index < a <=> i <= a
<1>1. /\ Listed(us) /\ LaidOut(us, ts, a, b, c, p, q)
      /\ \A k \in 1..a : us[k] = ts[p[k]]
      /\ \A k \in 1..b : /\ us[a + k] = MergedSystemTrx(MergeablesOf(ts), a)
                         /\ MergeablesOf(ts) # << >>
      /\ \A k \in 1..c : us[a + b + k] = [ts[q[k]] EXCEPT !.index = a + b + k - 1]
      /\ \A i \in 1..Len(us) : us[i].hash \in hashes <=> i > a
  BY Zenon DEF Combines
<1>2. /\ a \in Nat /\ b \in 0..1 /\ c \in Nat /\ Len(us) = a + b + c
      /\ p \in [1..a -> Normals(ts)] /\ Increasing(p, a)
      /\ \A x \in Normals(ts) : \E k \in 1..a : p[k] = x
      /\ q \in [1..c -> Unmergeables(ts)]
      /\ \A k \in 1..a : us[k].index = ts[p[k]].index
      /\ \A k \in 1..b : us[a + k].index = a
      /\ \A k \in 1..c : us[a + b + k].index = a + b + k - 1
  BY <1>1, Zenon DEF LaidOut
<1>3. /\ \A k \in 1..a : p[k] \in 1..Len(ts)
      /\ \A k \in 1..c : q[k] \in 1..Len(ts)
  BY <1>2 DEF Normals, Unmergeables
<1>4. Listed(ts) /\ \A j \in 1..Len(ts) : ts[j].index \in Nat /\ TrxFields \subseteq DOMAIN ts[j]
  BY Zenon DEF Ranked
<1> DEFINE Fine(u) == /\ TrxFields \subseteq DOMAIN u /\ Listed(u.receipt)
                      /\ u.index \in Nat /\ u.end \in Nat
<1>5. ASSUME NEW j \in 1..Len(ts) PROVE Fine(ts[j])
  <2>1. Delivered(ts[j])
    OBVIOUS
  <2> QED BY <1>4, <2>1, Zenon DEF Delivered, Ready
<1>6. \A k \in 1..a : ts[p[k]].index < a
  <2>1. PICK g : g = [k \in 1..a |-> ts[p[k]].index]
    OBVIOUS
  <2>2. \A k \in 1..a : g[k] = ts[p[k]].index
    BY <2>1
  <2>3. Numbers(g, a)
    <3>1. /\ a \in Nat /\ p \in [1..a -> Normals(ts)] /\ Increasing(p, a)
          /\ \A x \in Normals(ts) : \E k \in 1..a : p[k] = x
      BY <1>2, Zenon
    <3>2. Numbers(g, a) /\ (Ascending(ts) => \A k \in 1..a : g[k] = k - 1)
      BY <2>2, <3>1, NormalsNumbered, SMTT(30)
    <3> QED BY <3>2
  <2>4. \A k \in 1..a : g[k] \in 0..(a - 1)
    BY <2>3 DEF Numbers
  <2> QED BY <1>2, <2>2, <2>4, SMTT(30)
<1>7. ASSUME NEW k \in 1..a
      PROVE  Fine(us[k]) /\ Delivered(us[k]) /\ us[k].index < a
  BY <1>1, <1>2, <1>3, <1>5, <1>6, ZenonT(40)
<1>8. ASSUME NEW k \in 1..b
      PROVE  Fine(us[a + k]) /\ us[a + k].index = a
  <2>1. Listed(MergeablesOf(ts)) /\ \A i \in 1..Len(MergeablesOf(ts)) : Delivered(MergeablesOf(ts)[i])
    BY <1>4, MergeablesDelivered
  <2>2. us[a + k] = MergedSystemTrx(MergeablesOf(ts), a) /\ MergeablesOf(ts) # << >>
    BY <1>1
  <2>3. Fine(MergedSystemTrx(MergeablesOf(ts), a))
    BY <1>2, <2>1, <2>2, MergedParts
  <2> QED BY <1>2, <2>2, <2>3
<1>9. ASSUME NEW k \in 1..c
      PROVE  Fine(us[a + b + k]) /\ us[a + b + k].index = a + b + k - 1
  <2>1. PICK t, x : t = ts[q[k]] /\ x = a + b + k - 1
    OBVIOUS
  <2>2. Fine(t) /\ x \in Nat
    <3>1. q[k] \in 1..Len(ts)
      BY <1>3, Zenon
    <3>2. Fine(ts[q[k]])
      BY <1>5, <3>1, Zenon
    <3>3. a \in Nat /\ b \in 0..1 /\ c \in Nat
      BY <1>2, Zenon
    <3>4. x \in Nat
      BY <2>1, <3>3
    <3> QED BY <2>1, <3>2, <3>4, Zenon
  <2>3. us[a + b + k] = [t EXCEPT !.index = x]
    BY <1>1, <2>1
  <2>4. PICK u : u = us[a + b + k]
    OBVIOUS
  <2>5. TrxFields \subseteq DOMAIN u /\ u.receipt = t.receipt /\ u.end = t.end /\ u.index = x
    BY <2>2, <2>3, <2>4 DEF TrxFields
  <2>6. Fine(u)
    BY <2>2, <2>5
  <2> QED BY <1>2, <2>4, <2>6
<1> HIDE DEF Fine
<1>10. ASSUME NEW i \in 1..Len(us)
       PROVE  Fine(us[i]) /\ (us[i].index < a <=> i <= a) /\ (i <= a => Delivered(us[i]))
  <2>1. CASE i <= a
    <3>1. i \in 1..a
      BY <1>2, <2>1
    <3> QED BY <1>7, <2>1, <3>1
  <2>2. CASE i > a /\ i <= a + b
    <3>1. i = a + 1 /\ 1 \in 1..b /\ ~(i <= a)
      BY <1>2, <2>2
    <3>2. Fine(us[i]) /\ us[i].index = a
      BY <1>8, <3>1
    <3> QED BY <1>2, <3>1, <3>2
  <2>3. CASE i > a + b
    <3>1. PICK k \in 1..c : i = a + b + k
      <4>1. i - (a + b) \in 1..c /\ i = a + b + (i - (a + b))
        BY <1>2, <2>3
      <4> QED BY <4>1
    <3>2. Fine(us[i]) /\ us[i].index = a + b + k - 1
      BY <1>9, <3>1
    <3>3. ~(i <= a) /\ ~(a + b + k - 1 < a)
      BY <1>2, <3>1
    <3> QED BY <3>2, <3>3
  <2> QED BY <1>2, <2>1, <2>2, <2>3
<1>11. a \in 0..Len(us)
  BY <1>2
<1>12. Lined(us, hashes, a)
  BY <1>1, <1>10, <1>11, Zenon DEF Lined, Fine
<1> QED BY <1>10, <1>12

\* Sorting by index keeps the system transactions last.
LEMMA SortedLined ==
    ASSUME NEW us, NEW hashes, NEW a, Lined(us, hashes, a),
           NEW key, \A i \in 1..Len(us) : key[i] = us[i].index,
           \/ a = Len(us)
           \/ /\ \A i \in 1..Len(us) : us[i].index < a <=> i <= a
              /\ Contiguous(SortBy(us, key))
    PROVE  Lined(SortBy(us, key), hashes, a)
<1> DEFINE vs == SortBy(us, key)
           n == Len(us)
<1>1. Listed(us) /\ us \in Seq(Elements(us)) /\ n \in Nat /\ a \in 0..n
  BY ListedFacts DEF Lined
<1>2. \A i \in 1..n : key[i] \in Nat
  BY DEF Lined
<1>3. vs \in Seq(Elements(us)) /\ \E p : SortedAt(vs, us, key, p)
  BY <1>1, <1>2, SortedInOrder
<1> HIDE DEF vs
<1>4. PICK p : SortedAt(vs, us, key, p)
  BY <1>3
<1>5. Len(vs) = n /\ \A k \in 1..n : vs[k] = us[p[k]] /\ p[k] \in 1..n
  BY <1>4 DEF SortedAt, Orders
<1>6. Listed(vs)
  BY <1>3, Zenon DEF Listed
<1>7. ASSUME NEW k \in 1..n PROVE p[k] <= a <=> k <= a
  <2>1. CASE a = n
    BY <1>1, <1>5, <2>1
  <2>2. CASE /\ \A i \in 1..n : us[i].index < a <=> i <= a
             /\ Contiguous(vs)
    <3>1. vs[k].index = k - 1
      BY <1>5, <2>2 DEF Contiguous
    <3>2. us[p[k]].index = k - 1 /\ p[k] \in 1..n
      BY <1>5, <3>1
    <3>3. k - 1 < a <=> p[k] <= a
      BY <2>2, <3>2
    <3> QED BY <1>1, <3>3
  <2> QED BY <2>1, <2>2 DEF vs
<1>8. ASSUME NEW k \in 1..n
      PROVE  /\ vs[k].hash \in hashes <=> k > a
             /\ k <= a => Delivered(vs[k])
             /\ TrxFields \subseteq DOMAIN vs[k] /\ Listed(vs[k].receipt)
             /\ vs[k].index \in Nat /\ vs[k].end \in Nat
  <2>1. PICK i \in 1..n : vs[k] = us[i] /\ (i <= a <=> k <= a)
    BY <1>5, <1>7
  <2>2. i > a <=> k > a
    BY <1>1, <2>1
  <2> QED BY <2>1, <2>2, Zenon DEF Lined
<1>9. Lined(vs, hashes, a)
  BY <1>1, <1>5, <1>6, <1>8, Zenon DEF Lined
<1> QED BY <1>9 DEF vs

\* The logs of a transaction come after its first ordinal, so transactions that follow one
\* another are a queue.
LEMMA LinedQueue ==
    ASSUME NEW us, NEW hashes, NEW a, Lined(us, hashes, a),
           \A i, j \in 1..a : i < j => us[i].end <= us[j].begin
    PROVE  \E b, e : Queue(us, hashes, a, b, e)
<1>1. Listed(us) /\ Len(us) \in Nat /\ a \in 0..Len(us)
  BY ListedFacts DEF Lined
<1>2. PICK b, e : b = [i \in 1..a |-> us[i].begin + 1] /\ e = [i \in 1..a |-> us[i].end]
  OBVIOUS
<1>3. \A i \in 1..a : b[i] = us[i].begin + 1 /\ e[i] = us[i].end
  BY <1>2
<1>4. \A i \in 1..a : i \in 1..Len(us)
  BY <1>1
<1>5. \A i \in 1..a : us[i].hash \notin hashes /\ Delivered(us[i])
  <2>1. \A i \in 1..a : i <= a /\ ~(i > a)
    BY <1>1
  <2> QED BY <1>4, <2>1, Zenon DEF Lined
<1>6. \A i \in 1..a : /\ us[i].begin \in Nat /\ us[i].end \in Nat
                      /\ Ready(us[i], us[i].begin + 1, us[i].end)
  BY <1>5, Zenon DEF Delivered
<1>7. \A i \in 1..a : b[i] \in Nat /\ e[i] \in Nat /\ Ready(us[i], b[i], e[i])
  BY <1>3, <1>6
<1>8. \A i, j \in 1..a : i < j => e[i] < b[j]
  BY <1>3, <1>6
<1>9. /\ \A i \in 1..Len(us) : i > a => us[i].hash \in hashes
      /\ \A i \in 1..Len(us) : Listed(us[i].receipt)
  BY Zenon DEF Lined
<1>10. Queue(us, hashes, a, b, e)
  BY <1>1, <1>5, <1>7, <1>8, <1>9, Zenon DEF Queue
<1> QED BY <1>10

\* Each baseline is at least those before it.
LEMMA BaselinesGrow ==
    ASSUME NEW n \in Nat, NEW base \in [0..n -> Nat], \A i \in 1..n : base[i] >= base[i-1]
    PROVE  \A i, j \in 0..n : i <= j => base[i] <= base[j]
<1> DEFINE P == {m \in Nat : m <= n => \A i \in 0..m : base[i] <= base[m]}
<1>1. 0 \in P
  OBVIOUS
<1>2. ASSUME NEW m \in Nat, m \in P PROVE m + 1 \in P
  <2> SUFFICES ASSUME m + 1 <= n, NEW i \in 0..(m + 1) PROVE base[i] <= base[m + 1]
    OBVIOUS
  <2>1. m + 1 \in 1..n /\ (m + 1) - 1 = m /\ m <= n /\ m \in 0..n /\ m + 1 \in 0..n /\ i \in 0..n
    OBVIOUS
  <2>2. base[m + 1] >= base[m]
    BY <2>1
  <2>3. base[i] \in Nat /\ base[m] \in Nat /\ base[m + 1] \in Nat
    BY <2>1
  <2>4. CASE i = m + 1
    BY <2>3, <2>4
  <2>5. CASE i \in 0..m
    <3>1. base[i] <= base[m]
      BY <1>2, <2>1, <2>5
    <3> QED BY <2>2, <2>3, <3>1
  <2> QED BY <2>4, <2>5
<1> HIDE DEF P
<1>3. \A m \in Nat : m \in P
  BY <1>1, <1>2, NaturalsOf
<1> QED BY <1>3 DEF P

\* Shifting keeps the hash and moves both ends.
LEMMA ShiftParts ==
    ASSUME NEW t, TrxFields \subseteq DOMAIN t, Listed(t.receipt), NEW base
    PROVE  LET u == ShiftOrdinals(t, base) IN
           /\ TrxFields \subseteq DOMAIN u /\ u.hash = t.hash /\ u.index = t.index
           /\ u.end = t.end + base /\ Listed(u.receipt)
<1> DEFINE shared(l) == t.hash = MergedHash /\ \E r \in ToSet(t.receipt) : SameLog(l, r)
           shiftLog(l) == [l EXCEPT !.ord = l.ord + (IF shared(l) THEN 2 * base ELSE base)]
           receipt == [k \in 1..Len(t.receipt) |-> shiftLog(t.receipt[k])]
           u == ShiftOrdinals(t, base)
<1>1. PICK calls : u = [t EXCEPT !.begin = t.begin + base, !.end = t.end + base,
                                 !.calls = calls, !.receipt = receipt]
  BY Zenon DEF ShiftOrdinals, MapSeq
<1>2. receipt = [k \in 1..Len(t.receipt) |-> receipt[k]]
  OBVIOUS
<1> HIDE DEF receipt, u
<1>3. Len(t.receipt) \in Nat
  BY ListedFacts
<1>4. Listed(receipt)
  BY <1>2, <1>3, Tabled
<1>5. /\ TrxFields \subseteq DOMAIN u /\ u.hash = t.hash /\ u.index = t.index
      /\ u.end = t.end + base /\ u.receipt = receipt
  BY <1>1 DEF TrxFields
<1> QED BY <1>4, <1>5 DEF u

\* Shifting makes transactions follow one another.
LEMMA LinedShifted ==
    ASSUME NEW vs, NEW hashes, NEW a, Lined(vs, hashes, a), NEW first \in Nat,
           NEW base, base = Baselines(vs, first),
           NEW us, us = [i \in 1..Len(vs) |-> ShiftOrdinals(vs[i], base[i-1])]
    PROVE  /\ \E b, e : Queue(us, hashes, a, b, e)
           /\ \A i \in 1..Len(us) : TrxFields \subseteq DOMAIN us[i]
<1> DEFINE n == Len(vs)
<1>1. /\ Listed(vs) /\ n \in Nat /\ a \in 0..n
      /\ \A i \in 1..n : TrxFields \subseteq DOMAIN vs[i] /\ Listed(vs[i].receipt)
                         /\ vs[i].end \in Nat
  BY ListedFacts DEF Lined
<1>2. /\ base \in [0..n -> Nat] /\ base[0] = first
      /\ \A i \in 1..n : base[i] = vs[i].end + base[i-1]
  BY <1>1, BaselinesAre
<1>3. \A i \in 1..n : i \in 0..n /\ i - 1 \in 0..n /\ base[i] \in Nat /\ base[i-1] \in Nat
  BY <1>1, <1>2
<1>4. \A i, j \in 0..n : i <= j => base[i] <= base[j]
  <2>1. \A i \in 1..n : base[i] >= base[i-1]
    BY <1>1, <1>2, <1>3
  <2> QED BY <1>1, <1>2, <2>1, BaselinesGrow
<1>5. us = [i \in 1..n |-> us[i]] /\ \A i \in 1..n : us[i] = ShiftOrdinals(vs[i], base[i-1])
  OBVIOUS
<1>6. Listed(us) /\ Len(us) = n
  BY <1>1, <1>5, Tabled
<1>7. \A i \in 1..n : TrxFields \subseteq DOMAIN us[i] /\ us[i].hash = vs[i].hash /\ Listed(us[i].receipt)
  <2> SUFFICES ASSUME NEW i \in 1..n
               PROVE  TrxFields \subseteq DOMAIN us[i] /\ us[i].hash = vs[i].hash
                      /\ Listed(us[i].receipt)
    OBVIOUS
  <2>1. PICK t, x : t = vs[i] /\ x = base[i-1] /\ us[i] = ShiftOrdinals(t, x)
    BY <1>5
  <2>2. TrxFields \subseteq DOMAIN t /\ Listed(t.receipt)
    BY <1>1, <2>1
  <2> QED BY <2>1, <2>2, ShiftParts
<1>8. PICK b, e : /\ b = [i \in 1..a |-> vs[i].begin + 1 + base[i-1]]
                  /\ e = [i \in 1..a |-> vs[i].end + base[i-1]]
  OBVIOUS
<1>9. \A i \in 1..a : b[i] = vs[i].begin + 1 + base[i-1] /\ e[i] = vs[i].end + base[i-1]
  BY <1>8
<1>10. \A i \in 1..a : i \in 1..n
  BY <1>1
<1>11. \A i \in 1..a : vs[i].hash \notin hashes /\ Delivered(vs[i])
  <2>1. \A i \in 1..a : i <= a /\ ~(i > a)
    BY <1>1
  <2> QED BY <1>10, <2>1, Zenon DEF Lined
<1>12. ASSUME NEW i \in 1..a
       PROVE  /\ us[i].hash \notin hashes /\ b[i] \in Nat /\ e[i] \in Nat
              /\ Ready(us[i], b[i], e[i]) /\ e[i] = base[i] /\ b[i] > base[i-1]
  <2>1. PICK t, x : t = vs[i] /\ x = base[i-1] /\ us[i] = ShiftOrdinals(t, x)
    BY <1>5, <1>10
  <2>2. x \in Nat
    BY <1>3, <1>10, <2>1
  <2>3. t.begin \in Nat /\ t.end \in Nat /\ t.hash # MergedHash /\ Ready(t, t.begin + 1, t.end)
    BY <1>11, <2>1, Zenon DEF Delivered
  <2>4. PICK y \in Nat : y = t.begin + 1
    BY <2>3
  <2>5. Ready(t, y, t.end)
    BY <2>3, <2>4
  <2>6. Ready(us[i], y + x, t.end + x)
    BY <2>1, <2>2, <2>3, <2>5, ShiftReady, ZenonT(40)
  <2>7. b[i] = y + x /\ e[i] = t.end + x
    BY <1>9, <2>1, <2>4
  <2>8. b[i] \in Nat /\ e[i] \in Nat /\ b[i] > x
    <3>1. PICK z \in Nat : z = t.end
      BY <2>3
    <3>2. \A m \in Nat, k \in Nat : m + 1 + k \in Nat /\ m + k \in Nat /\ m + 1 + k > k
      OBVIOUS
    <3>3. PICK m \in Nat : m = t.begin
      BY <2>3
    <3>4. y + x = m + 1 + x /\ t.end + x = z + x
      BY <2>4, <3>1, <3>3
    <3> QED BY <2>2, <2>7, <3>1, <3>2, <3>3, <3>4, SMTT(30)
  <2>9. e[i] = base[i]
    BY <1>2, <1>10, <2>1, <2>7
  <2> QED BY <1>7, <1>10, <1>11, <2>1, <2>6, <2>7, <2>8, <2>9
<1>13. \A i, j \in 1..a : i < j => e[i] < b[j]
  <2> SUFFICES ASSUME NEW i \in 1..a, NEW j \in 1..a, i < j PROVE e[i] < b[j]
    OBVIOUS
  <2>1. i \in 1..n /\ j \in 1..n /\ i <= j - 1
    BY <1>10
  <2>2. i \in 0..n /\ j - 1 \in 0..n /\ base[i] \in Nat /\ base[j-1] \in Nat
    BY <1>3, <2>1
  <2>3. base[i] <= base[j-1]
    BY <1>4, <2>1, <2>2
  <2>4. e[i] = base[i] /\ b[j] > base[j-1] /\ b[j] \in Nat
    BY <1>12
  <2> QED BY <2>2, <2>3, <2>4
<1>14. \A i \in 1..n : i > a => us[i].hash \in hashes
  BY <1>7 DEF Lined
<1>15. Queue(us, hashes, a, b, e)
  BY <1>1, <1>6, <1>7, <1>12, <1>13, <1>14, Zenon DEF Queue
<1> QED BY <1>6, <1>7, <1>15

\* The status of a transaction does not matter to its logs.
LEMMA QueueStatus ==
    ASSUME NEW ts, NEW hashes, NEW a, NEW b, NEW e, Queue(ts, hashes, a, b, e),
           \A i \in 1..Len(ts) : TrxFields \subseteq DOMAIN ts[i]
    PROVE  Queue(MapSeq(ts, PopulateTrxStatus), hashes, a, b, e)
<1> DEFINE us == MapSeq(ts, PopulateTrxStatus)
           n == Len(ts)
<1>1. Listed(ts) /\ n \in Nat /\ a \in 0..n
  BY ListedFacts DEF Queue
<1>2. us = [i \in 1..n |-> us[i]] /\ \A i \in 1..n : us[i] = PopulateTrxStatus(ts[i])
  BY DEF MapSeq
<1> HIDE DEF us
<1>3. Listed(us) /\ Len(us) = n
  BY <1>1, <1>2, Tabled
<1>4. \A i \in 1..n : us[i].hash = ts[i].hash /\ us[i].receipt = ts[i].receipt
  <2> SUFFICES ASSUME NEW i \in 1..n
               PROVE  us[i].hash = ts[i].hash /\ us[i].receipt = ts[i].receipt
    OBVIOUS
  <2>1. PICK t, u : t = ts[i] /\ u = us[i] /\ u = PopulateTrxStatus(t)
    BY <1>2
  <2>2. PICK x : u = t \/ u = [t EXCEPT !.status = x]
    BY <2>1, Zenon DEF PopulateTrxStatus
  <2>3. TrxFields \subseteq DOMAIN t
    BY <2>1
  <2>4. u.hash = t.hash /\ u.receipt = t.receipt
    BY <2>2, <2>3 DEF TrxFields
  <2> QED BY <2>1, <2>4
<1>5. \A i \in 1..a : i \in 1..n
  BY <1>1
<1>6. \A i \in 1..a : Ready(us[i], b[i], e[i])
  <2>1. \A i \in 1..a : Ready(ts[i], b[i], e[i])
    BY Zenon DEF Queue
  <2>2. \A i \in 1..a : Ready(PopulateTrxStatus(ts[i]), b[i], e[i])
    BY <2>1, StatusReady, Zenon
  <2> QED BY <1>2, <1>5, <2>2
<1>7. Queue(us, hashes, a, b, e)
  BY <1>1, <1>3, <1>4, <1>5, <1>6, Zenon DEF Queue
<1> QED BY <1>7 DEF us

-----------------------------------------------------------------------------
(***************************************************************************)
(* normalizeInPlace, on the transactions a node hands over.                *)
(***************************************************************************)
\* The transactions a block can be normalized with.
Handed(ts, chain) ==
    /\ NodeTrxs(ts)
    /\ \A i \in 1..Len(ts) : /\ ts[i].begin \in Nat /\ ts[i].end \in Nat
                              /\ Emits(ts[i].calls, ts[i].begin + 1, ts[i].end)
                              /\ Accounted(ts[i]) /\ Known(ts[i])
    /\ {ts[i].index : i \in Normals(ts)} = 0..(Cardinality(Normals(ts)) - 1)
    /\ chain.combine \in BOOLEAN
    /\ \/ chain.reorder
       \/ \A i, j \in 1..Len(ts) : i < j => ts[i].end <= ts[j].begin

\* They still can once their calls are marked.
LEMMA RevertedHanded ==
    ASSUME NEW ts, NEW chain, Handed(ts, chain), NEW us, us = MapSeq(ts, Revert)
    PROVE  /\ Ranked(us) /\ Family(us, us) /\ Len(us) = Len(ts)
           /\ \A i \in 1..Len(us) : Known(us[i]) /\ Delivered(us[i])
           /\ \/ chain.reorder
              \/ \A i, j \in 1..Len(us) : i < j => us[i].end <= us[j].begin
<1>0. /\ NodeTrxs(ts) /\ Listed(ts) /\ Len(ts) \in Nat
      /\ \A j \in 1..Len(ts) : NodeTrx(ts[j]) /\ ts[j].hash = j
  BY ListedFacts DEF Handed, NodeTrxs
<1>1. /\ Family(us, us) /\ Len(us) = Len(ts)
      /\ \A j \in 1..Len(ts) : us[j].hash = j
      /\ \A j \in 1..Len(ts) : /\ us[j].index = ts[j].index /\ us[j].from = ts[j].from
                               /\ us[j].to = ts[j].to
  BY <1>0, RevertedTrxs
<1>2. \A i \in 1..Len(ts) : us[i] = Revert(ts[i])
  BY DEF MapSeq
<1>3. \A j \in 1..Len(ts) : /\ Mergeable(us[j]) <=> Mergeable(ts[j])
                            /\ Unmergeable(us[j]) <=> Unmergeable(ts[j])
                            /\ Normal(us[j]) <=> Normal(ts[j])
  BY <1>1 DEF Mergeable, Unmergeable, Normal
<1>4. Normals(us) = Normals(ts) /\ {us[i].index : i \in Normals(us)} = {ts[i].index : i \in Normals(ts)}
  <2>1. Normals(us) = Normals(ts)
    BY <1>1, <1>3 DEF Normals
  <2>2. \A i \in Normals(ts) : us[i].index = ts[i].index
    BY <1>1 DEF Normals
  <2> QED BY <2>1, <2>2
<1>5. Ranked(us)
  <2>1. \A j \in 1..Len(us) : us[j].index \in Nat /\ TrxFields \subseteq DOMAIN us[j]
    <3>1. \A j \in 1..Len(us) : us[j] \in Elements(us)
      BY DEF Elements
    <3> QED BY <1>1, <3>1, Zenon DEF Family, Descends
  <2>2. Listed(us)
    BY <1>1 DEF Family
  <2>3. {us[i].index : i \in Normals(us)} = 0..(Cardinality(Normals(us)) - 1)
    BY <1>4 DEF Handed
  <2> QED BY <1>1, <2>1, <2>2, <2>3 DEF Ranked
<1>6. \A i \in 1..Len(us) : Known(us[i])
  BY <1>1, <1>3 DEF Handed, Known
<1>7. ASSUME NEW i \in 1..Len(ts)
      PROVE  Delivered(us[i]) /\ us[i].begin = ts[i].begin /\ us[i].end = ts[i].end
  <2>1. PICK t, u : t = ts[i] /\ u = us[i] /\ u = Revert(t)
    BY <1>2
  <2>2. TrxFields \subseteq DOMAIN t /\ NodeCalls(t.calls)
    BY <1>0, <2>1 DEF NodeTrx
  <2>3. /\ t.begin \in Nat /\ t.end \in Nat
        /\ Emits(t.calls, t.begin + 1, t.end) /\ Accounted(t)
    BY <2>1, Zenon DEF Handed
  <2>4. Ready(u, t.begin + 1, t.end)
    BY <2>1, <2>2, <2>3, RevertReady
  <2>5. PICK cs : u = [t EXCEPT !.calls = cs]
    BY <2>1, Zenon DEF Revert
  <2>6. u.begin = t.begin /\ u.end = t.end
    BY <2>2, <2>5 DEF TrxFields
  <2>7. u.index \in Nat /\ u.hash = i
    <3>1. i \in 1..Len(us)
      BY <1>1
    <3>2. us[i].index = ts[i].index /\ us[i].hash = i
      BY <1>1, <3>1, Zenon
    <3>3. ts[i].index \in Nat
      BY <1>0, Zenon DEF NodeTrx
    <3> QED BY <2>1, <3>2, <3>3, Zenon
  <2>8. u.hash # MergedHash
    BY <2>7 DEF MergedHash
  <2>9. Delivered(u)
    BY <2>3, <2>4, <2>6, <2>7, <2>8, Zenon DEF Delivered
  <2> QED BY <2>1, <2>6, <2>9
<1>8. \/ chain.reorder
      \/ \A i, j \in 1..Len(us) : i < j => us[i].end <= us[j].begin
  BY <1>1, <1>7 DEF Handed
<1> QED BY <1>1, <1>5, <1>6, <1>7, <1>8

\* What is normalized before transactions are put in order.
Gathered(us, hashes, a, reorder) ==
    /\ Lined(us, hashes, a)
    /\ \/ a = Len(us)
       \/ /\ \A i \in 1..Len(us) : us[i].index < a <=> i <= a
          /\ Contiguous(SortBy(us, MapSeq(us, LAMBDA t : t.index)))
    /\ reorder \/ \A i, j \in 1..a : i < j => us[i].end <= us[j].begin

LEMMA CombinedGathered ==
    ASSUME NEW ts, Ranked(ts), \A i \in 1..Len(ts) : Known(ts[i]) /\ Delivered(ts[i]),
           NEW reorder,
           reorder \/ \A i, j \in 1..Len(ts) : i < j => ts[i].end <= ts[j].begin
    PROVE  LET made == CombinePolygonSystemTransactions(ts) IN
           \E a : Gathered(made.trxs, made.systemHashes, a, reorder)
<1>1. PICK made : made = CombinePolygonSystemTransactions(ts)
  OBVIOUS
<1>2. PICK a, b, c, p, q : Combines(made.trxs, made.systemHashes, ts, a, b, c, p, q)
  BY <1>1, CombinedParts
<1>3. PICK us : us = made.trxs
  OBVIOUS
<1>4. /\ Lined(us, made.systemHashes, a)
      /\ \A i \in 1..Len(us) : us[i].index < a <=> i <= a
  BY <1>2, <1>3, CombinedLined
<1>5. Placing(us, ts, TRUE) /\ Numbers(IndexOf(us), Len(us))
  BY <1>1, <1>3, CombinedPlaced
<1>6. Contiguous(SortBy(us, MapSeq(us, LAMBDA t : t.index)))
  <2>1. PICK key : key = MapSeq(us, LAMBDA t : t.index)
    OBVIOUS
  <2>2. \A i \in 1..Len(us) : key[i] = us[i].index
    BY <2>1 DEF MapSeq
  <2>3. Listed(us)
    BY <1>5 DEF Placing
  <2>4. Contiguous(SortBy(us, key))
    BY <1>5, <2>2, <2>3, SortedPlaced
  <2> QED BY <2>1, <2>4
<1>7. reorder \/ \A i, j \in 1..a : i < j => us[i].end <= us[j].begin
  <2>1. /\ \A k \in 1..a : us[k] = ts[p[k]]
        /\ LaidOut(us, ts, a, b, c, p, q)
    BY <1>2, <1>3, Zenon DEF Combines
  <2>2. p \in [1..a -> Normals(ts)] /\ Increasing(p, a)
    BY <2>1, Zenon DEF LaidOut
  <2>3. \A k \in 1..a : p[k] \in 1..Len(ts)
    BY <2>2 DEF Normals
  <2>4. \A i, j \in 1..a : i < j => p[i] < p[j]
    BY <2>2 DEF Increasing
  <2> QED BY <2>1, <2>3, <2>4
<1>8. Gathered(us, made.systemHashes, a, reorder)
  BY <1>4, <1>6, <1>7, Zenon DEF Gathered
<1> QED BY <1>1, <1>3, <1>8

LEMMA UncombinedGathered ==
    ASSUME NEW ts, Ranked(ts), \A i \in 1..Len(ts) : Delivered(ts[i]),
           NEW reorder,
           reorder \/ \A i, j \in 1..Len(ts) : i < j => ts[i].end <= ts[j].begin
    PROVE  Gathered(ts, {}, Len(ts), reorder)
<1>1. Listed(ts) /\ Len(ts) \in Nat
  BY ListedFacts DEF Ranked
<1>2. ASSUME NEW i \in 1..Len(ts)
      PROVE  /\ i <= Len(ts) /\ ~(i > Len(ts))
             /\ TrxFields \subseteq DOMAIN ts[i] /\ Listed(ts[i].receipt)
             /\ ts[i].index \in Nat /\ ts[i].end \in Nat
  <2>1. i <= Len(ts) /\ ~(i > Len(ts))
    BY <1>1
  <2> QED BY <2>1, Zenon DEF Delivered, Ready
<1>3. Lined(ts, {}, Len(ts))
  <2>1. Len(ts) \in 0..Len(ts)
    BY <1>1
  <2>2. \A i \in 1..Len(ts) : ts[i].hash \in {} <=> i > Len(ts)
    BY <1>2
  <2> QED BY <1>1, <1>2, <2>1, <2>2, Zenon DEF Lined
<1> QED BY <1>3, Zenon DEF Gathered

\* Ordered or not, they are a queue.
LEMMA OrderedQueue ==
    ASSUME NEW block, {"trxs", "changes"} \subseteq DOMAIN block, NEW hashes, NEW a,
           NEW reorder, Gathered(block.trxs, hashes, a, reorder), NEW first \in Nat,
           NEW ordered,
           ordered = IF reorder THEN ReorderTransactionsAndRenumberOrdinals(block, first) ELSE block
    PROVE  /\ \E b, e : Queue(ordered.trxs, hashes, a, b, e)
           /\ \A i \in 1..Len(ordered.trxs) : TrxFields \subseteq DOMAIN ordered.trxs[i]
<1>1. PICK ts : ts = block.trxs
  OBVIOUS
<1>2. Lined(ts, hashes, a)
  BY <1>1 DEF Gathered
<1>3. CASE ~reorder
  <2>1. \A i, j \in 1..a : i < j => ts[i].end <= ts[j].begin
    BY <1>1, <1>3 DEF Gathered
  <2>2. \E b, e : Queue(ts, hashes, a, b, e)
    BY <1>2, <2>1, LinedQueue
  <2>3. \A i \in 1..Len(ts) : TrxFields \subseteq DOMAIN ts[i]
    BY <1>2, Zenon DEF Lined
  <2> QED BY <1>1, <1>3, <2>2, <2>3
<1>4. CASE reorder
  <2>1. PICK key : key = MapSeq(ts, LAMBDA t : t.index)
    OBVIOUS
  <2>2. \A i \in 1..Len(ts) : key[i] = ts[i].index
    BY <2>1 DEF MapSeq
  <2>3. \/ a = Len(ts)
        \/ /\ \A i \in 1..Len(ts) : ts[i].index < a <=> i <= a
           /\ Contiguous(SortBy(ts, key))
    BY <1>1, <2>1, Zenon DEF Gathered
  <2>4. PICK vs : vs = SortBy(ts, key)
    OBVIOUS
  <2>5. Lined(vs, hashes, a)
    BY <1>2, <2>2, <2>3, <2>4, SortedLined
  <2>6. PICK base : base = Baselines(vs, first)
    OBVIOUS
  <2>7. PICK us : us = [i \in 1..Len(vs) |-> ShiftOrdinals(vs[i], base[i-1])]
    OBVIOUS
  <2>8. /\ \E b, e : Queue(us, hashes, a, b, e)
        /\ \A i \in 1..Len(us) : TrxFields \subseteq DOMAIN us[i]
    BY <2>5, <2>6, <2>7, LinedShifted, ZenonT(40)
  <2>9. PICK moved : ReorderTransactionsAndRenumberOrdinals(block, first)
                         = [block EXCEPT !.trxs = us, !.changes = moved]
    BY <1>1, <2>1, <2>4, <2>6, <2>7, Zenon DEF ReorderTransactionsAndRenumberOrdinals
  <2>10. ReorderTransactionsAndRenumberOrdinals(block, first).trxs = us
    BY <2>9
  <2> QED BY <1>4, <2>8, <2>10
<1> QED BY <1>3, <1>4

\* Every delegate call has a caller that is not one.
LEMMA CanUpgrade ==
    ASSUME NEW ts, NEW src, Family(ts, src)
    PROVE  CanUpgradeV2ToV3(ts)
<1> SUFFICES ASSUME NEW i \in 1..Len(ts), NEW calls, calls = ts[i].calls,
                    NEW k \in 1..Len(calls), calls[k].type = "DELEGATE"
             PROVE  HeadParents(calls)[k] # 0
  BY Zenon DEF CanUpgradeV2ToV3
<1>1. ts[i] \in Elements(ts)
  BY DEF Elements
<1>2. NodeCalls(calls)
  BY <1>1, Zenon DEF Family, Descends
<1>3. HeadParents(calls)[k] = NotDelegate(calls)[k]
  BY <1>2, HeadsAreFound
<1>4. NotDelegate(calls)[k] \in 1..Len(calls)
  BY <1>2, NotDelegateFacts
<1> QED BY <1>3, <1>4

\* With those transactions normalizeInPlace panics nowhere.
LEMMA NormalizedOk ==
    ASSUME NEW block, {"trxs", "ver", "changes"} \subseteq DOMAIN block,
           NEW chain, Handed(block.trxs, chain), NEW first \in Nat
    PROVE  NormalizeInPlace(block, chain, first).ok
<1> DEFINE us == MapSeq(block.trxs, Revert)
           combined == IF chain.combine THEN CombinePolygonSystemTransactions(us)
                       ELSE [trxs |-> us, systemHashes |-> {}]
           whole == [block EXCEPT !.trxs = combined.trxs]
           ordered == IF chain.reorder
                      THEN ReorderTransactionsAndRenumberOrdinals(whole, first) ELSE whole
           indexed == PopulateLogBlockIndices(MapSeq(ordered.trxs, PopulateTrxStatus),
                                              combined.systemHashes)
           done == [ordered EXCEPT !.trxs = indexed.trxs]
           upgrade == chain.upgrade /\ done.ver = 2
           made == NormalizeInPlace(block, chain, first)
<1>1. made = IF indexed.ok /\ (upgrade => CanUpgradeV2ToV3(done.trxs))
               THEN [ok |-> TRUE, block |-> IF upgrade THEN UpgradeBlockV2ToV3(done) ELSE done]
               ELSE [ok |-> FALSE, block |-> done]
  BY Zenon DEF NormalizeInPlace, Arrange, Finish
<1>2. /\ Ranked(us) /\ Family(us, us)
      /\ \A i \in 1..Len(us) : Known(us[i]) /\ Delivered(us[i])
      /\ \/ chain.reorder
         \/ \A i, j \in 1..Len(us) : i < j => us[i].end <= us[j].begin
  BY RevertedHanded
<1>3. chain.combine \in BOOLEAN
  BY Zenon DEF Handed
<1> HIDE DEF us
<1>4. \E a : Gathered(combined.trxs, combined.systemHashes, a, chain.reorder)
  <2>1. CASE chain.combine
    <3>1. combined = CombinePolygonSystemTransactions(us)
      BY <2>1
    <3> HIDE DEF combined
    <3> QED BY <1>2, <3>1, CombinedGathered
  <2>2. CASE ~chain.combine
    <3>1. combined.trxs = us /\ combined.systemHashes = {}
      BY <2>2
    <3> HIDE DEF combined
    <3>2. Gathered(us, {}, Len(us), chain.reorder)
      BY <1>2, UncombinedGathered
    <3> QED BY <3>1, <3>2
  <2> QED BY <2>1, <2>2
<1>5. Family(combined.trxs, us)
  <2>1. CASE chain.combine
    BY <1>2, <2>1, CombinedFamily
  <2>2. CASE ~chain.combine
    BY <1>2, <2>2
  <2> QED BY <2>1, <2>2
<1> HIDE DEF combined
<1>6. /\ whole.trxs = combined.trxs
      /\ {"trxs", "ver", "changes"} \subseteq DOMAIN whole
  OBVIOUS
<1> HIDE DEF whole
<1>7. PICK a : Gathered(whole.trxs, combined.systemHashes, a, chain.reorder)
  BY <1>4, <1>6
<1>8. /\ \E b, e : Queue(ordered.trxs, combined.systemHashes, a, b, e)
      /\ \A i \in 1..Len(ordered.trxs) : TrxFields \subseteq DOMAIN ordered.trxs[i]
  <2>1. ordered = IF chain.reorder
                  THEN ReorderTransactionsAndRenumberOrdinals(whole, first) ELSE whole
    OBVIOUS
  <2> HIDE DEF ordered
  <2> QED BY <1>6, <1>7, <2>1, OrderedQueue
<1>9. Family(ordered.trxs, us) /\ "trxs" \in DOMAIN ordered
  <2>1. CASE chain.reorder
    <3>1. Family(ReorderTransactionsAndRenumberOrdinals(whole, first).trxs, us)
      BY <1>5, <1>6, ReorderedFamily
    <3>2. PICK trxs1, moved : ReorderTransactionsAndRenumberOrdinals(whole, first) =
                                  [whole EXCEPT !.trxs = trxs1, !.changes = moved]
      BY Zenon DEF ReorderTransactionsAndRenumberOrdinals
    <3>3. ordered = [whole EXCEPT !.trxs = trxs1, !.changes = moved]
      BY <2>1, <3>2
    <3>4. ordered = ReorderTransactionsAndRenumberOrdinals(whole, first)
      BY <2>1
    <3> HIDE DEF ordered
    <3>5. "trxs" \in DOMAIN ordered
      BY <1>6, <3>3
    <3> QED BY <3>1, <3>4, <3>5
  <2>2. CASE ~chain.reorder
    BY <1>5, <1>6, <2>2
  <2> QED BY <2>1, <2>2
<1> HIDE DEF ordered
<1>10. PICK b, e : Queue(MapSeq(ordered.trxs, PopulateTrxStatus), combined.systemHashes, a, b, e)
  BY <1>8, QueueStatus
<1>11. indexed.ok
  BY <1>10, QueueNumbered
<1>12. Family(indexed.trxs, us)
  <2>1. Family(MapSeq(ordered.trxs, PopulateTrxStatus), us)
    BY <1>9, StatusFamily
  <2> QED BY <2>1, IndexedFamily
<1> HIDE DEF indexed
<1>13. done.trxs = indexed.trxs
  BY <1>9
<1>14. CanUpgradeV2ToV3(done.trxs)
  BY <1>12, <1>13, CanUpgrade
<1> HIDE DEF done, upgrade
<1>15. made = [ok |-> TRUE, block |-> IF upgrade THEN UpgradeBlockV2ToV3(done) ELSE done]
  BY <1>1, <1>11, <1>14, Zenon
<1> HIDE DEF made
<1>16. made.ok
  BY <1>15
<1> QED BY <1>16 DEF made

-----------------------------------------------------------------------------
(***************************************************************************)
(* What execution has to keep for the logs to pair.                        *)
(***************************************************************************)

\* A transaction that is executed: its logs so far come after its first ordinal.
Logging(t, now) ==
    /\ t.begin \in Nat /\ t.begin < now
    /\ Emits(t.calls, t.begin + 1, now - 1)

\* A transaction that was executed.
Logged(t) ==
    /\ t.begin \in Nat /\ t.end \in Nat
    /\ Emits(t.calls, t.begin + 1, t.end)
    /\ Accounted(t) /\ Known(t)

LogInv ==
    /\ clock \in Nat /\ Listed(changes)
    /\ \A i \in 1..Len(trxs) : Logged(trxs[i])
    /\ open # Nil => Known(open) /\ Logging(open, clock)
    /\ \/ features.reorder
       \/ /\ \A i, j \in 1..Len(trxs) : i < j => trxs[i].end <= trxs[j].begin
          /\ \A i \in 1..Len(trxs) : trxs[i].end <= clock
          /\ open # Nil => \A i \in 1..Len(trxs) : trxs[i].end <= open.begin
    /\ NeverPanics

\* A call more, and another one in the place of a call.
LEMMA EmitsMore ==
    ASSUME NEW cs, NEW b, NEW e, Emits(cs, b, e), NEW c, Tells(c, b, e)
    PROVE  Emits(Append(cs, c), b, e)
<1> DEFINE ds == Append(cs, c)
<1>1. /\ \E S : ds \in Seq(S)
      /\ Len(cs) \in Nat /\ Len(ds) = Len(cs) + 1
      /\ \A k \in 1..Len(cs) : ds[k] = cs[k]
      /\ ds[Len(cs) + 1] = c
  BY AppendAny DEF Emits, Listed
<1> HIDE DEF ds
<1>2. ASSUME NEW i \in 1..Len(ds) PROVE Tells(ds[i], b, e)
  <2>1. CASE i \in 1..Len(cs)
    BY <1>1, <2>1, Zenon DEF Emits
  <2>2. CASE i = Len(cs) + 1
    BY <1>1, <2>2
  <2> QED BY <1>1, <2>1, <2>2
<1> QED BY <1>1, <1>2, Zenon DEF Emits, Listed, ds

LEMMA EmitsReplaced ==
    ASSUME NEW cs, NEW b, NEW e, Emits(cs, b, e), NEW k \in 1..Len(cs), NEW c, Tells(c, b, e)
    PROVE  Emits([cs EXCEPT ![k] = c], b, e)
<1> DEFINE n == Len(cs)
           ds == [cs EXCEPT ![k] = c]
<1>1. n \in Nat /\ DOMAIN cs = 1..n
  BY ListedFacts DEF Emits
<1>2. ds = [i \in 1..n |-> ds[i]] /\ \A i \in 1..n : ds[i] = IF i = k THEN c ELSE cs[i]
  BY <1>1
<1> HIDE DEF ds
<1>3. Listed(ds) /\ Len(ds) = n
  BY <1>1, <1>2, Tabled
<1>4. ASSUME NEW i \in 1..n PROVE Tells(ds[i], b, e)
  <2>1. Tells(cs[i], b, e)
    BY Zenon DEF Emits
  <2> QED BY <1>2, <2>1
<1> QED BY <1>3, <1>4, Zenon DEF Emits, ds

\* A call that says more, or ends.
LEMMA TellsMore ==
    ASSUME NEW c, NEW b, NEW e, Tells(c, b, e), NEW log, {"ord", "data", "trx"} \subseteq DOMAIN log,
           log.ord \in b..e
    PROVE  Tells([c EXCEPT !.logs = Append(c.logs, log)], b, e)
<1> DEFINE ls == Append(c.logs, log)
           d == [c EXCEPT !.logs = ls]
<1>1. /\ \E S : ls \in Seq(S)
      /\ Len(c.logs) \in Nat /\ Len(ls) = Len(c.logs) + 1
      /\ \A k \in 1..Len(c.logs) : ls[k] = c.logs[k]
      /\ ls[Len(c.logs) + 1] = log
  BY AppendAny DEF Tells, Listed
<1> HIDE DEF ls
<1>2. CallFields \subseteq DOMAIN d /\ d.logs = ls
  BY DEF Tells, CallFields
<1>3. ASSUME NEW k \in 1..Len(ls)
      PROVE  {"ord", "data", "trx"} \subseteq DOMAIN ls[k] /\ ls[k].ord \in b..e
  <2>1. CASE k \in 1..Len(c.logs)
    BY <1>1, <2>1, Zenon DEF Tells
  <2>2. CASE k = Len(c.logs) + 1
    BY <1>1, <2>2
  <2> QED BY <1>1, <2>1, <2>2
<1> QED BY <1>1, <1>2, <1>3, Zenon DEF Tells, Listed, ls

LEMMA TellsAlike ==
    ASSUME NEW c, NEW b, NEW e, Tells(c, b, e), NEW d, CallFields \subseteq DOMAIN d,
           d.logs = c.logs
    PROVE  Tells(d, b, e)
BY Zenon DEF Tells

\* The logs that are kept, sorted.
InOrder(kept, all) ==
    /\ Len(kept) = Len(all) /\ Len(kept) \in Nat
    /\ \A k \in 1..Len(kept) : {"data", "trx"} \subseteq DOMAIN kept[k]
    /\ \E p : /\ Orders(p, Ords(all), Len(all))
              /\ \A k \in 1..Len(all) : kept[k] = all[p[k]]

LEMMA KeptSorted ==
    ASSUME NEW T, NEW all \in Seq(T), NEW b \in Nat, NEW e \in Nat,
           \A l \in T : {"ord", "data", "trx"} \subseteq DOMAIN l /\ l.ord \in b..e,
           NEW kept, kept = SortBy(all, Ords(all))
    PROVE  InOrder(kept, all)
<1>1. \A i \in 1..Len(all) : Ords(all)[i] \in Nat
  <2>1. \A i \in 1..Len(all) : Ords(all)[i] = all[i].ord
    BY DEF Ords, MapSeq
  <2>2. \A i \in 1..Len(all) : all[i] \in T
    OBVIOUS
  <2>3. \A i \in 1..Len(all) : all[i].ord \in b..e
    BY <2>2
  <2>4. \A x \in b..e : x \in Nat
    OBVIOUS
  <2> QED BY <2>1, <2>3, <2>4
<1>2. kept \in Seq(T) /\ \E p : SortedAt(kept, all, Ords(all), p)
  BY <1>1, SortedInOrder
<1>3. PICK p : SortedAt(kept, all, Ords(all), p)
  BY <1>2
<1>4. /\ Orders(p, Ords(all), Len(all))
      /\ Len(kept) = Len(all) /\ \A k \in 1..Len(all) : kept[k] = all[p[k]]
  BY <1>3, Zenon DEF SortedAt
<1>5. Len(kept) \in Nat /\ \A k \in 1..Len(kept) : kept[k] \in T
  BY <1>2
<1> QED BY <1>4, <1>5 DEF InOrder

LEMMA KeptInOrder ==
    ASSUME NEW o, NEW b \in Nat, NEW e \in Nat, Emits(o.calls, b, e)
    PROVE  InOrder(KeptLogs(o), KeptLogsOf(o.calls, Undone(o.calls)))
<1> DEFINE undone == Undone(o.calls)
           all == KeptLogsOf(o.calls, undone)
           T == EmittedLogs(o.calls)
<1>1. KeptLogs(o) = SortBy(all, Ords(all))
  BY Zenon DEF KeptLogs, KeptLogsOf, KeptOf, Ords
<1>2. all \in Seq(T) /\ \A l \in T : {"ord", "data", "trx"} \subseteq DOMAIN l /\ l.ord \in b..e
  BY KeptLogsType, EmittedLogsFacts
<1> HIDE DEF all, undone, T
<1>3. InOrder(KeptLogs(o), all)
  BY <1>1, <1>2, KeptSorted
<1> QED BY <1>3 DEF all, undone

\* The receipt made of them pairs with the logs that are kept.
ReceiptOf(kept) ==
    [k \in 1..Len(kept) |-> [kept[k] EXCEPT !.index = k - 1, !.ord = 0, !.blockIndex = 0]]

LEMMA ReceiptAccounted ==
    ASSUME NEW o, TrxFields \subseteq DOMAIN o, NEW b \in Nat, NEW e \in Nat,
           Emits(o.calls, b, e),
           NEW t, TrxFields \subseteq DOMAIN t, t.calls = o.calls,
           t.receipt = ReceiptOf(KeptLogs(o))
    PROVE  Accounted(t)
<1> DEFINE undone == Undone(o.calls)
           all == KeptLogsOf(o.calls, undone)
<1>0. PICK kept, receipt : kept = KeptLogs(o) /\ receipt = ReceiptOf(kept)
  OBVIOUS
<1>1. InOrder(kept, all)
  BY <1>0, KeptInOrder
<1> HIDE DEF all, undone
<1>2. /\ Len(kept) = Len(all) /\ Len(kept) \in Nat
      /\ \A k \in 1..Len(kept) : {"data", "trx"} \subseteq DOMAIN kept[k]
      /\ \E p : /\ Orders(p, Ords(all), Len(all))
                /\ \A k \in 1..Len(all) : kept[k] = all[p[k]]
  BY <1>1, Zenon DEF InOrder
<1>3. PICK p : /\ Len(kept) = Len(all) /\ Len(kept) \in Nat
               /\ \A k \in 1..Len(kept) : {"data", "trx"} \subseteq DOMAIN kept[k]
               /\ Orders(p, Ords(all), Len(all))
               /\ \A k \in 1..Len(all) : kept[k] = all[p[k]]
  BY <1>2, Zenon
<1>4. /\ receipt = [k \in 1..Len(kept) |-> receipt[k]]
      /\ \A k \in 1..Len(kept) : receipt[k] = [kept[k] EXCEPT
                                     !.index = k - 1, !.ord = 0, !.blockIndex = 0]
  BY <1>0 DEF ReceiptOf
<1>5. Listed(receipt) /\ Len(receipt) = Len(kept)
  BY <1>3, <1>4, Tabled
<1>6. ASSUME NEW k \in 1..Len(kept)
       PROVE  {"data", "trx"} \subseteq DOMAIN receipt[k] /\ Echoes(receipt[k], kept[k])
  <2>1. PICK l, m, x : l = kept[k] /\ m = receipt[k] /\ x = k - 1
    OBVIOUS
  <2>2. m = [l EXCEPT !.index = x, !.ord = 0, !.blockIndex = 0] /\ {"data", "trx"} \subseteq DOMAIN l
    BY <1>3, <1>4, <2>1
  <2>3. {"data", "trx"} \subseteq DOMAIN m /\ Echoes(m, l)
    BY <2>2 DEF Echoes
  <2> QED BY <2>1, <2>3
<1>7. Paired(all, receipt)
  <2>1. \A k \in 1..Len(all) : Echoes(receipt[k], all[p[k]])
    BY <1>3, <1>6
  <2> QED BY <1>3, <1>5, <2>1, Zenon DEF Paired
<1> QED BY <1>0, <1>3, <1>5, <1>6, <1>7, Zenon DEF Accounted, all, undone

\* A step of a call: the open transaction writes more.
LEMMA LogKept ==
    ASSUME LogInv, Building, open # Nil, UNCHANGED <<features, trxs, changes, result>>,
           clock' = clock + 1, TrxFields \subseteq DOMAIN open,
           NEW calls, open' = [open EXCEPT !.calls = calls],
           Emits(calls, open.begin + 1, clock)
    PROVE  LogInv'
<1>1. /\ open'.begin = open.begin /\ open'.calls = calls
      /\ open'.from = open.from /\ open'.to = open.to
  BY DEF TrxFields
<1>2. clock \in Nat /\ open.begin \in Nat /\ open.begin < clock
  BY DEF LogInv, Logging
<1>3. clock' \in Nat /\ open.begin < clock' /\ clock' - 1 = clock
  BY <1>2
<1>4. Logging(open', clock')
  BY <1>1, <1>2, <1>3 DEF Logging
<1>5. Known(open')
  BY <1>1 DEF LogInv, Known, Normal, Mergeable, Unmergeable
<1>6. ~Normalized'
  BY DEF Normalized, Building
<1>7. \A i \in 1..Len(trxs) : trxs[i].end <= clock => trxs[i].end <= clock'
  <2>1. \A i \in 1..Len(trxs) : trxs[i].end \in Nat
    BY Zenon DEF LogInv, Logged
  <2> QED BY <1>2, <2>1
<1>8. \/ features'.reorder
      \/ /\ \A i, j \in 1..Len(trxs) : i < j => trxs[i].end <= trxs[j].begin
         /\ \A i \in 1..Len(trxs) : trxs[i].end <= clock'
         /\ \A i \in 1..Len(trxs) : trxs[i].end <= open'.begin
  BY <1>1, <1>7 DEF LogInv
<1>9. Listed(changes') /\ \A i \in 1..Len(trxs') : Logged(trxs'[i])
  BY DEF LogInv
<1> QED BY <1>3, <1>4, <1>5, <1>6, <1>8, <1>9 DEF LogInv, NeverPanics

\* So far its logs are from its first ordinal to the last one given.
LEMMA OpenEmits ==
    ASSUME LogInv, open # Nil
    PROVE  /\ clock \in Nat /\ open.begin \in Nat /\ open.begin < clock
           /\ open.begin + 1 \in Nat /\ clock - 1 \in Nat
           /\ Emits(open.calls, open.begin + 1, clock - 1)
           /\ Emits(open.calls, open.begin + 1, clock)
<1>1. /\ clock \in Nat /\ open.begin \in Nat /\ open.begin < clock
      /\ Emits(open.calls, open.begin + 1, clock - 1)
  BY DEF LogInv, Logging
<1>2. /\ open.begin + 1 \in Nat /\ clock - 1 \in Nat /\ clock - 1 <= clock
      /\ open.begin + 1 <= open.begin + 1
  BY <1>1
<1>3. Emits(open.calls, open.begin + 1, clock)
  BY <1>1, <1>2, EmitsWithin
<1> QED BY <1>1, <1>2, <1>3

LEMMA LogBegins ==
    ASSUME LogInv, NodeInv, NEW kind \in bounds.kinds, NEW index \in Indexes(kind),
           BeginTrx(kind, index)
    PROVE  LogInv'
<1>0. clock \in Nat /\ features \in DOMAIN Bounds /\ StartOrdinal \in Nat
  BY NormalizationAssumption DEF LogInv, NodeInv
<1>1. PICK start : start = IF features.reorder THEN StartOrdinal ELSE clock
  OBVIOUS
<1>2. PICK a, c : a = Recipient(kind) /\ c = Sender(kind)
  OBVIOUS
<1>3. PICK root : root = [NewCall(1, "CALL", a, 0) EXCEPT !.caller = c]
  OBVIOUS
<1>4. /\ open' = [NewTrx(Len(trxs) + 1, index, a, start, root, 1, FALSE) EXCEPT !.from = c]
      /\ clock' = start + 2 /\ Building /\ UNCHANGED <<features, trxs, changes, result>>
  BY <1>1, <1>2, <1>3, Zenon DEF BeginTrx
<1>5. /\ open'.from = c /\ open'.to = a /\ open'.begin = start /\ open'.calls = <<root>>
  <2>1. PICK t : t = [NewTrx(Len(trxs) + 1, index, a, start, root, 1, FALSE) EXCEPT !.from = c]
    OBVIOUS
  <2>2. t.from = c /\ t.to = a /\ t.begin = start /\ t.calls = <<root>>
    BY <2>1 DEF NewTrx
  <2> QED BY <1>4, <2>1, <2>2
<1>6. start \in Nat /\ (~features.reorder => start = clock)
  BY <1>0, <1>1
<1>7. Known(open')
  <2>1. kind \in {"normal", "stateSync", "validator"}
    BY <1>0, NormalizationAssumption DEF bounds
  <2>2. CASE kind = "normal"
    BY <1>2, <1>5, <2>2 DEF Known, Normal, Sender, PolygonSystemAddress
  <2>3. CASE kind = "stateSync"
    BY <1>2, <1>5, <2>3 DEF Known, Mergeable, Sender, Recipient
  <2>4. CASE kind = "validator"
    BY <1>2, <1>5, <2>4 DEF Known, Unmergeable, Sender, Recipient
  <2> QED BY <2>1, <2>2, <2>3, <2>4
<1>8. Logging(open', clock')
  <2>1. CallFields \subseteq DOMAIN root /\ root.logs = << >>
    BY <1>3 DEF NewCall, CallFields
  <2>2. << >> \in Seq({}) /\ Len(<< >>) = 0
    OBVIOUS
  <2>3. Listed(root.logs) /\ \A k \in 1..Len(root.logs) : FALSE
    BY <2>1, <2>2 DEF Listed
  <2>4. Tells(root, start + 1, start + 1)
    BY <2>1, <2>3, Zenon DEF Tells
  <2>5. <<root>> \in Seq({root}) /\ Len(<<root>>) = 1 /\ <<root>>[1] = root
    OBVIOUS
  <2>6. Listed(<<root>>)
    BY <2>5, Zenon DEF Listed
  <2>7. \A i \in 1..Len(<<root>>) : <<root>>[i] = root
    BY <2>5
  <2>8. Emits(<<root>>, start + 1, start + 1)
    BY <2>4, <2>6, <2>7, Zenon DEF Emits
  <2>9. clock' - 1 = start + 1 /\ start < clock'
    BY <1>4, <1>6
  <2> QED BY <1>5, <1>6, <2>8, <2>9 DEF Logging
<1>9. \A i \in 1..Len(trxs) : trxs[i].end \in Nat
  BY Zenon DEF LogInv, Logged
<1>10. \/ features'.reorder
       \/ /\ \A i, j \in 1..Len(trxs) : i < j => trxs[i].end <= trxs[j].begin
          /\ \A i \in 1..Len(trxs) : trxs[i].end <= clock'
          /\ \A i \in 1..Len(trxs) : trxs[i].end <= open'.begin
  <2> SUFFICES ASSUME ~features.reorder
               PROVE  /\ \A i, j \in 1..Len(trxs) : i < j => trxs[i].end <= trxs[j].begin
                      /\ \A i \in 1..Len(trxs) : trxs[i].end <= clock'
                      /\ \A i \in 1..Len(trxs) : trxs[i].end <= open'.begin
    BY <1>4
  <2>1. /\ \A i, j \in 1..Len(trxs) : i < j => trxs[i].end <= trxs[j].begin
        /\ \A i \in 1..Len(trxs) : trxs[i].end <= clock
    BY DEF LogInv
  <2>2. clock' = clock + 2 /\ open'.begin = clock
    BY <1>4, <1>5, <1>6
  <2> QED BY <1>0, <1>9, <2>1, <2>2
<1>11. ~Normalized'
  BY <1>4 DEF Normalized, Building
<1>12. clock' \in Nat /\ Listed(changes') /\ \A i \in 1..Len(trxs') : Logged(trxs'[i])
  BY <1>4, <1>6 DEF LogInv
<1> QED BY <1>4, <1>7, <1>8, <1>10, <1>11, <1>12 DEF LogInv, NeverPanics

LEMMA LogEnds ==
    ASSUME LogInv, NodeInv, EndTrx
    PROVE  LogInv'
<1>1. PICK kept : kept = KeptLogs(open)
  OBVIOUS
<1>2. PICK receipt : receipt = ReceiptOf(kept)
  OBVIOUS
<1>3. PICK t : t = [open EXCEPT !.end = clock, !.receipt = receipt]
  OBVIOUS
<1>4. /\ Building /\ open # Nil /\ trxs' = Append(trxs, t) /\ open' = Nil
      /\ clock' = clock + 1 /\ UNCHANGED <<features, changes, result>>
  BY <1>1, <1>2, <1>3, Zenon DEF EndTrx, ReceiptOf
<1>5. TrxFields \subseteq DOMAIN open
  BY <1>4 DEF NodeInv, NodeTrx
<1>6. /\ TrxFields \subseteq DOMAIN t /\ t.begin = open.begin /\ t.end = clock
      /\ t.calls = open.calls /\ t.receipt = receipt /\ t.from = open.from /\ t.to = open.to
  BY <1>3, <1>5 DEF TrxFields
<1>7. /\ clock \in Nat /\ open.begin \in Nat /\ open.begin < clock
      /\ open.begin + 1 \in Nat /\ clock - 1 \in Nat
      /\ Emits(open.calls, open.begin + 1, clock - 1)
      /\ Emits(open.calls, open.begin + 1, clock)
  BY <1>4, OpenEmits
<1>8. Accounted(t)
  <2>1. PICK b \in Nat, e \in Nat : Emits(open.calls, b, e)
    BY <1>7
  <2>2. t.receipt = ReceiptOf(KeptLogs(open))
    BY <1>1, <1>2, <1>6
  <2> QED BY <1>5, <1>6, <2>1, <2>2, ReceiptAccounted
<1>9. Known(t)
  BY <1>4, <1>6 DEF LogInv, Known, Normal, Mergeable, Unmergeable
<1>10. Logged(t)
  BY <1>6, <1>7, <1>8, <1>9 DEF Logged
<1>11. /\ Len(trxs) \in Nat /\ Len(trxs') = Len(trxs) + 1 /\ trxs'[Len(trxs) + 1] = t
       /\ \A k \in 1..Len(trxs) : trxs'[k] = trxs[k]
  BY <1>4, AppendAny DEF NodeInv, NodeTrxs, Listed
<1>12. \A i \in 1..Len(trxs') : i \in 1..Len(trxs) \/ i = Len(trxs) + 1
  BY <1>11
<1>13. \A i \in 1..Len(trxs') : Logged(trxs'[i])
  BY <1>10, <1>11, <1>12 DEF LogInv
<1>14. \/ features'.reorder
       \/ /\ \A i, j \in 1..Len(trxs') : i < j => trxs'[i].end <= trxs'[j].begin
          /\ \A i \in 1..Len(trxs') : trxs'[i].end <= clock'
  <2> SUFFICES ASSUME ~features.reorder
               PROVE  /\ \A i, j \in 1..Len(trxs') : i < j => trxs'[i].end <= trxs'[j].begin
                      /\ \A i \in 1..Len(trxs') : trxs'[i].end <= clock'
    BY <1>4
  <2>1. /\ \A i, j \in 1..Len(trxs) : i < j => trxs[i].end <= trxs[j].begin
        /\ \A i \in 1..Len(trxs) : trxs[i].end <= clock
        /\ \A i \in 1..Len(trxs) : trxs[i].end <= open.begin
    BY <1>4 DEF LogInv
  <2>2. \A i \in 1..Len(trxs) : trxs[i].end \in Nat
    BY Zenon DEF LogInv, Logged
  <2>3. \A i, j \in 1..Len(trxs') : i < j => trxs'[i].end <= trxs'[j].begin
    <3> SUFFICES ASSUME NEW i \in 1..Len(trxs'), NEW j \in 1..Len(trxs'), i < j
                 PROVE  trxs'[i].end <= trxs'[j].begin
      OBVIOUS
    <3>1. i \in 1..Len(trxs)
      BY <1>11
    <3>2. CASE j \in 1..Len(trxs)
      BY <1>11, <2>1, <3>1, <3>2
    <3>3. CASE j = Len(trxs) + 1
      BY <1>6, <1>11, <2>1, <3>1, <3>3
    <3> QED BY <1>12, <3>2, <3>3
  <2>4. \A i \in 1..Len(trxs') : trxs'[i].end <= clock'
    <3> SUFFICES ASSUME NEW i \in 1..Len(trxs') PROVE trxs'[i].end <= clock'
      OBVIOUS
    <3>1. CASE i \in 1..Len(trxs)
      BY <1>4, <1>7, <1>11, <2>1, <2>2, <3>1
    <3>2. CASE i = Len(trxs) + 1
      BY <1>4, <1>6, <1>7, <1>11, <3>2
    <3> QED BY <1>12, <3>1, <3>2
  <2> QED BY <2>3, <2>4
<1>15. ~Normalized'
  BY <1>4 DEF Normalized, Building
<1>16. clock' \in Nat /\ Listed(changes')
  BY <1>4, <1>7 DEF LogInv
<1> QED BY <1>4, <1>13, <1>14, <1>15, <1>16 DEF LogInv, NeverPanics

\* A step of the innermost open call.
LEMMA LogCall ==
    ASSUME LogInv, NodeInv, Building, open # Nil, frames # << >>,
           UNCHANGED <<features, trxs, changes, result>>, clock' = clock + 1,
           NEW k, k = Last(frames), NEW c,
           open' = [open EXCEPT !.calls = [open.calls EXCEPT ![k] = c]],
           \A b, e \in Nat : clock \in b..e /\ Tells(open.calls[k], b, e) => Tells(c, b, e)
    PROVE  LogInv'
<1>1. NodeTrx(open) /\ Nested(frames, open.calls)
  BY Zenon DEF NodeInv
<1>2. TrxFields \subseteq DOMAIN open /\ k \in 1..Len(open.calls)
  BY <1>1 DEF NodeTrx, Nested, Last
<1>3. /\ clock \in Nat /\ open.begin + 1 \in Nat /\ open.begin < clock /\ open.begin \in Nat
      /\ Emits(open.calls, open.begin + 1, clock)
  BY OpenEmits
<1>4. clock \in (open.begin + 1)..clock
  BY <1>3
<1>5. PICK b, e : b = open.begin + 1 /\ e = clock
  OBVIOUS
<1>6. b \in Nat /\ e \in Nat /\ clock \in b..e /\ Emits(open.calls, b, e)
  BY <1>3, <1>4, <1>5
<1>7. Tells(open.calls[k], b, e)
  BY <1>2, <1>6, Zenon DEF Emits
<1>8. Tells(c, b, e)
  BY <1>6, <1>7
<1>9. PICK cs : cs = [open.calls EXCEPT ![k] = c]
  OBVIOUS
<1>10. Emits(cs, b, e)
  BY <1>2, <1>6, <1>8, <1>9, EmitsReplaced
<1>11. open' = [open EXCEPT !.calls = cs] /\ Emits(cs, open.begin + 1, clock)
  BY <1>5, <1>9, <1>10
<1> QED BY <1>2, <1>11, LogKept

LEMMA LogRuns ==
    ASSUME LogInv, NodeInv, NEW type, RunCall(type)
    PROVE  LogInv'
<1>1. PICK i, a, parent, depth, caller :
         /\ Building /\ open # Nil
         /\ open' = [open EXCEPT !.calls = Append(open.calls,
                        [NewCall(i, type, a, clock) EXCEPT
                            !.parent = parent, !.depth = depth, !.caller = caller])]
         /\ clock' = clock + 1
         /\ UNCHANGED <<features, trxs, changes, result>>
  BY Zenon DEF RunCall
<1>2. PICK call : call = [NewCall(i, type, a, clock) EXCEPT
                             !.parent = parent, !.depth = depth, !.caller = caller]
  OBVIOUS
<1>3. CallFields \subseteq DOMAIN call /\ call.logs = << >>
  BY <1>2 DEF NewCall, CallFields
<1>4. << >> \in Seq({}) /\ Len(<< >>) = 0
  OBVIOUS
<1>5. Listed(call.logs) /\ \A k \in 1..Len(call.logs) : FALSE
  BY <1>3, <1>4 DEF Listed
<1>6. Tells(call, open.begin + 1, clock)
  BY <1>3, <1>5, Zenon DEF Tells
<1>7. Emits(open.calls, open.begin + 1, clock)
  BY <1>1, OpenEmits
<1>8. PICK calls : calls = Append(open.calls, call)
  OBVIOUS
<1>9. Emits(calls, open.begin + 1, clock)
  BY <1>6, <1>7, <1>8, EmitsMore
<1>10. open' = [open EXCEPT !.calls = calls]
  BY <1>1, <1>2, <1>8, Zenon
<1>11. TrxFields \subseteq DOMAIN open
  BY <1>1 DEF NodeInv, NodeTrx
<1> QED BY <1>1, <1>9, <1>10, <1>11, LogKept

LEMMA LogAdds ==
    ASSUME LogInv, NodeInv, NEW data, AddLog(data)
    PROVE  LogInv'
<1>1. PICK k, hash, index, place :
         /\ k = Last(frames) /\ open # Nil /\ frames # << >> /\ Building
         /\ open' = [open EXCEPT !.calls[k].logs = Append(@,
                        [trx |-> hash, index |-> index, data |-> data, ord |-> clock,
                         blockIndex |-> place])]
         /\ clock' = clock + 1
         /\ UNCHANGED <<features, trxs, changes, result>>
  BY Zenon DEF AddLog
<1>2. PICK log : log = [trx |-> hash, index |-> index, data |-> data, ord |-> clock,
                        blockIndex |-> place]
  OBVIOUS
<1>3. {"ord", "data", "trx"} \subseteq DOMAIN log /\ log.ord = clock
  BY <1>2
<1>4. PICK c : c = [open.calls[k] EXCEPT !.logs = Append(open.calls[k].logs, log)]
  OBVIOUS
<1>5. open' = [open EXCEPT !.calls = [open.calls EXCEPT ![k] = c]]
  BY <1>1, <1>2, <1>4, Zenon
<1>6. ASSUME NEW b \in Nat, NEW e \in Nat, clock \in b..e, Tells(open.calls[k], b, e)
      PROVE  Tells(c, b, e)
  <2>1. PICK old : old = open.calls[k]
    OBVIOUS
  <2>2. Tells(old, b, e) /\ c = [old EXCEPT !.logs = Append(old.logs, log)]
    BY <1>4, <1>6, <2>1
  <2>3. log.ord \in b..e
    BY <1>3, <1>6
  <2>4. Tells([old EXCEPT !.logs = Append(old.logs, log)], b, e)
    BY <1>3, <2>2, <2>3, TellsMore
  <2> QED BY <2>2, <2>4
<1> QED BY <1>1, <1>5, <1>6, LogCall

LEMMA LogCallEnds ==
    ASSUME LogInv, NodeInv, NEW ending, EndCall(ending)
    PROVE  LogInv'
<1>1. PICK k, end :
         /\ k = Last(frames) /\ open # Nil /\ frames # << >> /\ Building
         /\ open' = [open EXCEPT !.calls[k] =
                        [@ EXCEPT !.end = end, !.statusFailed = ending # "ok",
                                  !.statusReverted = ending = "reverted"]]
         /\ clock' = clock + 1
         /\ UNCHANGED <<features, trxs, changes, result>>
  BY Zenon DEF EndCall
<1>2. PICK failed, reverted : failed = (ending # "ok") /\ reverted = (ending = "reverted")
  OBVIOUS
<1>3. PICK c : c = [open.calls[k] EXCEPT !.end = end, !.statusFailed = failed,
                                         !.statusReverted = reverted]
  OBVIOUS
<1>4. open' = [open EXCEPT !.calls = [open.calls EXCEPT ![k] = c]]
  BY <1>1, <1>2, <1>3, Zenon
<1>5. ASSUME NEW b \in Nat, NEW e \in Nat, Tells(open.calls[k], b, e)
      PROVE  Tells(c, b, e)
  <2>1. PICK old : old = open.calls[k]
    OBVIOUS
  <2>2. /\ Tells(old, b, e)
        /\ c = [old EXCEPT !.end = end, !.statusFailed = failed, !.statusReverted = reverted]
    BY <1>3, <1>5, <2>1
  <2>3. CallFields \subseteq DOMAIN old
    BY <2>2, Zenon DEF Tells
  <2>4. CallFields \subseteq DOMAIN c /\ c.logs = old.logs
    BY <2>2, <2>3 DEF CallFields
  <2> QED BY <2>2, <2>4, TellsAlike
<1> QED BY <1>1, <1>4, <1>5, LogCall

\* What the node normalizes is ready for it.
LEMMA BlockHanded ==
    ASSUME LogInv, NodeInv, Normalize
    PROVE  /\ open = Nil /\ UNCHANGED <<features, trxs, open, clock, changes>>
           /\ \E block, first : /\ {"trxs", "ver", "changes"} \subseteq DOMAIN block
                                /\ block.trxs = trxs /\ first \in Nat
                                /\ Handed(block.trxs, features)
                                /\ result' = NormalizeInPlace(block, features, first)
<1>1. PICK all, first :
         /\ first = IF changes = << >> THEN 0 ELSE Len(changes) + 1
         /\ open = Nil
         /\ UNCHANGED <<features, trxs, open, clock, changes>>
         /\ result' = NormalizeInPlace([num |-> 1, ver |-> 2, seq |-> 1, trxs |-> trxs,
                                        sys |-> << >>, changes |-> all], features, first)
  BY Zenon DEF Normalize
<1>2. PICK block : block = [num |-> 1, ver |-> 2, seq |-> 1, trxs |-> trxs,
                            sys |-> << >>, changes |-> all]
  OBVIOUS
<1>3. {"trxs", "ver", "changes"} \subseteq DOMAIN block /\ block.trxs = trxs
  BY <1>2
<1>4. first \in Nat
  <2>1. Len(changes) \in Nat
    BY ListedFacts DEF LogInv
  <2> QED BY <1>1, <2>1
<1>5. PICK chain : chain = features
  OBVIOUS
<1>6. Handed(block.trxs, chain)
  <2>1. NodeTrxs(trxs)
    BY DEF NodeInv
  <2>2. \A i \in 1..Len(trxs) :
            /\ trxs[i].begin \in Nat /\ trxs[i].end \in Nat
            /\ Emits(trxs[i].calls, trxs[i].begin + 1, trxs[i].end)
            /\ Accounted(trxs[i]) /\ Known(trxs[i])
    BY Zenon DEF LogInv, Logged
  <2>3. {trxs[i].index : i \in Normals(trxs)} = 0..(Cardinality(Normals(trxs)) - 1)
    BY Zenon DEF Normalize, Normals
  <2>4. chain.combine \in BOOLEAN
    BY <1>5, NormalizationAssumption DEF NodeInv
  <2>5. \/ chain.reorder
        \/ \A i, j \in 1..Len(trxs) : i < j => trxs[i].end <= trxs[j].begin
    BY <1>5, Zenon DEF LogInv
  <2> QED BY <1>3, <2>1, <2>2, <2>3, <2>4, <2>5, Zenon DEF Handed
<1> QED BY <1>1, <1>2, <1>3, <1>4, <1>5, <1>6, Zenon

LEMMA LogNormalizes ==
    ASSUME LogInv, NodeInv, Normalize
    PROVE  LogInv'
<1>1. /\ open = Nil /\ UNCHANGED <<features, trxs, open, clock, changes>>
      /\ \E block, first : /\ {"trxs", "ver", "changes"} \subseteq DOMAIN block
                           /\ block.trxs = trxs /\ first \in Nat
                           /\ Handed(block.trxs, features)
                           /\ result' = NormalizeInPlace(block, features, first)
  BY BlockHanded
<1>2. PICK block, first, chain : /\ {"trxs", "ver", "changes"} \subseteq DOMAIN block
                                 /\ first \in Nat /\ Handed(block.trxs, chain)
                                 /\ result' = NormalizeInPlace(block, chain, first)
  BY <1>1
<1>3. NormalizeInPlace(block, chain, first).ok
  BY <1>2, NormalizedOk
<1>4. result'.ok
  BY <1>2, <1>3, Zenon
<1> QED BY <1>1, <1>4, Zenon DEF LogInv, NeverPanics

LEMMA LogStep ==
    ASSUME LogInv, NodeInv, [Next]_vars
    PROVE  LogInv'
<1>1. CASE UNCHANGED vars
  BY <1>1, Zenon DEF vars, LogInv, NeverPanics, Normalized
<1> QED BY <1>1, LogBegins, LogRuns, LogAdds, LogCallEnds, LogEnds, LogNormalizes, Zenon DEF Next

LEMMA LogInit ==
    ASSUME Init
    PROVE  LogInv
<1>1. PICK n \in bounds.rewards :
         /\ changes = [i \in 1..n |-> [kind |-> "BALANCE", ord |-> i]]
         /\ clock = n + 1
  BY Zenon DEF Init
<1>2. n \in Nat
  BY NormalizationAssumption DEF Init, bounds
<1>3. Listed(changes)
  <2>1. changes = [i \in 1..n |-> changes[i]]
    BY <1>1
  <2> QED BY <1>2, <2>1, Tabled
<1>4. trxs = << >> /\ open = Nil /\ result = Nil /\ Len(<< >>) = 0
  BY DEF Init
<1>5. \A i \in 1..Len(trxs) : FALSE
  BY <1>4
<1>6. clock \in Nat
  BY <1>1, <1>2
<1> QED BY <1>3, <1>4, <1>5, <1>6, Zenon DEF LogInv, NeverPanics, Normalized

\* The logs pair in every block, normalized or not.
LEMMA LogAlways == Spec => []LogInv
<1>1. LogInv /\ NodeInv /\ [Next]_vars => LogInv'
  BY LogStep
<1> QED BY <1>1, LogInit, NodeAlways, PTL DEF Spec

\* No block that a node executes makes normalizeInPlace panic, whatever the chain and
\* the transactions: populateLogBlockIndices finds a log of the calls for each log of
\* a receipt, and the upgrade to version 3 a call to take the caller from.
THEOREM NormalizationNeverPanics == Spec => []NeverPanics
<1>1. LogInv => NeverPanics
  BY DEF LogInv
<1> QED BY <1>1, LogAlways, PTL

-----------------------------------------------------------------------------
(***************************************************************************)
(* Transactions whose logs are all told apart, through the passes that     *)
(* come before their logs are numbered.                                    *)
(***************************************************************************)
\* A log that is kept whatever became of its call.
Survives(c, l) == ~c.stateReverted \/ l.data = PolygonFeeLog

\* l is a log that survives, of one of these calls.
Stands(l, cs) ==
    \E i \in 1..Len(cs) : \E p \in 1..Len(cs[i].logs) : l = cs[i].logs[p] /\ Survives(cs[i], l)

\* Calls with their logs.
Bears(cs) ==
    Listed(cs) /\ \A i \in 1..Len(cs) : CallFields \subseteq DOMAIN cs[i] /\ AllLogs(cs[i].logs)

\* No log is there twice.
Apart(cs) ==
    \A i, j \in 1..Len(cs) : \A p \in 1..Len(cs[i].logs), q \in 1..Len(cs[j].logs) :
        SameLog(cs[i].logs[p], cs[j].logs[q]) => i = j /\ p = q

\* The log is one of t, or of one of the transactions H when it is the merged one.
Owns(t, H, l) == l.trx = t.hash \/ (t.hash = MergedHash /\ l.trx \in H)

OwnsAll(t, H, s) == \A k \in 1..Len(s) : Owns(t, H, s[k])

\* t has logs of its own in its calls and in its receipt, and the merged transaction the
\* same ones in both.
Traced(t, H) ==
    /\ TrxFields \subseteq DOMAIN t
    /\ Bears(t.calls) /\ Apart(t.calls)
    /\ \A i \in 1..Len(t.calls) : OwnsAll(t, H, t.calls[i].logs)
    /\ AllLogs(t.receipt) /\ DistinctLogs(t.receipt) /\ OwnsAll(t, H, t.receipt)
    /\ t.hash = MergedHash => \A k \in 1..Len(t.receipt) : Stands(t.receipt[k], t.calls)

LEMMA TracedAlike ==
    ASSUME NEW t, NEW H, Traced(t, H), NEW u, TrxFields \subseteq DOMAIN u,
           u.hash = t.hash, u.calls = t.calls, u.receipt = t.receipt
    PROVE  Traced(u, H)
BY Zenon DEF Traced, OwnsAll, Owns

LEMMA StatusTraced ==
    ASSUME NEW t, NEW H, Traced(t, H)
    PROVE  /\ Traced(PopulateTrxStatus(t), H)
           /\ PopulateTrxStatus(t).hash = t.hash /\ PopulateTrxStatus(t).from = t.from
<1>1. PICK x : PopulateTrxStatus(t) = t \/ PopulateTrxStatus(t) = [t EXCEPT !.status = x]
  BY Zenon DEF PopulateTrxStatus
<1>2. TrxFields \subseteq DOMAIN t
  BY Zenon DEF Traced
<1>3. PICK u : u = PopulateTrxStatus(t)
  OBVIOUS
<1>4. /\ TrxFields \subseteq DOMAIN u /\ u.calls = t.calls /\ u.receipt = t.receipt
      /\ u.hash = t.hash /\ u.from = t.from
  BY <1>1, <1>2, <1>3 DEF TrxFields
<1>5. Traced(u, H)
  BY <1>4, TracedAlike
<1> QED BY <1>3, <1>4, <1>5

\* The logs ms are ls, with the same contents.
SameLogs(ms, ls) ==
    /\ AllLogs(ms) /\ Len(ms) = Len(ls)
    /\ \A k \in 1..Len(ls) : SameLog(ms[k], ls[k])

\* u is t, with logs that the pass under way rewrites, and the same ones in calls and
\* receipt when they were.
Retraces(u, t) ==
    /\ TrxFields \subseteq DOMAIN u /\ u.hash = t.hash
    /\ Listed(u.calls) /\ Len(u.calls) = Len(t.calls)
    /\ \A i \in 1..Len(t.calls) : /\ CallFields \subseteq DOMAIN u.calls[i]
                                  /\ SameLogs(u.calls[i].logs, t.calls[i].logs)
    /\ SameLogs(u.receipt, t.receipt)
    /\ t.hash = MergedHash =>
           \A k \in 1..Len(t.receipt) : Stands(t.receipt[k], t.calls) => Stands(u.receipt[k], u.calls)

LEMMA TracedAgain ==
    ASSUME NEW t, NEW H, Traced(t, H), NEW u, Retraces(u, t)
    PROVE  Traced(u, H)
<1>1. Bears(u.calls)
  BY Zenon DEF Retraces, SameLogs, Bears
<1>2. ASSUME NEW ls, AllLogs(ls), NEW ms, SameLogs(ms, ls)
      PROVE  /\ OwnsAll(t, H, ls) => OwnsAll(u, H, ms)
             /\ DistinctLogs(ls) => DistinctLogs(ms)
  <2>1. \A k \in 1..Len(ls) : Owns(t, H, ls[k]) => Owns(u, H, ms[k])
    BY <1>2 DEF Owns, SameLogs, SameLog, Retraces
  <2>2. OwnsAll(t, H, ls) => OwnsAll(u, H, ms)
    BY <1>2, <2>1 DEF OwnsAll, SameLogs
  <2>3. \A j, k \in 1..Len(ls) : SameLog(ms[j], ms[k]) => SameLog(ls[j], ls[k])
    BY <1>2 DEF SameLogs, SameLog
  <2>4. DistinctLogs(ls) => DistinctLogs(ms)
    BY <1>2, <2>3 DEF DistinctLogs, SameLogs
  <2> QED BY <2>2, <2>4
<1>3. \A i \in 1..Len(u.calls) : OwnsAll(u, H, u.calls[i].logs)
  BY <1>2, Zenon DEF Traced, Retraces, Bears
<1>4. Apart(u.calls)
  <2> DEFINE cs == u.calls
             ds == t.calls
  <2>1. /\ Len(cs) = Len(ds)
        /\ \A i \in 1..Len(ds) : SameLogs(cs[i].logs, ds[i].logs)
    BY Zenon DEF Retraces
  <2>2. Apart(ds)
    BY Zenon DEF Traced
  <2> HIDE DEF cs, ds
  <2> SUFFICES ASSUME NEW i \in 1..Len(cs), NEW j \in 1..Len(cs),
                      NEW p \in 1..Len(cs[i].logs), NEW q \in 1..Len(cs[j].logs),
                      SameLog(cs[i].logs[p], cs[j].logs[q])
               PROVE  i = j /\ p = q
    BY DEF Apart, cs
  <2>3. /\ i \in 1..Len(ds) /\ j \in 1..Len(ds)
        /\ p \in 1..Len(ds[i].logs) /\ q \in 1..Len(ds[j].logs)
        /\ SameLog(cs[i].logs[p], ds[i].logs[p]) /\ SameLog(cs[j].logs[q], ds[j].logs[q])
    BY <2>1 DEF SameLogs
  <2>4. SameLog(ds[i].logs[p], ds[j].logs[q])
    BY <2>3 DEF SameLog
  <2> QED BY <2>2, <2>3, <2>4, Zenon DEF Apart
<1>5. AllLogs(u.receipt) /\ DistinctLogs(u.receipt) /\ OwnsAll(u, H, u.receipt)
  BY <1>2, Zenon DEF Traced, Retraces, SameLogs
<1>6. u.hash = MergedHash => \A k \in 1..Len(u.receipt) : Stands(u.receipt[k], u.calls)
  BY Zenon DEF Traced, Retraces, SameLogs
<1> QED BY <1>1, <1>3, <1>4, <1>5, <1>6, Zenon DEF Traced, Retraces

LEMMA SameLogsItself ==
    ASSUME NEW s, AllLogs(s)
    PROVE  SameLogs(s, s)
BY DEF SameLogs, SameLog

LEMMA RevertTraced ==
    ASSUME NEW t, t.hash # MergedHash, NodeCalls(t.calls), NEW H, Traced(t, H)
    PROVE  Traced(Revert(t), H) /\ Revert(t).hash = t.hash /\ Revert(t).from = t.from
<1> DEFINE cs == t.calls
           rs == PopulateStateReverted(cs)
           u == Revert(t)
<1>1. u = [t EXCEPT !.calls = rs]
  BY Zenon DEF Revert
<1>2. /\ NodeCalls(rs) /\ Len(rs) = Len(cs)
      /\ \A i \in 1..Len(cs) : rs[i].logs = cs[i].logs
  BY MarkedCalls
<1> HIDE DEF u, rs
<1>3. TrxFields \subseteq DOMAIN t
  BY Zenon DEF Traced
<1>4. /\ TrxFields \subseteq DOMAIN u /\ u.calls = rs /\ u.receipt = t.receipt
      /\ u.hash = t.hash /\ u.from = t.from
  BY <1>1, <1>3 DEF TrxFields
<1>5. Listed(rs) /\ \A i \in 1..Len(rs) : CallFields \subseteq DOMAIN rs[i]
  BY <1>2, Zenon DEF NodeCalls
<1>6. \A i \in 1..Len(cs) : SameLogs(cs[i].logs, cs[i].logs)
  BY SameLogsItself, Zenon DEF Traced, Bears
<1>7. SameLogs(t.receipt, t.receipt)
  BY SameLogsItself, Zenon DEF Traced
<1>8. Retraces(u, t)
  BY <1>2, <1>4, <1>5, <1>6, <1>7, Zenon DEF Retraces
<1>9. Traced(u, H)
  BY <1>8, TracedAgain
<1> QED BY <1>4, <1>9 DEF u

LEMMA ShiftTraced ==
    ASSUME NEW t, NEW H, Traced(t, H), NEW base
    PROVE  LET u == ShiftOrdinals(t, base) IN
           Traced(u, H) /\ u.hash = t.hash /\ u.from = t.from
<1> DEFINE shared(l) == t.hash = MergedHash /\ \E r \in ToSet(t.receipt) : SameLog(l, r)
           shiftLog(l) == [l EXCEPT !.ord = l.ord + (IF shared(l) THEN 2 * base ELSE base)]
           shiftLogs(ls) == [k \in 1..Len(ls) |-> shiftLog(ls[k])]
           shiftCall(c) ==
               [c EXCEPT !.begin = IF c.begin = 0 THEN 0 ELSE c.begin + base,
                         !.end = c.end + base,
                         !.logs = shiftLogs(c.logs),
                         !.changes = MapSeq(c.changes, LAMBDA ch : [ch EXCEPT !.ord = @ + base])]
           cs == [i \in 1..Len(t.calls) |-> shiftCall(t.calls[i])]
           rs == shiftLogs(t.receipt)
           u == ShiftOrdinals(t, base)
           n == Len(t.calls)
<1>1. u = [t EXCEPT !.begin = t.begin + base, !.end = t.end + base, !.calls = cs, !.receipt = rs]
  BY Zenon DEF ShiftOrdinals, MapSeq
<1>2. ASSUME NEW l, IsLog(l)
      PROVE  IsLog(shiftLog(l)) /\ SameLog(shiftLog(l), l) /\ shiftLog(l).data = l.data
  <2>1. PICK o : shiftLog(l) = [l EXCEPT !.ord = o]
    OBVIOUS
  <2>2. PICK m : m = shiftLog(l)
    OBVIOUS
  <2> HIDE DEF shiftLog
  <2>3. PICK a, b, c, d, e : l = [trx |-> a, index |-> b, data |-> c, ord |-> d, blockIndex |-> e]
                             /\ e \in Nat
    BY <1>2 DEF IsLog
  <2>4. m = [trx |-> a, index |-> b, data |-> c, ord |-> o, blockIndex |-> e]
    BY <2>1, <2>2, <2>3
  <2>5. IsLog(m) /\ SameLog(m, l) /\ m.data = l.data
    BY <2>3, <2>4 DEF IsLog, SameLog
  <2> QED BY <2>2, <2>5
<1> HIDE DEF shiftLog
<1>3. ASSUME NEW ls, AllLogs(ls)
      PROVE  SameLogs(shiftLogs(ls), ls) /\ \A k \in 1..Len(ls) : shiftLogs(ls)[k] = shiftLog(ls[k])
  <2> DEFINE ms == shiftLogs(ls)
  <2>1. ms = [k \in 1..Len(ls) |-> ms[k]] /\ \A k \in 1..Len(ls) : ms[k] = shiftLog(ls[k])
    OBVIOUS
  <2> HIDE DEF ms
  <2>2. Len(ls) \in Nat
    BY <1>3, ListedFacts DEF AllLogs
  <2>3. Listed(ms) /\ Len(ms) = Len(ls)
    BY <2>1, <2>2, Tabled
  <2>4. \A k \in 1..Len(ls) : IsLog(ms[k]) /\ SameLog(ms[k], ls[k])
    BY <1>2, <1>3, <2>1 DEF AllLogs
  <2>5. SameLogs(ms, ls)
    BY <2>3, <2>4, Zenon DEF SameLogs, AllLogs
  <2> QED BY <2>1, <2>5 DEF ms
<1> HIDE DEF shiftLogs
<1>4. ASSUME NEW c, CallFields \subseteq DOMAIN c
      PROVE  /\ CallFields \subseteq DOMAIN shiftCall(c)
             /\ shiftCall(c).stateReverted = c.stateReverted
             /\ shiftCall(c).logs = shiftLogs(c.logs)
  <2>1. PICK moved :
            shiftCall(c) = [c EXCEPT !.begin = IF c.begin = 0 THEN 0 ELSE c.begin + base,
                                     !.end = c.end + base, !.logs = shiftLogs(c.logs),
                                     !.changes = moved]
    BY Zenon
  <2> HIDE DEF shiftCall
  <2> QED BY <1>4, <2>1 DEF CallFields
<1> HIDE DEF shiftCall, u
<1>5. /\ cs = [i \in 1..n |-> cs[i]]
      /\ \A i \in 1..n : cs[i] = shiftCall(t.calls[i])
  OBVIOUS
<1> HIDE DEF cs, rs
<1>6. TrxFields \subseteq DOMAIN t /\ Bears(t.calls) /\ AllLogs(t.receipt)
  BY Zenon DEF Traced
<1>7. /\ TrxFields \subseteq DOMAIN u /\ u.calls = cs /\ u.receipt = rs
      /\ u.hash = t.hash /\ u.from = t.from
  BY <1>1, <1>6 DEF TrxFields
<1>8. Listed(cs) /\ Len(cs) = n
  <2>1. n \in Nat
    BY <1>6, ListedFacts DEF Bears
  <2> QED BY <1>5, <2>1, Tabled
<1>9. ASSUME NEW i \in 1..n
      PROVE  /\ CallFields \subseteq DOMAIN cs[i] /\ cs[i].stateReverted = t.calls[i].stateReverted
             /\ SameLogs(cs[i].logs, t.calls[i].logs)
             /\ \A p \in 1..Len(t.calls[i].logs) : cs[i].logs[p] = shiftLog(t.calls[i].logs[p])
  <2>1. CallFields \subseteq DOMAIN t.calls[i] /\ AllLogs(t.calls[i].logs)
    BY <1>6, Zenon DEF Bears
  <2>2. /\ CallFields \subseteq DOMAIN cs[i] /\ cs[i].stateReverted = t.calls[i].stateReverted
        /\ cs[i].logs = shiftLogs(t.calls[i].logs)
    BY <1>4, <1>5, <2>1
  <2> QED BY <1>3, <2>1, <2>2
<1>10. SameLogs(rs, t.receipt) /\ \A k \in 1..Len(t.receipt) : rs[k] = shiftLog(t.receipt[k])
  BY <1>3, <1>6 DEF rs
<1>11. ASSUME NEW k \in 1..Len(t.receipt), Stands(t.receipt[k], t.calls)
       PROVE  Stands(rs[k], cs)
  <2>1. PICK i \in 1..n : \E p \in 1..Len(t.calls[i].logs) :
            t.receipt[k] = t.calls[i].logs[p] /\ Survives(t.calls[i], t.receipt[k])
    BY <1>11, Zenon DEF Stands
  <2>2. PICK p \in 1..Len(t.calls[i].logs) :
            t.receipt[k] = t.calls[i].logs[p] /\ Survives(t.calls[i], t.receipt[k])
    BY <2>1
  <2>3. rs[k] = cs[i].logs[p] /\ p \in 1..Len(cs[i].logs)
    BY <1>9, <1>10, <2>2 DEF SameLogs
  <2>4. IsLog(t.receipt[k])
    BY <1>6 DEF AllLogs
  <2>5. Survives(cs[i], rs[k])
    BY <1>2, <1>9, <1>10, <2>2, <2>4 DEF Survives
  <2> QED BY <1>8, <2>3, <2>5, Zenon DEF Stands
<1>12. Retraces(u, t)
  BY <1>7, <1>8, <1>9, <1>10, <1>11, Zenon DEF Retraces
<1>13. Traced(u, H)
  BY <1>12, TracedAgain
<1> QED BY <1>7, <1>13 DEF u

\* The logs that survive are each one of the calls'.
LEMMA SurvivorsStand ==
    ASSUME NEW cs, Bears(cs), Apart(cs)
    PROVE  /\ AllLogs(SurvivingLogs(cs)) /\ DistinctLogs(SurvivingLogs(cs))
           /\ \A k \in 1..Len(SurvivingLogs(cs)) : Stands(SurvivingLogs(cs)[k], cs)
<1> DEFINE n == Len(cs)
           kept(i) == {l \in ToSet(cs[i].logs) : ~cs[i].stateReverted \/ IsPolygonException(l)}
           ss == [i \in 1..n |-> Select(cs[i].logs, kept(i))]
           T == EmittedLogs(cs)
           s == FlattenSeq(ss)
<1>1. SurvivingLogs(cs) = s
  BY Zenon DEF SurvivingLogs
<1>2. n \in Nat /\ \A i \in 1..n : AllLogs(cs[i].logs) /\ Listed(cs[i].logs)
  BY ListedFacts DEF Bears, AllLogs
<1>3. ASSUME NEW i \in 1..n
      PROVE  cs[i].logs \in Seq(T) /\ ToSet(cs[i].logs) = Elements(cs[i].logs)
  <2>1. cs[i].logs \in Seq(Elements(cs[i].logs)) /\ ToSet(cs[i].logs) = Elements(cs[i].logs)
    BY <1>2, ListedFacts
  <2>2. Elements(cs[i].logs) \subseteq T
    BY DEF EmittedLogs
  <2> HIDE DEF T
  <2> QED BY <2>1, <2>2
<1> HIDE DEF T
<1>4. ASSUME NEW i \in 1..n
      PROVE  /\ ss[i] \in Seq(T) /\ DistinctLogs(ss[i])
             /\ \A e \in Elements(ss[i]) : \E p \in 1..Len(cs[i].logs) :
                    e = cs[i].logs[p] /\ Survives(cs[i], e)
  <2>1. ss[i] = Select(cs[i].logs, kept(i))
    OBVIOUS
  <2>2. DistinctLogs(cs[i].logs)
    BY Zenon DEF Apart, DistinctLogs
  <2>3. \A l \in kept(i) : \E p \in 1..Len(cs[i].logs) : l = cs[i].logs[p] /\ Survives(cs[i], l)
    <3> SUFFICES ASSUME NEW l \in kept(i)
                 PROVE  \E p \in 1..Len(cs[i].logs) : l = cs[i].logs[p] /\ Survives(cs[i], l)
      OBVIOUS
    <3>1. l \in Elements(cs[i].logs)
      BY <1>3
    <3>2. Survives(cs[i], l)
      BY DEF Survives, IsPolygonException
    <3> QED BY <3>1, <3>2 DEF Elements
  <2> HIDE DEF ss, kept
  <2>4. /\ ss[i] \in Seq(T) /\ \A k \in 1..Len(ss[i]) : ss[i][k] \in kept(i)
    BY <1>3, <2>1, SelectType
  <2>5. DistinctLogs(ss[i])
    BY <1>3, <2>1, <2>2, DistinctSelected
  <2>6. \A e \in Elements(ss[i]) : e \in kept(i)
    BY <2>4 DEF Elements
  <2> QED BY <2>3, <2>4, <2>5, <2>6
<1>5. ss = [i \in 1..n |-> ss[i]]
  OBVIOUS
<1> HIDE DEF ss, kept
<1>6. ss \in Seq(Seq(T)) /\ Len(ss) = n
  <2>1. ss \in [1..n -> Seq(T)]
    BY <1>4, <1>5
  <2> QED BY <1>2, <2>1
<1>7. ASSUME NEW i \in 1..n, NEW j \in 1..n, i # j PROVE Disjoint(ss[i], ss[j])
  <2> SUFFICES ASSUME NEW x \in 1..Len(ss[i]), NEW y \in 1..Len(ss[j]), SameLog(ss[i][x], ss[j][y])
               PROVE  FALSE
    BY Zenon DEF Disjoint
  <2>1. ss[i][x] \in Elements(ss[i]) /\ ss[j][y] \in Elements(ss[j])
    BY DEF Elements
  <2>2. PICK p \in 1..Len(cs[i].logs) : ss[i][x] = cs[i].logs[p]
    BY <1>4, <2>1
  <2>3. PICK q \in 1..Len(cs[j].logs) : ss[j][y] = cs[j].logs[q]
    BY <1>4, <2>1
  <2>4. SameLog(cs[i].logs[p], cs[j].logs[q])
    BY <2>2, <2>3
  <2> QED BY <1>7, <2>4, Zenon DEF Apart
<1>8. DistinctLogs(s)
  BY <1>4, <1>6, <1>7, DistinctFlattened, Zenon
<1>9. s \in Seq(T)
  BY <1>6, FlattenedAt
<1>10. ASSUME NEW k \in 1..Len(s) PROVE Stands(s[k], cs) /\ IsLog(s[k])
  <2>1. s[k] \in Elements(s)
    BY DEF Elements
  <2>2. PICK i \in 1..n : s[k] \in Elements(ss[i])
    BY <1>6, <2>1, ElementsFlattened
  <2>3. PICK p \in 1..Len(cs[i].logs) : s[k] = cs[i].logs[p] /\ Survives(cs[i], s[k])
    BY <1>4, <2>2
  <2>4. IsLog(s[k])
    BY <1>2, <2>3, Zenon DEF AllLogs
  <2> QED BY <2>3, <2>4, Zenon DEF Stands
<1> HIDE DEF s
<1>11. AllLogs(s)
  BY <1>9, <1>10, Zenon DEF AllLogs, Listed
<1> QED BY <1>1, <1>8, <1>10, <1>11

\* The calls of the merged transaction bring their logs along: the j-th one of the k-th
\* transaction is after start[k-1] others and the artificial root.
LaidUnder(cs, merge, start) ==
    /\ cs[1].logs = << >>
    /\ \A k \in 1..Len(merge) : \A j \in 1..Len(merge[k].calls) :
           /\ 1 + start[k-1] + j \in 1..Len(cs)
           /\ cs[1 + start[k-1] + j].logs = merge[k].calls[j].logs
           /\ cs[1 + start[k-1] + j].stateReverted = merge[k].calls[j].stateReverted
    /\ \A x \in 1..Len(cs) : x = 1 \/ \E k \in 1..Len(merge) : \E j \in 1..Len(merge[k].calls) :
           x = 1 + start[k-1] + j

LEMMA MergedAt ==
    ASSUME NEW merge, Listed(merge), NEW index,
           \A k \in 1..Len(merge) : NodeCalls(merge[k].calls)
    PROVE  \E start : LaidUnder(MergedSystemTrx(merge, index).calls, merge, start)
<1> DEFINE n == Len(merge)
           off == CallIdxOffset(merge)
           ss == [k \in 1..n |-> MapSeq(merge[k].calls, LAMBDA c : ShiftCall(c, off[k]))]
           U == UNION {Elements(ss[k]) : k \in 1..n}
           calls == FlattenSeq(ss)
<1>1. PICK top : /\ MergedSystemTrx(merge, index).calls = <<top>> \o calls
                 /\ top.logs = << >>
  <2>1. PICK b, e, begin, end, receipt, born, done :
            MergedSystemTrx(merge, index) =
                [hash |-> MergedHash, index |-> index, from |-> NullAddress,
                 to |-> NullAddress, begin |-> begin, end |-> end, status |-> "SUCCEEDED",
                 calls |-> <<[NewCall(1, "CALL", NullAddress, b)
                                 EXCEPT !.caller = NullAddress, !.end = e]>> \o calls,
                 receipt |-> receipt, born |-> born, done |-> done, system |-> FALSE]
    BY Zenon DEF MergedSystemTrx
  <2>2. PICK top : top = [NewCall(1, "CALL", NullAddress, b)
                             EXCEPT !.caller = NullAddress, !.end = e]
    OBVIOUS
  <2>3. top.logs = << >>
    BY <2>2 DEF NewCall
  <2> HIDE DEF calls
  <2>4. MergedSystemTrx(merge, index).calls = <<top>> \o calls
    BY <2>1, <2>2
  <2> QED BY <2>3, <2>4
<1>2. n \in Nat /\ \A k \in 1..n : /\ NodeCalls(merge[k].calls) /\ Listed(merge[k].calls)
                                   /\ Len(merge[k].calls) \in Nat
  BY ListedFacts DEF NodeCalls
<1> HIDE DEF off
<1>3. ASSUME NEW k \in 1..n
      PROVE  /\ Listed(ss[k]) /\ Len(ss[k]) = Len(merge[k].calls)
             /\ \A j \in 1..Len(merge[k].calls) :
                    /\ ss[k][j].logs = merge[k].calls[j].logs
                    /\ ss[k][j].stateReverted = merge[k].calls[j].stateReverted
  <2>1. ss[k] = [j \in 1..Len(merge[k].calls) |-> ShiftCall(merge[k].calls[j], off[k])]
    BY Zenon DEF MapSeq
  <2>2. PICK t, o : t = ss[k] /\ o = off[k]
    OBVIOUS
  <2>3. /\ t = [j \in 1..Len(merge[k].calls) |-> t[j]]
        /\ \A j \in 1..Len(merge[k].calls) : t[j] = ShiftCall(merge[k].calls[j], o)
    BY <2>1, <2>2
  <2>4. Listed(t) /\ Len(t) = Len(merge[k].calls)
    BY <1>2, <2>3, Tabled
  <2>5. ASSUME NEW c PROVE ShiftCall(c, o).logs = c.logs /\ ShiftCall(c, o).stateReverted = c.stateReverted
    BY DEF ShiftCall
  <2> QED BY <2>2, <2>3, <2>4, <2>5
<1>4. ss \in Seq(Seq(U)) /\ Len(ss) = n
  <2>1. ASSUME NEW k \in 1..n PROVE ss[k] \in Seq(U)
    <3>1. ss[k] \in Seq(Elements(ss[k]))
      BY <1>3, ListedFacts
    <3>2. Elements(ss[k]) \subseteq U
      OBVIOUS
    <3> HIDE DEF U, ss
    <3> QED BY <3>1, <3>2
  <2>2. ss = [k \in 1..n |-> ss[k]]
    OBVIOUS
  <2> HIDE DEF ss, U
  <2>3. ss \in [1..n -> Seq(U)]
    BY <2>1, <2>2
  <2> QED BY <1>2, <2>3
<1> HIDE DEF ss, U
<1>5. calls \in Seq(U) /\ \E start : FlattensTo(calls, ss, start)
  BY <1>4, FlattenedAt
<1> HIDE DEF calls
<1>6. PICK start : FlattensTo(calls, ss, start)
  BY <1>5
<1>7. PICK cs, m : cs = <<top>> \o calls /\ m = Len(calls)
  OBVIOUS
<1>8. /\ Len(cs) = m + 1 /\ cs[1] = top /\ m \in Nat
      /\ \A i \in 1..m : cs[i + 1] = calls[i]
  <2> DEFINE V == U \cup {top}
  <2>1. <<top>> \in Seq(V) /\ calls \in Seq(V) /\ Len(<<top>>) = 1 /\ m \in Nat
    BY <1>5, <1>7
  <2> HIDE DEF V
  <2>2. /\ Len(cs) = 1 + m
        /\ \A i \in 1..(1 + m) : cs[i] = IF i <= 1 THEN <<top>>[i] ELSE calls[i - 1]
    BY <1>7, <2>1, ConcatProperties
  <2>3. 1 \in 1..(1 + m) /\ <<top>>[1] = top
    BY <2>1
  <2>4. \A i \in 1..m : i + 1 \in 1..(1 + m) /\ ~(i + 1 <= 1) /\ (i + 1) - 1 = i
    BY <2>1
  <2> QED BY <2>1, <2>2, <2>3, <2>4
<1>9. \A k \in 1..n : start[k-1] \in Nat
  <2>1. \A k \in 1..n : k - 1 \in 0..n
    BY <1>2
  <2> QED BY <1>4, <1>6, <2>1 DEF FlattensTo, Starts
<1>10. ASSUME NEW k \in 1..n, NEW j \in 1..Len(merge[k].calls)
       PROVE  /\ 1 + start[k-1] + j \in 1..Len(cs)
              /\ cs[1 + start[k-1] + j].logs = merge[k].calls[j].logs
              /\ cs[1 + start[k-1] + j].stateReverted = merge[k].calls[j].stateReverted
  <2>1. start[k-1] + j \in 1..m /\ calls[start[k-1] + j] = ss[k][j]
    BY <1>3, <1>4, <1>6, <1>7 DEF FlattensTo
  <2>2. PICK x : x = start[k-1] + j /\ x \in 1..m
    BY <2>1
  <2>3. 1 + start[k-1] + j = x + 1
    BY <1>2, <1>9, <2>2
  <2>4. x + 1 \in 1..Len(cs) /\ cs[x + 1] = ss[k][j]
    BY <1>8, <2>1, <2>2
  <2> QED BY <1>3, <2>3, <2>4
<1>11. ASSUME NEW x \in 1..Len(cs), x # 1
       PROVE  \E k \in 1..n : \E j \in 1..Len(merge[k].calls) : x = 1 + start[k-1] + j
  <2>1. PICK y \in 1..m : x = y + 1
    <3>1. x - 1 \in 1..m /\ x = (x - 1) + 1
      BY <1>8, <1>11
    <3> QED BY <3>1
  <2>2. PlacedAt(calls, ss, start, y)
    BY <1>4, <1>6, <1>7, <2>1, PlaceFound
  <2>3. PICK k \in 1..Len(ss) : \E j \in 1..Len(ss[k]) : y = start[k-1] + j
    BY <2>2, Zenon DEF PlacedAt
  <2>4. PICK j \in 1..Len(ss[k]) : y = start[k-1] + j
    BY <2>3
  <2>5. k \in 1..n /\ j \in 1..Len(merge[k].calls)
    BY <1>3, <1>4, <2>3, <2>4
  <2>6. x = 1 + start[k-1] + j
    <3>1. PICK p : p = start[k-1] /\ p \in Nat
      BY <1>9, <2>5
    <3>2. j \in Nat /\ y = p + j
      BY <1>2, <2>4, <2>5, <3>1
    <3>3. x = 1 + p + j
      BY <2>1, <3>1, <3>2
    <3> QED BY <3>1, <3>3
  <2> QED BY <2>5, <2>6
<1>12. LaidUnder(cs, merge, start)
  BY <1>1, <1>8, <1>10, <1>11, Zenon DEF LaidUnder
<1> QED BY <1>1, <1>7, <1>12

\* Transactions to be merged: each with its logs, under a hash of its own.
ToMerge(merge, H) ==
    /\ Listed(merge)
    /\ \A k \in 1..Len(merge) : /\ NodeCalls(merge[k].calls) /\ Traced(merge[k], {})
                                /\ merge[k].hash \in H
    /\ \A j, k \in 1..Len(merge) : merge[j].hash = merge[k].hash => j = k

\* The receipt of the k-th one, in the order of its logs.
ReceiptToMerge(merge, k) ==
    SortBy(SurvivingLogs(merge[k].calls),
           MapSeq(SurvivingLogs(merge[k].calls), LAMBDA l : l.blockIndex))

LEMMA MergedReceipt ==
    ASSUME NEW merge, NEW H, ToMerge(merge, H)
    PROVE  LET s == FlattenSeq([k \in 1..Len(merge) |-> ReceiptToMerge(merge, k)]) IN
           /\ Listed(s) /\ DistinctLogs(s)
           /\ \A x \in 1..Len(s) : \E k \in 1..Len(merge) : Stands(s[x], merge[k].calls)
<1> DEFINE n == Len(merge)
           ss == [k \in 1..n |-> ReceiptToMerge(merge, k)]
           s == FlattenSeq(ss)
           T == UNION {Elements(ss[k]) : k \in 1..n}
<1>1. n \in Nat
  BY ListedFacts DEF ToMerge
<1>2. ASSUME NEW k \in 1..n
      PROVE  /\ Listed(ss[k]) /\ DistinctLogs(ss[k])
             /\ \A e \in Elements(ss[k]) : Stands(e, merge[k].calls) /\ e.trx = merge[k].hash
  <2>1. PICK v : v = SurvivingLogs(merge[k].calls)
    OBVIOUS
  <2>2. PICK key : key = MapSeq(v, LAMBDA l : l.blockIndex)
    OBVIOUS
  <2>3. ss[k] = SortBy(v, key)
    BY <2>1, <2>2, Zenon DEF ReceiptToMerge
  <2>4. Traced(merge[k], {})
    BY DEF ToMerge
  <2>5. /\ AllLogs(v) /\ DistinctLogs(v)
        /\ \A x \in 1..Len(v) : Stands(v[x], merge[k].calls)
    BY <2>1, <2>4, SurvivorsStand DEF Traced
  <2>6. \A x \in 1..Len(v) : key[x] \in Nat
    BY <2>2, <2>5 DEF AllLogs, IsLog, MapSeq
  <2>7. v \in Seq(Elements(v))
    BY <2>5, ListedFacts DEF AllLogs
  <2> HIDE DEF ss
  <2>8. /\ DistinctLogs(ss[k]) /\ ss[k] \in Seq(Elements(v))
        /\ Elements(ss[k]) \subseteq Elements(v)
    BY <2>3, <2>5, <2>6, <2>7, DistinctSorted
  <2>9. ASSUME NEW e \in Elements(ss[k]) PROVE Stands(e, merge[k].calls) /\ e.trx = merge[k].hash
    <3>1. PICK x \in 1..Len(v) : e = v[x]
      BY <2>8 DEF Elements
    <3>2. Stands(e, merge[k].calls)
      BY <2>5, <3>1
    <3>3. PICK i \in 1..Len(merge[k].calls) : \E p \in 1..Len(merge[k].calls[i].logs) :
              e = merge[k].calls[i].logs[p]
      BY <3>2, Zenon DEF Stands
    <3>4. Owns(merge[k], {}, e)
      BY <2>4, <3>3, Zenon DEF Traced, OwnsAll
    <3> QED BY <3>2, <3>4 DEF Owns
  <2> QED BY <2>8, <2>9, Zenon DEF Listed
<1>3. ss = [k \in 1..n |-> ss[k]] /\ \A k \in 1..n : Elements(ss[k]) \subseteq T
  OBVIOUS
<1> HIDE DEF ss, T
<1>4. ss \in Seq(Seq(T)) /\ Len(ss) = n
  <2>1. ASSUME NEW k \in 1..n PROVE ss[k] \in Seq(T)
    <3>1. ss[k] \in Seq(Elements(ss[k]))
      BY <1>2, ListedFacts
    <3> QED BY <1>3, <3>1
  <2>2. ss \in [1..n -> Seq(T)]
    BY <1>3, <2>1
  <2> QED BY <1>1, <2>2
<1>5. ASSUME NEW j \in 1..n, NEW k \in 1..n, j # k PROVE Disjoint(ss[j], ss[k])
  <2> SUFFICES ASSUME NEW x \in 1..Len(ss[j]), NEW y \in 1..Len(ss[k]), SameLog(ss[j][x], ss[k][y])
               PROVE  FALSE
    BY Zenon DEF Disjoint
  <2>1. ss[j][x] \in Elements(ss[j]) /\ ss[k][y] \in Elements(ss[k])
    BY DEF Elements
  <2>2. ss[j][x].trx = merge[j].hash /\ ss[k][y].trx = merge[k].hash
    BY <1>2, <2>1
  <2>3. merge[j].hash = merge[k].hash
    BY <2>2 DEF SameLog
  <2> QED BY <1>5, <2>3, Zenon DEF ToMerge
<1>6. DistinctLogs(s)
  BY <1>2, <1>4, <1>5, DistinctFlattened, Zenon
<1>7. s \in Seq(T)
  BY <1>4, FlattenedAt
<1>8. ASSUME NEW x \in 1..Len(s) PROVE \E k \in 1..n : Stands(s[x], merge[k].calls)
  <2>1. s[x] \in Elements(s)
    BY DEF Elements
  <2>2. PICK k \in 1..n : s[x] \in Elements(ss[k])
    BY <1>4, <2>1, ElementsFlattened
  <2> QED BY <1>2, <2>2
<1> HIDE DEF s
<1>9. Listed(s)
  BY <1>7, Zenon DEF Listed
<1> QED BY <1>6, <1>8, <1>9 DEF s, ss

LEMMA MergedTraced ==
    ASSUME NEW merge, NEW H, ToMerge(merge, H), NEW index
    PROVE  LET u == MergedSystemTrx(merge, index) IN Traced(u, H) /\ u.hash = MergedHash
<1> DEFINE n == Len(merge)
           s == FlattenSeq([k \in 1..n |-> ReceiptToMerge(merge, k)])
<1>1. PICK u : u = MergedSystemTrx(merge, index)
  OBVIOUS
<1>2. TrxFields \subseteq DOMAIN u /\ u.hash = MergedHash /\ u.receipt = s
  <2>1. PICK begin, end, calls, born, done :
            u = [hash |-> MergedHash, index |-> index, from |-> NullAddress,
                 to |-> NullAddress, begin |-> begin, end |-> end, status |-> "SUCCEEDED",
                 calls |-> calls, receipt |-> s, born |-> born, done |-> done, system |-> FALSE]
    BY <1>1, Zenon DEF MergedSystemTrx, ReceiptToMerge
  <2> HIDE DEF s
  <2> QED BY <2>1 DEF TrxFields
<1>3. /\ Listed(s) /\ DistinctLogs(s)
      /\ \A x \in 1..Len(s) : \E k \in 1..n : Stands(s[x], merge[k].calls)
  BY MergedReceipt
<1> HIDE DEF s
<1>4. \A k \in 1..n : NodeCalls(merge[k].calls)
  BY Zenon DEF ToMerge
<1>5. Listed(merge)
  BY Zenon DEF ToMerge
<1>6. PICK cs : cs = u.calls
  OBVIOUS
<1>7. NodeCalls(cs)
  BY <1>1, <1>4, <1>5, <1>6, MergedCalls
<1>8. PICK start : LaidUnder(cs, merge, start)
  BY <1>1, <1>4, <1>5, <1>6, MergedAt
<1>9. Listed(cs) /\ \A i \in 1..Len(cs) : CallFields \subseteq DOMAIN cs[i]
  BY <1>7, Zenon DEF NodeCalls
<1>10. ASSUME NEW k \in 1..n, NEW j \in 1..Len(merge[k].calls)
       PROVE  /\ AllLogs(merge[k].calls[j].logs)
              /\ \A p \in 1..Len(merge[k].calls[j].logs) :
                     merge[k].calls[j].logs[p].trx = merge[k].hash
  <2>1. Traced(merge[k], {})
    BY Zenon DEF ToMerge
  <2>2. AllLogs(merge[k].calls[j].logs)
    BY <2>1, Zenon DEF Traced, Bears
  <2>3. OwnsAll(merge[k], {}, merge[k].calls[j].logs)
    BY <2>1, Zenon DEF Traced
  <2> QED BY <2>2, <2>3 DEF OwnsAll, Owns
\* Each call has no logs or those of one that is merged.
<1>11. ASSUME NEW x \in 1..Len(cs), Len(cs[x].logs) # 0
       PROVE  \E k \in 1..n : \E j \in 1..Len(merge[k].calls) :
                  x = 1 + start[k-1] + j /\ cs[x].logs = merge[k].calls[j].logs
  <2>1. x # 1
    <3>1. cs[1].logs = << >> /\ Len(<< >>) = 0
      BY <1>8 DEF LaidUnder
    <3> QED BY <1>11, <3>1
  <2>2. PICK k \in 1..n : \E j \in 1..Len(merge[k].calls) : x = 1 + start[k-1] + j
    BY <1>8, <2>1 DEF LaidUnder
  <2>3. PICK j \in 1..Len(merge[k].calls) : x = 1 + start[k-1] + j
    BY <2>2
  <2>4. cs[1 + start[k-1] + j].logs = merge[k].calls[j].logs
    BY <1>8, Zenon DEF LaidUnder
  <2> QED BY <2>3, <2>4
<1>12. \A x \in 1..Len(cs) : Listed(cs[x].logs) /\ Len(cs[x].logs) \in Nat
  <2> SUFFICES ASSUME NEW x \in 1..Len(cs) PROVE Listed(cs[x].logs) /\ Len(cs[x].logs) \in Nat
    OBVIOUS
  <2>1. CASE x = 1
    <3>1. << >> \in Seq({}) /\ Len(<< >>) = 0
      OBVIOUS
    <3> QED BY <1>8, <2>1, <3>1, Zenon DEF LaidUnder, Listed
  <2>2. CASE x # 1
    <3>1. PICK k \in 1..n : \E j \in 1..Len(merge[k].calls) : cs[x].logs = merge[k].calls[j].logs
      <4>1. PICK k \in 1..n : \E j \in 1..Len(merge[k].calls) : x = 1 + start[k-1] + j
        BY <1>8, <2>2 DEF LaidUnder
      <4>2. PICK j \in 1..Len(merge[k].calls) : x = 1 + start[k-1] + j
        BY <4>1
      <4>3. cs[1 + start[k-1] + j].logs = merge[k].calls[j].logs
        BY <1>8, Zenon DEF LaidUnder
      <4> QED BY <4>2, <4>3
    <3>2. Listed(cs[x].logs)
      BY <1>10, <3>1, Zenon DEF AllLogs
    <3> QED BY <3>2, ListedFacts
  <2> QED BY <2>1, <2>2
<1>13. ASSUME NEW x \in 1..Len(cs), NEW p \in 1..Len(cs[x].logs)
       PROVE  \E k \in 1..n : \E j \in 1..Len(merge[k].calls) :
                  /\ x = 1 + start[k-1] + j /\ cs[x].logs = merge[k].calls[j].logs
                  /\ IsLog(cs[x].logs[p]) /\ cs[x].logs[p].trx = merge[k].hash
  <2>1. Len(cs[x].logs) # 0
    BY <1>12
  <2>2. PICK k \in 1..n : \E j \in 1..Len(merge[k].calls) :
                  x = 1 + start[k-1] + j /\ cs[x].logs = merge[k].calls[j].logs
    BY <1>11, <2>1
  <2>3. PICK j \in 1..Len(merge[k].calls) :
                  x = 1 + start[k-1] + j /\ cs[x].logs = merge[k].calls[j].logs
    BY <2>2
  <2>4. p \in 1..Len(merge[k].calls[j].logs) /\ cs[x].logs[p] = merge[k].calls[j].logs[p]
    BY <2>3
  <2>5. IsLog(cs[x].logs[p]) /\ cs[x].logs[p].trx = merge[k].hash
    BY <1>10, <2>4 DEF AllLogs
  <2> QED BY <2>3, <2>5
<1>14. Bears(cs)
  <2>1. \A x \in 1..Len(cs) : \A p \in 1..Len(cs[x].logs) : IsLog(cs[x].logs[p])
    BY <1>13
  <2> QED BY <1>9, <1>12, <2>1, Zenon DEF Bears, AllLogs
<1>15. Apart(cs)
  <2> SUFFICES ASSUME NEW x \in 1..Len(cs), NEW y \in 1..Len(cs),
                      NEW p \in 1..Len(cs[x].logs), NEW q \in 1..Len(cs[y].logs),
                      SameLog(cs[x].logs[p], cs[y].logs[q])
               PROVE  x = y /\ p = q
    BY Zenon DEF Apart
  <2>1. PICK k \in 1..n : \E j \in 1..Len(merge[k].calls) :
                  /\ x = 1 + start[k-1] + j /\ cs[x].logs = merge[k].calls[j].logs
                  /\ cs[x].logs[p].trx = merge[k].hash
    BY <1>13
  <2>2. PICK j \in 1..Len(merge[k].calls) :
                  /\ x = 1 + start[k-1] + j /\ cs[x].logs = merge[k].calls[j].logs
                  /\ cs[x].logs[p].trx = merge[k].hash
    BY <2>1
  <2>3. PICK l \in 1..n : \E i \in 1..Len(merge[l].calls) :
                  /\ y = 1 + start[l-1] + i /\ cs[y].logs = merge[l].calls[i].logs
                  /\ cs[y].logs[q].trx = merge[l].hash
    BY <1>13
  <2>4. PICK i \in 1..Len(merge[l].calls) :
                  /\ y = 1 + start[l-1] + i /\ cs[y].logs = merge[l].calls[i].logs
                  /\ cs[y].logs[q].trx = merge[l].hash
    BY <2>3
  <2>5. merge[k].hash = merge[l].hash
    BY <2>2, <2>4 DEF SameLog
  <2>6. k = l
    BY <2>5, Zenon DEF ToMerge
  <2>7. Apart(merge[k].calls)
    BY Zenon DEF ToMerge, Traced
  <2>8. /\ p \in 1..Len(merge[k].calls[j].logs) /\ q \in 1..Len(merge[k].calls[i].logs)
        /\ i \in 1..Len(merge[k].calls)
        /\ SameLog(merge[k].calls[j].logs[p], merge[k].calls[i].logs[q])
    BY <2>2, <2>4, <2>6
  <2>9. j = i /\ p = q
    BY <2>7, <2>8, Zenon DEF Apart
  <2> QED BY <2>2, <2>4, <2>6, <2>9
<1>16. \A k \in 1..n : merge[k].hash \in H
  BY Zenon DEF ToMerge
<1>17. \A i \in 1..Len(cs) : OwnsAll(u, H, cs[i].logs)
  BY <1>2, <1>13, <1>16, Zenon DEF OwnsAll, Owns
\* The receipt has logs of the calls.
<1>18. ASSUME NEW e, NEW k \in 1..n, Stands(e, merge[k].calls) PROVE Stands(e, cs)
  <2>1. PICK j \in 1..Len(merge[k].calls) : \E p \in 1..Len(merge[k].calls[j].logs) :
            e = merge[k].calls[j].logs[p] /\ Survives(merge[k].calls[j], e)
    BY <1>18, Zenon DEF Stands
  <2>2. PICK x : x = 1 + start[k-1] + j
    OBVIOUS
  <2>3. /\ x \in 1..Len(cs) /\ cs[x].logs = merge[k].calls[j].logs
        /\ cs[x].stateReverted = merge[k].calls[j].stateReverted
    BY <1>8, <2>2, Zenon DEF LaidUnder
  <2> QED BY <2>1, <2>3, Zenon DEF Stands, Survives
<1>19. \A x \in 1..Len(s) : Stands(s[x], cs)
  BY <1>3, <1>18
<1>20. ASSUME NEW x \in 1..Len(s) PROVE IsLog(s[x]) /\ Owns(u, H, s[x])
  <2>1. PICK i \in 1..Len(cs) : \E p \in 1..Len(cs[i].logs) : s[x] = cs[i].logs[p]
    BY <1>19, Zenon DEF Stands
  <2> QED BY <1>14, <1>17, <2>1, Zenon DEF Bears, AllLogs, OwnsAll
<1>21. AllLogs(s) /\ OwnsAll(u, H, s)
  BY <1>3, <1>20, Zenon DEF AllLogs, OwnsAll
<1>22. Traced(u, H)
  BY <1>2, <1>3, <1>6, <1>14, <1>15, <1>17, <1>19, <1>21, Zenon DEF Traced
<1> QED BY <1>1, <1>2, <1>22

\* The merged transaction is a system one, and a normal one is not.
Classed(t, hashes) ==
    /\ t.hash \in hashes => t.hash = MergedHash \/ ~Normal(t)
    /\ t.hash = MergedHash => t.hash \in hashes

\* The transactions of a block under different hashes, those merged under hashes H that
\* are not there, and the system ones under these hashes.
Separate(ts, H, hashes) ==
    /\ Listed(ts)
    /\ \A i \in 1..Len(ts) : Traced(ts[i], H) /\ ts[i].hash \notin H
    /\ \A i, j \in 1..Len(ts) : ts[i].hash = ts[j].hash => i = j
    /\ \A i \in 1..Len(ts) : Classed(ts[i], hashes)

\* A pass over the transactions that keeps that of each.
LEMMA PassedSeparate ==
    ASSUME NEW ts, NEW H, NEW hashes, Separate(ts, H, hashes),
           NEW us, us = [i \in 1..Len(ts) |-> us[i]],
           \A i \in 1..Len(ts) : /\ Traced(us[i], H)
                                 /\ us[i].hash = ts[i].hash /\ us[i].from = ts[i].from
    PROVE  Separate(us, H, hashes)
<1>1. Len(ts) \in Nat
  BY ListedFacts DEF Separate
<1>2. Listed(us) /\ Len(us) = Len(ts)
  BY <1>1, Tabled
<1>3. \A i \in 1..Len(ts) : Classed(ts[i], hashes) => Classed(us[i], hashes)
  BY DEF Normal, Classed
<1> QED BY <1>2, <1>3, Zenon DEF Separate

LEMMA StatusSeparate ==
    ASSUME NEW ts, NEW H, NEW hashes, Separate(ts, H, hashes)
    PROVE  Separate(MapSeq(ts, PopulateTrxStatus), H, hashes)
<1>1. PICK us : us = [i \in 1..Len(ts) |-> PopulateTrxStatus(ts[i])]
  OBVIOUS
<1>2. us = [i \in 1..Len(ts) |-> us[i]] /\ \A i \in 1..Len(ts) : us[i] = PopulateTrxStatus(ts[i])
  BY <1>1
<1>3. \A i \in 1..Len(ts) : Traced(ts[i], H)
  BY Zenon DEF Separate
<1>4. \A i \in 1..Len(ts) : /\ Traced(us[i], H)
                            /\ us[i].hash = ts[i].hash /\ us[i].from = ts[i].from
  BY <1>2, <1>3, StatusTraced
<1>5. Separate(us, H, hashes)
  BY <1>2, <1>4, PassedSeparate
<1> QED BY <1>1, <1>5, Zenon DEF MapSeq

LEMMA SortedSeparate ==
    ASSUME NEW us, NEW H, NEW hashes, Separate(us, H, hashes),
           NEW key, \A i \in 1..Len(us) : key[i] \in Nat
    PROVE  Separate(SortBy(us, key), H, hashes)
<1> DEFINE vs == SortBy(us, key)
           n == Len(us)
<1>1. Listed(us) /\ us \in Seq(Elements(us)) /\ n \in Nat
  BY ListedFacts DEF Separate
<1>2. vs \in Seq(Elements(us)) /\ \E p : SortedAt(vs, us, key, p)
  BY <1>1, SortedInOrder
<1> HIDE DEF vs
<1>3. PICK p : SortedAt(vs, us, key, p)
  BY <1>2
<1>4. /\ Len(vs) = n /\ \A k \in 1..n : vs[k] = us[p[k]] /\ p[k] \in 1..n
      /\ \A j, k \in 1..n : j < k => Before(key, p[j], p[k])
  BY <1>3 DEF SortedAt, Orders
<1>5. ASSUME NEW j \in 1..n, NEW k \in 1..n, p[j] = p[k] PROVE j = k
  <2>1. PICK x : x = p[j] /\ x = p[k] /\ x \in 1..n
    BY <1>4, <1>5
  <2>2. key[x] \in Nat /\ x \in Nat
    BY <2>1
  <2>3. ~Before(key, x, x)
    BY <2>2 DEF Before
  <2>4. ~(j < k) /\ ~(k < j)
    BY <1>4, <2>1, <2>3
  <2> QED BY <2>4
<1>6. \A i, j \in 1..n : vs[i].hash = vs[j].hash => i = j
  <2> SUFFICES ASSUME NEW i \in 1..n, NEW j \in 1..n, vs[i].hash = vs[j].hash PROVE i = j
    OBVIOUS
  <2>1. us[p[i]].hash = us[p[j]].hash /\ p[i] \in 1..n /\ p[j] \in 1..n
    BY <1>4
  <2>2. p[i] = p[j]
    BY <2>1, Zenon DEF Separate
  <2> QED BY <1>5, <2>2
<1>7. Listed(vs)
  BY <1>2, Zenon DEF Listed
<1>8. \A k \in 1..n : /\ Traced(vs[k], H) /\ vs[k].hash \notin H
                      /\ Classed(vs[k], hashes)
  BY <1>4, Zenon DEF Separate
<1>9. Separate(vs, H, hashes)
  BY <1>4, <1>6, <1>7, <1>8, Zenon DEF Separate
<1> QED BY <1>9 DEF vs

\* Ordered or not, they stay separate.
LEMMA OrderedSeparate ==
    ASSUME NEW block, "trxs" \in DOMAIN block, NEW H, NEW hashes, Separate(block.trxs, H, hashes),
           \A i \in 1..Len(block.trxs) : block.trxs[i].index \in Nat,
           NEW reorder, NEW first, NEW ordered,
           ordered = IF reorder THEN ReorderTransactionsAndRenumberOrdinals(block, first) ELSE block
    PROVE  Separate(ordered.trxs, H, hashes)
<1>1. CASE ~reorder
  BY <1>1
<1>2. CASE reorder
  <2>1. PICK ts : ts = block.trxs
    OBVIOUS
  <2>2. PICK key : key = MapSeq(ts, LAMBDA t : t.index)
    OBVIOUS
  <2>3. \A i \in 1..Len(ts) : key[i] \in Nat
    BY <2>1, <2>2 DEF MapSeq
  <2>4. PICK vs : vs = SortBy(ts, key)
    OBVIOUS
  <2>5. Separate(vs, H, hashes)
    BY <2>1, <2>3, <2>4, SortedSeparate
  <2>6. PICK base : base = Baselines(vs, first)
    OBVIOUS
  <2>7. PICK us : us = [i \in 1..Len(vs) |-> ShiftOrdinals(vs[i], base[i-1])]
    OBVIOUS
  <2>8. PICK moved : ReorderTransactionsAndRenumberOrdinals(block, first)
                         = [block EXCEPT !.trxs = us, !.changes = moved]
    BY <2>1, <2>2, <2>4, <2>6, <2>7, Zenon DEF ReorderTransactionsAndRenumberOrdinals
  <2>9. ReorderTransactionsAndRenumberOrdinals(block, first).trxs = us
    BY <2>8
  <2>10. /\ us = [i \in 1..Len(vs) |-> us[i]]
         /\ \A i \in 1..Len(vs) : us[i] = ShiftOrdinals(vs[i], base[i-1])
    BY <2>7
  <2>11. \A i \in 1..Len(vs) : Traced(vs[i], H)
    BY <2>5, Zenon DEF Separate
  <2>12. \A i \in 1..Len(vs) : /\ Traced(us[i], H)
                               /\ us[i].hash = vs[i].hash /\ us[i].from = vs[i].from
    <3> SUFFICES ASSUME NEW i \in 1..Len(vs)
                 PROVE  /\ Traced(us[i], H)
                        /\ us[i].hash = vs[i].hash /\ us[i].from = vs[i].from
      OBVIOUS
    <3>1. PICK v, o : v = vs[i] /\ o = base[i-1]
      OBVIOUS
    <3>2. Traced(v, H) /\ us[i] = ShiftOrdinals(v, o)
      BY <2>10, <2>11, <3>1
    <3>3. LET u == ShiftOrdinals(v, o) IN
          Traced(u, H) /\ u.hash = v.hash /\ u.from = v.from
      BY <3>2, ShiftTraced
    <3> QED BY <3>1, <3>2, <3>3
  <2>13. Separate(us, H, hashes)
    BY <2>5, <2>10, <2>12, PassedSeparate
  <2> QED BY <1>2, <2>9, <2>13
<1> QED BY <1>1, <1>2

\* A transaction that is not the merged one is not concerned with H.
LEMMA TracedMore ==
    ASSUME NEW t, Traced(t, {}), NEW H
    PROVE  Traced(t, H)
<1>1. \A l : Owns(t, {}, l) => Owns(t, H, l)
  BY DEF Owns
<1>2. \A s : OwnsAll(t, {}, s) => OwnsAll(t, H, s)
  BY <1>1, Zenon DEF OwnsAll
<1> QED BY <1>2, Zenon DEF Traced

\* The hashes of the transactions that are merged.
MergedHashes(ts) == {ts[i].hash : i \in {j \in 1..Len(ts) : Mergeable(ts[j])}}

LEMMA MergeablesTraced ==
    ASSUME NEW ts, Ranked(ts), \A i \in 1..Len(ts) : Traced(ts[i], {}) /\ NodeCalls(ts[i].calls)
    PROVE  ToMerge(MergeablesOf(ts), MergedHashes(ts))
<1> DEFINE S == {t \in ToSet(ts) : Mergeable(t)}
<1>1. PICK merge : merge = Select(ts, S)
  OBVIOUS
<1>2. ts \in Seq(Elements(ts))
  BY ListedFacts DEF Ranked
<1>3. \A t \in S : Mergeable(t)
  OBVIOUS
<1> HIDE DEF S
<1>4. merge \in Seq(Elements(ts)) /\ \E p : TakenAt(merge, ts, S, p)
  BY <1>1, <1>2, SelectInOrder
<1>5. PICK p : TakenAt(merge, ts, S, p)
  BY <1>4
<1>6. /\ \A k \in 1..Len(merge) : p[k] \in 1..Len(ts) /\ merge[k] = ts[p[k]] /\ Mergeable(merge[k])
      /\ Increasing(p, Len(merge)) /\ Len(merge) \in Nat
  BY <1>3, <1>4, <1>5 DEF TakenAt
<1>7. \A j, k \in 1..Len(merge) : p[j] = p[k] => j = k
  BY <1>6, IncreasingOnce
<1>8. \A j, k \in 1..Len(merge) : merge[j].hash = merge[k].hash => j = k
  <2>1. \A i \in 1..Len(ts) : ts[i].hash = i
    BY Zenon DEF Ranked
  <2>2. \A k \in 1..Len(merge) : merge[k].hash = p[k]
    BY <1>6, <2>1
  <2> QED BY <1>7, <2>2
<1>9. \A k \in 1..Len(merge) : merge[k].hash \in MergedHashes(ts)
  BY <1>6 DEF MergedHashes
<1>10. Listed(merge)
  BY <1>4, Zenon DEF Listed
<1>11. \A k \in 1..Len(merge) : NodeCalls(merge[k].calls) /\ Traced(merge[k], {})
  BY <1>6
<1>12. ToMerge(merge, MergedHashes(ts))
  BY <1>8, <1>9, <1>10, <1>11, Zenon DEF ToMerge
<1> QED BY <1>1, <1>12 DEF MergeablesOf, S

LEMMA CombinedSeparate ==
    ASSUME NEW ts, Ranked(ts), \A i \in 1..Len(ts) : Known(ts[i]),
           \A i \in 1..Len(ts) : Traced(ts[i], {}) /\ NodeCalls(ts[i].calls),
           NEW us, NEW hashes, NEW a, NEW b, NEW c, NEW p, NEW q,
           Combines(us, hashes, ts, a, b, c, p, q)
    PROVE  Separate(us, MergedHashes(ts), hashes)
<1> DEFINE H == MergedHashes(ts)
<1>1. /\ Listed(us) /\ LaidOut(us, ts, a, b, c, p, q)
      /\ \A k \in 1..a : us[k] = ts[p[k]]
      /\ \A k \in 1..b : us[a + k] = MergedSystemTrx(MergeablesOf(ts), a)
      /\ \A k \in 1..c : us[a + b + k] = [ts[q[k]] EXCEPT !.index = a + b + k - 1]
      /\ \A i \in 1..Len(us) : us[i].hash \in hashes <=> i > a
  BY Zenon DEF Combines
<1>2. /\ a \in Nat /\ b \in 0..1 /\ c \in Nat /\ Len(us) = a + b + c
      /\ p \in [1..a -> Normals(ts)] /\ q \in [1..c -> Unmergeables(ts)]
      /\ \A k \in 1..c : ~Normal(us[a + b + k])
  BY <1>1, Zenon DEF LaidOut
<1>3. /\ \A k \in 1..a : p[k] \in 1..Len(ts) /\ Normal(ts[p[k]])
      /\ \A k \in 1..c : q[k] \in 1..Len(ts) /\ Unmergeable(ts[q[k]])
  BY <1>2 DEF Normals, Unmergeables
<1>4. \A j \in 1..Len(ts) : Normal(ts[j]) \/ Unmergeable(ts[j]) => ~Mergeable(ts[j])
  BY DEF Normal, Mergeable, Unmergeable, PolygonStateReceiverAddress, PolygonValidatorContract
<1>5. \A j \in 1..Len(ts) : ts[j].hash = j
  BY Zenon DEF Ranked
<1>6. /\ \A j \in 1..Len(ts) : ~Mergeable(ts[j]) => ts[j].hash \notin H
      /\ MergedHash \notin H
  <2>1. Len(ts) \in Nat
    BY ListedFacts DEF Ranked
  <2> QED BY <1>5, <2>1 DEF MergedHashes, MergedHash
<1>7. \A j \in 1..Len(ts) : Traced(ts[j], H)
  BY TracedMore
<1> HIDE DEF H
<1>8. ASSUME NEW k \in 1..a PROVE Traced(us[k], H) /\ us[k].hash \notin H /\ us[k].hash # MergedHash
  <2>1. us[k].hash \in 1..Len(ts)
    BY <1>1, <1>3, <1>5
  <2>2. us[k].hash # MergedHash
    <3>1. Len(ts) \in Nat
      BY ListedFacts DEF Ranked
    <3> QED BY <2>1, <3>1 DEF MergedHash
  <2>3. Traced(us[k], H) /\ us[k].hash \notin H
    BY <1>1, <1>3, <1>4, <1>6, <1>7, Zenon
  <2> QED BY <2>2, <2>3
<1>9. ASSUME NEW k \in 1..b PROVE Traced(us[a + k], H) /\ us[a + k].hash = MergedHash
  <2>1. ToMerge(MergeablesOf(ts), H)
    BY MergeablesTraced DEF H
  <2>2. PICK u : u = MergedSystemTrx(MergeablesOf(ts), a)
    OBVIOUS
  <2>3. Traced(u, H) /\ u.hash = MergedHash
    BY <2>1, <2>2, MergedTraced
  <2> QED BY <1>1, <2>2, <2>3
<1>10. ASSUME NEW k \in 1..c PROVE Traced(us[a + b + k], H) /\ us[a + b + k].hash \notin H
  <2>1. PICK t, x : t = ts[q[k]] /\ x = a + b + k - 1
    OBVIOUS
  <2>2. Traced(t, H) /\ t.hash \notin H
    BY <1>3, <1>4, <1>6, <1>7, <2>1, Zenon
  <2>3. PICK u : u = us[a + b + k]
    OBVIOUS
  <2>4. u = [t EXCEPT !.index = x]
    BY <1>1, <2>1, <2>3
  <2>5. TrxFields \subseteq DOMAIN t
    BY <2>2, Zenon DEF Traced
  <2>6. /\ TrxFields \subseteq DOMAIN u /\ u.hash = t.hash
        /\ u.calls = t.calls /\ u.receipt = t.receipt
    BY <2>4, <2>5 DEF TrxFields
  <2>7. Traced(u, H)
    BY <2>2, <2>6, TracedAlike
  <2> QED BY <2>2, <2>3, <2>6, <2>7
<1>11. ASSUME NEW i \in 1..Len(us)
       PROVE  /\ Traced(us[i], H) /\ us[i].hash \notin H
              /\ Classed(us[i], hashes)
  <2>1. CASE i <= a
    <3>1. i \in 1..a /\ ~(i > a)
      BY <1>2, <2>1
    <3> QED BY <1>1, <1>8, <3>1 DEF Classed
  <2>2. CASE i > a /\ i <= a + b
    <3>1. i = a + 1 /\ 1 \in 1..b /\ i > a
      BY <1>2, <2>2
    <3> QED BY <1>1, <1>6, <1>9, <3>1 DEF Classed
  <2>3. CASE i > a + b
    <3>1. PICK k \in 1..c : i = a + b + k
      <4>1. i - (a + b) \in 1..c /\ i = a + b + (i - (a + b))
        BY <1>2, <2>3
      <4> QED BY <4>1
    <3>2. i > a
      BY <1>2, <2>3
    <3> QED BY <1>1, <1>2, <1>10, <3>1, <3>2 DEF Classed
  <2> QED BY <1>2, <2>1, <2>2, <2>3
<1>12. Placing(us, ts, TRUE)
  <2>1. \A k \in 1..a : Normal(us[k])
    BY <1>1, <1>3
  <2> QED BY <1>1, <2>1, LaidOutPlacing
<1>13. Separate(us, H, hashes)
  BY <1>1, <1>11, <1>12, Zenon DEF Separate, Placing
<1> QED BY <1>13 DEF H

LEMMA UncombinedSeparate ==
    ASSUME NEW ts, Ranked(ts), \A i \in 1..Len(ts) : Traced(ts[i], {})
    PROVE  Separate(ts, {}, {})
<1>1. Len(ts) \in Nat
  BY ListedFacts DEF Ranked
<1>2. \A i \in 1..Len(ts) : ts[i].hash = i
  BY Zenon DEF Ranked
<1>3. \A i \in 1..Len(ts) : ts[i].hash # MergedHash
  BY <1>1, <1>2 DEF MergedHash
<1>4. \A i, j \in 1..Len(ts) : ts[i].hash = ts[j].hash => i = j
  BY <1>2
<1> QED BY <1>3, <1>4, Zenon DEF Ranked, Separate, Classed

-----------------------------------------------------------------------------
(***************************************************************************)
(* The logs that are numbered, when the transactions are separate.         *)
(***************************************************************************)
\* l is a log that survives, of this very transaction.
OfTrx(l, t) == Stands(l, t.calls) /\ l.trx = t.hash /\ IsLog(l)

LEMMA TrxSurvivors ==
    ASSUME NEW t, NEW H, Traced(t, H), t.hash # MergedHash
    PROVE  /\ Listed(SurvivingLogs(t.calls)) /\ DistinctLogs(SurvivingLogs(t.calls))
           /\ \A k \in 1..Len(SurvivingLogs(t.calls)) : OfTrx(SurvivingLogs(t.calls)[k], t)
<1> DEFINE s == SurvivingLogs(t.calls)
<1>1. Bears(t.calls) /\ Apart(t.calls) /\ \A i \in 1..Len(t.calls) : OwnsAll(t, H, t.calls[i].logs)
  BY Zenon DEF Traced
<1>2. AllLogs(s) /\ DistinctLogs(s) /\ \A k \in 1..Len(s) : Stands(s[k], t.calls)
  BY <1>1, SurvivorsStand
<1> HIDE DEF s
<1>3. ASSUME NEW k \in 1..Len(s) PROVE OfTrx(s[k], t)
  <2>1. PICK i \in 1..Len(t.calls) : \E p \in 1..Len(t.calls[i].logs) : s[k] = t.calls[i].logs[p]
    BY <1>2, Zenon DEF Stands
  <2>2. Owns(t, H, s[k])
    BY <1>1, <2>1, Zenon DEF OwnsAll
  <2>3. s[k].trx = t.hash
    BY <2>2 DEF Owns
  <2> QED BY <1>2, <2>3, Zenon DEF OfTrx, AllLogs
<1>4. Listed(s)
  BY <1>2, Zenon DEF AllLogs
<1> QED BY <1>2, <1>3, <1>4 DEF s

\* The sorted logs are different ones, and each is of one of the transactions.
LEMMA SortedStand ==
    ASSUME NEW ts, NEW H, NEW hashes, Separate(ts, H, hashes),
           NEW a, NEW b, NEW e, Queue(ts, hashes, a, b, e)
    PROVE  /\ DistinctLogs(SortedLogs(ts, a))
           /\ \A k \in 1..Len(SortedLogs(ts, a)) : \E i \in 1..a : OfTrx(SortedLogs(ts, a)[k], ts[i])
<1> DEFINE T == Survivors(ts, a)
           ss == [i \in 1..a |-> SurvivingLogs(ts[i].calls)]
           surviving == FlattenSeq(ss)
           sorted == SortBy(surviving, Ords(surviving))
<1>0. a \in Nat /\ \A i \in 1..a : i \in 1..Len(ts)
  <2>1. Len(ts) \in Nat
    BY ListedFacts DEF Queue
  <2> QED BY <2>1 DEF Queue
<1>1. \A i \in 1..a : ts[i].hash # MergedHash /\ Traced(ts[i], H)
  <2> SUFFICES ASSUME NEW i \in 1..a PROVE ts[i].hash # MergedHash /\ Traced(ts[i], H)
    OBVIOUS
  <2>1. ts[i].hash \notin hashes
    BY Zenon DEF Queue
  <2>2. i \in 1..Len(ts)
    BY <1>0
  <2>3. Classed(ts[i], hashes) /\ Traced(ts[i], H)
    BY <2>2, Zenon DEF Separate
  <2> QED BY <2>1, <2>3, Zenon DEF Classed
<1>2. ASSUME NEW i \in 1..a
      PROVE  LET s == SurvivingLogs(ts[i].calls) IN
             /\ s \in Seq(T) /\ DistinctLogs(s)
             /\ \A k \in 1..Len(s) : OfTrx(s[k], ts[i])
  <2>1. PICK t : t = ts[i]
    OBVIOUS
  <2>2. PICK s : s = SurvivingLogs(t.calls)
    OBVIOUS
  <2>3. Listed(s) /\ DistinctLogs(s) /\ \A k \in 1..Len(s) : OfTrx(s[k], t)
    BY <1>1, <2>1, <2>2, TrxSurvivors
  <2>4. Elements(s) \subseteq T
    BY <2>1, <2>2 DEF Survivors
  <2>5. s \in Seq(T)
    <3> HIDE DEF T
    <3>1. s \in Seq(Elements(s))
      BY <2>3, ListedFacts
    <3> QED BY <2>4, <3>1
  <2> QED BY <2>1, <2>2, <2>3, <2>5, Zenon
<1>3. ss \in Seq(Seq(T)) /\ Len(ss) = a /\ \A i \in 1..a : ss[i] = SurvivingLogs(ts[i].calls)
  <2>1. \A i \in 1..a : SurvivingLogs(ts[i].calls) \in Seq(T)
    BY <1>2
  <2> HIDE DEF T
  <2> QED BY <1>0, <2>1
<1> HIDE DEF ss
<1>4. \A i \in 1..a : DistinctLogs(ss[i]) /\ \A k \in 1..Len(ss[i]) : OfTrx(ss[i][k], ts[i])
  BY <1>2, <1>3, Zenon
<1>5. ASSUME NEW i \in 1..a, NEW j \in 1..a, i # j PROVE Disjoint(ss[i], ss[j])
  <2>1. i \in 1..Len(ts) /\ j \in 1..Len(ts)
    BY <1>0
  <2>2. ts[i].hash # ts[j].hash
    BY <1>5, <2>1 DEF Separate
  <2>3. ASSUME NEW p \in 1..Len(ss[i]), NEW q \in 1..Len(ss[j])
        PROVE  ~SameLog(ss[i][p], ss[j][q])
    <3>1. ss[i][p].trx = ts[i].hash /\ ss[j][q].trx = ts[j].hash
      BY <1>4, Zenon DEF OfTrx
    <3> QED BY <2>2, <3>1 DEF SameLog
  <2> QED BY <2>3, Zenon DEF Disjoint
<1>6. surviving \in Seq(T) /\ DistinctLogs(surviving)
  <2>1. (\A k \in 1..Len(ss) : DistinctLogs(ss[k])) /\ \A j, k \in 1..Len(ss) : j # k => Disjoint(ss[j], ss[k])
    BY <1>3, <1>4, <1>5
  <2> HIDE DEF T
  <2> QED BY <1>3, <2>1, DistinctFlattened, FlattenedAt
<1>7. ASSUME NEW l \in Elements(surviving) PROVE (\E i \in 1..a : OfTrx(l, ts[i])) /\ l.ord \in Nat
  <2>1. PICK i \in 1..a : l \in Elements(ss[i])
    <3> HIDE DEF T, surviving
    <3>1. l \in Elements(FlattenSeq(ss))
      BY DEF surviving
    <3> QED BY <1>3, <3>1, ElementsFlattened
  <2>2. PICK k \in 1..Len(ss[i]) : l = ss[i][k]
    BY <2>1 DEF Elements
  <2>3. OfTrx(l, ts[i])
    BY <1>4, <2>2
  <2>4. PICK cs : cs = ts[i].calls
    OBVIOUS
  <2>5. Emits(cs, b[i], e[i]) /\ b[i] \in Nat
    BY <2>4, Zenon DEF Queue, Ready
  <2>6. PICK j \in 1..Len(cs) : \E p \in 1..Len(cs[j].logs) : l = cs[j].logs[p]
    BY <2>3, <2>4, Zenon DEF OfTrx, Stands
  <2>7. l.ord \in b[i]..e[i]
    BY <2>5, <2>6, Zenon DEF Emits, Tells
  <2> QED BY <2>3, <2>5, <2>7
<1>8. PICK key : key = Ords(surviving)
  OBVIOUS
<1> HIDE DEF surviving
<1>9. \A i \in 1..Len(surviving) : key[i] \in Nat
  BY <1>7, <1>8 DEF Ords, MapSeq, Elements
<1>10. DistinctLogs(sorted) /\ sorted \in Seq(T) /\ Elements(sorted) \subseteq Elements(surviving)
  <2> HIDE DEF T
  <2>1. PICK r : r = SortBy(surviving, key)
    OBVIOUS
  <2>2. DistinctLogs(r) /\ r \in Seq(T) /\ Elements(r) \subseteq Elements(surviving)
    BY <1>6, <1>9, <2>1, DistinctSorted
  <2> QED BY <1>8, <2>1, <2>2
<1> HIDE DEF sorted
<1>11. \A k \in 1..Len(sorted) : \E i \in 1..a : OfTrx(sorted[k], ts[i])
  <2>1. \A k \in 1..Len(sorted) : sorted[k] \in Elements(sorted)
    BY DEF Elements
  <2> QED BY <1>7, <1>10, <2>1
<1> QED BY <1>10, <1>11, Zenon DEF sorted, surviving, ss, SortedLogs

\* aa is the first a sequences of ss.
Leading(aa, a, ss) == a \in 0..Len(ss) /\ Len(aa) = a /\ \A k \in 1..a : aa[k] = ss[k]

\* They end where the next one starts.
LEMMA PrefixEnds ==
    ASSUME NEW T, NEW ss \in Seq(Seq(T)), NEW start, Starts(start, ss),
           NEW aa \in Seq(Seq(T)), NEW a, Leading(aa, a, ss)
    PROVE  Len(FlattenSeq(aa)) = start[a]
<1>0. a \in 0..Len(ss) /\ Len(aa) = a /\ \A k \in 1..a : aa[k] = ss[k]
  BY Zenon DEF Leading
<1>1. PICK first : FlattensTo(FlattenSeq(aa), aa, first)
  BY FlattenedAt
<1>2. Starts(first, aa) /\ Len(FlattenSeq(aa)) = first[a]
  BY <1>0, <1>1, Zenon DEF FlattensTo
<1>3. PICK other : other = [k \in 0..a |-> start[k]]
  OBVIOUS
<1>4. a \in Nat /\ Len(ss) \in Nat /\ a <= Len(ss)
  BY <1>0
<1>5. Starts(other, aa)
  <2>1. /\ start \in [0..Len(ss) -> Nat] /\ start[0] = 0
        /\ \A k \in 1..Len(ss) : start[k] = start[k-1] + Len(ss[k])
    BY Zenon DEF Starts
  <2>2. \A k \in 0..a : k \in 0..Len(ss)
    BY <1>4
  <2>3. other \in [0..a -> Nat] /\ other[0] = 0
    <3>1. \A k \in 0..a : start[k] \in Nat
      BY <2>1, <2>2
    <3>2. 0 \in 0..a
      BY <1>4
    <3>3. other \in [0..a -> Nat]
      BY <1>3, <3>1
    <3> QED BY <1>3, <2>1, <3>2, <3>3
  <2>4. ASSUME NEW k \in 1..a PROVE other[k] = other[k-1] + Len(aa[k])
    <3>1. k \in 1..Len(ss) /\ k \in 0..a /\ k - 1 \in 0..a
      BY <1>4
    <3> QED BY <1>0, <1>3, <2>1, <3>1
  <2> QED BY <1>0, <2>3, <2>4, Zenon DEF Starts
<1>6. other = first
  <2>1. Len(aa) = Len(aa) /\ \A k \in 1..Len(aa) : Len(aa[k]) = Len(aa[k])
    OBVIOUS
  <2> QED BY <1>2, <1>5, <2>1, SameStarts
<1> QED BY <1>2, <1>3, <1>4, <1>6

\* Two transactions do not have a log of the same transaction.
LEMMA OwnersAlike ==
    ASSUME NEW ts, NEW H, NEW hashes, Separate(ts, H, hashes),
           NEW i \in 1..Len(ts), NEW j \in 1..Len(ts),
           NEW l, Owns(ts[i], H, l), NEW m, Owns(ts[j], H, m), SameLog(l, m)
    PROVE  i = j
<1>1. ts[i].hash \notin H /\ ts[j].hash \notin H
  BY Zenon DEF Separate
<1>2. ts[i].hash = ts[j].hash
  BY <1>1 DEF Owns, SameLog
<1> QED BY <1>2, Zenon DEF Separate

\* The logs of ts[i] are numbered from before[i] on: those of its receipt when it is a
\* system transaction, and those of its calls that the receipt tells otherwise.
NumberedAt(t, from, numbered, hashes) ==
    /\ from \in Nat
    /\ \A k \in 1..Len(t.receipt) :
           /\ from + k \in 1..Len(numbered)
           /\ IF t.hash \in hashes THEN numbered[from + k] = t.receipt[k]
              ELSE Echoes(t.receipt[k], numbered[from + k]) /\ OfTrx(numbered[from + k], t)

AllReceipts(ts) == [i \in 1..Len(ts) |-> ts[i].receipt]

LEMMA QueueCounts ==
    ASSUME NEW ts, NEW H, NEW hashes, Separate(ts, H, hashes),
           NEW a, NEW b, NEW e, Queue(ts, hashes, a, b, e),
           NEW start, Starts(start, AllReceipts(ts))
    PROVE  LET numbered == NumberedLogs(ts, hashes) IN
           /\ Listed(numbered) /\ DistinctLogs(numbered)
           /\ \A i \in 1..Len(ts) : NumberedAt(ts[i], start[i-1], numbered, hashes)
<1> DEFINE R == UNION {Elements(ts[i].receipt) : i \in 1..Len(ts)}
<1>1. PICK n : n = Len(ts)
  OBVIOUS
<1>2. n \in Nat /\ a \in Nat /\ a <= n /\ \A i \in 1..n : Listed(ts[i].receipt)
  <2>1. Len(ts) \in Nat
    BY ListedFacts DEF Queue
  <2> QED BY <1>1, <2>1 DEF Queue
<1>3. PICK all : all = [i \in 1..n |-> ts[i].receipt]
  OBVIOUS
<1>4. \A i \in 1..n : ts[i].receipt \in Seq(R)
  <2> SUFFICES ASSUME NEW i \in 1..n PROVE ts[i].receipt \in Seq(R)
    OBVIOUS
  <2>1. Elements(ts[i].receipt) \subseteq R
    BY <1>1
  <2> HIDE DEF R
  <2>2. ts[i].receipt \in Seq(Elements(ts[i].receipt))
    BY <1>2, ListedFacts
  <2> QED BY <2>1, <2>2
<1> HIDE DEF R
<1>5. all \in Seq(Seq(R)) /\ Len(all) = n /\ \A i \in 1..n : all[i] = ts[i].receipt
  BY <1>2, <1>3, <1>4
<1>6. PICK first : first = [i \in 1..a |-> ts[i].receipt]
  OBVIOUS
<1>7. first \in Seq(Seq(R)) /\ Len(first) = a /\ \A i \in 1..a : first[i] = all[i]
  <2>1. \A i \in 1..a : i \in 1..n
    BY <1>2
  <2> QED BY <1>2, <1>4, <1>5, <1>6, <2>1
<1>8. PICK receipts : receipts = FlattenSeq(all)
  OBVIOUS
<1>9. FlattensTo(receipts, all, start)
  <2>1. PICK other : FlattensTo(receipts, all, other)
    BY <1>5, <1>8, FlattenedAt
  <2>2. Starts(other, all) /\ Starts(start, all)
    BY <1>1, <1>3, <2>1, Zenon DEF FlattensTo, AllReceipts
  <2>3. Len(all) = Len(all) /\ \A k \in 1..Len(all) : Len(all[k]) = Len(all[k])
    OBVIOUS
  <2>4. other = start
    BY <1>5, <2>2, <2>3, SameStarts
  <2> QED BY <2>1, <2>4
<1>10. /\ Starts(start, all) /\ Len(receipts) = start[n]
       /\ \A k \in 1..n : \A j \in 1..Len(all[k]) :
              start[k-1] + j \in 1..Len(receipts) /\ receipts[start[k-1] + j] = all[k][j]
  BY <1>5, <1>9, Zenon DEF FlattensTo
<1>11. /\ start \in [0..n -> Nat] /\ \A k \in 1..n : start[k] = start[k-1] + Len(all[k])
  BY <1>5, <1>10, Zenon DEF Starts
<1>12. Len(ReceiptsOf(ts, a)) = start[a]
  <2>1. a \in 0..Len(all)
    BY <1>2, <1>5
  <2>2. Leading(first, a, all)
    BY <1>7, <2>1, Zenon DEF Leading
  <2>3. Len(FlattenSeq(first)) = start[a]
    BY <1>5, <1>7, <1>10, <2>2, PrefixEnds
  <2> QED BY <1>6, <2>3, Zenon DEF ReceiptsOf
<1>13. PICK numbered, sorted, m, T : /\ numbered = NumberedLogs(ts, hashes)
                                     /\ sorted = SortedLogs(ts, a)
                                     /\ m = Len(ReceiptsOf(ts, a)) /\ T = Survivors(ts, a)
  OBVIOUS
<1>14. Numbering(receipts, numbered, sorted, m, T)
  <2>1. receipts = FlattenSeq([i \in 1..Len(ts) |-> ts[i].receipt])
    BY <1>1, <1>3, <1>8
  <2> QED BY <1>13, <2>1, QueueLogs, Zenon
<1>15. /\ Listed(numbered) /\ Len(receipts) = Len(numbered)
       /\ sorted \in Seq(T) /\ Len(sorted) = m
       /\ \A k \in 1..Len(receipts) :
              IF k <= m THEN numbered[k] = sorted[k] /\ Echoes(receipts[k], numbered[k])
              ELSE numbered[k] = receipts[k]
  BY <1>14, Zenon DEF Numbering
<1>16. /\ DistinctLogs(sorted)
       /\ \A k \in 1..Len(sorted) : \E i \in 1..a : OfTrx(sorted[k], ts[i])
  BY <1>13, SortedStand
<1>17. m = start[a] /\ m \in Nat
  BY <1>2, <1>11, <1>12, <1>13
\* The first m logs are those of the first a transactions.
<1>18. ASSUME NEW i \in 1..n, NEW k \in 1..Len(all[i])
       PROVE  /\ start[i-1] + k \in 1..Len(numbered) /\ receipts[start[i-1] + k] = ts[i].receipt[k]
              /\ start[i-1] + k <= m <=> i <= a
  <2>1. Len(all[i]) \in Nat
    BY <1>2, <1>5, ListedFacts
  <2>2. i \in 0..n /\ i - 1 \in 0..n /\ a \in 0..n
    BY <1>2
  <2>3. start[i] \in Nat /\ start[i-1] \in Nat /\ start[a] \in Nat /\ start[i] = start[i-1] + Len(all[i])
    BY <1>11, <2>2
  <2>4. i <= a => start[i] <= start[a]
    BY <1>5, <1>10, <2>2, StartsGrow
  <2>5. ~(i <= a) => start[a] <= start[i-1]
    <3>1. ~(i <= a) => a <= i - 1
      BY <1>2
    <3> QED BY <1>5, <1>10, <2>2, <3>1, StartsGrow
  <2>6. start[i-1] + k <= m <=> i <= a
    <3>1. PICK x, y, z, w : x = start[i-1] /\ y = start[i] /\ z = start[a] /\ w = Len(all[i])
      OBVIOUS
    <3>2. x \in Nat /\ y \in Nat /\ z \in Nat /\ w \in Nat /\ y = x + w /\ m = z
          /\ (i <= a => y <= z) /\ (~(i <= a) => z <= x) /\ k \in 1..w
      BY <1>17, <2>1, <2>3, <2>4, <2>5, <3>1
    <3>3. x + k <= m <=> i <= a
      BY <3>2
    <3> QED BY <3>1, <3>3
  <2> QED BY <1>5, <1>10, <1>15, <2>6
<1>19. \A i \in 1..n : (ts[i].hash \in hashes <=> ~(i <= a)) /\ Traced(ts[i], H) /\ Classed(ts[i], hashes)
  <2>1. \A i \in 1..n : (i <= a => ts[i].hash \notin hashes) /\ (~(i <= a) => ts[i].hash \in hashes)
    <3>1. \A i \in 1..n : (i <= a <=> i \in 1..a) /\ (~(i <= a) => i > a)
      BY <1>2
    <3> QED BY <1>1, <3>1, Zenon DEF Queue
  <2> QED BY <1>1, <2>1, Zenon DEF Separate
\* Each is one of the transaction whose receipt is there.
<1>20. ASSUME NEW i \in 1..n, NEW k \in 1..Len(all[i]), NEW at, at = start[i-1] + k
       PROVE  /\ at \in 1..Len(numbered) /\ Owns(ts[i], H, numbered[at])
              /\ IF ts[i].hash \in hashes THEN numbered[at] = ts[i].receipt[k]
                 ELSE Echoes(ts[i].receipt[k], numbered[at]) /\ OfTrx(numbered[at], ts[i])
  <2>1. /\ at \in 1..Len(numbered) /\ at \in 1..Len(receipts) /\ receipts[at] = ts[i].receipt[k]
        /\ at <= m <=> i <= a
    BY <1>15, <1>18, <1>20
  <2>2. PICK t, r : t = ts[i] /\ r = ts[i].receipt[k]
    OBVIOUS
  <2>3. Owns(t, H, r)
    <3>1. k \in 1..Len(t.receipt) /\ OwnsAll(t, H, t.receipt)
      BY <1>5, <1>19, <2>2, Zenon DEF Traced
    <3> QED BY <2>2, <3>1, Zenon DEF OwnsAll
  <2>4. CASE i <= a
    <3>1. /\ numbered[at] = sorted[at] /\ Echoes(r, numbered[at]) /\ at \in 1..Len(sorted)
      BY <1>15, <1>17, <2>1, <2>2, <2>4
    <3>2. PICK l : l = numbered[at]
      OBVIOUS
    <3>3. Owns(t, H, l) /\ Echoes(r, l)
      BY <2>3, <3>1, <3>2 DEF Echoes, Owns
    <3>4. PICK j \in 1..a : OfTrx(l, ts[j])
      BY <1>16, <3>1, <3>2
    <3>5. Owns(ts[j], H, l) /\ j \in 1..n
      BY <1>2, <3>4 DEF OfTrx, Owns
    <3>6. SameLog(l, l)
      BY DEF SameLog
    <3>7. i = j
      BY <1>1, <2>2, <3>3, <3>5, <3>6, OwnersAlike
    <3> QED BY <1>19, <2>1, <2>2, <2>4, <3>2, <3>3, <3>4, <3>7
  <2>5. CASE ~(i <= a)
    <3>1. numbered[at] = r
      BY <1>15, <2>1, <2>2, <2>5
    <3> QED BY <1>19, <2>1, <2>2, <2>3, <2>5, <3>1
  <2> QED BY <2>4, <2>5
<1>21. \A i \in 1..n : NumberedAt(ts[i], start[i-1], numbered, hashes)
  <2> SUFFICES ASSUME NEW i \in 1..n PROVE NumberedAt(ts[i], start[i-1], numbered, hashes)
    OBVIOUS
  <2>1. start[i-1] \in Nat
    <3>1. i - 1 \in 0..n
      BY <1>2
    <3> QED BY <1>11, <3>1
  <2> QED BY <1>5, <1>20, <2>1, Zenon DEF NumberedAt
<1>22. DistinctLogs(numbered)
  <2> SUFFICES ASSUME NEW x \in 1..Len(numbered), NEW y \in 1..Len(numbered),
                      SameLog(numbered[x], numbered[y])
               PROVE  x = y
    BY Zenon DEF DistinctLogs
  <2>1. x \in 1..Len(receipts) /\ y \in 1..Len(receipts)
    BY <1>15
  <2>2. PlacedAt(receipts, all, start, x) /\ PlacedAt(receipts, all, start, y)
    BY <1>5, <1>9, <2>1, PlaceFound
  <2>3. PICK i \in 1..n : \E k \in 1..Len(all[i]) : x = start[i-1] + k
    BY <1>5, <2>2, Zenon DEF PlacedAt
  <2>4. PICK j \in 1..n : \E k \in 1..Len(all[j]) : y = start[j-1] + k
    BY <1>5, <2>2, Zenon DEF PlacedAt
  <2>5. PICK k \in 1..Len(all[i]) : x = start[i-1] + k
    BY <2>3
  <2>6. PICK l \in 1..Len(all[j]) : y = start[j-1] + l
    BY <2>4
  <2>7. Owns(ts[i], H, numbered[x]) /\ Owns(ts[j], H, numbered[y])
    BY <1>20, <2>5, <2>6
  <2>8. i = j
    BY <1>1, <2>7, OwnersAlike
  <2>9. CASE i <= a
    <3>1. x <= m /\ y <= m
      BY <1>18, <2>5, <2>6, <2>8, <2>9
    <3>2. /\ numbered[x] = sorted[x] /\ numbered[y] = sorted[y]
          /\ x \in 1..Len(sorted) /\ y \in 1..Len(sorted)
      BY <1>15, <1>17, <2>1, <3>1
    <3> QED BY <1>16, <3>2 DEF DistinctLogs
  <2>10. CASE ~(i <= a)
    <3>1. numbered[x] = ts[i].receipt[k] /\ numbered[y] = ts[i].receipt[l]
      <4>1. ts[i].hash \in hashes
        BY <1>19, <2>10
      <4>2. l \in 1..Len(all[i]) /\ y = start[i-1] + l
        BY <2>6, <2>8
      <4>3. numbered[x] = ts[i].receipt[k]
        BY <1>20, <2>5, <4>1
      <4>4. numbered[y] = ts[i].receipt[l]
        BY <1>20, <4>1, <4>2
      <4> QED BY <4>3, <4>4
    <3>2. DistinctLogs(ts[i].receipt) /\ k \in 1..Len(ts[i].receipt) /\ l \in 1..Len(ts[i].receipt)
      BY <1>5, <1>19, <2>8, Zenon DEF Traced
    <3>3. k = l
      BY <3>1, <3>2, Zenon DEF DistinctLogs
    <3> QED BY <2>5, <2>6, <2>8, <3>3
  <2> QED BY <2>9, <2>10
<1> QED BY <1>1, <1>13, <1>15, <1>21, <1>22, Zenon

-----------------------------------------------------------------------------
(***************************************************************************)
(* What numbering makes of them.                                           *)
(***************************************************************************)
\* Each transaction is numbered from where its receipt starts.
Renumbered(us, ts, start, hashes) ==
    us = [i \in 1..Len(ts) |-> Retouch(ts[i], start[i-1], NumberedLogs(ts, hashes), hashes)]

LEMMA IndexedAre ==
    ASSUME NEW ts, Listed(ts), \A i \in 1..Len(ts) : Listed(ts[i].receipt), NEW hashes,
           PopulateLogBlockIndices(ts, hashes).ok
    PROVE  \E start :
               /\ Starts(start, AllReceipts(ts))
               /\ Renumbered(PopulateLogBlockIndices(ts, hashes).trxs, ts, start, hashes)
<1> DEFINE n == Len(ts)
           receipts == FlattenSeq([i \in 1..n |-> ts[i].receipt])
           numbered == NumberedLogs(ts, hashes)
           ok == /\ Len(receipts) = Len(numbered)
                 /\ \A k \in 1..Len(receipts) : receipts[k].data = numbered[k].data
           Counts(f) == f = [i \in 1..n |-> IF i = 1 THEN 0 ELSE f[i-1] + Len(ts[i-1].receipt)]
           before == CHOOSE f : Counts(f)
           us == [i \in 1..n |-> Retouch(ts[i], before[i], numbered, hashes)]
           R == UNION {Elements(ts[i].receipt) : i \in 1..n}
<1>1. PopulateLogBlockIndices(ts, hashes) = [ok |-> ok, trxs |-> IF ok THEN us ELSE ts]
  BY Zenon DEF PopulateLogBlockIndices
<1>2. PopulateLogBlockIndices(ts, hashes).trxs = us
  <2> HIDE DEF ok, us
  <2> QED BY <1>1
<1>3. n \in Nat
  BY ListedFacts
<1>4. PICK all : all = [i \in 1..n |-> ts[i].receipt]
  OBVIOUS
<1>5. all \in Seq(Seq(R)) /\ Len(all) = n /\ \A i \in 1..n : all[i] = ts[i].receipt
  <2>1. ASSUME NEW i \in 1..n PROVE ts[i].receipt \in Seq(R)
    <3>1. Elements(ts[i].receipt) \subseteq R
      OBVIOUS
    <3> HIDE DEF R
    <3>2. ts[i].receipt \in Seq(Elements(ts[i].receipt))
      BY ListedFacts
    <3> QED BY <3>1, <3>2
  <2> HIDE DEF R, n
  <2> QED BY <1>3, <1>4, <2>1
<1> HIDE DEF R
<1>6. PICK start : Starts(start, all)
  <2>1. PICK other : FlattensTo(FlattenSeq(all), all, other)
    BY <1>5, FlattenedAt
  <2> QED BY <2>1, Zenon DEF FlattensTo
<1>7. /\ start \in [0..n -> Nat] /\ start[0] = 0
      /\ \A k \in 1..n : start[k] = start[k-1] + Len(ts[k].receipt)
  BY <1>5, <1>6 DEF Starts
<1>8. PICK F : F = [i \in 1..n |-> start[i-1]]
  OBVIOUS
<1>9. Counts(F)
  <2>1. ASSUME NEW i \in 1..n
        PROVE  start[i-1] = IF i = 1 THEN 0 ELSE F[i-1] + Len(ts[i-1].receipt)
    <3>1. i # 1 => i - 1 \in 1..n
      BY <1>3
    <3> QED BY <1>7, <1>8, <3>1
  <2> QED BY <1>8, <2>1
<1>10. Counts(before)
  BY <1>9, Zenon
<1> HIDE DEF before
<1>11. \A i \in 1..n : before[i] = IF i = 1 THEN 0 ELSE before[i-1] + Len(ts[i-1].receipt)
  BY <1>10
<1> DEFINE P == {m \in Nat : m + 1 <= n => before[m + 1] = start[m]}
<1>12. 0 \in P
  BY <1>3, <1>7, <1>11
<1>13. ASSUME NEW m \in Nat, m \in P PROVE m + 1 \in P
  <2> SUFFICES ASSUME (m + 1) + 1 <= n PROVE before[(m + 1) + 1] = start[m + 1]
    OBVIOUS
  <2>1. PICK i, j : i = m + 1 /\ j = (m + 1) + 1
    OBVIOUS
  <2>2. i \in 1..n /\ j \in 1..n /\ j # 1 /\ j - 1 = i /\ i - 1 = m /\ m + 1 <= n
    BY <1>3, <2>1
  <2>3. before[i] = start[m]
    BY <1>13, <2>1, <2>2
  <2>4. before[j] = before[i] + Len(ts[i].receipt)
    BY <1>11, <2>2
  <2>5. start[i] = start[m] + Len(ts[i].receipt)
    BY <1>7, <2>2
  <2> QED BY <2>1, <2>3, <2>4, <2>5
<1>14. ASSUME NEW i \in 1..n PROVE before[i] = start[i-1]
  <2>1. \A m \in Nat : m \in P
    <3> HIDE DEF P
    <3> QED BY <1>12, <1>13, NaturalsOf
  <2>2. PICK m \in Nat : m = i - 1 /\ m + 1 = i /\ m + 1 <= n
    BY <1>3
  <2> QED BY <2>1, <2>2
<1>15. us = [i \in 1..n |-> Retouch(ts[i], start[i-1], numbered, hashes)]
  BY <1>14
<1>16. Starts(start, AllReceipts(ts))
  BY <1>4, <1>6 DEF AllReceipts
<1>17. Renumbered(us, ts, start, hashes)
  <2> HIDE DEF us
  <2> QED BY <1>15, Zenon DEF Renumbered
<1> HIDE DEF us
<1> QED BY <1>2, <1>16, <1>17, Zenon

\* A transaction whose receipt is made of logs of its calls that survive.
Settled(t) ==
    /\ Listed(t.calls) /\ \A i \in 1..Len(t.calls) : Listed(t.calls[i].logs)
    /\ Apart(t.calls)
    /\ \A k \in 1..Len(t.receipt) : Stands(t.receipt[k], t.calls)

\* The receipt is numbered from "from" on.
NumberedFrom(t, from, len) ==
    /\ Listed(t.receipt) /\ Len(t.receipt) = len
    /\ \A k \in 1..len : t.receipt[k].blockIndex = from + k - 1

LEMMA LeastOfOne ==
    ASSUME NEW k \in Nat
    PROVE  Min({k}) = k
BY DEF Min

LEMMA RetouchStands ==
    ASSUME NEW t, NEW H, Traced(t, H), NEW hashes, Classed(t, hashes),
           NEW numbered, Listed(numbered), DistinctLogs(numbered),
           NEW from, NumberedAt(t, from, numbered, hashes)
    PROVE  LET u == Retouch(t, from, numbered, hashes) IN
           /\ TrxFields \subseteq DOMAIN u /\ u.hash = t.hash /\ u.from = t.from
           /\ NumberedFrom(u, from, Len(t.receipt))
           /\ t.hash = MergedHash \/ Normal(t) => Settled(u)
<1> DEFINE receiptLog(l, k) == [l EXCEPT !.ord = numbered[k].ord, !.index = numbered[k].index,
                                         !.blockIndex = k - 1]
           at(l) == {k \in 1..Len(numbered) : SameLog(l, numbered[k])}
           callLog(l) ==
               IF t.hash \in hashes /\ t.hash # MergedHash THEN l
               ELSE IF at(l) # {} THEN [l EXCEPT !.blockIndex = Min(at(l)) - 1]
               ELSE IF t.hash = MergedHash THEN l ELSE [l EXCEPT !.blockIndex = 0]
           callLogs(ls) == [k \in 1..Len(ls) |-> callLog(ls[k])]
           newCall(c) == [c EXCEPT !.logs = callLogs(c.logs)]
           cs == [i \in 1..Len(t.calls) |-> newCall(t.calls[i])]
           rs == [k \in 1..Len(t.receipt) |-> receiptLog(t.receipt[k], from + k)]
           u == Retouch(t, from, numbered, hashes)
<1>1. u = [t EXCEPT !.receipt = rs, !.calls = cs]
  BY Zenon DEF Retouch, MapSeq
<1>2. /\ TrxFields \subseteq DOMAIN t /\ Bears(t.calls) /\ Apart(t.calls) /\ AllLogs(t.receipt)
      /\ t.hash = MergedHash => \A k \in 1..Len(t.receipt) : Stands(t.receipt[k], t.calls)
  BY Zenon DEF Traced
<1>3. /\ TrxFields \subseteq DOMAIN u /\ u.hash = t.hash /\ u.from = t.from
      /\ u.calls = cs /\ u.receipt = rs
  <2> HIDE DEF cs, rs, u
  <2> QED BY <1>1, <1>2 DEF TrxFields
<1>4. /\ Len(t.calls) \in Nat /\ Len(t.receipt) \in Nat
      /\ \A i \in 1..Len(t.calls) : /\ CallFields \subseteq DOMAIN t.calls[i]
                                    /\ AllLogs(t.calls[i].logs) /\ Len(t.calls[i].logs) \in Nat
      /\ \A k \in 1..Len(t.receipt) : IsLog(t.receipt[k])
  BY <1>2, ListedFacts DEF Bears, AllLogs
<1>5. /\ from \in Nat
      /\ \A k \in 1..Len(t.receipt) :
             /\ from + k \in 1..Len(numbered)
             /\ IF t.hash \in hashes THEN numbered[from + k] = t.receipt[k]
                ELSE Echoes(t.receipt[k], numbered[from + k]) /\ OfTrx(numbered[from + k], t)
  BY Zenon DEF NumberedAt
<1>6. NumberedFrom(u, from, Len(t.receipt))
  <2>1. Listed(rs) /\ Len(rs) = Len(t.receipt)
    <3>1. rs = [k \in 1..Len(t.receipt) |-> rs[k]]
      OBVIOUS
    <3> HIDE DEF rs
    <3> QED BY <1>4, <3>1, Tabled
  <2>2. ASSUME NEW k \in 1..Len(t.receipt) PROVE rs[k].blockIndex = from + k - 1
    <3>1. PICK l, x : l = t.receipt[k] /\ x = from + k
      OBVIOUS
    <3>2. rs[k] = receiptLog(l, x)
      BY <3>1, Zenon
    <3>5. IsLog(l) /\ x \in Nat
      BY <1>4, <1>5, <3>1
    <3>3. "blockIndex" \in DOMAIN l
      BY <3>5 DEF IsLog
    <3> HIDE DEF rs
    <3>4. rs[k].blockIndex = x - 1
      BY <3>2, <3>3
    <3>6. from \in Nat /\ k \in Nat
      BY <1>4, <1>5
    <3> QED BY <3>1, <3>4, <3>6
  <2> QED BY <1>3, <2>1, <2>2, Zenon DEF NumberedFrom
<1>7. ASSUME NEW l, IsLog(l) PROVE SameLog(callLog(l), l) /\ callLog(l).data = l.data
  <2>1. PICK x : \/ callLog(l) = l
                 \/ callLog(l) = [l EXCEPT !.blockIndex = x]
    <3>1. \/ callLog(l) = l
          \/ callLog(l) = [l EXCEPT !.blockIndex = Min(at(l)) - 1]
          \/ callLog(l) = [l EXCEPT !.blockIndex = 0]
      <4> HIDE DEF at
      <4> QED BY Zenon
    <3> QED BY <3>1, Zenon
  <2>2. {"trx", "index", "data"} \subseteq DOMAIN l
    BY <1>7 DEF IsLog
  <2> HIDE DEF callLog
  <2> QED BY <2>1, <2>2 DEF SameLog
<1>8. ASSUME NEW i \in 1..Len(t.calls)
      PROVE  /\ cs[i].stateReverted = t.calls[i].stateReverted
             /\ Listed(cs[i].logs) /\ Len(cs[i].logs) = Len(t.calls[i].logs)
             /\ \A p \in 1..Len(t.calls[i].logs) : cs[i].logs[p] = callLog(t.calls[i].logs[p])
  <2>1. PICK c, ls, ms : c = t.calls[i] /\ ls = c.logs /\ ms = callLogs(ls)
    OBVIOUS
  <2>2. cs[i] = [c EXCEPT !.logs = ms] /\ CallFields \subseteq DOMAIN c
    BY <1>4, <2>1
  <2>3. cs[i].stateReverted = c.stateReverted /\ cs[i].logs = ms
    <3> HIDE DEF cs
    <3> QED BY <2>2 DEF CallFields
  <2>4. Listed(ms) /\ Len(ms) = Len(ls) /\ \A p \in 1..Len(ls) : ms[p] = callLog(ls[p])
    <3>1. ms = [p \in 1..Len(ls) |-> ms[p]] /\ \A p \in 1..Len(ls) : ms[p] = callLog(ls[p])
      BY <2>1
    <3>2. Len(ls) \in Nat
      BY <1>4, <2>1
    <3> HIDE DEF callLog
    <3> QED BY <3>1, <3>2, Tabled
  <2> HIDE DEF cs, callLog
  <2> QED BY <2>1, <2>3, <2>4, Zenon
<1>9. Len(cs) = Len(t.calls) /\ Listed(cs)
  <2>1. cs = [i \in 1..Len(t.calls) |-> cs[i]]
    OBVIOUS
  <2> HIDE DEF cs
  <2> QED BY <1>4, <2>1, Tabled
<1> HIDE DEF cs
<1>10. Apart(cs)
  <2> HIDE DEF callLog
  <2> SUFFICES ASSUME NEW i \in 1..Len(cs), NEW j \in 1..Len(cs),
                      NEW p \in 1..Len(cs[i].logs), NEW q \in 1..Len(cs[j].logs),
                      SameLog(cs[i].logs[p], cs[j].logs[q])
               PROVE  i = j /\ p = q
    BY Zenon DEF Apart
  <2>1. PICK l, m : l = t.calls[i].logs[p] /\ m = t.calls[j].logs[q]
    OBVIOUS
  <2>2. /\ i \in 1..Len(t.calls) /\ j \in 1..Len(t.calls)
        /\ p \in 1..Len(t.calls[i].logs) /\ q \in 1..Len(t.calls[j].logs)
        /\ cs[i].logs[p] = callLog(l) /\ cs[j].logs[q] = callLog(m)
    BY <1>8, <1>9, <2>1
  <2>3. IsLog(l) /\ IsLog(m)
    BY <1>4, <2>1, <2>2, Zenon DEF AllLogs
  <2>4. SameLog(callLog(l), l) /\ SameLog(callLog(m), m) /\ SameLog(callLog(l), callLog(m))
    BY <1>7, <2>2, <2>3
  <2>5. SameLog(l, m)
    BY <2>4 DEF SameLog
  <2>6. SameLog(t.calls[i].logs[p], t.calls[j].logs[q]) /\ Apart(t.calls)
    BY <1>2, <2>1, <2>5
  <2>7. /\ i \in 1..Len(t.calls) /\ j \in 1..Len(t.calls)
        /\ p \in 1..Len(t.calls[i].logs) /\ q \in 1..Len(t.calls[j].logs)
    BY <2>2, Zenon
  <2> QED BY <2>6, <2>7, Zenon DEF Apart
\* What the receipt log becomes is what the log of the calls becomes.
<1>11. ASSUME t.hash = MergedHash \/ Normal(t), NEW k \in 1..Len(t.receipt)
       PROVE  Stands(rs[k], cs)
  <2>1. PICK r, x, l : r = t.receipt[k] /\ x = from + k /\ l = numbered[x]
    OBVIOUS
  <2>2. x \in 1..Len(numbered) /\ x \in Nat /\ IsLog(r) /\ rs[k] = receiptLog(r, x)
    <3>1. rs[k] = receiptLog(r, x)
      BY <2>1, Zenon
    <3> HIDE DEF rs, receiptLog
    <3>2. x \in 1..Len(numbered) /\ IsLog(r)
      BY <1>4, <1>5, <2>1
    <3>3. x \in Nat
      BY <3>2
    <3> QED BY <3>1, <3>2, <3>3
  <2>3. Echoes(r, l) /\ Stands(l, t.calls) /\ (t.hash = MergedHash \/ t.hash \notin hashes)
    <3>1. CASE t.hash = MergedHash
      <4>1. t.hash \in hashes
        BY <3>1, Zenon DEF Classed
      <4>2. l = r
        BY <1>5, <2>1, <4>1
      <4> QED BY <1>2, <2>1, <3>1, <4>2 DEF Echoes
    <3>2. CASE t.hash # MergedHash
      <4>1. t.hash \notin hashes
        BY <1>11, <3>2, Zenon DEF Classed
      <4> QED BY <1>5, <2>1, <4>1, Zenon DEF OfTrx
    <3> QED BY <3>1, <3>2
  <2>4. PICK i \in 1..Len(t.calls) : \E p \in 1..Len(t.calls[i].logs) :
            l = t.calls[i].logs[p] /\ Survives(t.calls[i], l)
    BY <2>3, Zenon DEF Stands
  <2>5. PICK p \in 1..Len(t.calls[i].logs) : l = t.calls[i].logs[p] /\ Survives(t.calls[i], l)
    BY <2>4
  <2>6. IsLog(l)
    BY <1>4, <2>5, Zenon DEF AllLogs
  <2>7. at(l) = {x}
    <3>1. SameLog(l, l)
      BY DEF SameLog
    <3>2. \A y \in 1..Len(numbered) : SameLog(l, numbered[y]) => y = x
      BY <2>1, <2>2 DEF DistinctLogs
    <3> QED BY <2>1, <2>2, <3>1, <3>2
  <2>8. callLog(l) = [l EXCEPT !.blockIndex = x - 1]
    <3>1. Min(at(l)) = x /\ at(l) # {}
      BY <2>2, <2>7, LeastOfOne
    <3> HIDE DEF at
    <3> QED BY <2>3, <3>1
  <2>9. rs[k] = callLog(l)
    <3>1. PICK y : y = x - 1
      OBVIOUS
    <3>2. callLog(l) = [trx |-> l.trx, index |-> l.index, data |-> l.data, ord |-> l.ord,
                        blockIndex |-> y]
      <4> HIDE DEF callLog
      <4> QED BY <2>6, <2>8, <3>1 DEF IsLog
    <3>3. rs[k] = [trx |-> r.trx, index |-> l.index, data |-> r.data, ord |-> l.ord,
                   blockIndex |-> y]
      <4>1. rs[k] = [r EXCEPT !.ord = l.ord, !.index = l.index, !.blockIndex = y]
        BY <2>1, <2>2, <3>1
      <4> HIDE DEF rs
      <4> QED BY <2>2, <4>1 DEF IsLog
    <3> HIDE DEF rs, callLog
    <3> QED BY <2>3, <3>2, <3>3 DEF Echoes
  <2> HIDE DEF rs, callLog
  <2>10. /\ i \in 1..Len(cs) /\ p \in 1..Len(cs[i].logs) /\ cs[i].logs[p] = rs[k]
    BY <1>8, <1>9, <2>5, <2>9
  <2>11. Survives(cs[i], rs[k])
    <3>1. callLog(l).data = l.data
      BY <1>7, <2>6
    <3>2. cs[i].stateReverted = t.calls[i].stateReverted
      BY <1>8
    <3> QED BY <2>5, <2>9, <3>1, <3>2 DEF Survives
  <2> QED BY <2>10, <2>11, Zenon DEF Stands
<1>12. Len(rs) = Len(t.receipt)
  BY <1>4
<1> HIDE DEF rs
<1>13. ASSUME t.hash = MergedHash \/ Normal(t) PROVE Settled(u)
  <2>1. \A i \in 1..Len(cs) : Listed(cs[i].logs)
    BY <1>8, <1>9
  <2>2. \A k \in 1..Len(rs) : Stands(rs[k], cs)
    BY <1>11, <1>12, <1>13
  <2> HIDE DEF u
  <2> QED BY <1>3, <1>9, <1>10, <2>1, <2>2, Zenon DEF Settled
<1> QED BY <1>3, <1>6, <1>13, Zenon

\* The upgrade to version 3 leaves the logs as they are.
LEMMA UpgradeSettled ==
    ASSUME NEW t, TrxFields \subseteq DOMAIN t, NEW len, NEW from, NumberedFrom(t, from, len)
    PROVE  LET u == [t EXCEPT !.calls = UpgradeCalls(@)] IN
           /\ u.hash = t.hash /\ u.from = t.from /\ NumberedFrom(u, from, len)
           /\ (Listed(t.calls) /\ \A i \in 1..Len(t.calls) : CallFields \subseteq DOMAIN t.calls[i])
                  /\ Settled(t) => Settled(u)
<1> DEFINE heads == HeadParents(t.calls)
           cs == [i \in 1..Len(t.calls) |->
                     IF heads[i] # 0
                     THEN [t.calls[i] EXCEPT !.caller = t.calls[heads[i]].address] ELSE t.calls[i]]
<1>1. PICK u : u = [t EXCEPT !.calls = cs]
  OBVIOUS
<1>2. UpgradeCalls(t.calls) = cs
  BY Zenon DEF UpgradeCalls
<1>3. [t EXCEPT !.calls = UpgradeCalls(@)] = u
  BY <1>1, <1>2
<1>4. /\ u.hash = t.hash /\ u.from = t.from /\ u.calls = cs /\ u.receipt = t.receipt
  <2> HIDE DEF cs
  <2> QED BY <1>1 DEF TrxFields
<1>5. NumberedFrom(u, from, len)
  BY <1>4, Zenon DEF NumberedFrom
<1>6. ASSUME Listed(t.calls), \A i \in 1..Len(t.calls) : CallFields \subseteq DOMAIN t.calls[i],
             Settled(t)
      PROVE  Settled(u)
  <2>1. PICK n : n = Len(t.calls)
    OBVIOUS
  <2>2. n \in Nat
    BY <1>6, <2>1, ListedFacts
  <2>3. Listed(cs) /\ Len(cs) = n
    <3>1. cs = [i \in 1..n |-> cs[i]]
      BY <2>1
    <3> HIDE DEF cs
    <3> QED BY <2>2, <3>1, Tabled
  <2>4. ASSUME NEW i \in 1..n
        PROVE  cs[i].logs = t.calls[i].logs /\ cs[i].stateReverted = t.calls[i].stateReverted
    <3>1. PICK c, x : c = t.calls[i] /\ (cs[i] = c \/ cs[i] = [c EXCEPT !.caller = x])
      BY <2>1
    <3>2. CallFields \subseteq DOMAIN c
      BY <1>6, <2>1, <3>1
    <3> HIDE DEF cs
    <3> QED BY <3>1, <3>2 DEF CallFields
  <2> HIDE DEF cs
  <2>5. Apart(cs)
    <3>1. Apart(t.calls)
      BY <1>6, Zenon DEF Settled
    <3> SUFFICES ASSUME NEW i \in 1..Len(cs), NEW j \in 1..Len(cs),
                        NEW p \in 1..Len(cs[i].logs), NEW q \in 1..Len(cs[j].logs),
                        SameLog(cs[i].logs[p], cs[j].logs[q])
                 PROVE  i = j /\ p = q
      BY Zenon DEF Apart
    <3>2. /\ i \in 1..Len(t.calls) /\ j \in 1..Len(t.calls)
          /\ cs[i].logs = t.calls[i].logs /\ cs[j].logs = t.calls[j].logs
      BY <2>1, <2>3, <2>4
    <3>3. /\ p \in 1..Len(t.calls[i].logs) /\ q \in 1..Len(t.calls[j].logs)
          /\ SameLog(t.calls[i].logs[p], t.calls[j].logs[q])
      BY <3>2
    <3> QED BY <3>1, <3>2, <3>3, Zenon DEF Apart
  <2>6. \A l : Stands(l, t.calls) => Stands(l, cs)
    BY <2>1, <2>3, <2>4, Zenon DEF Stands, Survives
  <2>7. \A i \in 1..n : Listed(cs[i].logs)
    BY <1>6, <2>1, <2>4, Zenon DEF Settled
  <2> QED BY <1>4, <1>6, <2>3, <2>5, <2>6, <2>7, Zenon DEF Settled
<1> QED BY <1>3, <1>4, <1>5, <1>6, Zenon

\* Each log of the receipt of such a transaction is that of one call.
LEMMA StandsForOne ==
    ASSUME NEW t, Settled(t), NEW l \in ToSet(t.receipt), Listed(t.receipt)
    PROVE  Cardinality({c \in ToSet(t.calls) :
               l \in ToSet(c.logs) /\ (~c.stateReverted \/ l.data = PolygonFeeLog)}) = 1
<1> DEFINE C == {c \in ToSet(t.calls) :
                     l \in ToSet(c.logs) /\ (~c.stateReverted \/ l.data = PolygonFeeLog)}
<1>1. /\ Listed(t.calls) /\ \A i \in 1..Len(t.calls) : Listed(t.calls[i].logs)
      /\ Apart(t.calls)
      /\ \A k \in 1..Len(t.receipt) : Stands(t.receipt[k], t.calls)
  BY Zenon DEF Settled
<1>2. Stands(l, t.calls)
  BY <1>1, ListedFacts DEF Elements
<1>3. PICK i \in 1..Len(t.calls) : \E p \in 1..Len(t.calls[i].logs) :
          l = t.calls[i].logs[p] /\ Survives(t.calls[i], l)
  BY <1>2, Zenon DEF Stands
<1>4. PICK p \in 1..Len(t.calls[i].logs) : l = t.calls[i].logs[p] /\ Survives(t.calls[i], l)
  BY <1>3
<1>5. ToSet(t.calls) = Elements(t.calls)
      /\ \A j \in 1..Len(t.calls) : ToSet(t.calls[j].logs) = Elements(t.calls[j].logs)
  BY <1>1, ListedFacts
<1>6. t.calls[i] \in C
  BY <1>4, <1>5 DEF Elements, Survives
<1>7. ASSUME NEW c \in C PROVE c = t.calls[i]
  <2>1. PICK j \in 1..Len(t.calls) : c = t.calls[j]
    BY <1>5 DEF Elements
  <2>2. PICK q \in 1..Len(t.calls[j].logs) : l = t.calls[j].logs[q]
    BY <1>5, <2>1 DEF Elements
  <2>3. SameLog(t.calls[j].logs[q], t.calls[i].logs[p])
    BY <1>4, <2>2 DEF SameLog
  <2>4. j = i
    BY <1>1, <2>3, Zenon DEF Apart
  <2> QED BY <2>1, <2>4
<1> HIDE DEF C
<1>8. C = {t.calls[i]}
  BY <1>6, <1>7
<1>9. Cardinality(C) = 1
  BY <1>8, FS_Singleton
<1> QED BY <1>9 DEF C

\* The transactions of a block that is numbered: the receipts from one to the next, each
\* made of the logs of its transaction when that is not a validator one.
StoodAt(t, from) ==
    /\ NumberedFrom(t, from, Len(t.receipt))
    /\ t.hash = MergedHash \/ Normal(t) => Settled(t)

Stood(us) ==
    /\ Listed(us)
    /\ \E start : /\ Starts(start, AllReceipts(us))
                  /\ \A i \in 1..Len(us) : StoodAt(us[i], start[i-1])

\* Receipts of the same lengths start at the same places.
LEMMA StartsAlike ==
    ASSUME NEW ts, NEW us, Len(us) = Len(ts), Len(ts) \in Nat,
           NEW start, Starts(start, AllReceipts(ts)),
           \A i \in 1..Len(ts) : Len(us[i].receipt) = Len(ts[i].receipt)
    PROVE  Starts(start, AllReceipts(us))
<1>1. PICK n, s, t : /\ s = [i \in 1..n |-> ts[i].receipt] /\ t = [i \in 1..n |-> us[i].receipt]
                     /\ n = Len(ts) /\ s = AllReceipts(ts) /\ t = AllReceipts(us)
  BY DEF AllReceipts
<1>2. Len(s) = n /\ Len(t) = n /\ \A i \in 1..n : Len(t[i]) = Len(s[i])
  BY <1>1
<1>3. Starts(start, s)
  BY <1>1
<1>4. Starts(start, t)
  BY <1>2, <1>3 DEF Starts
<1> QED BY <1>1, <1>4

\* populateLogBlockIndices numbers the logs of separate transactions in a queue.
LEMMA IndexedStood ==
    ASSUME NEW ts, NEW H, NEW hashes, Separate(ts, H, hashes),
           NEW a, NEW b, NEW e, Queue(ts, hashes, a, b, e)
    PROVE  Stood(PopulateLogBlockIndices(ts, hashes).trxs)
<1>1. PICK n, numbered : n = Len(ts) /\ numbered = NumberedLogs(ts, hashes)
  OBVIOUS
<1>2. Listed(ts) /\ n \in Nat /\ \A i \in 1..n : Listed(ts[i].receipt)
  BY <1>1, ListedFacts DEF Queue
<1>3. PopulateLogBlockIndices(ts, hashes).ok
  BY QueueNumbered
<1>4. PICK start :
          /\ Starts(start, AllReceipts(ts))
          /\ Renumbered(PopulateLogBlockIndices(ts, hashes).trxs, ts, start, hashes)
  BY <1>1, <1>2, <1>3, IndexedAre
<1>5. LET m == NumberedLogs(ts, hashes) IN
      /\ Listed(m) /\ DistinctLogs(m)
      /\ \A i \in 1..Len(ts) : NumberedAt(ts[i], start[i-1], m, hashes)
  BY <1>4, QueueCounts
<1>6. /\ Listed(numbered) /\ DistinctLogs(numbered)
      /\ \A i \in 1..n : NumberedAt(ts[i], start[i-1], numbered, hashes)
  BY <1>1, <1>5
<1>7. PICK us : us = PopulateLogBlockIndices(ts, hashes).trxs
  OBVIOUS
<1>8. us = [i \in 1..n |-> Retouch(ts[i], start[i-1], numbered, hashes)]
  BY <1>1, <1>4, <1>7 DEF Renumbered
<1>9. Listed(us) /\ Len(us) = n
  <2>1. us = [i \in 1..n |-> us[i]]
    BY <1>8
  <2> QED BY <1>2, <2>1, Tabled
<1>10. ASSUME NEW i \in 1..n
       PROVE  StoodAt(us[i], start[i-1]) /\ Len(us[i].receipt) = Len(ts[i].receipt)
  <2>1. PICK t, u, from : /\ t = ts[i] /\ from = start[i-1]
                          /\ u = Retouch(t, from, numbered, hashes)
    OBVIOUS
  <2>2. Traced(t, H) /\ Classed(t, hashes) /\ NumberedAt(t, from, numbered, hashes)
    BY <1>1, <1>6, <2>1, Zenon DEF Separate
  <2>3. /\ TrxFields \subseteq DOMAIN u /\ u.hash = t.hash /\ u.from = t.from
        /\ NumberedFrom(u, from, Len(t.receipt))
        /\ t.hash = MergedHash \/ Normal(t) => Settled(u)
    BY <1>6, <2>1, <2>2, RetouchStands
  <2>4. Len(u.receipt) = Len(t.receipt)
    BY <2>3, Zenon DEF NumberedFrom
  <2>5. StoodAt(u, from)
    BY <2>3, <2>4 DEF StoodAt, Normal
  <2>6. us[i] = u
    BY <1>8, <2>1
  <2> QED BY <2>1, <2>4, <2>5, <2>6
<1>11. Starts(start, AllReceipts(us))
  <2>1. Len(us) = Len(ts) /\ Len(ts) \in Nat
        /\ \A i \in 1..Len(ts) : Len(us[i].receipt) = Len(ts[i].receipt)
    BY <1>1, <1>2, <1>9, <1>10
  <2> QED BY <1>4, <2>1, StartsAlike
<1>12. Stood(us)
  BY <1>9, <1>10, <1>11 DEF Stood
<1> QED BY <1>7, <1>12

LEMMA UpgradedStood ==
    ASSUME NEW ts, Stood(ts),
           \A i \in 1..Len(ts) : TrxFields \subseteq DOMAIN ts[i] /\ NodeCalls(ts[i].calls)
    PROVE  Stood(MapSeq(ts, LAMBDA t : [t EXCEPT !.calls = UpgradeCalls(@)]))
<1>1. PICK n, us : n = Len(ts) /\ us = MapSeq(ts, LAMBDA t : [t EXCEPT !.calls = UpgradeCalls(@)])
  OBVIOUS
<1>2. Listed(ts) /\ n \in Nat
  BY <1>1, ListedFacts DEF Stood
<1>3. PICK start : /\ Starts(start, AllReceipts(ts))
                   /\ \A i \in 1..n : StoodAt(ts[i], start[i-1])
  BY <1>1, Zenon DEF Stood
<1>4. us = [i \in 1..n |-> [ts[i] EXCEPT !.calls = UpgradeCalls(@)]]
  BY <1>1 DEF MapSeq
<1>5. Listed(us) /\ Len(us) = n
  <2>1. us = [i \in 1..n |-> us[i]]
    BY <1>4
  <2> QED BY <1>2, <2>1, Tabled
<1>6. ASSUME NEW i \in 1..n
      PROVE  StoodAt(us[i], start[i-1]) /\ Len(us[i].receipt) = Len(ts[i].receipt)
  <2>1. PICK t, from, len : t = ts[i] /\ from = start[i-1] /\ len = Len(ts[i].receipt)
    OBVIOUS
  <2>2. PICK u : u = [t EXCEPT !.calls = UpgradeCalls(@)]
    OBVIOUS
  <2>3. TrxFields \subseteq DOMAIN t /\ NodeCalls(t.calls) /\ StoodAt(t, from)
    BY <1>1, <1>3, <2>1
  <2>4. NumberedFrom(t, from, len)
    BY <2>1, <2>3, Zenon DEF StoodAt
  <2>5. Listed(t.calls) /\ \A j \in 1..Len(t.calls) : CallFields \subseteq DOMAIN t.calls[j]
    BY <2>3, Zenon DEF NodeCalls
  <2>6. /\ u.hash = t.hash /\ u.from = t.from /\ NumberedFrom(u, from, len)
        /\ Settled(t) => Settled(u)
    BY <2>2, <2>3, <2>4, <2>5, UpgradeSettled
  <2>7. Len(u.receipt) = len
    BY <2>6, Zenon DEF NumberedFrom
  <2>8. StoodAt(u, from)
    BY <2>3, <2>6, <2>7 DEF StoodAt, Normal
  <2>9. us[i] = u
    BY <1>4, <2>1, <2>2
  <2> QED BY <2>1, <2>7, <2>8, <2>9
<1>7. Starts(start, AllReceipts(us))
  <2>1. Len(us) = Len(ts) /\ Len(ts) \in Nat
        /\ \A i \in 1..Len(ts) : Len(us[i].receipt) = Len(ts[i].receipt)
    BY <1>1, <1>2, <1>5, <1>6
  <2> QED BY <1>3, <2>1, StartsAlike
<1>8. Stood(us)
  BY <1>5, <1>6, <1>7 DEF Stood
<1> QED BY <1>1, <1>8

\* So the receipts of the block are numbered, and each of their logs stands for one.
LEMMA StoodMatch ==
    ASSUME NEW us, Stood(us)
    PROVE  LET receipts == FlattenSeq([i \in 1..Len(us) |-> us[i].receipt]) IN
           /\ \A k \in 1..Len(receipts) : receipts[k].blockIndex = k - 1
           /\ \A t \in ToSet(us) : t.hash = MergedHash \/ Normal(t) =>
                  \A l \in ToSet(t.receipt) :
                      Cardinality({c \in ToSet(t.calls) :
                          l \in ToSet(c.logs)
                          /\ (~c.stateReverted \/ l.data = PolygonFeeLog)}) = 1
<1> DEFINE R == UNION {Elements(us[i].receipt) : i \in 1..Len(us)}
<1>1. PICK n : n = Len(us)
  OBVIOUS
<1>2. Listed(us) /\ n \in Nat /\ ToSet(us) = Elements(us)
  BY <1>1, ListedFacts DEF Stood
<1>3. PICK start : /\ Starts(start, AllReceipts(us))
                   /\ \A i \in 1..n : StoodAt(us[i], start[i-1])
  BY <1>1, Zenon DEF Stood
<1>4. \A i \in 1..n : /\ Listed(us[i].receipt)
                      /\ \A k \in 1..Len(us[i].receipt) : us[i].receipt[k].blockIndex = start[i-1] + k - 1
                      /\ us[i].hash = MergedHash \/ Normal(us[i]) => Settled(us[i])
  BY <1>3 DEF StoodAt, NumberedFrom
<1>5. PICK all : all = [i \in 1..n |-> us[i].receipt]
  OBVIOUS
<1>6. all \in Seq(Seq(R)) /\ Len(all) = n /\ \A i \in 1..n : all[i] = us[i].receipt
  <2>1. ASSUME NEW i \in 1..n PROVE us[i].receipt \in Seq(R)
    <3>1. Elements(us[i].receipt) \subseteq R
      BY <1>1
    <3> HIDE DEF R
    <3>2. us[i].receipt \in Seq(Elements(us[i].receipt))
      BY <1>4, ListedFacts
    <3> QED BY <3>1, <3>2
  <2> HIDE DEF R
  <2> QED BY <1>2, <1>5, <2>1
<1> HIDE DEF R
<1>7. PICK receipts : receipts = FlattenSeq(all)
  OBVIOUS
<1>8. FlattensTo(receipts, all, start)
  <2>1. PICK other : FlattensTo(receipts, all, other)
    BY <1>6, <1>7, FlattenedAt
  <2>2. Starts(other, all) /\ Starts(start, all)
    BY <1>1, <1>3, <1>5, <2>1, Zenon DEF FlattensTo, AllReceipts
  <2>3. Len(all) = Len(all) /\ \A k \in 1..Len(all) : Len(all[k]) = Len(all[k])
    OBVIOUS
  <2>4. other = start
    BY <1>6, <2>2, <2>3, SameStarts
  <2> QED BY <2>1, <2>4
<1>9. ASSUME NEW x \in 1..Len(receipts) PROVE receipts[x].blockIndex = x - 1
  <2>1. PlacedAt(receipts, all, start, x)
    BY <1>6, <1>8, PlaceFound
  <2>2. PICK k \in 1..n : \E j \in 1..Len(all[k]) : x = start[k-1] + j /\ receipts[x] = all[k][j]
    BY <1>6, <2>1, Zenon DEF PlacedAt
  <2>3. PICK j \in 1..Len(all[k]) : x = start[k-1] + j /\ receipts[x] = all[k][j]
    BY <2>2
  <2>4. all[k] = us[k].receipt
    BY <1>6
  <2>5. j \in 1..Len(us[k].receipt) /\ receipts[x] = us[k].receipt[j]
    BY <2>3, <2>4
  <2>6. PICK r, o : r = us[k].receipt /\ o = start[k-1]
    OBVIOUS
  <2>7. r[j].blockIndex = o + j - 1 /\ x = o + j /\ receipts[x] = r[j]
    BY <1>4, <2>3, <2>5, <2>6
  <2>8. o \in Nat /\ j \in Nat
    <3>1. k - 1 \in 0..n /\ Len(all[k]) \in Nat
      BY <1>2, <1>4, <1>6, ListedFacts
    <3>2. start \in [0..n -> Nat]
      BY <1>6, <1>8, Zenon DEF FlattensTo, Starts
    <3> QED BY <2>6, <3>1, <3>2
  <2> QED BY <2>7, <2>8
<1>10. ASSUME NEW t \in ToSet(us), t.hash = MergedHash \/ Normal(t), NEW l \in ToSet(t.receipt)
       PROVE  Cardinality({c \in ToSet(t.calls) :
                  l \in ToSet(c.logs) /\ (~c.stateReverted \/ l.data = PolygonFeeLog)}) = 1
  <2>1. PICK i \in 1..n : t = us[i]
    BY <1>1, <1>2 DEF Elements
  <2>2. Settled(t) /\ Listed(t.receipt)
    BY <1>4, <1>10, <2>1
  <2> QED BY <2>2, StandsForOne
<1>11. receipts = FlattenSeq([i \in 1..Len(us) |-> us[i].receipt])
  BY <1>1, <1>5, <1>7
<1> QED BY <1>9, <1>10, <1>11, Zenon

\* The transactions of a node, ready to be normalized, each with the logs of its own.
LEMMA RevertedSeparate ==
    ASSUME NEW ts, NEW chain, Handed(ts, chain),
           \A i \in 1..Len(ts) : Traced(ts[i], {}),
           NEW us, us = MapSeq(ts, Revert)
    PROVE  \A i \in 1..Len(us) : Traced(us[i], {}) /\ NodeCalls(us[i].calls)
<1>1. Ranked(us) /\ Family(us, us) /\ Len(us) = Len(ts)
  BY RevertedHanded
<1>2. \A i \in 1..Len(ts) : us[i] = Revert(ts[i])
  BY DEF MapSeq
<1>3. \A i \in 1..Len(us) : us[i] \in Elements(us)
  BY DEF Elements
<1>4. \A i \in 1..Len(us) : NodeCalls(us[i].calls)
  BY <1>1, <1>3, Zenon DEF Family, Descends
<1>5. ASSUME NEW i \in 1..Len(ts) PROVE Traced(us[i], {})
  <2>1. PICK t, u : t = ts[i] /\ u = us[i] /\ u = Revert(t)
    BY <1>2
  <2>2. Traced(t, {})
    BY <2>1, Zenon
  <2>3. NodeTrx(t) /\ t.hash = i
    BY <2>1, Zenon DEF Handed, NodeTrxs
  <2>4. NodeCalls(t.calls)
    BY <2>3, Zenon DEF NodeTrx
  <2>5. t.hash # MergedHash
    BY <2>3 DEF MergedHash
  <2>6. Traced(u, {})
    BY <2>1, <2>2, <2>4, <2>5, RevertTraced, Zenon
  <2> QED BY <2>1, <2>6
<1> QED BY <1>1, <1>4, <1>5

LEMMA NormalizedStood ==
    ASSUME NEW block, {"trxs", "ver", "changes"} \subseteq DOMAIN block,
           NEW chain, Handed(block.trxs, chain), NEW first \in Nat,
           \A i \in 1..Len(block.trxs) : Traced(block.trxs[i], {})
    PROVE  Stood(NormalizeInPlace(block, chain, first).block.trxs)
<1> DEFINE us == MapSeq(block.trxs, Revert)
           combined == IF chain.combine THEN CombinePolygonSystemTransactions(us)
                       ELSE [trxs |-> us, systemHashes |-> {}]
           whole == [block EXCEPT !.trxs = combined.trxs]
           ordered == IF chain.reorder
                      THEN ReorderTransactionsAndRenumberOrdinals(whole, first) ELSE whole
           indexed == PopulateLogBlockIndices(MapSeq(ordered.trxs, PopulateTrxStatus),
                                              combined.systemHashes)
           done == [ordered EXCEPT !.trxs = indexed.trxs]
           upgrade == chain.upgrade /\ done.ver = 2
           made == NormalizeInPlace(block, chain, first)
<1>1. made = IF indexed.ok /\ (upgrade => CanUpgradeV2ToV3(done.trxs))
               THEN [ok |-> TRUE, block |-> IF upgrade THEN UpgradeBlockV2ToV3(done) ELSE done]
               ELSE [ok |-> FALSE, block |-> done]
  BY Zenon DEF NormalizeInPlace, Arrange, Finish
<1>2. /\ Ranked(us) /\ Family(us, us)
      /\ \A i \in 1..Len(us) : Known(us[i]) /\ Delivered(us[i])
      /\ \/ chain.reorder
         \/ \A i, j \in 1..Len(us) : i < j => us[i].end <= us[j].begin
  BY RevertedHanded
<1>3. /\ chain.combine \in BOOLEAN
      /\ \A i \in 1..Len(us) : Traced(us[i], {}) /\ NodeCalls(us[i].calls)
  <2>1. chain.combine \in BOOLEAN
    BY Zenon DEF Handed
  <2> QED BY <2>1, RevertedSeparate
<1> HIDE DEF us
<1>4. /\ \E a : Gathered(combined.trxs, combined.systemHashes, a, chain.reorder)
      /\ \E H : Separate(combined.trxs, H, combined.systemHashes)
  <2>1. CASE chain.combine
    <3>1. combined = CombinePolygonSystemTransactions(us)
      BY <2>1
    <3> HIDE DEF combined
    <3>2. \E a : Gathered(combined.trxs, combined.systemHashes, a, chain.reorder)
      BY <1>2, <3>1, CombinedGathered
    <3>3. PICK a, b, c, p, q : Combines(combined.trxs, combined.systemHashes, us, a, b, c, p, q)
      BY <1>2, <3>1, CombinedParts
    <3>4. \A i \in 1..Len(us) : Known(us[i])
      BY <1>2, Zenon
    <3>5. Ranked(us)
      BY <1>2, Zenon
    <3>6. Separate(combined.trxs, MergedHashes(us), combined.systemHashes)
      BY <1>3, <3>3, <3>4, <3>5, CombinedSeparate, Zenon
    <3> QED BY <3>2, <3>6
  <2>2. CASE ~chain.combine
    <3>1. combined.trxs = us /\ combined.systemHashes = {}
      BY <2>2
    <3> HIDE DEF combined
    <3>2. Gathered(us, {}, Len(us), chain.reorder)
      BY <1>2, UncombinedGathered
    <3>3. Separate(us, {}, {})
      BY <1>2, <1>3, UncombinedSeparate
    <3> QED BY <3>1, <3>2, <3>3
  <2> QED BY <2>1, <2>2
<1>5. Family(combined.trxs, us)
  <2>1. CASE chain.combine
    BY <1>2, <2>1, CombinedFamily
  <2>2. CASE ~chain.combine
    BY <1>2, <2>2
  <2> QED BY <2>1, <2>2
<1> HIDE DEF combined
<1>6. /\ whole.trxs = combined.trxs
      /\ {"trxs", "ver", "changes"} \subseteq DOMAIN whole
  OBVIOUS
<1> HIDE DEF whole
<1>7. PICK a : Gathered(whole.trxs, combined.systemHashes, a, chain.reorder)
  BY <1>4, <1>6
<1>8. PICK H : Separate(whole.trxs, H, combined.systemHashes)
  BY <1>4, <1>6
<1>9. ordered = IF chain.reorder
                THEN ReorderTransactionsAndRenumberOrdinals(whole, first) ELSE whole
  OBVIOUS
<1>10. Family(ordered.trxs, us) /\ {"trxs", "ver", "changes"} \subseteq DOMAIN ordered
  <2>1. CASE chain.reorder
    <3>1. Family(ReorderTransactionsAndRenumberOrdinals(whole, first).trxs, us)
      BY <1>5, <1>6, ReorderedFamily
    <3>2. PICK trxs1, moved : ReorderTransactionsAndRenumberOrdinals(whole, first) =
                                  [whole EXCEPT !.trxs = trxs1, !.changes = moved]
      BY Zenon DEF ReorderTransactionsAndRenumberOrdinals
    <3>3. ordered = [whole EXCEPT !.trxs = trxs1, !.changes = moved]
      BY <2>1, <3>2
    <3>4. ordered = ReorderTransactionsAndRenumberOrdinals(whole, first)
      BY <2>1
    <3> HIDE DEF ordered
    <3>5. {"trxs", "ver", "changes"} \subseteq DOMAIN ordered
      BY <1>6, <3>3
    <3> QED BY <3>1, <3>4, <3>5
  <2>2. CASE ~chain.reorder
    BY <1>5, <1>6, <2>2
  <2> QED BY <2>1, <2>2
<1> HIDE DEF ordered
<1>11. /\ \E b, e : Queue(ordered.trxs, combined.systemHashes, a, b, e)
       /\ \A i \in 1..Len(ordered.trxs) : TrxFields \subseteq DOMAIN ordered.trxs[i]
  BY <1>6, <1>7, <1>9, OrderedQueue
<1>12. PICK b, e : Queue(MapSeq(ordered.trxs, PopulateTrxStatus), combined.systemHashes, a, b, e)
  BY <1>11, QueueStatus
<1>13. Separate(MapSeq(ordered.trxs, PopulateTrxStatus), H, combined.systemHashes)
  <2>1. \A i \in 1..Len(whole.trxs) : whole.trxs[i].index \in Nat
    <3>1. Lined(whole.trxs, combined.systemHashes, a)
      BY <1>7, Zenon DEF Gathered
    <3> QED BY <3>1, Zenon DEF Lined
  <2>2. "trxs" \in DOMAIN whole
    BY <1>6
  <2>3. Separate(ordered.trxs, H, combined.systemHashes)
    BY <1>8, <1>9, <2>1, <2>2, OrderedSeparate, Zenon
  <2> QED BY <2>3, StatusSeparate
<1>14. /\ Stood(indexed.trxs) /\ indexed.ok
       /\ Family(indexed.trxs, us)
  <2>1. Stood(indexed.trxs)
    BY <1>12, <1>13, IndexedStood
  <2>2. indexed.ok
    BY <1>12, QueueNumbered
  <2>3. Family(MapSeq(ordered.trxs, PopulateTrxStatus), us)
    BY <1>10, StatusFamily
  <2>4. Family(indexed.trxs, us)
    BY <2>3, IndexedFamily
  <2> QED BY <2>1, <2>2, <2>4
<1> HIDE DEF indexed
<1>15. PICK ts : ts = indexed.trxs
  OBVIOUS
<1>16. done.trxs = ts /\ "trxs" \in DOMAIN done
  BY <1>10, <1>15
<1>17. CanUpgradeV2ToV3(done.trxs)
  BY <1>14, <1>15, <1>16, CanUpgrade
<1>18. Stood(UpgradeBlockV2ToV3(done).trxs)
  <2>1. \A i \in 1..Len(ts) : ts[i] \in Elements(ts)
    BY DEF Elements
  <2>2. \A i \in 1..Len(ts) : TrxFields \subseteq DOMAIN ts[i] /\ NodeCalls(ts[i].calls)
    BY <1>14, <1>15, <2>1, Zenon DEF Family, Descends
  <2>3. Stood(ts)
    BY <1>14, <1>15, Zenon
  <2>4. Stood(MapSeq(ts, LAMBDA t : [t EXCEPT !.calls = UpgradeCalls(@)]))
    BY <2>2, <2>3, UpgradedStood
  <2>5. PICK vs : vs = MapSeq(ts, LAMBDA t : [t EXCEPT !.calls = UpgradeCalls(@)])
    OBVIOUS
  <2>6. Stood(vs)
    BY <2>4, <2>5
  <2> HIDE DEF done
  <2>7. CASE done.ver # 2
    BY <1>16, <2>3, <2>7 DEF UpgradeBlockV2ToV3
  <2>8. CASE done.ver = 2
    <3>1. UpgradeBlockV2ToV3(done) = [done EXCEPT !.ver = 3, !.trxs = vs]
      BY <1>16, <2>5, <2>8, Zenon DEF UpgradeBlockV2ToV3
    <3>2. UpgradeBlockV2ToV3(done).trxs = vs
      BY <1>16, <3>1
    <3> QED BY <2>6, <3>2
  <2> QED BY <2>7, <2>8
<1>19. Stood(done.trxs)
  BY <1>14, <1>15, <1>16
<1> HIDE DEF done, upgrade
<1>20. made = [ok |-> TRUE, block |-> IF upgrade THEN UpgradeBlockV2ToV3(done) ELSE done]
  BY <1>1, <1>14, <1>17, Zenon
<1> HIDE DEF made
<1>21. Stood(made.block.trxs)
  BY <1>18, <1>19, <1>20
<1> QED BY <1>21 DEF made

-----------------------------------------------------------------------------
(***************************************************************************)
(* What execution has to keep for the logs to be told apart.               *)
(***************************************************************************)
CallLogs(cs) == [i \in 1..Len(cs) |-> cs[i].logs]

\* How many logs the calls have.
CountOf(cs) == Len(FlattenSeq(CallLogs(cs)))

LEMMA CallLogsType ==
    ASSUME NEW cs, Bears(cs)
    PROVE  /\ Len(cs) \in Nat /\ \A i \in 1..Len(cs) : Len(cs[i].logs) \in Nat
           /\ Len(CallLogs(cs)) = Len(cs) /\ \A i \in 1..Len(cs) : CallLogs(cs)[i] = cs[i].logs
           /\ \E T : CallLogs(cs) \in Seq(Seq(T))
<1>1. Len(cs) \in Nat
  BY ListedFacts DEF Bears
<1>2. PICK n, T, ss : n = Len(cs) /\ T = EmittedLogs(cs) /\ ss = CallLogs(cs)
  OBVIOUS
<1>3. ss = [i \in 1..n |-> ss[i]] /\ \A i \in 1..n : ss[i] = cs[i].logs
  BY <1>2 DEF CallLogs
<1>4. ASSUME NEW i \in 1..n PROVE cs[i].logs \in Seq(T) /\ Len(cs[i].logs) \in Nat
  <2>1. Listed(cs[i].logs)
    BY <1>2, Zenon DEF Bears, AllLogs
  <2>2. cs[i].logs \in Seq(Elements(cs[i].logs)) /\ Len(cs[i].logs) \in Nat
    BY <2>1, ListedFacts
  <2>3. Elements(cs[i].logs) \subseteq T
    BY <1>2 DEF EmittedLogs
  <2> QED BY <2>2, <2>3
<1>5. ss \in [1..n -> Seq(T)]
  BY <1>3, <1>4
<1>6. ss \in Seq(Seq(T)) /\ Len(ss) = n
  BY <1>1, <1>2, <1>5
<1> QED BY <1>1, <1>2, <1>3, <1>4, <1>6

\* The count of the logs is where the last call ends.
LEMMA LogsCounted ==
    ASSUME NEW cs, Bears(cs)
    PROVE  /\ \E start : Starts(start, CallLogs(cs))
           /\ CountOf(cs) \in Nat
           /\ \A start : Starts(start, CallLogs(cs)) => CountOf(cs) = start[Len(cs)]
<1>1. PICK ss : ss = CallLogs(cs)
  OBVIOUS
<1>2. PICK T : ss \in Seq(Seq(T))
  BY <1>1, CallLogsType
<1>3. Len(ss) = Len(cs) /\ Len(cs) \in Nat
  BY <1>1, CallLogsType
<1>4. PICK first : FlattensTo(FlattenSeq(ss), ss, first)
  BY <1>2, FlattenedAt
<1>5. Starts(first, ss) /\ CountOf(cs) = first[Len(ss)]
  BY <1>1, <1>4, Zenon DEF FlattensTo, CountOf
<1>6. ASSUME NEW start, Starts(start, ss) PROVE start = first
  <2>1. Len(ss) = Len(ss) /\ \A k \in 1..Len(ss) : Len(ss[k]) = Len(ss[k])
    OBVIOUS
  <2> QED BY <1>2, <1>5, <1>6, <2>1, SameStarts
<1>7. first[Len(ss)] \in Nat
  BY <1>3, <1>5 DEF Starts
<1> QED BY <1>1, <1>3, <1>5, <1>6, <1>7

\* Calls whose logs are all of this transaction, numbered differently below count.
Wrote(cs, hash, count) ==
    /\ Bears(cs) /\ Apart(cs) /\ count \in Nat
    /\ \A i \in 1..Len(cs) : \A p \in 1..Len(cs[i].logs) :
           cs[i].logs[p].trx = hash /\ cs[i].logs[p].index \in 0..(count - 1)

\* The root call.
LEMMA WroteNone ==
    ASSUME NEW root, CallFields \subseteq DOMAIN root, root.logs = << >>, NEW hash
    PROVE  Wrote(<<root>>, hash, CountOf(<<root>>))
<1>1. PICK cs : cs = <<root>>
  OBVIOUS
<1>2. cs \in Seq({root}) /\ Len(cs) = 1 /\ \A i \in 1..Len(cs) : cs[i] = root
  BY <1>1
<1>3. << >> \in Seq({}) /\ Len(<< >>) = 0
  OBVIOUS
<1>4. \A i \in 1..Len(cs) : /\ CallFields \subseteq DOMAIN cs[i]
                            /\ AllLogs(cs[i].logs) /\ Len(cs[i].logs) = 0
  <2>1. Listed(<< >>) /\ \A k \in 1..Len(<< >>) : IsLog(<< >>[k])
    BY <1>3 DEF Listed
  <2>2. AllLogs(root.logs) /\ Len(root.logs) = 0
    BY <1>3, <2>1, Zenon DEF AllLogs
  <2> QED BY <1>2, <2>2, Zenon
<1>5. Bears(cs)
  BY <1>2, <1>4, Zenon DEF Bears, Listed
<1>6. \A i \in 1..Len(cs) : \A p \in 1..Len(cs[i].logs) : FALSE
  BY <1>4
<1>7. Apart(cs)
  BY <1>6 DEF Apart
<1>8. CountOf(cs) \in Nat
  BY <1>5, LogsCounted
<1>9. Wrote(cs, hash, CountOf(cs))
  BY <1>5, <1>6, <1>7, <1>8, Zenon DEF Wrote
<1> QED BY <1>1, <1>9

\* A call more, without logs.
LEMMA WroteCall ==
    ASSUME NEW cs, NEW hash, Wrote(cs, hash, CountOf(cs)),
           NEW c, CallFields \subseteq DOMAIN c, c.logs = << >>
    PROVE  Wrote(Append(cs, c), hash, CountOf(Append(cs, c)))
<1>1. PICK ds, n : ds = Append(cs, c) /\ n = Len(cs)
  OBVIOUS
<1>2. /\ Listed(ds) /\ n \in Nat /\ Len(ds) = n + 1
      /\ \A k \in 1..n : ds[k] = cs[k]
      /\ ds[n + 1] = c
  <2>1. \E S : cs \in Seq(S)
    BY Zenon DEF Wrote, Bears, Listed
  <2>2. /\ \E S : Append(cs, c) \in Seq(S)
        /\ Len(cs) \in Nat /\ Len(Append(cs, c)) = Len(cs) + 1
        /\ \A k \in 1..Len(cs) : Append(cs, c)[k] = cs[k]
        /\ Append(cs, c)[Len(cs) + 1] = c
    BY <2>1, AppendAny, Zenon
  <2> QED BY <1>1, <2>2 DEF Listed
<1>3. \A i \in 1..Len(ds) : i \in 1..n \/ i = n + 1
  BY <1>2
<1>4. << >> \in Seq({}) /\ Len(<< >>) = 0
  OBVIOUS
<1>5. AllLogs(c.logs) /\ Len(c.logs) = 0
  <2>1. Listed(<< >>) /\ \A k \in 1..Len(<< >>) : IsLog(<< >>[k])
    BY <1>4 DEF Listed
  <2> QED BY <1>4, <2>1, Zenon DEF AllLogs
<1>6. Bears(ds)
  <2>1. ASSUME NEW i \in 1..Len(ds) PROVE CallFields \subseteq DOMAIN ds[i] /\ AllLogs(ds[i].logs)
    <3>1. CASE i \in 1..n
      BY <1>1, <1>2, <3>1, Zenon DEF Wrote, Bears
    <3>2. CASE i = n + 1
      BY <1>2, <1>5, <3>2
    <3> QED BY <1>3, <3>1, <3>2
  <2> QED BY <1>2, <2>1, Zenon DEF Bears
<1>7. \A i \in 1..Len(ds) : \A p \in 1..Len(ds[i].logs) :
          i \in 1..n /\ p \in 1..Len(cs[i].logs) /\ ds[i].logs[p] = cs[i].logs[p]
  <2> SUFFICES ASSUME NEW i \in 1..Len(ds), NEW p \in 1..Len(ds[i].logs)
               PROVE  i \in 1..n /\ p \in 1..Len(cs[i].logs) /\ ds[i].logs[p] = cs[i].logs[p]
    OBVIOUS
  <2>1. i # n + 1
    BY <1>2, <1>5
  <2> QED BY <1>2, <1>3, <2>1
<1>8. Apart(ds)
  <2> SUFFICES ASSUME NEW i \in 1..Len(ds), NEW j \in 1..Len(ds),
                      NEW p \in 1..Len(ds[i].logs), NEW q \in 1..Len(ds[j].logs),
                      SameLog(ds[i].logs[p], ds[j].logs[q])
               PROVE  i = j /\ p = q
    BY DEF Apart
  <2>1. Apart(cs)
    BY Zenon DEF Wrote
  <2>2. /\ i \in 1..Len(cs) /\ p \in 1..Len(cs[i].logs) /\ ds[i].logs[p] = cs[i].logs[p]
        /\ j \in 1..Len(cs) /\ q \in 1..Len(cs[j].logs) /\ ds[j].logs[q] = cs[j].logs[q]
    BY <1>1, <1>7
  <2>3. SameLog(cs[i].logs[p], cs[j].logs[q])
    BY <2>2
  <2>4. /\ i \in 1..Len(cs) /\ p \in 1..Len(cs[i].logs)
        /\ j \in 1..Len(cs) /\ q \in 1..Len(cs[j].logs)
    BY <2>2, Zenon
  <2> QED BY <2>1, <2>3, <2>4, Zenon DEF Apart
<1>9. CountOf(ds) = CountOf(cs)
  <2>1. Bears(cs)
    BY Zenon DEF Wrote
  <2>2. PICK start : Starts(start, CallLogs(cs)) /\ CountOf(cs) = start[n]
    BY <1>1, <2>1, LogsCounted
  <2>3. PICK ss, tt : ss = CallLogs(cs) /\ tt = CallLogs(ds)
    OBVIOUS
  <2>4. /\ Len(ss) = n /\ Len(tt) = n + 1 /\ \A i \in 1..n : Len(ss[i]) = Len(tt[i])
        /\ Len(tt[n + 1]) = 0
    <3>1. Len(ss) = n /\ \A i \in 1..n : ss[i] = cs[i].logs
      BY <1>1, <2>1, <2>3, CallLogsType
    <3>2. Len(tt) = n + 1 /\ \A i \in 1..(n + 1) : tt[i] = ds[i].logs
      BY <1>2, <1>6, <2>3, CallLogsType
    <3>3. \A i \in 1..n : i \in 1..(n + 1)
      BY <1>2
    <3>4. n + 1 \in 1..(n + 1)
      BY <1>2
    <3> QED BY <1>2, <1>5, <3>1, <3>2, <3>3, <3>4
  <2>5. PICK other : other = [j \in 0..(n + 1) |-> IF j = n + 1 THEN start[n] ELSE start[j]]
    OBVIOUS
  <2>6. /\ start \in [0..n -> Nat] /\ start[0] = 0
        /\ \A k \in 1..n : start[k] = start[k-1] + Len(ss[k])
    BY <2>2, <2>3, <2>4 DEF Starts
  <2>7. /\ other[0] = 0 /\ other[n + 1] = start[n] /\ other[n] = start[n]
        /\ \A j \in 0..n : other[j] = start[j]
    BY <1>2, <2>5, <2>6
  <2>8. other \in [0..(n + 1) -> Nat]
    BY <1>2, <2>5, <2>6
  <2>9. ASSUME NEW k \in 1..(n + 1) PROVE other[k] = other[k-1] + Len(tt[k])
    <3>1. CASE k \in 1..n
      <4>1. k \in 0..n /\ k - 1 \in 0..n
        BY <1>2, <3>1
      <4> QED BY <2>4, <2>6, <2>7, <3>1, <4>1
    <3>2. CASE k = n + 1
      <4>1. k - 1 = n /\ start[n] \in Nat
        BY <1>2, <2>6, <3>2
      <4> QED BY <2>4, <2>7, <3>2, <4>1
    <3> QED BY <1>2, <3>1, <3>2
  <2>10. Starts(other, tt)
    BY <2>4, <2>7, <2>8, <2>9, Zenon DEF Starts
  <2>11. CountOf(ds) = other[n + 1]
    BY <1>2, <1>6, <2>3, <2>10, LogsCounted
  <2> QED BY <2>2, <2>7, <2>11
<1>10. Wrote(ds, hash, CountOf(cs))
  <2>1. /\ CountOf(cs) \in Nat
        /\ \A i \in 1..n : \A p \in 1..Len(cs[i].logs) :
               cs[i].logs[p].trx = hash /\ cs[i].logs[p].index \in 0..(CountOf(cs) - 1)
    BY <1>1, Zenon DEF Wrote
  <2>2. \A i \in 1..Len(ds) : \A p \in 1..Len(ds[i].logs) :
            ds[i].logs[p].trx = hash /\ ds[i].logs[p].index \in 0..(CountOf(cs) - 1)
    BY <1>7, <2>1, Zenon
  <2> QED BY <1>6, <1>8, <2>1, <2>2, Zenon DEF Wrote
<1> QED BY <1>1, <1>9, <1>10

\* A log more, in one of the calls: the next one.
LEMMA WroteLog ==
    ASSUME NEW cs, NEW hash, Wrote(cs, hash, CountOf(cs)), NEW k \in 1..Len(cs),
           NEW log, IsLog(log), log.trx = hash, log.index = CountOf(cs),
           NEW c, c = [cs[k] EXCEPT !.logs = Append(cs[k].logs, log)]
    PROVE  Wrote([cs EXCEPT ![k] = c], hash, CountOf([cs EXCEPT ![k] = c]))
<1>1. PICK ds, n, m, old, ls, more :
          /\ ds = [cs EXCEPT ![k] = c] /\ n = Len(cs) /\ m = CountOf(cs)
          /\ old = cs[k] /\ ls = old.logs /\ more = Append(ls, log)
  OBVIOUS
<1>2. n \in Nat /\ DOMAIN cs = 1..n /\ m \in Nat
  BY <1>1, ListedFacts DEF Wrote, Bears
<1>3. /\ ds = [i \in 1..n |-> ds[i]] /\ ds[k] = c
      /\ \A i \in 1..n : i # k => ds[i] = cs[i]
  BY <1>1, <1>2
<1>4. Listed(ds) /\ Len(ds) = n
  BY <1>2, <1>3, Tabled
<1>5. CallFields \subseteq DOMAIN old /\ AllLogs(ls)
  BY <1>1, Zenon DEF Wrote, Bears
<1>6. c = [old EXCEPT !.logs = more]
  BY <1>1
<1>7. CallFields \subseteq DOMAIN c /\ c.logs = more
  BY <1>5, <1>6 DEF CallFields
<1>8. /\ Listed(more) /\ Len(ls) \in Nat /\ Len(more) = Len(ls) + 1
      /\ \A j \in 1..Len(ls) : more[j] = ls[j]
      /\ more[Len(ls) + 1] = log
  <2>1. \E S : ls \in Seq(S)
    BY <1>5, Zenon DEF AllLogs, Listed
  <2>2. /\ \E S : Append(ls, log) \in Seq(S)
        /\ Len(ls) \in Nat /\ Len(Append(ls, log)) = Len(ls) + 1
        /\ \A j \in 1..Len(ls) : Append(ls, log)[j] = ls[j]
        /\ Append(ls, log)[Len(ls) + 1] = log
    BY <2>1, AppendAny, Zenon
  <2>3. more = Append(ls, log)
    BY <1>1
  <2> QED BY <2>2, <2>3 DEF Listed
<1>9. \A j \in 1..Len(more) : j \in 1..Len(ls) \/ j = Len(ls) + 1
  BY <1>8
<1>10. AllLogs(more)
  <2>1. \A j \in 1..Len(more) : IsLog(more[j])
    <3>1. \A j \in 1..Len(ls) : IsLog(ls[j])
      BY <1>5, Zenon DEF AllLogs
    <3>2. ASSUME NEW j \in 1..Len(more) PROVE IsLog(more[j])
      <4>1. CASE j \in 1..Len(ls)
        BY <1>8, <3>1, <4>1
      <4>2. CASE j = Len(ls) + 1
        BY <1>8, <4>2
      <4> QED BY <1>9, <4>1, <4>2
    <3> QED BY <3>2
  <2> QED BY <1>8, <2>1, Zenon DEF AllLogs
<1>11. Bears(ds)
  <2>1. ASSUME NEW i \in 1..n PROVE CallFields \subseteq DOMAIN ds[i] /\ AllLogs(ds[i].logs)
    <3>1. CASE i = k
      BY <1>3, <1>7, <1>10, <3>1
    <3>2. CASE i # k
      BY <1>1, <1>3, <3>2, Zenon DEF Wrote, Bears
    <3> QED BY <3>1, <3>2
  <2> QED BY <1>4, <2>1, Zenon DEF Bears
\* Each log is an old one at its place, or the new one.
<1>12. ASSUME NEW i \in 1..n, NEW p \in 1..Len(ds[i].logs)
       PROVE  \/ p \in 1..Len(cs[i].logs) /\ ds[i].logs[p] = cs[i].logs[p]
              \/ i = k /\ p = Len(ls) + 1 /\ ds[i].logs[p] = log
  <2>1. CASE i = k
    <3>1. ds[i].logs = more /\ cs[i].logs = ls
      BY <1>1, <1>3, <1>7, <2>1
    <3>2. p \in 1..Len(more)
      BY <3>1
    <3> QED BY <1>8, <1>9, <2>1, <3>1, <3>2
  <2>2. CASE i # k
    BY <1>3, <2>2
  <2> QED BY <2>1, <2>2
<1>13. \A i \in 1..n : \A p \in 1..Len(cs[i].logs) :
           cs[i].logs[p].trx = hash /\ cs[i].logs[p].index \in 0..(m - 1)
  BY <1>1, Zenon DEF Wrote
<1>14. log.trx = hash /\ log.index = m
  BY <1>1
<1>15. ASSUME NEW i \in 1..n, NEW p \in 1..Len(ds[i].logs)
       PROVE  ds[i].logs[p].trx = hash /\ ds[i].logs[p].index \in 0..m
  <2>1. CASE p \in 1..Len(cs[i].logs) /\ ds[i].logs[p] = cs[i].logs[p]
    <3>1. cs[i].logs[p].trx = hash /\ cs[i].logs[p].index \in 0..(m - 1)
      BY <1>13, <2>1
    <3>2. 0..(m - 1) \subseteq 0..m
      BY <1>2
    <3> QED BY <2>1, <3>1, <3>2
  <2>2. CASE ds[i].logs[p] = log
    BY <1>2, <1>14, <2>2
  <2> QED BY <1>12, <2>1, <2>2
<1>16. Apart(ds)
  <2> SUFFICES ASSUME NEW i \in 1..n, NEW j \in 1..n,
                      NEW p \in 1..Len(ds[i].logs), NEW q \in 1..Len(ds[j].logs),
                      SameLog(ds[i].logs[p], ds[j].logs[q])
               PROVE  i = j /\ p = q
    BY <1>4 DEF Apart
  <2>1. ASSUME NEW a \in 1..n, NEW b \in 1..Len(cs[a].logs), SameLog(cs[a].logs[b], log)
        PROVE  FALSE
    <3>1. cs[a].logs[b].index \in 0..(m - 1)
      BY <1>13
    <3>2. cs[a].logs[b].index = m
      BY <1>14, <2>1 DEF SameLog
    <3> QED BY <1>2, <3>1, <3>2
  <2>2. ASSUME NEW a \in 1..n, NEW b \in 1..Len(cs[a].logs), SameLog(log, cs[a].logs[b])
        PROVE  FALSE
    <3>1. SameLog(cs[a].logs[b], log)
      BY <2>2 DEF SameLog
    <3> QED BY <2>1, <3>1
  <2>3. CASE p \in 1..Len(cs[i].logs) /\ ds[i].logs[p] = cs[i].logs[p]
    <3>1. CASE q \in 1..Len(cs[j].logs) /\ ds[j].logs[q] = cs[j].logs[q]
      <4>1. SameLog(cs[i].logs[p], cs[j].logs[q])
        BY <2>3, <3>1
      <4>2. p \in 1..Len(cs[i].logs) /\ q \in 1..Len(cs[j].logs) /\ i \in 1..Len(cs) /\ j \in 1..Len(cs)
        BY <1>1, <2>3, <3>1
      <4>3. Apart(cs)
        BY Zenon DEF Wrote
      <4> QED BY <4>1, <4>2, <4>3, Zenon DEF Apart
    <3>2. CASE ds[j].logs[q] = log
      BY <2>1, <2>3, <3>2
    <3> QED BY <1>12, <3>1, <3>2
  <2>4. CASE i = k /\ p = Len(ls) + 1 /\ ds[i].logs[p] = log
    <3>1. CASE q \in 1..Len(cs[j].logs) /\ ds[j].logs[q] = cs[j].logs[q]
      BY <2>2, <2>4, <3>1
    <3>2. CASE j = k /\ q = Len(ls) + 1
      BY <2>4, <3>2
    <3> QED BY <1>12, <3>1, <3>2
  <2> QED BY <1>12, <2>3, <2>4
<1>17. CountOf(ds) = m + 1
  <2>1. Bears(cs)
    BY Zenon DEF Wrote
  <2>2. PICK start : Starts(start, CallLogs(cs)) /\ m = start[n]
    BY <1>1, <2>1, LogsCounted
  <2>3. PICK ss, tt : ss = CallLogs(cs) /\ tt = CallLogs(ds)
    OBVIOUS
  <2>4. /\ Len(ss) = n /\ Len(tt) = n
        /\ \A i \in 1..n : /\ Len(ss[i]) \in Nat
                           /\ Len(tt[i]) = IF i = k THEN Len(ss[i]) + 1 ELSE Len(ss[i])
    <3>1. Len(ss) = n /\ \A i \in 1..n : ss[i] = cs[i].logs /\ Len(cs[i].logs) \in Nat
      BY <1>1, <2>1, <2>3, CallLogsType
    <3>2. Len(tt) = n /\ \A i \in 1..n : tt[i] = ds[i].logs
      BY <1>4, <1>11, <2>3, CallLogsType
    <3>3. ss[k] = ls /\ tt[k] = more
      BY <1>1, <1>3, <1>7, <3>1, <3>2
    <3>4. \A i \in 1..n : i # k => tt[i] = ss[i]
      BY <1>3, <3>1, <3>2
    <3> QED BY <1>8, <3>1, <3>2, <3>3, <3>4
  <2>5. /\ start \in [0..n -> Nat] /\ start[0] = 0
        /\ \A i \in 1..n : start[i] = start[i-1] + Len(ss[i])
    BY <2>2, <2>3, <2>4 DEF Starts
  <2>6. PICK other : other = [j \in 0..n |-> IF j < k THEN start[j] ELSE start[j] + 1]
    OBVIOUS
  <2>7. k \in Nat /\ 1 <= k /\ k <= n
    BY <1>1, <1>2
  <2>8. other[0] = 0 /\ other[n] = start[n] + 1
    BY <1>2, <2>5, <2>6, <2>7
  <2>9. other \in [0..n -> Nat]
    BY <1>2, <2>5, <2>6
  <2>10. ASSUME NEW i \in 1..n PROVE other[i] = other[i-1] + Len(tt[i])
    <3>1. PICK x, y, z : x = start[i] /\ y = start[i-1] /\ z = Len(ss[i])
      OBVIOUS
    <3>2. i \in 0..n /\ i - 1 \in 0..n /\ i \in Nat
      BY <1>2
    <3>3. x \in Nat /\ y \in Nat /\ z \in Nat /\ x = y + z
      BY <2>4, <2>5, <3>1, <3>2
    <3>4. /\ other[i] = IF i < k THEN x ELSE x + 1
          /\ other[i-1] = IF i - 1 < k THEN y ELSE y + 1
          /\ Len(tt[i]) = IF i = k THEN z + 1 ELSE z
      BY <2>4, <2>6, <3>1, <3>2
    <3> QED BY <2>7, <3>2, <3>3, <3>4
  <2>11. Starts(other, tt)
    BY <2>4, <2>8, <2>9, <2>10, Zenon DEF Starts
  <2>12. CountOf(ds) = other[n]
    BY <1>4, <1>11, <2>3, <2>11, LogsCounted
  <2> QED BY <2>2, <2>8, <2>12
<1>18. m + 1 \in Nat /\ (m + 1) - 1 = m
  BY <1>2
<1>19. Wrote(ds, hash, m + 1)
  <2>1. \A i \in 1..Len(ds) : \A p \in 1..Len(ds[i].logs) :
            ds[i].logs[p].trx = hash /\ ds[i].logs[p].index \in 0..((m + 1) - 1)
    BY <1>4, <1>15, <1>18
  <2> QED BY <1>11, <1>16, <1>18, <2>1, Zenon DEF Wrote
<1> QED BY <1>1, <1>17, <1>19

\* A call that ends keeps its logs.
LEMMA WroteAlike ==
    ASSUME NEW cs, NEW hash, Wrote(cs, hash, CountOf(cs)), NEW k \in 1..Len(cs),
           NEW c, CallFields \subseteq DOMAIN c, c.logs = cs[k].logs
    PROVE  Wrote([cs EXCEPT ![k] = c], hash, CountOf([cs EXCEPT ![k] = c]))
<1>1. PICK ds, n : ds = [cs EXCEPT ![k] = c] /\ n = Len(cs)
  OBVIOUS
<1>2. n \in Nat /\ DOMAIN cs = 1..n
  BY <1>1, ListedFacts DEF Wrote, Bears
<1>3. /\ ds = [i \in 1..n |-> ds[i]] /\ ds[k] = c
      /\ \A i \in 1..n : i # k => ds[i] = cs[i]
  BY <1>1, <1>2
<1>4. Listed(ds) /\ Len(ds) = n
  BY <1>2, <1>3, Tabled
<1>5. \A i \in 1..n : ds[i].logs = cs[i].logs
  BY <1>3
<1>6. \A i \in 1..n : CallFields \subseteq DOMAIN ds[i]
  <2>1. \A i \in 1..n : CallFields \subseteq DOMAIN cs[i]
    BY <1>1, Zenon DEF Wrote, Bears
  <2> QED BY <1>3, <2>1
<1>7. Bears(ds)
  <2>1. \A i \in 1..n : AllLogs(cs[i].logs)
    BY <1>1, Zenon DEF Wrote, Bears
  <2>2. \A i \in 1..n : AllLogs(ds[i].logs)
    BY <1>5, <2>1
  <2> QED BY <1>4, <1>6, <2>2, Zenon DEF Bears
<1>8. CallLogs(ds) = CallLogs(cs)
  <2>1. CallLogs(ds) = [i \in 1..n |-> ds[i].logs] /\ CallLogs(cs) = [i \in 1..n |-> cs[i].logs]
    BY <1>1, <1>4 DEF CallLogs
  <2> QED BY <1>5, <2>1
<1>9. CountOf(ds) = CountOf(cs)
  BY <1>8 DEF CountOf
<1>10. Apart(ds)
  <2>1. Apart(cs)
    BY Zenon DEF Wrote
  <2> SUFFICES ASSUME NEW i \in 1..n, NEW j \in 1..n,
                      NEW p \in 1..Len(ds[i].logs), NEW q \in 1..Len(ds[j].logs),
                      SameLog(ds[i].logs[p], ds[j].logs[q])
               PROVE  i = j /\ p = q
    BY <1>4 DEF Apart
  <2>2. p \in 1..Len(cs[i].logs) /\ q \in 1..Len(cs[j].logs) /\ i \in 1..Len(cs) /\ j \in 1..Len(cs)
    BY <1>1, <1>5
  <2>3. SameLog(cs[i].logs[p], cs[j].logs[q])
    BY <1>5
  <2> QED BY <2>1, <2>2, <2>3, Zenon DEF Apart
<1>11. Wrote(ds, hash, CountOf(cs))
  <2>1. /\ CountOf(cs) \in Nat
        /\ \A i \in 1..n : \A p \in 1..Len(cs[i].logs) :
               cs[i].logs[p].trx = hash /\ cs[i].logs[p].index \in 0..(CountOf(cs) - 1)
    BY <1>1, Zenon DEF Wrote
  <2>2. \A i \in 1..n : \A p \in 1..Len(ds[i].logs) :
            ds[i].logs[p].trx = hash /\ ds[i].logs[p].index \in 0..(CountOf(cs) - 1)
    BY <1>5, <2>1
  <2> QED BY <1>4, <1>7, <1>10, <2>1, <2>2, Zenon DEF Wrote
<1> QED BY <1>1, <1>9, <1>11

\* The receipt of a transaction that ends has logs of its own.
LEMMA ReceiptTraced ==
    ASSUME NEW o, NEW b \in Nat, NEW e \in Nat, Emits(o.calls, b, e),
           NEW n, Wrote(o.calls, o.hash, n), o.hash # MergedHash,
           NEW t, TrxFields \subseteq DOMAIN t, t.hash = o.hash, t.calls = o.calls,
           t.receipt = ReceiptOf(KeptLogs(o))
    PROVE  Traced(t, {})
<1>1. PICK cs, hash, kept, receipt, all :
          /\ cs = o.calls /\ hash = o.hash /\ kept = KeptLogs(o) /\ receipt = ReceiptOf(kept)
          /\ all = KeptLogsOf(cs, Undone(cs))
  OBVIOUS
<1>2. InOrder(kept, all)
  BY <1>1, KeptInOrder
<1>3. PICK p : /\ Len(kept) = Len(all) /\ Len(kept) \in Nat
               /\ p \in [1..Len(all) -> 1..Len(all)]
               /\ \A k \in 1..Len(all) : kept[k] = all[p[k]]
  BY <1>2, Zenon DEF InOrder, Orders
<1>4. all \in Seq(EmittedLogs(cs))
  BY <1>1, KeptLogsType
<1>5. \A l \in EmittedLogs(cs) : IsLog(l) /\ l.trx = hash
  <2>1. ASSUME NEW i \in 1..Len(cs), NEW l \in Elements(cs[i].logs) PROVE IsLog(l) /\ l.trx = hash
    <3>1. PICK k \in 1..Len(cs[i].logs) : l = cs[i].logs[k]
      BY DEF Elements
    <3>2. IsLog(cs[i].logs[k])
      BY <1>1, Zenon DEF Wrote, Bears, AllLogs
    <3>3. cs[i].logs[k].trx = hash
      BY <1>1, Zenon DEF Wrote
    <3> QED BY <3>1, <3>2, <3>3
  <2> QED BY <2>1 DEF EmittedLogs
<1>6. \A k \in 1..Len(kept) : IsLog(kept[k]) /\ kept[k].trx = hash
  <2>1. ASSUME NEW k \in 1..Len(kept) PROVE kept[k] \in EmittedLogs(cs)
    <3>1. p[k] \in 1..Len(all) /\ kept[k] = all[p[k]]
      BY <1>3
    <3> QED BY <1>4, <3>1
  <2> QED BY <1>5, <2>1
<1>7. /\ receipt = [k \in 1..Len(kept) |-> receipt[k]]
      /\ \A k \in 1..Len(kept) : receipt[k] = [kept[k] EXCEPT
                                     !.index = k - 1, !.ord = 0, !.blockIndex = 0]
  BY <1>1 DEF ReceiptOf
<1>8. Listed(receipt) /\ Len(receipt) = Len(kept)
  BY <1>3, <1>7, Tabled
<1>9. ASSUME NEW k \in 1..Len(kept)
      PROVE  IsLog(receipt[k]) /\ receipt[k].trx = hash /\ receipt[k].index = k - 1
  <2>1. PICK l, m, x : l = kept[k] /\ m = receipt[k] /\ x = k - 1
    OBVIOUS
  <2>2. m = [l EXCEPT !.index = x, !.ord = 0, !.blockIndex = 0]
    BY <1>7, <2>1
  <2>3. IsLog(l) /\ l.trx = hash
    BY <1>6, <2>1
  <2>4. PICK u, v, w, y, z : l = [trx |-> u, index |-> v, data |-> w, ord |-> y, blockIndex |-> z]
    BY <2>3, Zenon DEF IsLog
  <2>5. m = [trx |-> u, index |-> x, data |-> w, ord |-> 0, blockIndex |-> 0]
    BY <2>2, <2>4
  <2>6. IsLog(m) /\ m.trx = l.trx /\ m.index = x
    BY <2>4, <2>5 DEF IsLog
  <2> QED BY <2>1, <2>3, <2>6
<1>10. AllLogs(receipt)
  BY <1>8, <1>9, Zenon DEF AllLogs
<1>11. DistinctLogs(receipt)
  <2> SUFFICES ASSUME NEW j \in 1..Len(kept), NEW k \in 1..Len(kept), SameLog(receipt[j], receipt[k])
               PROVE  j = k
    BY <1>8 DEF DistinctLogs
  <2>1. j - 1 = k - 1
    BY <1>9 DEF SameLog
  <2>2. j \in Nat /\ k \in Nat
    BY <1>3
  <2> QED BY <2>1, <2>2
<1>12. OwnsAll(t, {}, receipt)
  BY <1>1, <1>8, <1>9 DEF OwnsAll, Owns
<1>13. \A i \in 1..Len(cs) : OwnsAll(t, {}, cs[i].logs)
  <2>1. \A i \in 1..Len(cs) : \A k \in 1..Len(cs[i].logs) : cs[i].logs[k].trx = hash
    BY <1>1, Zenon DEF Wrote
  <2> QED BY <1>1, <2>1 DEF OwnsAll, Owns
<1>14. Bears(cs) /\ Apart(cs)
  BY <1>1, Zenon DEF Wrote
<1>15. t.calls = cs /\ t.receipt = receipt /\ t.hash # MergedHash
  BY <1>1
<1> QED BY <1>10, <1>11, <1>12, <1>13, <1>14, <1>15, Zenon DEF Traced

TraceInv ==
    /\ open # Nil => Wrote(open.calls, open.hash, CountOf(open.calls))
    /\ \A i \in 1..Len(trxs) : Traced(trxs[i], {})
    /\ Normalized => Stood(Out)

\* A step of a call: the open transaction writes more.
LEMMA TraceKept ==
    ASSUME TraceInv, Building, UNCHANGED <<trxs, result>>, TrxFields \subseteq DOMAIN open,
           NEW calls, open' = [open EXCEPT !.calls = calls],
           Wrote(calls, open.hash, CountOf(calls))
    PROVE  TraceInv'
<1>1. open'.calls = calls /\ open'.hash = open.hash
  BY DEF TrxFields
<1>2. ~Normalized'
  BY DEF Normalized, Building
<1>3. Wrote(open'.calls, open'.hash, CountOf(open'.calls))
  BY <1>1
<1>4. \A i \in 1..Len(trxs') : Traced(trxs'[i], {})
  BY DEF TraceInv
<1> QED BY <1>2, <1>3, <1>4, Zenon DEF TraceInv

LEMMA TraceBegins ==
    ASSUME TraceInv, NEW kind, NEW index, BeginTrx(kind, index)
    PROVE  TraceInv'
<1>1. PICK hash, a, start, c, root :
          /\ root = [NewCall(1, "CALL", a, 0) EXCEPT !.caller = c]
          /\ open' = [NewTrx(hash, index, a, start, root, 1, FALSE) EXCEPT !.from = c]
          /\ Building /\ UNCHANGED <<trxs, result>>
  <2>1. PICK hash, a, start, c :
            /\ open' = [NewTrx(hash, index, a, start, [NewCall(1, "CALL", a, 0) EXCEPT !.caller = c],
                               1, FALSE) EXCEPT !.from = c]
            /\ Building /\ UNCHANGED <<trxs, result>>
    BY Zenon DEF BeginTrx
  <2> QED BY <2>1, Zenon
<1>2. open'.calls = <<root>>
  <2>1. PICK t : t = [NewTrx(hash, index, a, start, root, 1, FALSE) EXCEPT !.from = c]
    OBVIOUS
  <2>2. t.calls = <<root>>
    BY <2>1 DEF NewTrx
  <2> QED BY <1>1, <2>1, <2>2
<1>3. CallFields \subseteq DOMAIN root /\ root.logs = << >>
  BY <1>1 DEF NewCall, CallFields
<1>4. Wrote(<<root>>, open'.hash, CountOf(<<root>>))
  BY <1>3, WroteNone
<1>5. ~Normalized'
  BY <1>1 DEF Normalized, Building
<1>6. \A i \in 1..Len(trxs') : Traced(trxs'[i], {})
  BY <1>1 DEF TraceInv
<1>7. Wrote(open'.calls, open'.hash, CountOf(open'.calls))
  BY <1>2, <1>4
<1> QED BY <1>5, <1>6, <1>7, Zenon DEF TraceInv

LEMMA TraceRuns ==
    ASSUME TraceInv, NodeInv, NEW type, RunCall(type)
    PROVE  TraceInv'
<1>1. PICK i, a, parent, depth, caller :
         /\ Building /\ open # Nil
         /\ open' = [open EXCEPT !.calls = Append(open.calls,
                        [NewCall(i, type, a, clock) EXCEPT
                            !.parent = parent, !.depth = depth, !.caller = caller])]
         /\ UNCHANGED <<trxs, result>>
  BY Zenon DEF RunCall
<1>2. PICK call : call = [NewCall(i, type, a, clock) EXCEPT
                             !.parent = parent, !.depth = depth, !.caller = caller]
  OBVIOUS
<1>3. CallFields \subseteq DOMAIN call /\ call.logs = << >>
  BY <1>2 DEF NewCall, CallFields
<1>4. Wrote(open.calls, open.hash, CountOf(open.calls))
  BY <1>1 DEF TraceInv
<1>5. PICK calls : calls = Append(open.calls, call)
  OBVIOUS
<1>6. Wrote(calls, open.hash, CountOf(calls))
  BY <1>3, <1>4, <1>5, WroteCall
<1>7. open' = [open EXCEPT !.calls = calls]
  BY <1>1, <1>2, <1>5, Zenon
<1>8. TrxFields \subseteq DOMAIN open
  BY <1>1 DEF NodeInv, NodeTrx
<1> QED BY <1>1, <1>6, <1>7, <1>8, TraceKept

LEMMA TraceAdds ==
    ASSUME TraceInv, NodeInv, NEW data, AddLog(data)
    PROVE  TraceInv'
<1>1. PICK k :
         /\ k = Last(frames) /\ open # Nil /\ frames # << >> /\ Building
         /\ open' = [open EXCEPT !.calls[k].logs = Append(@,
                        [trx |-> open.hash, index |-> LogCount(open), data |-> data,
                         ord |-> clock, blockIndex |-> LogCount(open)])]
         /\ UNCHANGED <<trxs, result>>
  BY Zenon DEF AddLog
<1>2. PICK n : n = LogCount(open) /\ n = CountOf(open.calls)
  BY DEF LogCount, CountOf, CallLogs
<1>3. PICK log : log = [trx |-> open.hash, index |-> n, data |-> data, ord |-> clock,
                        blockIndex |-> n]
  OBVIOUS
<1>4. PICK c : c = [open.calls[k] EXCEPT !.logs = Append(open.calls[k].logs, log)]
  OBVIOUS
<1>5. PICK calls : calls = [open.calls EXCEPT ![k] = c]
  OBVIOUS
<1>6. open' = [open EXCEPT !.calls = calls]
  BY <1>1, <1>2, <1>3, <1>4, <1>5, Zenon
<1>7. Wrote(open.calls, open.hash, CountOf(open.calls))
  BY <1>1 DEF TraceInv
<1>8. n \in Nat
  BY <1>2, <1>7 DEF Wrote
<1>9. IsLog(log) /\ log.trx = open.hash /\ log.index = CountOf(open.calls)
  BY <1>2, <1>3, <1>8 DEF IsLog
<1>10. k \in 1..Len(open.calls) /\ TrxFields \subseteq DOMAIN open
  BY <1>1 DEF NodeInv, NodeTrx, Nested, Last
<1>11. Wrote(calls, open.hash, CountOf(calls))
  BY <1>4, <1>5, <1>7, <1>9, <1>10, WroteLog
<1> QED BY <1>1, <1>6, <1>10, <1>11, TraceKept

LEMMA TraceCallEnds ==
    ASSUME TraceInv, NodeInv, NEW ending, EndCall(ending)
    PROVE  TraceInv'
<1>1. PICK k, end :
         /\ k = Last(frames) /\ open # Nil /\ frames # << >> /\ Building
         /\ open' = [open EXCEPT !.calls[k] =
                        [@ EXCEPT !.end = end, !.statusFailed = ending # "ok",
                                  !.statusReverted = ending = "reverted"]]
         /\ UNCHANGED <<trxs, result>>
  BY Zenon DEF EndCall
<1>2. PICK failed, reverted : failed = (ending # "ok") /\ reverted = (ending = "reverted")
  OBVIOUS
<1>3. PICK old, c : /\ old = open.calls[k]
                    /\ c = [old EXCEPT !.end = end, !.statusFailed = failed,
                                       !.statusReverted = reverted]
  OBVIOUS
<1>4. PICK calls : calls = [open.calls EXCEPT ![k] = c]
  OBVIOUS
<1>5. open' = [open EXCEPT !.calls = calls]
  BY <1>1, <1>2, <1>3, <1>4, Zenon
<1>6. Wrote(open.calls, open.hash, CountOf(open.calls))
  BY <1>1 DEF TraceInv
<1>7. k \in 1..Len(open.calls) /\ TrxFields \subseteq DOMAIN open
  BY <1>1 DEF NodeInv, NodeTrx, Nested, Last
<1>8. CallFields \subseteq DOMAIN old
  BY <1>3, <1>6, <1>7, Zenon DEF Wrote, Bears
<1>9. CallFields \subseteq DOMAIN c /\ c.logs = open.calls[k].logs
  BY <1>3, <1>8 DEF CallFields
<1>10. Wrote(calls, open.hash, CountOf(calls))
  BY <1>4, <1>6, <1>7, <1>9, WroteAlike
<1> QED BY <1>1, <1>5, <1>7, <1>10, TraceKept

LEMMA TraceEnds ==
    ASSUME TraceInv, NodeInv, LogInv, EndTrx
    PROVE  TraceInv'
<1>1. PICK receipt : receipt = ReceiptOf(KeptLogs(open))
  OBVIOUS
<1>2. PICK t : t = [open EXCEPT !.end = clock, !.receipt = receipt]
  OBVIOUS
<1>3. Building /\ open # Nil /\ trxs' = Append(trxs, t) /\ open' = Nil /\ UNCHANGED result
  BY <1>1, <1>2, Zenon DEF EndTrx, ReceiptOf
<1>4. /\ TrxFields \subseteq DOMAIN open /\ open.hash = Len(trxs) + 1
      /\ Len(trxs) \in Nat
  BY <1>3, ListedFacts DEF NodeInv, NodeTrx, NodeTrxs
<1>5. /\ TrxFields \subseteq DOMAIN t /\ t.hash = open.hash
      /\ t.calls = open.calls /\ t.receipt = receipt
  BY <1>2, <1>4 DEF TrxFields
<1>6. PICK b \in Nat, e \in Nat : Emits(open.calls, b, e)
  BY <1>3, OpenEmits
<1>7. open.hash # MergedHash
  BY <1>4 DEF MergedHash
<1>8. Wrote(open.calls, open.hash, CountOf(open.calls))
  BY <1>3 DEF TraceInv
<1>9. Traced(t, {})
  BY <1>1, <1>5, <1>6, <1>7, <1>8, ReceiptTraced
<1>10. /\ Len(trxs') = Len(trxs) + 1 /\ trxs'[Len(trxs) + 1] = t
       /\ \A k \in 1..Len(trxs) : trxs'[k] = trxs[k]
  BY <1>3, AppendAny DEF NodeInv, NodeTrxs, Listed
<1>11. \A i \in 1..Len(trxs') : i \in 1..Len(trxs) \/ i = Len(trxs) + 1
  BY <1>4, <1>10
<1>12. \A i \in 1..Len(trxs') : Traced(trxs'[i], {})
  BY <1>9, <1>10, <1>11 DEF TraceInv
<1>13. ~Normalized'
  BY <1>3 DEF Normalized, Building
<1> QED BY <1>3, <1>12, <1>13, Zenon DEF TraceInv

\* With the transactions of the node the receipts stand for the calls.
LEMMA TraceNormalizes ==
    ASSUME TraceInv, NodeInv, LogInv, Normalize
    PROVE  TraceInv'
<1>1. /\ open = Nil /\ UNCHANGED <<features, trxs, open, clock, changes>>
      /\ \E block, first : /\ {"trxs", "ver", "changes"} \subseteq DOMAIN block
                           /\ block.trxs = trxs /\ first \in Nat
                           /\ Handed(block.trxs, features)
                           /\ result' = NormalizeInPlace(block, features, first)
  BY BlockHanded
<1>2. PICK block, first, chain : /\ {"trxs", "ver", "changes"} \subseteq DOMAIN block
                                 /\ block.trxs = trxs /\ first \in Nat
                                 /\ Handed(block.trxs, chain)
                                 /\ result' = NormalizeInPlace(block, chain, first)
  BY <1>1
<1>3. \A i \in 1..Len(block.trxs) : Traced(block.trxs[i], {})
  BY <1>2 DEF TraceInv
<1>4. Stood(NormalizeInPlace(block, chain, first).block.trxs)
  BY <1>2, <1>3, NormalizedStood
<1>5. Stood(Out')
  BY <1>2, <1>4, Zenon DEF Out
<1>6. open' = Nil /\ \A i \in 1..Len(trxs') : Traced(trxs'[i], {})
  BY <1>1 DEF TraceInv
<1> QED BY <1>5, <1>6, Zenon DEF TraceInv

LEMMA TraceStep ==
    ASSUME TraceInv, NodeInv, LogInv, [Next]_vars
    PROVE  TraceInv'
<1>1. CASE UNCHANGED vars
  BY <1>1, Zenon DEF vars, TraceInv, Normalized, Out
<1> QED BY <1>1, TraceBegins, TraceRuns, TraceAdds, TraceCallEnds, TraceEnds, TraceNormalizes,
           Zenon DEF Next

LEMMA TraceInit ==
    ASSUME Init
    PROVE  TraceInv
<1>1. trxs = << >> /\ open = Nil /\ result = Nil /\ Len(<< >>) = 0
  BY DEF Init
<1>2. \A i \in 1..Len(trxs) : FALSE
  BY <1>1
<1> QED BY <1>1, <1>2, Zenon DEF TraceInv, Normalized

\* The logs are told apart in every block, normalized or not.
LEMMA TraceAlways == Spec => []TraceInv
<1>1. TraceInv /\ NodeInv /\ LogInv /\ [Next]_vars => TraceInv'
  BY TraceStep
<1> QED BY <1>1, TraceInit, NodeAlways, LogAlways, PTL DEF Spec

\* The receipts of a normalized block number its logs 0, 1, 2, ... in the order of its
\* transactions, whatever the chain and the block, and each log of a receipt is the log,
\* with its ordinal and its block index, of exactly one call of the same transaction that
\* survived, the merged Polygon transaction included: populateLogBlockIndices pairs the
\* two sides right although it only knows them as lists of logs.
THEOREM ReceiptsStandForCalls == Spec => []ReceiptsMatchCalls
<1>1. TraceInv => ReceiptsMatchCalls
  <2> SUFFICES ASSUME TraceInv, Normalized PROVE ReceiptsMatchCalls
    BY DEF ReceiptsMatchCalls
  <2>1. Stood(Out)
    BY DEF TraceInv
  <2>2. LET receipts == FlattenSeq([i \in 1..Len(Out) |-> Out[i].receipt]) IN
        /\ \A k \in 1..Len(receipts) : receipts[k].blockIndex = k - 1
        /\ \A t \in ToSet(Out) : t.hash = MergedHash \/ Normal(t) =>
               \A l \in ToSet(t.receipt) :
                   Cardinality({c \in ToSet(t.calls) :
                       l \in ToSet(c.logs)
                       /\ (~c.stateReverted \/ l.data = PolygonFeeLog)}) = 1
    <3>1. PICK us : us = Out
      OBVIOUS
    <3>2. Stood(us)
      BY <2>1, <3>1
    <3> QED BY <3>1, <3>2, StoodMatch
  <2> QED BY <2>2, Zenon DEF ReceiptsMatchCalls
<1> QED BY <1>1, TraceAlways, PTL

-----------------------------------------------------------------------------
(***************************************************************************)
(* The same block fetched from the endpoint of the node.                   *)
(***************************************************************************)
\* The endpoint has the transactions us in block b.
Displays(b, us) ==
    /\ Len(b.trxs) = Len(us)
    /\ \A i \in 1..Len(us) :
           /\ b.trxs[i].hash = us[i].hash /\ b.trxs[i].index = us[i].index
           /\ b.trxs[i].to = us[i].to
           /\ b.trxs[i].status = IF us[i].calls[1].statusFailed THEN "0x0" ELSE "0x1"
           /\ Listed(b.trxs[i].logs) /\ Len(b.trxs[i].logs) = Len(us[i].receipt)
           /\ \A k \in 1..Len(us[i].receipt) : b.trxs[i].logs[k] = us[i].receipt[k].data
    /\ \A i, j \in 1..Len(us) : us[i].hash = us[j].hash => i = j

\* The receipt of each.
LEMMA ReceiptsShown ==
    ASSUME NEW us, Listed(us), NEW b, Listed(b.trxs), Displays(b, us), NEW i \in 1..Len(us)
    PROVE  /\ us[i].hash \in DOMAIN Receipts(b)
           /\ Receipts(b)[us[i].hash] = RPCReceipt(b, i)
<1>1. /\ Len(b.trxs) = Len(us) /\ \A j \in 1..Len(us) : b.trxs[j].hash = us[j].hash
      /\ \A j, k \in 1..Len(us) : us[j].hash = us[k].hash => j = k
  BY Zenon DEF Displays
<1>2. us[i].hash \in {t.hash : t \in ToSet(b.trxs)}
  <2>1. PICK bts : bts = b.trxs
    OBVIOUS
  <2>2. Listed(bts)
    BY <2>1
  <2>3. ToSet(bts) = Elements(bts)
    BY <2>2, ListedFacts
  <2>4. Elements(bts) = {bts[j] : j \in 1..Len(bts)}
    BY DEF Elements
  <2>5. bts[i] \in ToSet(bts) /\ bts[i].hash = us[i].hash
    BY <1>1, <2>1, <2>3, <2>4
  <2> QED BY <2>1, <2>5
<1>3. (CHOOSE j \in 1..Len(b.trxs) : b.trxs[j].hash = us[i].hash) = i
  <2>1. i \in 1..Len(b.trxs) /\ b.trxs[i].hash = us[i].hash
    BY <1>1
  <2>2. PICK c : c = CHOOSE j \in 1..Len(b.trxs) : b.trxs[j].hash = us[i].hash
    OBVIOUS
  <2>3. c \in 1..Len(b.trxs) /\ b.trxs[c].hash = us[i].hash
    BY <2>1, <2>2, Zenon
  <2>4. c = i
    BY <1>1, <2>3
  <2> QED BY <2>2, <2>4
<1>4. PICK S : S = {t.hash : t \in ToSet(b.trxs)}
  OBVIOUS
<1>5. Receipts(b) = [hash \in S |->
                        RPCReceipt(b, CHOOSE j \in 1..Len(b.trxs) : b.trxs[j].hash = hash)]
  BY <1>4, Zenon DEF Receipts
<1>6. us[i].hash \in S
  BY <1>2, <1>4
<1>7. /\ us[i].hash \in DOMAIN Receipts(b)
      /\ Receipts(b)[us[i].hash] =
             RPCReceipt(b, CHOOSE j \in 1..Len(b.trxs) : b.trxs[j].hash = us[i].hash)
  BY <1>5, <1>6
<1> QED BY <1>3, <1>7

LEMMA ReceiptsCounted ==
    ASSUME NEW us, Listed(us), NEW b, Listed(b.trxs), Displays(b, us)
    PROVE  Countable(Receipts(b))
<1>1. PICK bts : bts = b.trxs
  OBVIOUS
<1>2. DOMAIN Receipts(b) = {t.hash : t \in ToSet(bts)}
  BY <1>1 DEF Receipts
<1>3. ToSet(bts) = {bts[j] : j \in 1..Len(bts)}
  <2>1. Listed(bts)
    BY <1>1
  <2> QED BY <2>1, ListedFacts DEF Elements
<1>4. Len(bts) = Len(us) /\ \A j \in 1..Len(us) : bts[j].hash = us[j].hash
  BY <1>1, Zenon DEF Displays
<1>5. ASSUME NEW h \in DOMAIN Receipts(b)
      PROVE  Len(Receipts(b)[h].logs) \in Nat
  <2>1. PICK i \in 1..Len(us) : h = us[i].hash
    BY <1>2, <1>3, <1>4
  <2>2. Receipts(b)[h] = RPCReceipt(b, i)
    BY <2>1, ReceiptsShown
  <2>3. Len(b.trxs[i].logs) \in Nat
    BY ListedFacts, Zenon DEF Displays
  <2>4. PICK m, s : /\ m = Len(b.trxs[i].logs) /\ s = RPCReceipt(b, i).logs
    OBVIOUS
  <2>5. s = [k \in 1..m |-> s[k]]
    BY <2>4 DEF RPCReceipt
  <2>6. Len(s) = m
    BY <2>3, <2>4, <2>5, Tabled
  <2> QED BY <2>2, <2>3, <2>4, <2>6
<1> QED BY <1>5 DEF Countable

\* The logs of a block before one of its transactions are where its receipt starts.
LEMMA LogsBeforeAre ==
    ASSUME NEW us, Listed(us), NEW b, Displays(b, us), NEW start,
           Starts(start, AllReceipts(us)), NEW i \in 1..Len(us)
    PROVE  LogsBefore(b, i) = start[i-1] /\ start[i-1] \in Nat
<1>1. PICK n, ss, rs : /\ n = Len(us) /\ ss = [j \in 1..n |-> b.trxs[j].logs]
                       /\ rs = AllReceipts(us)
  OBVIOUS
<1>2. n \in Nat
  BY <1>1, ListedFacts
<1>3. /\ \A j \in 1..n : Listed(ss[j]) /\ ss[j] = b.trxs[j].logs
      /\ \A j \in 1..n : Len(ss[j]) = Len(us[j].receipt)
  BY <1>1, Zenon DEF Displays
<1>4. rs = [j \in 1..n |-> us[j].receipt]
  BY <1>1 DEF AllReceipts
<1>5. Len(rs) = n /\ \A j \in 1..n : Len(rs[j]) = Len(ss[j])
  BY <1>2, <1>3, <1>4
<1>6. PICK T : T = UNION {Elements(ss[j]) : j \in 1..n}
  OBVIOUS
<1>7. ss \in Seq(Seq(T)) /\ Len(ss) = n
  <2>1. ASSUME NEW j \in 1..n PROVE ss[j] \in Seq(T)
    <3>1. ss[j] \in Seq(Elements(ss[j])) /\ Elements(ss[j]) \subseteq T
      BY <1>3, <1>6, ListedFacts
    <3> QED BY <3>1
  <2>2. ss = [j \in 1..n |-> ss[j]]
    BY <1>1
  <2>3. ss \in [1..n -> Seq(T)]
    BY <2>1, <2>2
  <2> QED BY <1>2, <2>3
<1>8. Starts(start, rs)
  BY <1>1
<1>9. Starts(start, ss)
  BY <1>5, <1>7, <1>8 DEF Starts
<1>10. i - 1 \in 0..n /\ i - 1 \in Nat /\ \A j \in 1..(i - 1) : j \in 1..n
  BY <1>1, <1>2
<1>11. PICK a, aa : a = i - 1 /\ aa = [j \in 1..a |-> b.trxs[j].logs]
  OBVIOUS
<1>12. aa \in Seq(Seq(T)) /\ Leading(aa, a, ss)
  <2>1. \A j \in 1..a : aa[j] = ss[j]
    BY <1>3, <1>10, <1>11
  <2>2. \A j \in 1..a : aa[j] \in Seq(T)
    BY <1>7, <1>10, <1>11, <2>1
  <2>3. aa = [j \in 1..a |-> aa[j]]
    BY <1>11
  <2>4. aa \in [1..a -> Seq(T)]
    BY <2>2, <2>3
  <2>5. aa \in Seq(Seq(T)) /\ Len(aa) = a
    BY <1>10, <1>11, <2>4
  <2> QED BY <1>7, <1>10, <1>11, <2>1, <2>5 DEF Leading
<1>13. Len(FlattenSeq(aa)) = start[a]
  BY <1>7, <1>9, <1>12, PrefixEnds
<1>14. LogsBefore(b, i) = Len(FlattenSeq(aa))
  BY <1>11, Zenon DEF LogsBefore
<1>15. start[a] \in Nat
  BY <1>7, <1>9, <1>10, <1>11 DEF Starts
<1> QED BY <1>11, <1>13, <1>14, <1>15

\* The fetched trace t shows the transaction u, whose receipt is numbered from "from" on.
Shows(t, u, from) ==
    /\ t.hash = u.hash /\ t.index = u.index /\ t.to = u.to
    /\ t.status = IF u.calls[1].statusFailed THEN "FAILED" ELSE "SUCCEEDED"
    /\ Len(t.receipt) = Len(u.receipt)
    /\ \A k \in 1..Len(u.receipt) :
           /\ t.receipt[k].data = u.receipt[k].data
           /\ t.receipt[k].blockIndex = from + k - 1

LEMMA TraceShown ==
    ASSUME NEW us, Listed(us), NEW b, Listed(b.trxs), Displays(b, us), NEW start,
           Starts(start, AllReceipts(us)), NEW i \in 1..Len(us),
           NEW o, NEW t, t = ConvertTrx(b.trxs[i], Receipts(b), o)
    PROVE  Shows(t, us[i], start[i-1])
<1>1. PICK x, r : x = b.trxs[i] /\ r = RPCReceipt(b, i)
  OBVIOUS
<1>2. /\ x.hash = us[i].hash /\ x.index = us[i].index /\ x.to = us[i].to
      /\ x.status = IF us[i].calls[1].statusFailed THEN "0x0" ELSE "0x1"
      /\ Len(x.logs) = Len(us[i].receipt) /\ Listed(x.logs)
      /\ \A k \in 1..Len(us[i].receipt) : x.logs[k] = us[i].receipt[k].data
  BY <1>1, Zenon DEF Displays
<1>3. us[i].hash \in DOMAIN Receipts(b) /\ Receipts(b)[us[i].hash] = r
  BY <1>1, ReceiptsShown
<1>4. PICK m, base : m = Len(us[i].receipt) /\ base = start[i-1]
  OBVIOUS
<1>5. m \in Nat /\ base \in Nat /\ LogsBefore(b, i) = base
  BY <1>2, <1>4, ListedFacts, LogsBeforeAre
<1>6. r = [block |-> b.hash, trx |-> x.hash, status |-> x.status,
           logs |-> [k \in 1..m |-> [data |-> x.logs[k], logIndex |-> base + k - 1]]]
  BY <1>1, <1>2, <1>4, <1>5 DEF RPCReceipt
<1>7. /\ r.status = x.status /\ Len(r.logs) = m
      /\ \A k \in 1..m : r.logs[k].data = x.logs[k] /\ r.logs[k].logIndex = base + k - 1
  BY <1>5, <1>6
<1>8. t = [hash |-> x.hash, to |-> x.to, index |-> x.index, begin |-> o,
           receipt |-> ToFirehoseLogs(r.logs, o + 1),
           status |-> ToFirehoseReceiptStatus(r.status),
           end |-> o + 1 + Len(r.logs)]
  BY <1>1, <1>2, <1>3, Zenon DEF ConvertTrx
<1>9. /\ t.hash = x.hash /\ t.to = x.to /\ t.index = x.index
      /\ t.receipt = ToFirehoseLogs(r.logs, o + 1)
      /\ t.status = ToFirehoseReceiptStatus(r.status)
  BY <1>8
<1>10. t.status = IF us[i].calls[1].statusFailed THEN "FAILED" ELSE "SUCCEEDED"
  BY <1>2, <1>7, <1>9 DEF ToFirehoseReceiptStatus
<1>11. PICK p, logs : p = t.receipt /\ logs = r.logs
  OBVIOUS
<1>12. p = [k \in 1..Len(logs) |->
              [data |-> logs[k].data, index |-> logs[k].logIndex,
               blockIndex |-> logs[k].logIndex, ord |-> o + 1 + k - 1]]
  BY <1>9, <1>11 DEF ToFirehoseLogs
<1>13. Len(p) = m /\ \A k \in 1..m : p[k].data = logs[k].data /\ p[k].blockIndex = logs[k].logIndex
  <2>1. Len(logs) = m
    BY <1>7, <1>11
  <2>2. \A k \in 1..m : p[k] = [data |-> logs[k].data, index |-> logs[k].logIndex,
                                blockIndex |-> logs[k].logIndex, ord |-> o + 1 + k - 1]
    BY <1>12, <2>1
  <2>3. p = [k \in 1..m |-> p[k]]
    BY <1>12, <2>1
  <2>4. Len(p) = m
    BY <1>5, <2>3, Tabled
  <2> QED BY <2>2, <2>4
<1> QED BY <1>2, <1>4, <1>7, <1>9, <1>10, <1>11, <1>13 DEF Shows

\* Once both sides are stripped the statuses are left to compare.
LEMMA StrippedAlike ==
    ASSUME NEW u, NEW from \in Nat, NumberedFrom(u, from, Len(u.receipt)),
           NEW t, Shows(t, u, from), NEW hashes, u.hash \in hashes <=> u.to = NoAddress
    PROVE  StripTrace(u, hashes) = StripTrace(t, {}) <=> u.status = t.status
<1>1. PICK p, q, n : p = u.receipt /\ q = t.receipt /\ n = Len(u.receipt)
  OBVIOUS
<1>2. Len(p) = n /\ Len(q) = n
      /\ \A k \in 1..n : q[k].data = p[k].data /\ q[k].blockIndex = p[k].blockIndex
  BY <1>1 DEF NumberedFrom, Shows
<1>3. MapSeq(p, StripLog) = MapSeq(q, StripLog)
  BY <1>2 DEF MapSeq, StripLog
<1>4. PICK logs : logs = MapSeq(p, StripLog)
  OBVIOUS
<1>5. PICK to : to = IF u.hash \in hashes THEN NoAddress ELSE u.to
  OBVIOUS
<1>6. to = u.to
  BY <1>5
<1>7. StripTrace(u, hashes) = [hash |-> u.hash, index |-> u.index, status |-> u.status,
                               to |-> u.to, logs |-> logs]
  <2>1. StripTrace(u, hashes) = [hash |-> u.hash, index |-> u.index, status |-> u.status,
                                 to |-> to, logs |-> logs]
    BY <1>1, <1>4, <1>5, Zenon DEF StripTrace
  <2> QED BY <1>6, <2>1
<1>8. StripTrace(t, {}) = [hash |-> u.hash, index |-> u.index, status |-> t.status,
                           to |-> u.to, logs |-> logs]
  <2>1. PICK none : none = IF t.hash \in {} THEN NoAddress ELSE t.to
    OBVIOUS
  <2>2. none = u.to
    BY <2>1 DEF Shows
  <2>3. StripTrace(t, {}) = [hash |-> t.hash, index |-> t.index, status |-> t.status,
                             to |-> none, logs |-> logs]
    BY <1>1, <1>3, <1>4, <2>1, Zenon DEF StripTrace
  <2> QED BY <2>2, <2>3 DEF Shows
<1> QED BY <1>7, <1>8

\* A transaction without a recipient is one that hashesWithoutTo has.
LEMMA WithoutTo ==
    ASSUME NEW us, Listed(us), NEW b, Displays(b, us), NEW i \in 1..Len(us)
    PROVE  us[i].hash \in HashesWithoutTo(b) <=> us[i].to = NoAddress
<1>1. PICK bts : bts = b.trxs
  OBVIOUS
<1>2. /\ Len(bts) = Len(us)
      /\ \A j \in 1..Len(us) : bts[j].hash = us[j].hash /\ bts[j].to = us[j].to
      /\ \A j, k \in 1..Len(us) : us[j].hash = us[k].hash => j = k
  BY <1>1, Zenon DEF Displays
<1>3. HashesWithoutTo(b) = {bts[k].hash : k \in {j \in 1..Len(us) : bts[j].to = NoAddress}}
  BY <1>1, <1>2 DEF HashesWithoutTo
<1> QED BY <1>2, <1>3

\* The comparison of a block with what the endpoint has of it.
LEMMA Compared ==
    ASSUME NEW us, Stood(us), \A i \in 1..Len(us) : Judged(us[i]),
           NEW b, Listed(b.trxs), Displays(b, us)
    PROVE  CompareFirehoseToRPC(us, b) = (\A t \in ToSet(us) : t.status # "REVERTED")
<1>1. PICK n, hashes, traces : /\ n = Len(us) /\ hashes = HashesWithoutTo(b)
                               /\ traces = ToFirehoseTraces(b.trxs, Receipts(b))
  OBVIOUS
<1>2. Listed(us) /\ ToSet(us) = Elements(us) /\ n \in Nat
  BY <1>1, ListedFacts DEF Stood
<1>3. PICK start : /\ Starts(start, AllReceipts(us))
                   /\ \A i \in 1..n : StoodAt(us[i], start[i-1])
  BY <1>1, Zenon DEF Stood
<1>4. Len(b.trxs) = n
  BY <1>1, Zenon DEF Displays
<1>5. /\ Listed(traces) /\ Len(traces) = n
      /\ \A i \in 1..n : \E o : traces[i] = ConvertTrx(b.trxs[i], Receipts(b), o)
  <2>1. Countable(Receipts(b))
    BY <1>2, ReceiptsCounted
  <2>2. PICK got, bts : got = Receipts(b) /\ bts = b.trxs
    OBVIOUS
  <2>3. /\ Listed(traces) /\ Len(traces) = Len(bts)
        /\ \A i \in 1..Len(bts) : \E o : traces[i] = ConvertTrx(bts[i], got, o)
    BY <1>1, <1>2, <1>4, <2>1, <2>2, TracesInPlace
  <2> QED BY <1>4, <2>2, <2>3
<1>6. ASSUME NEW i \in 1..n
      PROVE  StripTrace(us[i], hashes) = StripTrace(traces[i], {}) <=> us[i].status # "REVERTED"
  <2>1. PICK o : traces[i] = ConvertTrx(b.trxs[i], Receipts(b), o)
    BY <1>5
  <2>2. PICK u, t, from : u = us[i] /\ t = traces[i] /\ from = start[i-1]
    OBVIOUS
  <2>3. Shows(t, u, from)
    <3>1. i \in 1..Len(us)
      BY <1>1
    <3>2. t = ConvertTrx(b.trxs[i], Receipts(b), o)
      BY <2>1, <2>2
    <3>3. Starts(start, AllReceipts(us))
      BY <1>3
    <3>4. Shows(t, us[i], start[i-1])
      BY <1>2, <3>1, <3>2, <3>3, TraceShown
    <3> QED BY <2>2, <3>4
  <2>4. from \in Nat
    BY <1>1, <1>2, <1>3, <2>2, LogsBeforeAre
  <2>5. NumberedFrom(u, from, Len(u.receipt))
    BY <1>3, <2>2 DEF StoodAt
  <2>6. u.hash \in hashes <=> u.to = NoAddress
    BY <1>1, <1>2, <2>2, WithoutTo
  <2>7. StripTrace(u, hashes) = StripTrace(t, {}) <=> u.status = t.status
    BY <2>3, <2>4, <2>5, <2>6, StrippedAlike
  <2>8. u.status = t.status <=> u.status # "REVERTED"
    <3>1. Judged(u)
      BY <1>1, <2>2
    <3> QED BY <2>3, <3>1 DEF Judged, Shows
  <2> QED BY <2>2, <2>7, <2>8
<1>7. CompareFirehoseToRPC(us, b) =
          ([i \in 1..n |-> StripTrace(us[i], hashes)] = [i \in 1..n |-> StripTrace(traces[i], {})])
  BY <1>1, <1>5 DEF CompareFirehoseToRPC, RpcToEthBlock, MapSeq
<1>8. CompareFirehoseToRPC(us, b) =
          (\A i \in 1..n : StripTrace(us[i], hashes) = StripTrace(traces[i], {}))
  <2>1. PICK p, q : /\ p = [i \in 1..n |-> StripTrace(us[i], hashes)]
                    /\ q = [i \in 1..n |-> StripTrace(traces[i], {})]
    OBVIOUS
  <2>2. (p = q) <=> \A i \in 1..n : p[i] = q[i]
    BY <2>1
  <2>3. (p = q) <=> \A i \in 1..n : StripTrace(us[i], hashes) = StripTrace(traces[i], {})
    BY <2>1, <2>2
  <2> QED BY <1>7, <2>1, <2>3
<1>9. (\A t \in ToSet(us) : t.status # "REVERTED") <=> \A i \in 1..n : us[i].status # "REVERTED"
  BY <1>1, <1>2 DEF Elements
<1>10. (\A i \in 1..n : StripTrace(us[i], hashes) = StripTrace(traces[i], {})) <=>
          (\A t \in ToSet(us) : t.status # "REVERTED")
  BY <1>6, <1>9, Zenon
<1>11. (\A i \in 1..n : StripTrace(us[i], hashes) = StripTrace(traces[i], {})) =
          (\A t \in ToSet(us) : t.status # "REVERTED")
  BY <1>10
<1> QED BY <1>8, <1>11, Zenon

-----------------------------------------------------------------------------
(***************************************************************************)
(* What execution has to keep for the two to be compared.                  *)
(***************************************************************************)
\* A transaction that has calls, and its status to come.
Unjudged(t) == t.status = "UNKNOWN" /\ Len(t.calls) # 0

ReadInv ==
    /\ \A i \in 1..Len(trxs) : Unjudged(trxs[i])
    /\ open # Nil => Unjudged(open)
    /\ (Normalized /\ ~features.combine) =>
           Rereads(Out, trxs) /\ \A i \in 1..Len(Out) : Judged(Out[i])

\* A step inside a transaction.
LEMMA ReadKept ==
    ASSUME ReadInv, Building, open # Nil, UNCHANGED <<trxs, result>>,
           TrxFields \subseteq DOMAIN open,
           NEW calls, open' = [open EXCEPT !.calls = calls], Len(calls) # 0
    PROVE  ReadInv'
<1>1. open'.calls = calls /\ open'.status = open.status
  BY DEF TrxFields
<1>2. ~Normalized'
  BY DEF Normalized, Building
<1>3. Unjudged(open')
  BY <1>1 DEF ReadInv, Unjudged
<1>4. \A i \in 1..Len(trxs') : Unjudged(trxs'[i])
  BY DEF ReadInv
<1> QED BY <1>2, <1>3, <1>4, Zenon DEF ReadInv

LEMMA ReadBegins ==
    ASSUME ReadInv, NEW kind, NEW index, BeginTrx(kind, index)
    PROVE  ReadInv'
<1>1. PICK hash, a, start, c, root :
          /\ root = [NewCall(1, "CALL", a, 0) EXCEPT !.caller = c]
          /\ open' = [NewTrx(hash, index, a, start, root, 1, FALSE) EXCEPT !.from = c]
          /\ Building /\ UNCHANGED <<trxs, result>>
  <2>1. PICK hash, a, start, c :
            /\ open' = [NewTrx(hash, index, a, start, [NewCall(1, "CALL", a, 0) EXCEPT !.caller = c],
                               1, FALSE) EXCEPT !.from = c]
            /\ Building /\ UNCHANGED <<trxs, result>>
    BY Zenon DEF BeginTrx
  <2> QED BY <2>1, Zenon
<1>2. Unjudged(open')
  <2>1. PICK t : t = [NewTrx(hash, index, a, start, root, 1, FALSE) EXCEPT !.from = c]
    OBVIOUS
  <2>2. t.calls = <<root>> /\ t.status = "UNKNOWN"
    BY <2>1 DEF NewTrx
  <2>3. Len(<<root>>) # 0
    OBVIOUS
  <2>4. Unjudged(t)
    BY <2>2, <2>3, Zenon DEF Unjudged
  <2> QED BY <1>1, <2>1, <2>4, Zenon
<1>3. ~Normalized'
  BY <1>1 DEF Normalized, Building
<1>4. \A i \in 1..Len(trxs') : Unjudged(trxs'[i])
  BY <1>1 DEF ReadInv
<1> QED BY <1>2, <1>3, <1>4, Zenon DEF ReadInv

LEMMA ReadRuns ==
    ASSUME ReadInv, NodeInv, NEW type, RunCall(type)
    PROVE  ReadInv'
<1>1. PICK call : /\ Building /\ open # Nil
                  /\ open' = [open EXCEPT !.calls = Append(open.calls, call)]
                  /\ UNCHANGED <<trxs, result>>
  BY Zenon DEF RunCall
<1>2. TrxFields \subseteq DOMAIN open /\ Listed(open.calls)
  BY <1>1 DEF NodeInv, NodeTrx, NodeCalls
<1>3. PICK calls, old : old = open.calls /\ calls = Append(old, call)
  OBVIOUS
<1>4. Len(old) \in Nat /\ Len(calls) = Len(old) + 1
  <2>1. \E S : old \in Seq(S)
    BY <1>2, <1>3 DEF Listed
  <2> QED BY <1>3, <2>1, AppendAny
<1>5. Len(calls) # 0
  BY <1>4
<1> QED BY <1>1, <1>2, <1>3, <1>5, ReadKept

\* A step of one call.
LEMMA ReadCall ==
    ASSUME ReadInv, NodeInv, Building, open # Nil, UNCHANGED <<trxs, result>>,
           NEW k, NEW c, open' = [open EXCEPT !.calls = [open.calls EXCEPT ![k] = c]]
    PROVE  ReadInv'
<1>1. TrxFields \subseteq DOMAIN open /\ Listed(open.calls) /\ Len(open.calls) # 0
  BY DEF NodeInv, NodeTrx, NodeCalls, ReadInv, Unjudged
<1>2. PICK old, calls, n : old = open.calls /\ calls = [old EXCEPT ![k] = c] /\ n = Len(old)
  OBVIOUS
<1>3. n \in Nat /\ DOMAIN old = 1..n
  BY <1>1, <1>2, ListedFacts
<1>4. calls = [i \in 1..n |-> calls[i]]
  BY <1>2, <1>3
<1>5. Len(calls) = n
  BY <1>3, <1>4, Tabled
<1> QED BY <1>1, <1>2, <1>5, ReadKept

LEMMA ReadAdds ==
    ASSUME ReadInv, NodeInv, NEW data, AddLog(data)
    PROVE  ReadInv'
<1>1. PICK k, log : /\ Building /\ open # Nil
                    /\ open' = [open EXCEPT !.calls[k].logs = Append(@, log)]
                    /\ UNCHANGED <<trxs, result>>
  BY Zenon DEF AddLog
<1>2. PICK c : c = [open.calls[k] EXCEPT !.logs = Append(open.calls[k].logs, log)]
  OBVIOUS
<1>3. open' = [open EXCEPT !.calls = [open.calls EXCEPT ![k] = c]]
  BY <1>1, <1>2, Zenon
<1> QED BY <1>1, <1>3, ReadCall

LEMMA ReadCallEnds ==
    ASSUME ReadInv, NodeInv, NEW ending, EndCall(ending)
    PROVE  ReadInv'
<1>1. PICK k : /\ Building /\ open # Nil
               /\ open' = [open EXCEPT !.calls[k] =
                              [@ EXCEPT !.end = clock, !.statusFailed = ending # "ok",
                                        !.statusReverted = ending = "reverted"]]
               /\ UNCHANGED <<trxs, result>>
  BY Zenon DEF EndCall
<1>2. PICK failed, reverted : failed = (ending # "ok") /\ reverted = (ending = "reverted")
  OBVIOUS
<1>3. PICK c : c = [open.calls[k] EXCEPT !.end = clock, !.statusFailed = failed,
                                         !.statusReverted = reverted]
  OBVIOUS
<1>4. open' = [open EXCEPT !.calls = [open.calls EXCEPT ![k] = c]]
  BY <1>1, <1>2, <1>3, Zenon
<1> QED BY <1>1, <1>4, ReadCall

LEMMA ReadEnds ==
    ASSUME ReadInv, NodeInv, EndTrx
    PROVE  ReadInv'
<1>1. PICK receipt, t : /\ t = [open EXCEPT !.end = clock, !.receipt = receipt]
                        /\ Building /\ open # Nil /\ trxs' = Append(trxs, t) /\ open' = Nil
                        /\ UNCHANGED result
  BY Zenon DEF EndTrx
<1>2. TrxFields \subseteq DOMAIN open /\ Len(trxs) \in Nat
  BY <1>1, ListedFacts DEF NodeInv, NodeTrx, NodeTrxs
<1>3. t.status = open.status /\ t.calls = open.calls
  BY <1>1, <1>2 DEF TrxFields
<1>4. Unjudged(t)
  BY <1>1, <1>3 DEF ReadInv, Unjudged
<1>5. /\ Len(trxs') = Len(trxs) + 1 /\ trxs'[Len(trxs) + 1] = t
      /\ \A k \in 1..Len(trxs) : trxs'[k] = trxs[k]
  BY <1>1, AppendAny DEF NodeInv, NodeTrxs, Listed
<1>6. \A i \in 1..Len(trxs') : i \in 1..Len(trxs) \/ i = Len(trxs) + 1
  BY <1>2, <1>5
<1>7. \A i \in 1..Len(trxs') : Unjudged(trxs'[i])
  BY <1>4, <1>5, <1>6 DEF ReadInv
<1>8. ~Normalized'
  BY <1>1 DEF Normalized, Building
<1> QED BY <1>1, <1>7, <1>8, Zenon DEF ReadInv

\* The transactions of a node can all be read.
LEMMA TrxsUnread ==
    ASSUME ReadInv, NodeInv, TraceInv
    PROVE  Unread(trxs)
<1>1. ASSUME NEW i \in 1..Len(trxs)
      PROVE  Readable(trxs[i]) /\ trxs[i].status = "UNKNOWN" /\ trxs[i].index \in Nat
  <2>1. NodeTrx(trxs[i]) /\ Unjudged(trxs[i]) /\ Traced(trxs[i], {})
    BY DEF NodeInv, NodeTrxs, ReadInv, TraceInv
  <2>2. PICK t : t = trxs[i]
    OBVIOUS
  <2>3. /\ TrxFields \subseteq DOMAIN t /\ t.index \in Nat /\ Listed(t.calls)
        /\ \A j \in 1..Len(t.calls) : CallFields \subseteq DOMAIN t.calls[j]
    BY <2>1, <2>2 DEF NodeTrx, NodeCalls
  <2>4. t.status = "UNKNOWN" /\ t.calls # << >>
    BY <2>1, <2>2 DEF Unjudged
  <2>5. Listed(t.receipt) /\ \A k \in 1..Len(t.receipt) : "data" \in DOMAIN t.receipt[k]
    <3>1. Listed(t.receipt) /\ \A k \in 1..Len(t.receipt) : IsLog(t.receipt[k])
      BY <2>1, <2>2 DEF Traced, AllLogs
    <3>2. ASSUME NEW k \in 1..Len(t.receipt) PROVE "data" \in DOMAIN t.receipt[k]
      <4>1. PICK l : l = t.receipt[k]
        OBVIOUS
      <4>2. IsLog(l)
        BY <3>1, <4>1
      <4>3. "data" \in DOMAIN l
        BY <4>2 DEF IsLog
      <4> QED BY <4>1, <4>3
    <3> QED BY <3>1, <3>2
  <2> QED BY <2>2, <2>3, <2>4, <2>5, Zenon DEF Readable
<1> QED BY <1>1 DEF Unread, NodeInv, NodeTrxs

LEMMA ReadNormalizes ==
    ASSUME ReadInv, NodeInv, LogInv, TraceInv, Normalize
    PROVE  ReadInv'
<1>1. /\ open = Nil /\ UNCHANGED <<features, trxs, open, clock, changes>>
      /\ \E block, first : /\ {"trxs", "ver", "changes"} \subseteq DOMAIN block
                           /\ block.trxs = trxs /\ first \in Nat
                           /\ Handed(block.trxs, features)
                           /\ result' = NormalizeInPlace(block, features, first)
  BY BlockHanded
<1>2. PICK block, first, chain : /\ {"trxs", "changes", "ver"} \subseteq DOMAIN block
                                 /\ block.trxs = trxs /\ chain = features
                                 /\ result' = NormalizeInPlace(block, chain, first)
  BY <1>1
<1>3. Unread(block.trxs)
  BY <1>2, TrxsUnread
<1>4. PICK us : us = NormalizeInPlace(block, chain, first).block.trxs
  OBVIOUS
<1>5. ~chain.combine => Rereads(us, block.trxs) /\ \A i \in 1..Len(us) : Judged(us[i])
  <2>1. SUFFICES ASSUME ~chain.combine
                 PROVE  LET vs == NormalizeInPlace(block, chain, first).block.trxs IN
                        Rereads(vs, block.trxs) /\ \A i \in 1..Len(vs) : Judged(vs[i])
    BY <1>4
  <2> QED BY <1>2, <1>3, <2>1, NormalizedReads
<1>6. Out' = us /\ trxs' = trxs /\ features' = features /\ open' = Nil
  BY <1>1, <1>2, <1>4, Zenon DEF Out
<1>7. \A i \in 1..Len(trxs') : Unjudged(trxs'[i])
  BY <1>6 DEF ReadInv
<1> QED BY <1>2, <1>5, <1>6, <1>7, Zenon DEF ReadInv

LEMMA ReadStep ==
    ASSUME ReadInv, NodeInv, LogInv, TraceInv, [Next]_vars
    PROVE  ReadInv'
<1>1. CASE UNCHANGED vars
  BY <1>1, Zenon DEF vars, ReadInv, Normalized, Out
<1> QED BY <1>1, ReadBegins, ReadRuns, ReadAdds, ReadCallEnds, ReadEnds, ReadNormalizes,
           Zenon DEF Next

LEMMA ReadAlways == Spec => []ReadInv
<1>1. Init => ReadInv
  <2> SUFFICES ASSUME Init PROVE ReadInv
    OBVIOUS
  <2>1. trxs = << >> /\ open = Nil /\ result = Nil /\ Len(<< >>) = 0
    BY DEF Init
  <2>2. \A i \in 1..Len(trxs) : FALSE
    BY <2>1
  <2> QED BY <2>1, <2>2, Zenon DEF ReadInv, Normalized
<1>2. ReadInv /\ NodeInv /\ LogInv /\ TraceInv /\ [Next]_vars => ReadInv'
  BY ReadStep
<1> QED BY <1>1, <1>2, NodeAlways, LogAlways, TraceAlways, PTL DEF Spec

\* The transaction of the node at each index, and what the endpoint has of one.
ExecutedAt(i) == CHOOSE t \in ToSet(trxs) : t.index = i - 1

ShownTrx(t) ==
    [hash |-> t.hash, to |-> t.to, index |-> t.index,
     status |-> IF t.calls[1].statusFailed THEN "0x0" ELSE "0x1",
     logs |-> MapSeq(t.receipt, LAMBDA l : l.data)]

\* With combining off the transactions of the result are those of the node, each one
\* where its index says.
LEMMA ExecutedFound ==
    ASSUME NodeInv, PlaceInv, ReadInv, Normalized, ~features.combine
    PROVE  /\ Len(Out) = Len(trxs)
           /\ \A i \in 1..Len(Out) : Reads(Out[i], ExecutedAt(i))
<1>1. PICK n, us, ts : n = Len(Out) /\ us = Out /\ ts = trxs
  OBVIOUS
<1>2. Placing(us, ts, features.combine) /\ Contiguous(us)
  BY <1>1 DEF PlaceInv, Arranged
<1>3. Rereads(us, ts)
  BY <1>1 DEF ReadInv
<1>4. /\ Listed(ts) /\ Len(ts) = n /\ ToSet(ts) = {ts[j] : j \in 1..n}
      /\ \A j \in 1..n : ts[j].hash = j
  <2>1. NodeTrxs(ts) /\ Len(ts) = n
    BY <1>1, <1>3 DEF NodeInv, Rereads
  <2>2. Listed(ts) /\ ToSet(ts) = Elements(ts)
    BY <2>1, ListedFacts DEF NodeTrxs
  <2> QED BY <2>1, <2>2 DEF NodeTrxs, Elements
<1>5. \A i \in 1..n : \E j \in 1..n : Reads(us[i], ts[j])
  <2>1. Elements(ts) = {ts[j] : j \in 1..n}
    BY <1>4 DEF Elements
  <2> QED BY <1>1, <1>3, <2>1 DEF Rereads
<1>6. ASSUME NEW i \in 1..n, NEW j \in 1..n, Reads(us[i], ts[j])
      PROVE  us[i].hash = j /\ ts[j].index = i - 1
  <2>1. us[i].hash = ts[j].hash /\ us[i].index = ts[j].index
    BY <1>6 DEF Reads
  <2> QED BY <1>1, <1>2, <1>4, <2>1 DEF Contiguous
<1>7. ASSUME NEW i \in 1..n
      PROVE  Reads(us[i], ExecutedAt(i))
  <2>1. PICK j \in 1..n : Reads(us[i], ts[j])
    BY <1>5
  <2>2. us[i].hash = j /\ ts[j].index = i - 1
    BY <1>6, <2>1
  <2>3. ASSUME NEW k \in 1..n, ts[k].index = i - 1
        PROVE  k = j
    <3>1. PICK h \in 1..n : us[h].hash = k
      BY <1>1, <1>2, <1>4 DEF Placing
    <3>2. PICK m \in 1..n : Reads(us[h], ts[m])
      BY <1>5
    <3>3. us[h].hash = m /\ ts[m].index = h - 1
      BY <1>6, <3>2
    <3>4. n \in Nat
      BY <1>4, ListedFacts
    <3>5. h = i
      BY <2>3, <3>1, <3>3, <3>4
    <3> QED BY <2>2, <3>1, <3>5
  <2>4. PICK t : t = ExecutedAt(i)
    OBVIOUS
  <2>5. t = CHOOSE x \in ToSet(ts) : x.index = i - 1
    BY <1>1, <2>4, Zenon DEF ExecutedAt
  <2>6. ts[j] \in ToSet(ts)
    BY <1>4
  <2>7. t \in ToSet(ts) /\ t.index = i - 1
    BY <2>2, <2>5, <2>6, Zenon
  <2>8. t = ts[j]
    BY <1>4, <2>3, <2>7
  <2> QED BY <2>1, <2>4, <2>8
<1> QED BY <1>1, <1>4, <1>7

\* So the endpoint shows the block that came out.
LEMMA EndpointDisplays ==
    ASSUME NodeInv, PlaceInv, ReadInv, Normalized, ~features.combine
    PROVE  Listed(Shown.trxs) /\ Displays(Shown, Out)
<1>1. PICK n, us, ex : n = Len(Out) /\ us = Out /\ ex = [i \in 1..n |-> ExecutedAt(i)]
  OBVIOUS
<1>2. Len(trxs) = n /\ \A i \in 1..n : Reads(us[i], ex[i])
  BY <1>1, ExecutedFound
<1>3. n \in Nat
  BY <1>2, ListedFacts DEF NodeInv, NodeTrxs
<1>4. PICK bts : bts = [i \in 1..n |-> ShownTrx(ExecutedAt(i))]
  OBVIOUS
<1>5. Shown = [hash |-> 1, num |-> 1, parent |-> 0, trxs |-> bts]
  <2>1. Shown = [hash |-> 1, num |-> 1, parent |-> 0,
                 trxs |-> [i \in 1..Len(trxs) |-> ShownTrx(ExecutedAt(i))]]
    BY Zenon DEF Shown, ShownTrx, ExecutedAt
  <2> QED BY <1>2, <1>4, <2>1
<1>6. Shown.trxs = bts
  BY <1>5
<1>7. bts = [i \in 1..n |-> bts[i]] /\ \A i \in 1..n : bts[i] = ShownTrx(ex[i])
  BY <1>1, <1>4
<1>8. Listed(bts) /\ Len(bts) = n
  BY <1>3, <1>7, Tabled
<1>9. ASSUME NEW i \in 1..n
      PROVE  /\ bts[i].hash = us[i].hash /\ bts[i].index = us[i].index
             /\ bts[i].to = us[i].to
             /\ bts[i].status = IF us[i].calls[1].statusFailed THEN "0x0" ELSE "0x1"
             /\ Listed(bts[i].logs) /\ Len(bts[i].logs) = Len(us[i].receipt)
             /\ \A k \in 1..Len(us[i].receipt) : bts[i].logs[k] = us[i].receipt[k].data
  <2>1. PICK t, u, x : t = ex[i] /\ u = us[i] /\ x = bts[i]
    OBVIOUS
  <2>2. Reads(u, t) /\ x = ShownTrx(t)
    BY <1>2, <1>7, <2>1
  <2>3. /\ u.hash = t.hash /\ u.index = t.index /\ u.to = t.to
        /\ u.calls[1].statusFailed = t.calls[1].statusFailed
        /\ SaysSame(u.receipt, t.receipt) /\ Listed(u.receipt)
    BY <2>2 DEF Reads, Readable
  <2>4. /\ x.hash = t.hash /\ x.to = t.to /\ x.index = t.index
        /\ x.status = IF t.calls[1].statusFailed THEN "0x0" ELSE "0x1"
        /\ x.logs = MapSeq(t.receipt, LAMBDA l : l.data)
    BY <2>2 DEF ShownTrx
  <2>5. PICK p, m, logs : p = t.receipt /\ m = Len(p) /\ logs = x.logs
    OBVIOUS
  <2>6. m \in Nat /\ Len(u.receipt) = m /\ \A k \in 1..m : u.receipt[k].data = p[k].data
    BY <2>3, <2>5, ListedFacts DEF SaysSame
  <2>7. logs = [k \in 1..m |-> p[k].data]
    BY <2>4, <2>5 DEF MapSeq
  <2>8. logs = [k \in 1..m |-> logs[k]] /\ \A k \in 1..m : logs[k] = p[k].data
    BY <2>7
  <2>9. Listed(logs) /\ Len(logs) = m
    BY <2>6, <2>8, Tabled
  <2> QED BY <2>1, <2>3, <2>4, <2>5, <2>6, <2>8, <2>9
<1>10. \A i, j \in 1..n : us[i].hash = us[j].hash => i = j
  BY <1>1, Zenon DEF PlaceInv, Arranged, Placing
<1>11. Displays(Shown, us)
  <2>1. PICK b : b = Shown
    OBVIOUS
  <2>2. b.trxs = bts /\ Len(us) = n
    BY <1>1, <1>6, <2>1
  <2>3. Displays(b, us)
    BY <1>8, <1>9, <1>10, <2>2, Zenon DEF Displays
  <2> QED BY <2>1, <2>3
<1> QED BY <1>1, <1>6, <1>8, <1>11

\* Where no system transaction is combined, a block of the console reader, the system
\* calls that no endpoint shows left out (stripFirehoseBlock keeps them), and the same
\* block fetched from the endpoint of the node are equal once both are stripped, but for
\* the status of a reverted transaction: whatever the passes of normalizeInPlace did to
\* the order of the transactions, the numbers of their logs and their statuses, it is
\* what RpcToEthBlock computes from the receipts.
THEOREM ComparisonFlagsOnlyReverts ==
    ASSUME CombinesSystem
    PROVE  Spec => []ComparisonFlagsReverts
<1>1. NodeInv /\ PlaceInv /\ TraceInv /\ ReadInv => ComparisonFlagsReverts
  <2> SUFFICES ASSUME NodeInv, PlaceInv, TraceInv, ReadInv, Normalized, ~features.combine
               PROVE  CompareFirehoseToRPC(Out, Shown) =
                          (\A t \in ToSet(Out) : t.status # "REVERTED")
    BY Zenon DEF ComparisonFlagsReverts
  <2>1. Stood(Out)
    BY DEF TraceInv
  <2>2. \A i \in 1..Len(Out) : Judged(Out[i])
    BY DEF ReadInv
  <2>3. Listed(Shown.trxs) /\ Displays(Shown, Out)
    BY EndpointDisplays
  <2>4. PICK us, b : us = Out /\ b = Shown
    OBVIOUS
  <2>5. CompareFirehoseToRPC(us, b) = (\A t \in ToSet(us) : t.status # "REVERTED")
    BY <2>1, <2>2, <2>3, <2>4, Compared
  <2> QED BY <2>4, <2>5
<1> QED BY <1>1, NodeAlways, PlaceAlways, TraceAlways, ReadAlways, PTL
=============================================================================

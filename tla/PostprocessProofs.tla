-------------------------- MODULE PostprocessProofs --------------------------
(***************************************************************************)
(* Facts about the passes of normalizeInPlace that hold for any block, and *)
(* so for one a node is known to have executed and for one the console     *)
(* reader assembled; and, before them, the facts about naturals, recursive *)
(* functions and sequences that the proofs of several components need.     *)
(* Induction is over a set of naturals, and recursion over a function      *)
(* "step", so that both can be cited like any other fact.                  *)
(*                                                                         *)
(* After them come lists of logs, which calls and receipts have each on    *)
(* their own, the tree of calls that every pass carries along, and what a  *)
(* pass leaves to be read of a transaction; last the traces that           *)
(* RpcToEthBlock makes.                                                    *)
(***************************************************************************)
EXTENDS Postprocess, RPCBlock, SequenceTheorems, FiniteSetTheorems, WellFoundedInduction, TLAPS

-----------------------------------------------------------------------------
(***************************************************************************)
(* Induction, recursion and sequences.                                     *)
(***************************************************************************)
\* A set of naturals that is not empty has a least element.
LEMMA LeastNatural ==
    ASSUME NEW S \in SUBSET Nat, S # {}
    PROVE  \E k \in S : \A j \in S : k <= j
<1>1. PICK k \in S : \A j \in S : <<j, k>> \notin OpToRel(<, Nat)
  BY WFMin, NatLessThanWellFounded, Zenon
<1>2. \A j \in S : ~(j < k)
  BY <1>1, Zenon DEF OpToRel
<1> QED BY <1>2

\* Induction.
LEMMA NaturalsOf ==
    ASSUME NEW P, 0 \in P, \A n \in Nat : n \in P => n + 1 \in P
    PROVE  \A n \in Nat : n \in P
<1> DEFINE Out == {n \in Nat : n \notin P}
<1> SUFFICES ASSUME Out # {} PROVE FALSE
  OBVIOUS
<1>1. PICK k \in Out : \A j \in Out : k <= j
  BY LeastNatural
<1>2. k # 0 /\ k \in Nat
  OBVIOUS
<1>3. k - 1 \in Nat /\ k - 1 \notin Out
  BY <1>1, <1>2
<1>4. (k - 1) + 1 \in P
  BY <1>3
<1> QED BY <1>2, <1>4

\* F is what the recursion from base with step defines, up to m, when the value at
\* i comes from the one at link[i].
Climbs(F, m, base, step, link) ==
    F[0] = base /\ \A i \in 1..m : F[i] = step[<<F[link[i]], i>>]

LEMMA OneMore ==
    ASSUME NEW S, NEW n \in Nat, NEW base \in S, NEW step \in [S \X (1..n) -> S],
           NEW link, \A i \in 1..n : link[i] \in 0..(i - 1),
           NEW m \in Nat, m + 1 <= n,
           NEW F \in [0..m -> S], Climbs(F, m, base, step, link)
    PROVE  \E G \in [0..(m + 1) -> S] : Climbs(G, m + 1, base, step, link)
<1> DEFINE last == step[<<F[link[m + 1]], m + 1>>]
           G == [i \in 0..(m + 1) |-> IF i <= m THEN F[i] ELSE last]
<1>0. m + 1 \in 1..n /\ link[m + 1] \in 0..m
  <2>1. m + 1 \in 1..n
    OBVIOUS
  <2>2. link[m + 1] \in 0..((m + 1) - 1)
    BY <2>1
  <2> QED BY <2>1, <2>2
<1>1. last \in S
  <2>1. F[link[m + 1]] \in S
    BY <1>0
  <2>2. <<F[link[m + 1]], m + 1>> \in S \X (1..n)
    BY <1>0, <2>1
  <2> QED BY <2>2
<1>2. G[m + 1] = last
  OBVIOUS
<1>3. \A i \in 0..m : G[i] = F[i]
  OBVIOUS
<1>4. G \in [0..(m + 1) -> S]
  BY <1>1
<1> HIDE DEF G
<1>5. ASSUME NEW i \in 1..(m + 1) PROVE G[i] = step[<<G[link[i]], i>>]
  <2>1. CASE i <= m
    <3>1. i \in 1..m /\ i \in 0..m /\ i \in 1..n
      BY <2>1
    <3>2. link[i] \in 0..m
      <4>1. link[i] \in 0..(i - 1)
        BY <3>1
      <4> QED BY <3>1, <4>1
    <3>3. G[i] = F[i] /\ G[link[i]] = F[link[i]]
      BY <1>3, <3>1, <3>2
    <3> QED BY <3>1, <3>3 DEF Climbs
  <2>2. CASE i = m + 1
    <3>1. G[link[i]] = F[link[m + 1]]
      BY <1>0, <1>3, <2>2
    <3> QED BY <1>2, <2>2, <3>1
  <2> QED BY <2>1, <2>2
<1>6. G[0] = base
  BY <1>3 DEF Climbs
<1> QED BY <1>4, <1>5, <1>6 DEF Climbs

\* What a recursive definition defines on the nodes of a forest numbered 1..n, each
\* after its parent link[i]; 0 is above the roots.
LEMMA RecursionOnTree ==
    ASSUME NEW S, NEW n \in Nat, NEW base \in S, NEW step \in [S \X (1..n) -> S],
           NEW link, \A i \in 1..n : link[i] \in 0..(i - 1)
    PROVE  \E F \in [0..n -> S] : Climbs(F, n, base, step, link)
<1> DEFINE P == {m \in Nat : m <= n =>
                    \E F \in [0..m -> S] : Climbs(F, m, base, step, link)}
<1>1. 0 \in P
  <2> DEFINE F == [i \in 0..0 |-> base]
  <2>1. F \in [0..0 -> S] /\ Climbs(F, 0, base, step, link)
    BY DEF Climbs
  <2>2. \E G \in [0..0 -> S] : Climbs(G, 0, base, step, link)
    BY <2>1
  <2> QED BY <2>2
<1>2. ASSUME NEW m \in Nat, m \in P PROVE m + 1 \in P
  <2> SUFFICES ASSUME m + 1 <= n
               PROVE  \E F \in [0..(m + 1) -> S] : Climbs(F, m + 1, base, step, link)
    OBVIOUS
  <2>1. PICK F \in [0..m -> S] : Climbs(F, m, base, step, link)
    BY <1>2
  <2> QED BY <2>1, OneMore
<1>3. n \in P
  <2> HIDE DEF P
  <2> QED BY <1>1, <1>2, NaturalsOf
<1> QED BY <1>3

\* F is what the recursion from base with step defines, up to m.
Unfolds(F, m, base, step) == F[0] = base /\ \A i \in 1..m : F[i] = step[<<F[i-1], i>>]

\* What a recursive definition over 0..n defines.
LEMMA RecursionFromZero ==
    ASSUME NEW S, NEW n \in Nat, NEW base \in S, NEW step \in [S \X (1..n) -> S]
    PROVE  \E F \in [0..n -> S] : Unfolds(F, n, base, step)
<1> DEFINE link == [i \in 1..n |-> i - 1]
<1>1. \A i \in 1..n : link[i] = i - 1 /\ link[i] \in 0..(i - 1)
  OBVIOUS
<1> HIDE DEF link
<1>2. PICK F \in [0..n -> S] : Climbs(F, n, base, step, link)
  BY <1>1, RecursionOnTree
<1>3. Unfolds(F, n, base, step)
  BY <1>1, <1>2 DEF Climbs, Unfolds
<1> QED BY <1>3

\* The same, over 1..n.
UnfoldsFromOne(F, n, first, step) ==
    \A i \in 1..n : F[i] = IF i = 1 THEN first ELSE step[<<F[i-1], i>>]

LEMMA RecursionFromOne ==
    ASSUME NEW S, NEW n \in Nat, NEW first \in S, NEW step \in [S \X (2..n) -> S]
    PROVE  \E F \in [1..n -> S] : UnfoldsFromOne(F, n, first, step)
<1> DEFINE step0 == [p \in S \X (1..n) |-> IF p[2] = 1 THEN first ELSE step[p]]
<1>1. step0 \in [S \X (1..n) -> S]
  <2>1. ASSUME NEW p \in S \X (1..n), p[2] # 1 PROVE p \in S \X (2..n)
    BY <2>1
  <2> QED BY <2>1
<1>2. PICK F \in [0..n -> S] : Unfolds(F, n, first, step0)
  <2> HIDE DEF step0
  <2> QED BY <1>1, RecursionFromZero
<1>3. ASSUME NEW i \in 1..n PROVE F[i] = IF i = 1 THEN first ELSE step[<<F[i-1], i>>]
  <2>1. i \in 0..n /\ i - 1 \in 0..n
    OBVIOUS
  <2>2. F[i] = step0[<<F[i-1], i>>]
    BY <1>2 DEF Unfolds
  <2>3. <<F[i-1], i>> \in S \X (1..n)
    BY <2>1
  <2>4. step0[<<F[i-1], i>>] = IF i = 1 THEN first ELSE step[<<F[i-1], i>>]
    BY <2>3
  <2> QED BY <2>2, <2>4
<1> DEFINE G == [i \in 1..n |-> F[i]]
<1>4. \A i \in 1..n : G[i] = F[i]
  OBVIOUS
<1>5. G \in [1..n -> S]
  OBVIOUS
<1> HIDE DEF G
<1>6. ASSUME NEW i \in 1..n PROVE G[i] = IF i = 1 THEN first ELSE step[<<G[i-1], i>>]
  <2>1. i # 1 => i - 1 \in 1..n
    OBVIOUS
  <2> QED BY <1>3, <1>4, <2>1
<1> QED BY <1>5, <1>6 DEF UnfoldsFromOne

\* F is what concatenating the sequences of ss one after the other defines.
Concatenates(F, ss) ==
    F = [i \in 1..Len(ss) |-> IF i = 1 THEN ss[i] ELSE F[i-1] \o ss[i]]

LEMMA ConcatenationExists ==
    ASSUME NEW T, NEW ss \in Seq(Seq(T))
    PROVE  \E F : Concatenates(F, ss)
<1> DEFINE n == Len(ss)
           step == [p \in Seq(T) \X (2..n) |-> p[1] \o ss[p[2]]]
<1>1. n \in Nat
  OBVIOUS
<1>2. CASE n = 0
  <2> DEFINE F == [i \in 1..n |-> ss[i]]
  <2>1. F = [i \in 1..n |-> IF i = 1 THEN ss[i] ELSE F[i-1] \o ss[i]]
    BY <1>2
  <2>2. Concatenates(F, ss)
    BY <2>1 DEF Concatenates
  <2> QED BY <2>2
<1>3. CASE n # 0
  <2>1. ss[1] \in Seq(T)
    BY <1>1, <1>3
  <2>2. step \in [Seq(T) \X (2..n) -> Seq(T)]
    <3>1. ASSUME NEW p \in Seq(T) \X (2..n) PROVE p[1] \o ss[p[2]] \in Seq(T)
      <4>1. p[1] \in Seq(T) /\ ss[p[2]] \in Seq(T)
        BY <1>1
      <4> QED BY <4>1
    <3> QED BY <3>1
  <2>3. \A q \in Seq(T), i \in 2..n : step[<<q, i>>] = q \o ss[i]
    OBVIOUS
  <2> HIDE DEF step
  <2>4. PICK F \in [1..n -> Seq(T)] : UnfoldsFromOne(F, n, ss[1], step)
    BY <1>1, <2>1, <2>2, RecursionFromOne
  <2>5. ASSUME NEW i \in 1..n
        PROVE  F[i] = IF i = 1 THEN ss[i] ELSE F[i-1] \o ss[i]
    <3>1. i # 1 => i \in 2..n /\ i - 1 \in 1..n
      BY <1>1
    <3> QED BY <2>3, <2>4, <3>1 DEF UnfoldsFromOne
  <2>6. Concatenates(F, ss)
    BY <2>5 DEF Concatenates
  <2> QED BY <2>6
<1> QED BY <1>2, <1>3

LEMMA ConcatenationType ==
    ASSUME NEW T, NEW ss \in Seq(Seq(T)), NEW F, Concatenates(F, ss)
    PROVE  /\ F \in [1..Len(ss) -> Seq(T)]
           /\ \A i \in 1..Len(ss) : F[i] = IF i = 1 THEN ss[i] ELSE F[i-1] \o ss[i]
<1> DEFINE n == Len(ss)
           P == {m \in Nat : m \in 1..n => F[m] \in Seq(T)}
<1>1. n \in Nat
  OBVIOUS
<1>2. \A i \in 1..n : F[i] = IF i = 1 THEN ss[i] ELSE F[i-1] \o ss[i]
  BY DEF Concatenates
<1>3. 0 \in P
  OBVIOUS
<1>4. ASSUME NEW m \in Nat, m \in P PROVE m + 1 \in P
  <2> SUFFICES ASSUME m + 1 \in 1..n PROVE F[m + 1] \in Seq(T)
    OBVIOUS
  <2>1. ss[m + 1] \in Seq(T)
    OBVIOUS
  <2>2. CASE m = 0
    BY <1>2, <2>1, <2>2
  <2>3. CASE m # 0
    <3>1. F[m] \in Seq(T) /\ (m + 1) - 1 = m /\ m + 1 # 1
      BY <1>4, <2>3
    <3>2. F[m + 1] = F[m] \o ss[m + 1]
      BY <1>2, <3>1
    <3> QED BY <2>1, <3>1, <3>2
  <2> QED BY <2>2, <2>3
<1>5. \A m \in Nat : m \in P
  <2> HIDE DEF P
  <2> QED BY <1>3, <1>4, NaturalsOf
<1>6. \A m \in 1..n : F[m] \in Seq(T)
  BY <1>1, <1>5
<1>7. F \in [1..n -> Seq(T)]
  BY <1>6 DEF Concatenates
<1> QED BY <1>2, <1>7
-----------------------------------------------------------------------------
Elements(s) == {s[k] : k \in 1..Len(s)}

LEMMA ElementsJoined ==
    ASSUME NEW T, NEW s \in Seq(T), NEW t \in Seq(T)
    PROVE  /\ s \o t \in Seq(T) /\ Len(s \o t) = Len(s) + Len(t)
           /\ Elements(s \o t) = Elements(s) \cup Elements(t)
<1> DEFINE n == Len(s)
           m == Len(t)
           u == s \o t
<1>1. /\ u \in Seq(T) /\ Len(u) = n + m
      /\ \A k \in 1..(n + m) : u[k] = IF k <= n THEN s[k] ELSE t[k - n]
  BY ConcatProperties
<1>2. n \in Nat /\ m \in Nat
  OBVIOUS
<1> HIDE DEF n, m, u
<1>3. ASSUME NEW k \in 1..(n + m) PROVE u[k] \in {s[j] : j \in 1..n} \cup {t[j] : j \in 1..m}
  <2>1. CASE k <= n
    <3>1. k \in 1..n
      BY <1>2, <2>1
    <3> QED BY <1>1, <2>1, <3>1
  <2>2. CASE ~(k <= n)
    <3>1. k - n \in 1..m
      BY <1>2, <2>2
    <3> QED BY <1>1, <2>2, <3>1
  <2> QED BY <2>1, <2>2
<1>4. ASSUME NEW k \in 1..n PROVE k \in 1..(n + m) /\ s[k] = u[k]
  BY <1>1, <1>2
<1>5. ASSUME NEW k \in 1..m PROVE k + n \in 1..(n + m) /\ t[k] = u[k + n]
  <2>1. k + n \in 1..(n + m) /\ ~(k + n <= n) /\ (k + n) - n = k
    BY <1>2
  <2> QED BY <1>1, <2>1
<1>6. {u[k] : k \in 1..(n + m)} = {s[j] : j \in 1..n} \cup {t[j] : j \in 1..m}
  <2>1. {u[k] : k \in 1..(n + m)} \subseteq {s[j] : j \in 1..n} \cup {t[j] : j \in 1..m}
    BY <1>3
  <2>2. {s[j] : j \in 1..n} \subseteq {u[k] : k \in 1..(n + m)}
    BY <1>4
  <2>3. {t[j] : j \in 1..m} \subseteq {u[k] : k \in 1..(n + m)}
    BY <1>5
  <2> QED BY <2>1, <2>2, <2>3, Zenon
<1> QED BY <1>1, <1>6 DEF Elements, n, m, u

LEMMA ElementsAppended ==
    ASSUME NEW T, NEW s \in Seq(T), NEW e \in T
    PROVE  /\ Append(s, e) \in Seq(T) /\ Len(Append(s, e)) = Len(s) + 1
           /\ Elements(Append(s, e)) = Elements(s) \cup {e}
<1>1. <<e>> \in Seq(T) /\ Len(<<e>>) = 1 /\ Elements(<<e>>) = {e}
  BY DEF Elements
<1>2. Append(s, e) = s \o <<e>>
  OBVIOUS
<1>3. PICK q \in Seq(T) : q = <<e>>
  BY <1>1
<1>4. s \o q \in Seq(T) /\ Len(s \o q) = Len(s) + Len(q)
  BY ConcatProperties, Zenon
<1>5. Elements(s \o q) = Elements(s) \cup Elements(q)
  BY ElementsJoined
<1> QED BY <1>1, <1>2, <1>3, <1>4, <1>5

\* Appending to a sequence whose elements are only known to have some type.
LEMMA AppendAny ==
    ASSUME NEW s, \E S : s \in Seq(S), NEW e
    PROVE  /\ \E S : Append(s, e) \in Seq(S)
           /\ Len(s) \in Nat /\ Len(Append(s, e)) = Len(s) + 1
           /\ \A k \in 1..Len(s) : Append(s, e)[k] = s[k]
           /\ Append(s, e)[Len(s) + 1] = e
<1>1. PICK S : s \in Seq(S)
  OBVIOUS
<1> DEFINE T == S \cup {e}
<1>2. s \in Seq(T) /\ e \in T
  BY <1>1
<1> HIDE DEF T
<1> QED BY <1>2, AppendProperties

\* t is s with e somewhere in it.
Gains(t, s, e) == Len(t) = Len(s) + 1 /\ Elements(t) = Elements(s) \cup {e}

LEMMA GainsJoined ==
    ASSUME NEW T, NEW e, NEW s \in Seq(T), NEW t \in Seq(T), NEW u \in Seq(T), Gains(t, s, e)
    PROVE  Gains(t \o u, s \o u, e) /\ Gains(u \o t, u \o s, e)
<1>1. Len(s) \in Nat /\ Len(t) \in Nat /\ Len(u) \in Nat
  OBVIOUS
<1>2. /\ Len(t \o u) = Len(t) + Len(u) /\ Len(s \o u) = Len(s) + Len(u)
      /\ Len(u \o t) = Len(u) + Len(t) /\ Len(u \o s) = Len(u) + Len(s)
  BY ConcatProperties
<1>3. /\ Elements(t \o u) = Elements(t) \cup Elements(u)
      /\ Elements(s \o u) = Elements(s) \cup Elements(u)
  BY ElementsJoined
<1>4. /\ Elements(u \o t) = Elements(u) \cup Elements(t)
      /\ Elements(u \o s) = Elements(u) \cup Elements(s)
  BY ElementsJoined
<1>5. /\ Len(t \o u) = Len(s \o u) + 1 /\ Len(u \o t) = Len(u \o s) + 1
  BY <1>1, <1>2 DEF Gains
<1> QED BY <1>3, <1>4, <1>5 DEF Gains

\* One more element in one of the sequences is one more element of all of them.
LEMMA OneAppended ==
    ASSUME NEW T, NEW ss \in Seq(Seq(T)), NEW i \in 1..Len(ss), NEW e \in T,
           NEW F, Concatenates(F, ss),
           NEW G, Concatenates(G, [ss EXCEPT ![i] = Append(@, e)])
    PROVE  Gains(G[Len(ss)], F[Len(ss)], e)
<1> DEFINE n == Len(ss)
           tt == [ss EXCEPT ![i] = Append(@, e)]
<1>1. n \in Nat /\ ss[i] \in Seq(T)
  OBVIOUS
<1>2. tt \in Seq(Seq(T)) /\ Len(tt) = n
      /\ \A m \in 1..n : tt[m] = IF m = i THEN Append(ss[m], e) ELSE ss[m]
  <2>1. Append(ss[i], e) \in Seq(T)
    BY <1>1
  <2> QED BY <2>1, ExceptSeq
<1>3. /\ F \in [1..n -> Seq(T)]
      /\ \A m \in 1..n : F[m] = IF m = 1 THEN ss[m] ELSE F[m-1] \o ss[m]
  BY ConcatenationType
<1> HIDE DEF tt
<1>4. /\ G \in [1..n -> Seq(T)]
      /\ \A m \in 1..n : G[m] = IF m = 1 THEN tt[m] ELSE G[m-1] \o tt[m]
  <2>1. Concatenates(G, tt)
    BY DEF tt
  <2> QED BY <1>2, <2>1, ConcatenationType
<1> DEFINE P == {m \in Nat : m \in 1..n => IF m < i THEN G[m] = F[m]
                                          ELSE Gains(G[m], F[m], e)}
<1>5. 0 \in P
  OBVIOUS
<1>6. ASSUME NEW m \in Nat, m \in P PROVE m + 1 \in P
  <2> SUFFICES ASSUME m + 1 \in 1..n
               PROVE  IF m + 1 < i THEN G[m + 1] = F[m + 1]
                      ELSE Gains(G[m + 1], F[m + 1], e)
    OBVIOUS
  <2> DEFINE k == m + 1
  <2>1. k \in 1..n /\ k \in Nat /\ k - 1 = m /\ i \in Nat
    OBVIOUS
  <2>2. ss[k] \in Seq(T)
    OBVIOUS
  <2>3. m # 0 => k # 1 /\ m \in 1..n /\ F[m] \in Seq(T) /\ G[m] \in Seq(T)
    <3>1. m # 0 => k # 1 /\ m \in 1..n
      BY <1>1
    <3> QED BY <1>3, <1>4, <3>1, Zenon
  <2>4. m = 0 => k = 1
    OBVIOUS
  <2>5. m # 0 => IF m < i THEN G[m] = F[m] ELSE Gains(G[m], F[m], e)
    BY <1>6, <2>3
  <2> HIDE DEF k
  <2>6. IF m = 0 THEN F[k] = ss[k] /\ G[k] = tt[k]
        ELSE F[k] = F[m] \o ss[k] /\ G[k] = G[m] \o tt[k]
    BY <1>3, <1>4, <2>1, <2>3, <2>4, Zenon
  <2>7. k # i => tt[k] = ss[k]
    BY <1>2, <2>1, Zenon
  <2>8. k = i => tt[k] = Append(ss[k], e)
    BY <1>2, <2>1, Zenon
  <2>9. Gains(Append(ss[k], e), ss[k], e) /\ Append(ss[k], e) \in Seq(T)
    BY <2>2, ElementsAppended DEF Gains
  <2>10. CASE k < i
    <3>1. G[k] = F[k]
      <4>1. k # i /\ m < i
        BY <2>1, <2>10
      <4> QED BY <2>5, <2>6, <2>7, <4>1, Zenon
    <3> QED BY <2>10, <3>1 DEF k
  <2>11. CASE ~(k < i)
    <3>1. ASSUME k = i PROVE Gains(G[k], F[k], e)
      <4>1. m < i
        BY <2>1, <3>1
      <4>2. IF m = 0 THEN G[k] = Append(ss[k], e) ELSE G[k] = F[m] \o Append(ss[k], e)
        BY <2>5, <2>6, <2>8, <3>1, <4>1, Zenon
      <4>3. m # 0 => Gains(F[m] \o Append(ss[k], e), F[m] \o ss[k], e)
        BY <2>2, <2>3, <2>9, GainsJoined
      <4> QED BY <2>6, <2>9, <4>2, <4>3, Zenon
    <3>2. ASSUME k # i PROVE Gains(G[k], F[k], e)
      <4>1. ~(m < i) /\ m # 0
        BY <2>1, <2>11, <3>2
      <4>2. Gains(G[m], F[m], e) /\ tt[k] = ss[k]
        BY <2>5, <2>7, <3>2, <4>1, Zenon
      <4>3. Gains(G[m] \o ss[k], F[m] \o ss[k], e)
        BY <2>2, <2>3, <4>1, <4>2, GainsJoined
      <4> QED BY <2>6, <4>1, <4>2, <4>3, Zenon
    <3>3. Gains(G[k], F[k], e)
      BY <3>1, <3>2
    <3> QED BY <2>11, <3>3 DEF k
  <2> QED BY <2>10, <2>11
<1>7. n \in P
  <2>1. \A m \in Nat : m \in P
    <3> HIDE DEF P
    <3> QED BY <1>5, <1>6, NaturalsOf
  <2> QED BY <1>1, <2>1, Zenon
<1>8. n \in 1..n /\ ~(n < i)
  BY <1>1
<1> QED BY <1>7, <1>8

\* An empty sequence more changes nothing.
LEMMA EmptyAppended ==
    ASSUME NEW T, NEW ss \in Seq(Seq(T)), Len(ss) # 0,
           NEW F, Concatenates(F, ss), NEW G, Concatenates(G, Append(ss, << >>))
    PROVE  G[Len(ss) + 1] = F[Len(ss)]
<1> DEFINE n == Len(ss)
           tt == Append(ss, << >>)
<1>1. n \in Nat /\ tt \in Seq(Seq(T)) /\ Len(tt) = n + 1
  OBVIOUS
<1>2. (\A m \in 1..n : tt[m] = ss[m]) /\ tt[n + 1] = << >>
  OBVIOUS
<1>3. /\ F \in [1..n -> Seq(T)]
      /\ \A m \in 1..n : F[m] = IF m = 1 THEN ss[m] ELSE F[m-1] \o ss[m]
  BY ConcatenationType
<1> HIDE DEF tt
<1>4. \A m \in 1..(n + 1) : G[m] = IF m = 1 THEN tt[m] ELSE G[m-1] \o tt[m]
  <2>1. Concatenates(G, tt)
    BY DEF tt
  <2> QED BY <1>1, <2>1, ConcatenationType
<1> DEFINE P == {m \in Nat : m \in 1..n => G[m] = F[m]}
<1>5. 0 \in P
  OBVIOUS
<1>6. ASSUME NEW m \in Nat, m \in P PROVE m + 1 \in P
  <2> SUFFICES ASSUME m + 1 \in 1..n PROVE G[m + 1] = F[m + 1]
    OBVIOUS
  <2> DEFINE k == m + 1
  <2>1. /\ tt[k] = ss[k] /\ k \in 1..n /\ k \in 1..(n + 1) /\ k - 1 = m
        /\ m = 0 <=> k = 1
    BY <1>1, <1>2
  <2>2. m # 0 => G[m] = F[m]
    BY <1>1, <1>6
  <2> HIDE DEF k
  <2>3. F[k] = IF m = 0 THEN ss[k] ELSE F[m] \o ss[k]
    BY <1>3, <2>1
  <2>4. G[k] = IF m = 0 THEN tt[k] ELSE G[m] \o tt[k]
    BY <1>4, <2>1
  <2>5. G[k] = F[k]
    <3>1. CASE m = 0
      BY <2>1, <2>3, <2>4, <3>1
    <3>2. CASE m # 0
      BY <2>1, <2>2, <2>3, <2>4, <3>2
    <3> QED BY <3>1, <3>2
  <2> QED BY <2>5 DEF k
<1>7. \A m \in Nat : m \in P
  <2> HIDE DEF P
  <2> QED BY <1>5, <1>6, NaturalsOf
<1>8. G[n] = F[n] /\ F[n] \in Seq(T)
  BY <1>1, <1>3, <1>7
<1>9. G[n + 1] = G[n] \o << >>
  <2>1. n + 1 \in 1..(n + 1) /\ n + 1 # 1 /\ (n + 1) - 1 = n
    BY <1>1
  <2> QED BY <1>2, <1>4, <2>1
<1> QED BY <1>8, <1>9, ConcatEmptySeq

-----------------------------------------------------------------------------
(***************************************************************************)
(* Sequences: what FlattenSeq, Select and SortBy make of any of them.      *)
(***************************************************************************)
Listed(s) == \E S : s \in Seq(S)

LEMMA ListedFacts ==
    ASSUME NEW s, Listed(s)
    PROVE  /\ Len(s) \in Nat /\ DOMAIN s = 1..Len(s)
           /\ s \in Seq(Elements(s)) /\ ToSet(s) = Elements(s)
<1>1. PICK S : s \in Seq(S)
  BY DEF Listed
<1>2. Len(s) \in Nat /\ DOMAIN s = 1..Len(s)
  BY <1>1
<1>3. s \in [1..Len(s) -> Elements(s)]
  BY <1>1 DEF Elements
<1>4. s \in Seq(Elements(s))
  <2>1. PICK E : E = Elements(s)
    OBVIOUS
  <2>2. s \in Seq(E)
    BY <1>2, <1>3, <2>1
  <2> QED BY <2>1, <2>2
<1>5. ToSet(s) = Elements(s)
  BY <1>2 DEF ToSet, Elements
<1> QED BY <1>2, <1>4, <1>5

\* A function over 1..n is a sequence of that length.
LEMMA Tabled ==
    ASSUME NEW n \in Nat, NEW s, s = [i \in 1..n |-> s[i]]
    PROVE  Listed(s) /\ Len(s) = n
<1> DEFINE S == {s[i] : i \in 1..n}
<1>1. s \in [1..n -> S]
  OBVIOUS
<1> HIDE DEF S
<1>2. s \in Seq(S) /\ Len(s) = n
  BY <1>1
<1> QED BY <1>2 DEF Listed

\* start[k] is how many elements the first k sequences of ss have.
Starts(start, ss) ==
    /\ start \in [0..Len(ss) -> Nat] /\ start[0] = 0
    /\ \A k \in 1..Len(ss) : start[k] = start[k-1] + Len(ss[k])

LEMMA StartsGrow ==
    ASSUME NEW T, NEW ss \in Seq(Seq(T)), NEW start, Starts(start, ss),
           NEW a \in 0..Len(ss), NEW b \in 0..Len(ss), a <= b
    PROVE  start[a] <= start[b]
<1> DEFINE n == Len(ss)
           P == {m \in Nat : a + m <= n => start[a] <= start[a + m]}
<1>1. n \in Nat /\ a \in Nat /\ b - a \in Nat /\ a + (b - a) = b /\ b <= n
  OBVIOUS
<1>2. \A k \in 0..n : start[k] \in Nat
  BY DEF Starts
<1>3. 0 \in P
  BY <1>1, <1>2
<1>4. ASSUME NEW m \in Nat, m \in P PROVE m + 1 \in P
  <2> SUFFICES ASSUME a + (m + 1) <= n PROVE start[a] <= start[a + (m + 1)]
    OBVIOUS
  <2>1. /\ a + m <= n /\ a + m \in 0..n /\ a + (m + 1) \in 1..n
        /\ (a + (m + 1)) - 1 = a + m
    BY <1>1
  <2>2. start[a + (m + 1)] = start[a + m] + Len(ss[a + (m + 1)])
    BY <2>1 DEF Starts
  <2>3. Len(ss[a + (m + 1)]) \in Nat
    BY <2>1
  <2>4. start[a] <= start[a + m]
    BY <1>4, <2>1
  <2> QED BY <1>2, <2>1, <2>2, <2>3, <2>4
<1>5. \A m \in Nat : m \in P
  <2> HIDE DEF P
  <2> QED BY <1>3, <1>4, NaturalsOf
<1> QED BY <1>1, <1>5

\* Where each element of the sequences of ss is in their concatenation.
FlattensTo(s, ss, start) ==
    /\ Starts(start, ss) /\ Len(s) = start[Len(ss)]
    /\ \A k \in 1..Len(ss) : \A j \in 1..Len(ss[k]) :
           start[k-1] + j \in 1..Len(s) /\ s[start[k-1] + j] = ss[k][j]

LEMMA FlattenedAt ==
    ASSUME NEW T, NEW ss \in Seq(Seq(T))
    PROVE  FlattenSeq(ss) \in Seq(T) /\ \E start : FlattensTo(FlattenSeq(ss), ss, start)
<1> DEFINE n == Len(ss)
           F == CHOOSE f : Concatenates(f, ss)
           step == [p \in Nat \X (1..n) |-> p[1] + Len(ss[p[2]])]
<1>1. n \in Nat /\ \A k \in 1..n : ss[k] \in Seq(T) /\ Len(ss[k]) \in Nat
  OBVIOUS
<1>2. step \in [Nat \X (1..n) -> Nat]
  <2>1. \A p \in Nat \X (1..n) : p[1] + Len(ss[p[2]]) \in Nat
    BY <1>1
  <2> QED BY <2>1
<1>3. \A m \in Nat, k \in 1..n : step[<<m, k>>] = m + Len(ss[k])
  OBVIOUS
<1> HIDE DEF step
<1>4. PICK start \in [0..n -> Nat] : Unfolds(start, n, 0, step)
  BY <1>1, <1>2, RecursionFromZero
<1>5. Starts(start, ss)
  <2>1. ASSUME NEW k \in 1..n PROVE start[k] = start[k-1] + Len(ss[k])
    <3>1. k - 1 \in 0..n
      BY <1>1
    <3> QED BY <1>3, <1>4, <3>1 DEF Unfolds
  <2> QED BY <1>4, <2>1 DEF Unfolds, Starts
<1>6. Concatenates(F, ss)
  BY ConcatenationExists
<1>7. FlattenSeq(ss) = IF n = 0 THEN ss ELSE F[n]
  BY <1>1 DEF FlattenSeq, Concatenates
<1> HIDE DEF F
<1>8. /\ F \in [1..n -> Seq(T)]
      /\ \A k \in 1..n : F[k] = IF k = 1 THEN ss[k] ELSE F[k-1] \o ss[k]
  BY <1>6, ConcatenationType
<1> DEFINE Placed(m) ==
               /\ Len(F[m]) = start[m]
               /\ \A k \in 1..m : \A j \in 1..Len(ss[k]) :
                      start[k-1] + j \in 1..Len(F[m]) /\ F[m][start[k-1] + j] = ss[k][j]
           P == {m \in Nat : m \in 1..n => Placed(m)}
<1>9. 0 \in P
  OBVIOUS
<1>10. ASSUME NEW m \in Nat, m \in P PROVE m + 1 \in P
  <2>0. SUFFICES ASSUME m + 1 \in 1..n PROVE Placed(m + 1)
    <3> HIDE DEF Placed
    <3> QED OBVIOUS
  <2> DEFINE i == m + 1
             t == ss[i]
             s == F[m]
  <2>1. t \in Seq(T) /\ Len(t) \in Nat /\ start[m] \in Nat /\ start[i] = start[m] + Len(t)
    <3>1. i - 1 = m /\ m \in 0..n
      BY <1>1, SMTT(20)
    <3> QED BY <1>1, <1>5, <2>0, <3>1 DEF Starts
  <2>2. CASE m = 0
    <3>1. i = 1 /\ i \in 1..n
      BY <2>0, <2>2
    <3>2. \A k \in 1..i : k = 1 /\ k - 1 = 0
      BY <2>2
    <3>3. start[m] = 0
      BY <1>5, <2>2 DEF Starts
    <3> HIDE DEF i
    <3>4. F[i] = ss[i]
      BY <1>8, <3>1, Zenon
    <3> HIDE DEF F
    <3> QED BY <2>1, <2>2, <3>1, <3>2, <3>3, <3>4 DEF i
  <2>3. CASE m # 0
    <3>1. m \in 1..n /\ i # 1 /\ i - 1 = m
      BY <1>1, <2>3
    <3>2. s \in Seq(T) /\ F[i] = s \o t
      BY <1>8, <2>0, <3>1
    <3>3. Placed(m)
      BY <1>10, <3>1
    <3> HIDE DEF i, s, t
    <3>4. /\ Len(F[i]) = Len(s) + Len(t)
          /\ \A k \in 1..(Len(s) + Len(t)) :
                 F[i][k] = IF k <= Len(s) THEN s[k] ELSE t[k - Len(s)]
      BY <2>1, <3>2, ConcatProperties
    <3>5. Len(s) = start[m]
      BY <3>3 DEF s
    <3>6. ASSUME NEW k \in 1..i, NEW j \in 1..Len(ss[k])
          PROVE  start[k-1] + j \in 1..Len(F[i]) /\ F[i][start[k-1] + j] = ss[k][j]
      <4>1. CASE k = i
        <5>1. /\ k - 1 = m /\ j \in 1..Len(t) /\ start[m] + j \in 1..(Len(s) + Len(t))
              /\ ~(start[m] + j <= Len(s)) /\ (start[m] + j) - Len(s) = j
          <6>1. k - 1 = m /\ ss[k] = t
            BY <3>1, <4>1 DEF t
          <6> QED BY <2>1, <3>5, <6>1
        <5>2. ss[k] = t
          BY <4>1 DEF t
        <5> QED BY <3>4, <5>1, <5>2
      <4>2. CASE k # i
        <5>1. k \in 1..m
          BY <4>2 DEF i
        <5>2. start[k-1] + j \in 1..Len(s) /\ s[start[k-1] + j] = ss[k][j]
          BY <3>3, <5>1 DEF s
        <5> DEFINE q == start[k-1] + j
        <5>3. q \in 1..(Len(s) + Len(t)) /\ q <= Len(s)
          BY <2>1, <3>5, <5>2, SMTT(30)
        <5> QED BY <3>4, <5>2, <5>3
      <4> QED BY <4>1, <4>2
    <3>7. Len(F[i]) = start[i]
      BY <2>1, <3>4, <3>5
    <3> QED BY <3>6, <3>7 DEF i
  <2> QED BY <2>2, <2>3
<1>11. \A m \in Nat : m \in P
  <2> HIDE DEF P
  <2> QED BY <1>9, <1>10, NaturalsOf
<1>12. CASE n = 0
  <2>1. FlattenSeq(ss) = << >> /\ << >> \in Seq(T) /\ Len(<< >>) = 0
    BY <1>7, <1>12
  <2>2. start[n] = 0
    BY <1>5, <1>12 DEF Starts
  <2> QED BY <1>5, <1>12, <2>1, <2>2 DEF FlattensTo
<1>13. CASE n # 0
  <2>1. n \in 1..n
    BY <1>1, <1>13
  <2>2. FlattenSeq(ss) = F[n]
    BY <1>7, <1>13, Zenon
  <2>3. F[n] \in Seq(T)
    <3> HIDE DEF n
    <3> QED BY <1>8, <2>1
  <2>4. Placed(n)
    BY <1>1, <1>11, <2>1
  <2>5. FlattensTo(F[n], ss, start)
    BY <1>5, <2>4, Zenon DEF FlattensTo
  <2> QED BY <2>2, <2>3, <2>5, Zenon
<1> QED BY <1>12, <1>13

\* Every element of a concatenation comes from one of the sequences.
PlacedAt(s, ss, start, i) ==
    \E k \in 1..Len(ss) : \E j \in 1..Len(ss[k]) :
        i = start[k-1] + j /\ s[i] = ss[k][j]

LEMMA PlaceFound ==
    ASSUME NEW T, NEW ss \in Seq(Seq(T)), NEW s, NEW start, FlattensTo(s, ss, start),
           NEW i \in 1..Len(s)
    PROVE  PlacedAt(s, ss, start, i)
<1> DEFINE n == Len(ss)
           S == {k \in 0..n : i <= start[k]}
<1>1. n \in Nat /\ n \in 0..n /\ start[0] = 0 /\ (\A k \in 0..n : start[k] \in Nat)
      /\ Len(s) = start[n]
      /\ \A k \in 1..n : start[k] = start[k-1] + Len(ss[k])
  <2>1. n \in Nat /\ n \in 0..n
    OBVIOUS
  <2>2. /\ start \in [0..n -> Nat] /\ start[0] = 0 /\ Len(s) = start[n]
        /\ \A k \in 1..n : start[k] = start[k-1] + Len(ss[k])
    BY Zenon DEF FlattensTo, Starts
  <2> HIDE DEF n
  <2> QED BY <2>1, <2>2
<1>2. n \in S /\ S \in SUBSET Nat
  BY <1>1
<1>3. PICK k \in S : \A m \in S : k <= m
  <2> HIDE DEF S
  <2> QED BY <1>2, LeastNatural
<1>4. k \in 1..n /\ k - 1 \in 0..n /\ k - 1 \notin S
  BY <1>1, <1>3
<1> DEFINE j == i - start[k-1]
<1>5. j \in 1..Len(ss[k]) /\ i = start[k-1] + j
  <2>1. start[k] = start[k-1] + Len(ss[k]) /\ start[k-1] \in Nat /\ start[k-1] < i
        /\ i <= start[k] /\ Len(ss[k]) \in Nat
    <3>1. start[k] = start[k-1] + Len(ss[k]) /\ start[k-1] \in Nat
      BY <1>1, <1>4
    <3>2. i <= start[k] /\ ~(i <= start[k-1])
      BY <1>3, <1>4
    <3>3. Len(ss[k]) \in Nat
      BY <1>4
    <3> QED BY <3>1, <3>2, <3>3
  <2> QED BY <2>1
<1> HIDE DEF j
<1>6. s[i] = ss[k][j]
  BY <1>4, <1>5 DEF FlattensTo
<1> QED BY <1>4, <1>5, <1>6 DEF PlacedAt

\* Two increasing sequences of numbers with the same elements are equal.
Increasing(f, n) == \A i \in 1..n : f[i] \in Int /\ \A j \in 1..n : i < j => f[i] < f[j]

Among(f, n, g, m) == \A i \in 1..n : \E j \in 1..m : f[i] = g[j]

LEMMA SameIncreasing ==
    ASSUME NEW n \in Nat, NEW m \in Nat, NEW f, NEW g, Increasing(f, n), Increasing(g, m),
           Among(f, n, g, m), Among(g, m, f, n)
    PROVE  n = m /\ \A i \in 1..n : f[i] = g[i]
<1> DEFINE P == {k \in Nat : \A i \in 1..k : (i <= n /\ i <= m) => f[i] = g[i]}
<1>1. 0 \in P
  OBVIOUS
<1>2. ASSUME NEW k \in Nat, k \in P PROVE k + 1 \in P
  <2> SUFFICES (k + 1 <= n /\ k + 1 <= m) => f[k + 1] = g[k + 1]
    <3>1. \A i \in 1..(k + 1) : i \in 1..k \/ i = k + 1
      OBVIOUS
    <3>2. \A i \in 1..(k + 1) : (i <= n /\ i <= m) => f[i] = g[i]
      BY <1>2, <3>1
    <3> QED BY <3>2
  <2> SUFFICES ASSUME k + 1 <= n, k + 1 <= m PROVE f[k + 1] = g[k + 1]
    OBVIOUS
  <2> DEFINE i == k + 1
  <2>1. i \in 1..n /\ i \in 1..m
    OBVIOUS
  <2>2. PICK j \in 1..m : f[i] = g[j]
    BY <2>1 DEF Among
  <2>3. PICK h \in 1..n : g[i] = f[h]
    BY <2>1 DEF Among
  <2>4. ~(j < i)
    <3> SUFFICES ASSUME j < i PROVE FALSE
      OBVIOUS
    <3>1. j \in 1..k /\ j \in 1..n /\ j <= n /\ j <= m
      BY <2>1
    <3>2. f[j] = g[j]
      BY <1>2, <3>1
    <3> HIDE DEF i
    <3>3. f[j] < f[i] /\ f[j] \in Int /\ f[i] \in Int
      BY <2>1, <3>1 DEF Increasing
    <3> QED BY <2>2, <3>2, <3>3
  <2>5. ~(h < i)
    <3> SUFFICES ASSUME h < i PROVE FALSE
      OBVIOUS
    <3>1. h \in 1..k /\ h \in 1..m /\ h <= n /\ h <= m
      BY <2>1
    <3>2. f[h] = g[h]
      BY <1>2, <3>1
    <3> HIDE DEF i
    <3>3. g[h] < g[i] /\ g[h] \in Int /\ g[i] \in Int
      BY <2>1, <3>1 DEF Increasing
    <3> QED BY <2>3, <3>2, <3>3
  <2> HIDE DEF i
  <2>6. g[i] \in Int /\ f[i] \in Int
    BY <2>1 DEF Increasing
  <2>7. g[i] <= f[i]
    <3>1. i = j \/ i < j
      BY <2>1, <2>4
    <3>2. i < j => g[i] < g[j]
      BY <2>1, Zenon DEF Increasing
    <3> QED BY <2>2, <2>6, <3>1, <3>2
  <2>8. f[i] <= g[i]
    <3>1. i = h \/ i < h
      BY <2>1, <2>5
    <3>2. i < h => f[i] < f[h]
      BY <2>1, Zenon DEF Increasing
    <3> QED BY <2>3, <2>6, <3>1, <3>2
  <2>9. f[i] = g[i]
    BY <2>6, <2>7, <2>8
  <2> QED BY <2>9 DEF i
<1>3. \A k \in Nat : k \in P
  <2> HIDE DEF P
  <2> QED BY <1>1, <1>2, NaturalsOf
<1>4. \A i \in Nat : i \in 1..n /\ i \in 1..m => f[i] = g[i]
  <2> SUFFICES ASSUME NEW i \in Nat, i \in 1..n, i \in 1..m PROVE f[i] = g[i]
    OBVIOUS
  <2>1. i \in P /\ i \in 1..i
    BY <1>3
  <2> QED BY <2>1
<1>5. ~(n < m)
  <2> SUFFICES ASSUME n < m PROVE FALSE
    OBVIOUS
  <2>1. m \in 1..m
    OBVIOUS
  <2>2. PICK i \in 1..n : g[m] = f[i]
    BY <2>1 DEF Among
  <2>3. i \in 1..m /\ i < m /\ f[i] = g[i]
    BY <1>4
  <2>4. g[i] < g[m] /\ g[i] \in Int
    BY <2>1, <2>3 DEF Increasing
  <2> QED BY <2>2, <2>3, <2>4
<1>6. ~(m < n)
  <2> SUFFICES ASSUME m < n PROVE FALSE
    OBVIOUS
  <2>1. n \in 1..n
    OBVIOUS
  <2>2. PICK j \in 1..m : f[n] = g[j]
    BY <2>1 DEF Among
  <2>3. j \in 1..n /\ j < n /\ f[j] = g[j]
    BY <1>4
  <2>4. f[j] < f[n] /\ f[j] \in Int
    BY <2>1, <2>3 DEF Increasing
  <2> QED BY <2>2, <2>3, <2>4
<1>7. n = m
  BY <1>5, <1>6
<1> QED BY <1>4, <1>7

\* r is what of s is in S: its elements at the positions p, in their order.
TakenAt(r, s, S, p) ==
    /\ p \in [1..Len(r) -> 1..Len(s)] /\ Increasing(p, Len(r))
    /\ \A k \in 1..Len(r) : r[k] = s[p[k]] /\ r[k] \in S
    /\ \A i \in 1..Len(s) : s[i] \in S => \E k \in 1..Len(r) : p[k] = i

LEMMA SelectInOrder ==
    ASSUME NEW T, NEW s \in Seq(T), NEW S
    PROVE  Select(s, S) \in Seq(T) /\ \E p : TakenAt(Select(s, S), s, S, p)
<1> DEFINE n == Len(s)
           step == [q \in Seq(T) \X (1..n) |->
                       IF s[q[2]] \in S THEN Append(q[1], s[q[2]]) ELSE q[1]]
           Takes(f) == f = [i \in 0..n |->
                               IF i = 0 THEN << >>
                               ELSE IF s[i] \in S THEN Append(f[i-1], s[i]) ELSE f[i-1]]
           taken == CHOOSE f : Takes(f)
<1>1. n \in Nat /\ << >> \in Seq(T) /\ \A i \in 1..n : s[i] \in T
  OBVIOUS
<1>2. step \in [Seq(T) \X (1..n) -> Seq(T)]
  <2>1. ASSUME NEW q \in Seq(T) \X (1..n)
        PROVE  (IF s[q[2]] \in S THEN Append(q[1], s[q[2]]) ELSE q[1]) \in Seq(T)
    <3>1. q[1] \in Seq(T) /\ s[q[2]] \in T
      OBVIOUS
    <3> QED BY <3>1
  <2> QED BY <2>1
<1>3. \A q \in Seq(T), i \in 1..n :
          step[<<q, i>>] = IF s[i] \in S THEN Append(q, s[i]) ELSE q
  OBVIOUS
<1> HIDE DEF step
<1>4. PICK F \in [0..n -> Seq(T)] : Unfolds(F, n, << >>, step)
  BY <1>1, <1>2, RecursionFromZero
<1>5. ASSUME NEW i \in 0..n
      PROVE  F[i] = IF i = 0 THEN << >>
                    ELSE IF s[i] \in S THEN Append(F[i-1], s[i]) ELSE F[i-1]
  <2>1. i # 0 => i \in 1..n /\ i - 1 \in 0..n
    BY <1>1
  <2> QED BY <1>3, <1>4, <2>1 DEF Unfolds
<1>6. Takes(F)
  BY <1>5
<1>7. Takes(taken)
  BY <1>6, Zenon
<1> HIDE DEF taken
<1>8. \A i \in 0..n : taken[i] = IF i = 0 THEN << >>
                      ELSE IF s[i] \in S THEN Append(taken[i-1], s[i]) ELSE taken[i-1]
  BY <1>7
<1> DEFINE At(r, m, p) ==
               /\ p \in [1..Len(r) -> 1..m] /\ Increasing(p, Len(r))
               /\ \A k \in 1..Len(r) : r[k] = s[p[k]] /\ r[k] \in S
               /\ \A i \in 1..m : s[i] \in S => \E k \in 1..Len(r) : p[k] = i
           Takings(m) == taken[m] \in Seq(T) /\ \E p : At(taken[m], m, p)
           P == {m \in Nat : m <= n => Takings(m)}
<1>9. 0 \in P
  <2>1. taken[0] = << >>
    <3>1. 0 \in 0..n
      BY <1>1
    <3> QED BY <1>8, <3>1
  <2>2. At(<< >>, 0, [k \in 1..0 |-> 0])
    BY DEF Increasing
  <2>3. Takings(0)
    <3> HIDE DEF At
    <3> QED BY <1>1, <2>1, <2>2
  <2> QED BY <2>3
<1>10. ASSUME NEW m \in Nat, m \in P PROVE m + 1 \in P
  <2>0. SUFFICES ASSUME m + 1 <= n PROVE Takings(m + 1)
    <3> HIDE DEF Takings
    <3> QED OBVIOUS
  <2> DEFINE i == m + 1
             q == taken[m]
  <2>1. i \in 0..n /\ i # 0 /\ i - 1 = m /\ i \in 1..n /\ s[i] \in T /\ m <= n
    BY <1>1, <2>0
  <2>2. q \in Seq(T) /\ Len(q) \in Nat
    BY <1>10, <2>1
  <2>3. PICK p : At(q, m, p)
    BY <1>10, <2>1
  <2>4. taken[i] = IF s[i] \in S THEN Append(q, s[i]) ELSE q
    BY <1>8, <2>1
  <2>5. \A k \in 1..i : k \in 1..m \/ k = i
    OBVIOUS
  <2>6. \A k \in 1..m : k \in 1..i /\ k < i /\ k \in Nat
    OBVIOUS
  <2> HIDE DEF i, q
  <2>7. CASE s[i] \notin S
    <3>1. taken[i] = q
      BY <2>4, <2>7
    <3>2. At(q, i, p)
      BY <2>3, <2>5, <2>6, <2>7
    <3> HIDE DEF At
    <3>3. Takings(i)
      BY <2>2, <3>1, <3>2
    <3> QED BY <3>3 DEF i
  <2>8. CASE s[i] \in S
    <3> DEFINE l == Len(q)
               r == Append(q, s[i])
               o == [k \in 1..(l + 1) |-> IF k = l + 1 THEN i ELSE p[k]]
    <3>1. /\ r \in Seq(T) /\ Len(r) = l + 1 /\ r[l + 1] = s[i]
          /\ \A k \in 1..l : r[k] = q[k]
      BY <2>1, <2>2, AppendProperties
    <3>2. l \in Nat /\ \A k \in 1..(l + 1) : k \in 1..l \/ k = l + 1
      BY <2>2
    <3> HIDE DEF r, l
    <3>3. o[l + 1] = i /\ \A k \in 1..l : o[k] = p[k] /\ o[k] \in 1..m
      <4>1. l + 1 \in 1..(l + 1) /\ \A k \in 1..l : k \in 1..(l + 1) /\ k # l + 1
        BY <3>2
      <4>2. p \in [1..l -> 1..m]
        BY <2>3 DEF l
      <4> QED BY <4>1, <4>2
    <3>11. o = [k \in 1..(l + 1) |-> o[k]]
      OBVIOUS
    <3> HIDE DEF o
    <3>4. o \in [1..(l + 1) -> 1..i]
      <4>1. ASSUME NEW k \in 1..(l + 1) PROVE o[k] \in 1..i
        <5>1. i \in 1..i
          BY <2>1
        <5>2. k \in 1..l => o[k] \in 1..m
          BY <3>3
        <5>3. k \in 1..l \/ k = l + 1
          BY <3>2
        <5> QED BY <2>6, <3>3, <5>1, <5>2, <5>3, Zenon
      <4> QED BY <3>11, <4>1
    <3>5. Increasing(o, l + 1)
      <4> SUFFICES ASSUME NEW a \in 1..(l + 1)
                   PROVE  o[a] \in Int /\ \A b \in 1..(l + 1) : a < b => o[a] < o[b]
        BY DEF Increasing
      <4>1. o[a] \in Int
        <5>1. o[a] \in 1..i
          BY <3>4
        <5> QED BY <5>1
      <4>2. ASSUME NEW b \in 1..(l + 1), a < b PROVE o[a] < o[b]
        <5>1. a \in 1..l
          BY <3>2, <4>2
        <5>2. CASE b = l + 1
          BY <2>6, <3>3, <5>1, <5>2
        <5>3. CASE b # l + 1
          <6>1. b \in 1..l
            BY <3>2, <5>3
          <6>2. p[a] < p[b]
            BY <2>3, <4>2, <5>1, <6>1 DEF Increasing, l
          <6> QED BY <3>3, <5>1, <6>1, <6>2
        <5> QED BY <5>2, <5>3
      <4> QED BY <4>1, <4>2
    <3>6. \A k \in 1..(l + 1) : r[k] = s[o[k]] /\ r[k] \in S
      <4>1. \A k \in 1..l : q[k] = s[p[k]] /\ q[k] \in S
        BY <2>3 DEF l
      <4> QED BY <2>8, <3>1, <3>2, <3>3, <4>1
    <3>7. ASSUME NEW j \in 1..i, s[j] \in S PROVE \E k \in 1..(l + 1) : o[k] = j
      <4>1. CASE j = i
        <5>1. l + 1 \in 1..(l + 1)
          BY <3>2
        <5> QED BY <3>3, <4>1, <5>1
      <4>2. CASE j # i
        <5>1. PICK k \in 1..l : p[k] = j
          <6>1. j \in 1..m
            BY <2>5, <4>2
          <6> QED BY <2>3, <3>7, <6>1 DEF l
        <5>2. k \in 1..(l + 1)
          BY <3>2
        <5> QED BY <3>3, <5>1, <5>2
      <4> QED BY <4>1, <4>2
    <3>8. At(r, i, o)
      BY <3>1, <3>4, <3>5, <3>6, <3>7
    <3>9. taken[i] = r
      BY <2>4, <2>8 DEF r
    <3> HIDE DEF At
    <3>10. Takings(i)
      BY <3>1, <3>8, <3>9
    <3> QED BY <3>10 DEF i
  <2> QED BY <2>7, <2>8
<1>11. n \in P
  <2> HIDE DEF P
  <2> QED BY <1>1, <1>9, <1>10, NaturalsOf
<1>12. Takings(n)
  BY <1>1, <1>11
<1>13. Select(s, S) = taken[n]
  BY Zenon DEF Select, taken
<1>14. \A r, p : At(r, n, p) => TakenAt(r, s, S, p)
  BY Zenon DEF TakenAt
<1> HIDE DEF At
<1> QED BY <1>12, <1>13, <1>14, Zenon

\* What Select takes from a sequence are its elements that are selected, all of them.
LEMMA SelectType ==
    ASSUME NEW T, NEW s \in Seq(T), NEW S
    PROVE  /\ Select(s, S) \in Seq(T)
           /\ \A k \in 1..Len(Select(s, S)) : Select(s, S)[k] \in S
           /\ \A i \in 1..Len(s) : s[i] \in S => s[i] \in Elements(Select(s, S))
<1> DEFINE r == Select(s, S)
<1>1. r \in Seq(T) /\ \E p : TakenAt(r, s, S, p)
  BY SelectInOrder
<1> HIDE DEF r
<1>2. PICK p : TakenAt(r, s, S, p)
  BY <1>1
<1>3. \A i \in 1..Len(s) : s[i] \in S => s[i] \in Elements(r)
  <2> SUFFICES ASSUME NEW i \in 1..Len(s), s[i] \in S PROVE s[i] \in Elements(r)
    OBVIOUS
  <2>1. PICK k \in 1..Len(r) : p[k] = i
    BY <1>2, Zenon DEF TakenAt
  <2>2. r[k] = s[i]
    BY <1>2, <2>1, Zenon DEF TakenAt
  <2> QED BY <2>2 DEF Elements
<1>4. \A k \in 1..Len(r) : r[k] \in S
  BY <1>2, Zenon DEF TakenAt
<1> QED BY <1>1, <1>3, <1>4 DEF r

\* Keys have a least one, and of its positions there is a first.
LEMMA LeastKey ==
    ASSUME NEW n \in Nat, NEW key, \A i \in 1..n : key[i] \in Nat,
           NEW S \in SUBSET (1..n), S # {}
    PROVE  \E i \in S : \A j \in S : key[i] < key[j] \/ (key[i] = key[j] /\ i <= j)
<1> DEFINE K == {key[i] : i \in S}
<1>1. K \in SUBSET Nat /\ K # {}
  OBVIOUS
<1>2. PICK m \in K : \A k \in K : m <= k
  <2> HIDE DEF K
  <2> QED BY <1>1, LeastNatural
<1> DEFINE U == {i \in S : key[i] = m}
<1>3. U \in SUBSET Nat /\ U # {}
  <2>1. PICK i \in S : key[i] = m
    BY <1>2
  <2>2. i \in U
    BY <2>1
  <2>3. \A j \in U : j \in Nat
    OBVIOUS
  <2> HIDE DEF U
  <2> QED BY <2>2, <2>3
<1>4. PICK i \in U : \A j \in U : i <= j
  <2> HIDE DEF U
  <2> QED BY <1>3, LeastNatural
<1>5. ASSUME NEW j \in S
      PROVE  key[i] < key[j] \/ (key[i] = key[j] /\ i <= j)
  <2>1. key[j] \in Nat /\ m \in Nat /\ m <= key[j] /\ key[i] = m
    BY <1>1, <1>2
  <2>2. key[j] = m => i <= j
    BY <1>4
  <2> QED BY <2>1, <2>2
<1> QED BY <1>5

\* p lists the positions 1..n in the order of their keys, equal keys as they come.
Before(key, i, j) == key[i] < key[j] \/ (key[i] = key[j] /\ i < j)

Orders(p, key, n) ==
    /\ p \in [1..n -> 1..n]
    /\ \A i \in 1..n : \E k \in 1..n : p[k] = i
    /\ \A j, k \in 1..n : j < k => Before(key, p[j], p[k])

\* r is s sorted by key: its elements at the positions p.
SortedAt(r, s, key, p) ==
    /\ Orders(p, key, Len(s))
    /\ Len(r) = Len(s) /\ \A k \in 1..Len(s) : r[k] = s[p[k]]

LEMMA SortedInOrder ==
    ASSUME NEW T, NEW s \in Seq(T), NEW key, \A i \in 1..Len(s) : key[i] \in Nat
    PROVE  SortBy(s, key) \in Seq(T) /\ \E p : SortedAt(SortBy(s, key), s, key, p)
<1> DEFINE n == Len(s)
           First(S, i) == \A j \in S : key[i] < key[j] \/ (key[i] = key[j] /\ i <= j)
           least(S) == CHOOSE i \in S : \A j \in S :
                           key[i] < key[j] \/ (key[i] = key[j] /\ i <= j)
           step == [q \in (SUBSET (1..n)) \X (1..n) |-> q[1] \ {least(q[1])}]
           Leaves(f) == f = [k \in 0..n |->
                               IF k = 0 THEN 1..n ELSE f[k-1] \ {least(f[k-1])}]
           rest == CHOOSE f : Leaves(f)
<1>1. n \in Nat
  OBVIOUS
<1>2. ASSUME NEW S \in SUBSET (1..n), S # {}
      PROVE  least(S) \in S /\ First(S, least(S))
  BY <1>1, <1>2, LeastKey, Zenon
<1> HIDE DEF least
<1>3. step \in [(SUBSET (1..n)) \X (1..n) -> SUBSET (1..n)]
  OBVIOUS
<1>4. \A S \in SUBSET (1..n), k \in 1..n : step[<<S, k>>] = S \ {least(S)}
  OBVIOUS
<1> HIDE DEF step
<1>5. PICK F \in [0..n -> SUBSET (1..n)] : Unfolds(F, n, 1..n, step)
  <2>1. 1..n \in SUBSET (1..n)
    OBVIOUS
  <2> QED BY <1>1, <1>3, <2>1, RecursionFromZero
<1>6. ASSUME NEW k \in 0..n
      PROVE  F[k] = IF k = 0 THEN 1..n ELSE F[k-1] \ {least(F[k-1])}
  <2>1. k # 0 => k \in 1..n /\ k - 1 \in 0..n
    BY <1>1
  <2> QED BY <1>4, <1>5, <2>1 DEF Unfolds
<1>7. Leaves(F)
  BY <1>6
<1>8. Leaves(rest)
  BY <1>7, Zenon
<1> HIDE DEF rest
<1>9. \A k \in 0..n : rest[k] = IF k = 0 THEN 1..n ELSE rest[k-1] \ {least(rest[k-1])}
  BY <1>8
<1> DEFINE Size(m) == /\ rest[m] \in SUBSET (1..n) /\ IsFiniteSet(rest[m])
                      /\ Cardinality(rest[m]) = n - m
           P == {m \in Nat : m <= n => Size(m)}
<1>10. 0 \in P
  <2>1. 0 \in 0..n
    BY <1>1
  <2>2. rest[0] = 1..n
    BY <1>9, <2>1
  <2>3. IsFiniteSet(1..n) /\ Cardinality(1..n) = n
    <3>1. n - 1 + 1 = n /\ 1 \in Int /\ n \in Int /\ (1 > n => n = 0)
      BY <1>1
    <3> QED BY <3>1, FS_Interval
  <2> QED BY <1>1, <2>2, <2>3
<1>11. ASSUME NEW m \in Nat, m \in P PROVE m + 1 \in P
  <2> SUFFICES ASSUME m + 1 <= n PROVE Size(m + 1)
    OBVIOUS
  <2>1. Size(m) /\ m + 1 \in 0..n /\ m + 1 # 0 /\ (m + 1) - 1 = m /\ n - m > 0
    BY <1>1, <1>11
  <2>2. rest[m + 1] = rest[m] \ {least(rest[m])}
    BY <1>9, <2>1
  <2>3. rest[m] # {}
    BY <1>1, <2>1, FS_EmptySet
  <2>4. least(rest[m]) \in rest[m]
    BY <1>2, <2>1, <2>3
  <2>5. /\ IsFiniteSet(rest[m] \ {least(rest[m])})
        /\ Cardinality(rest[m] \ {least(rest[m])}) = Cardinality(rest[m]) - 1
    BY <2>1, <2>4, FS_RemoveElement
  <2> QED BY <1>1, <2>1, <2>2, <2>5
<1>12. \A m \in 0..n : Size(m)
  <2>1. \A m \in Nat : m \in P
    <3> HIDE DEF P
    <3> QED BY <1>10, <1>11, NaturalsOf
  <2> QED BY <1>1, <2>1
<1> DEFINE p == [k \in 1..n |-> least(rest[k-1])]
<1>13. ASSUME NEW k \in 1..n
       PROVE  /\ p[k] \in rest[k-1] /\ p[k] \in 1..n /\ First(rest[k-1], p[k])
              /\ rest[k] = rest[k-1] \ {p[k]}
  <2>1. k - 1 \in 0..n /\ n - (k - 1) > 0 /\ k \in 0..n /\ k # 0
    BY <1>1
  <2>2. Size(k - 1)
    BY <1>12, <2>1
  <2>3. rest[k-1] # {}
    BY <1>1, <2>1, <2>2, FS_EmptySet
  <2>4. p[k] = least(rest[k-1])
    OBVIOUS
  <2> HIDE DEF p
  <2>5. p[k] \in rest[k-1] /\ First(rest[k-1], p[k])
    <3> HIDE DEF First
    <3> QED BY <1>2, <2>2, <2>3, <2>4
  <2>6. p[k] \in 1..n
    BY <2>2, <2>5
  <2>7. rest[k] = rest[k-1] \ {p[k]}
    BY <1>9, <2>1, <2>4
  <2> HIDE DEF First
  <2> QED BY <2>5, <2>6, <2>7
<1>14. SortBy(s, key) = [k \in 1..n |-> s[p[k]]]
  <2>1. SortBy(s, key) = [k \in 1..n |-> s[least(rest[k-1])]]
    BY Zenon DEF SortBy, least, rest
  <2> QED BY <2>1
<1>15. p = [k \in 1..n |-> p[k]]
  OBVIOUS
<1> HIDE DEF p, First, Size, P
<1>16. p \in [1..n -> 1..n]
  BY <1>13, <1>15
<1>17. \A a, b \in 0..n : a <= b => rest[b] \subseteq rest[a]
  <2> SUFFICES ASSUME NEW a \in 0..n
               PROVE  \A b \in 0..n : a <= b => rest[b] \subseteq rest[a]
    OBVIOUS
  <2> DEFINE Q == {m \in Nat : a + m <= n => rest[a + m] \subseteq rest[a]}
  <2>1. 0 \in Q
    BY <1>1
  <2>2. ASSUME NEW m \in Nat, m \in Q PROVE m + 1 \in Q
    <3> SUFFICES ASSUME a + (m + 1) <= n PROVE rest[a + (m + 1)] \subseteq rest[a]
      OBVIOUS
    <3>1. /\ a + m <= n /\ a + (m + 1) \in 1..n /\ (a + (m + 1)) - 1 = a + m
      BY <1>1
    <3>2. rest[a + (m + 1)] = rest[a + m] \ {p[a + (m + 1)]}
      BY <1>13, <3>1
    <3>3. rest[a + m] \subseteq rest[a]
      BY <2>2, <3>1
    <3> QED BY <3>2, <3>3
  <2>3. \A m \in Nat : m \in Q
    <3> HIDE DEF Q
    <3> QED BY <2>1, <2>2, NaturalsOf
  <2>4. ASSUME NEW b \in 0..n, a <= b PROVE rest[b] \subseteq rest[a]
    <3>1. b - a \in Nat /\ a + (b - a) = b /\ b <= n
      BY <2>4
    <3> QED BY <2>3, <3>1
  <2> QED BY <2>4
<1>18. ASSUME NEW i \in 1..n PROVE \E k \in 1..n : p[k] = i
  <2> DEFINE S == {k \in 0..n : i \notin rest[k]}
  <2>1. n \in S
    <3>1. n \in 0..n /\ n - n = 0
      BY <1>1
    <3>2. rest[n] = {}
      BY <1>12, <3>1, FS_EmptySet DEF Size
    <3> QED BY <3>1, <3>2
  <2>2. S \in SUBSET Nat /\ S # {}
    BY <2>1
  <2>3. PICK k \in S : \A m \in S : k <= m
    <3> HIDE DEF S
    <3> QED BY <2>2, LeastNatural
  <2>4. k # 0
    <3>1. 0 \in 0..n
      BY <1>1
    <3>2. rest[0] = 1..n
      BY <1>9, <3>1
    <3> QED BY <2>3, <3>1, <3>2
  <2>5. k \in 1..n /\ k - 1 \in 0..n /\ k - 1 \notin S
    BY <2>3, <2>4
  <2>6. i \in rest[k-1] /\ i \notin rest[k]
    BY <2>3, <2>5
  <2> QED BY <1>13, <2>5, <2>6
<1>19. ASSUME NEW j \in 1..n, NEW k \in 1..n, j < k
       PROVE  key[p[j]] < key[p[k]] \/ (key[p[j]] = key[p[k]] /\ p[j] < p[k])
  <2>1. j \in 0..n /\ k - 1 \in 0..n /\ j <= k - 1
    BY <1>19
  <2>2. p[k] \in rest[j]
    BY <1>13, <1>17, <2>1
  <2>3. p[k] \in rest[j-1] /\ p[k] # p[j]
    BY <1>13, <2>2
  <2>4. key[p[j]] < key[p[k]] \/ (key[p[j]] = key[p[k]] /\ p[j] <= p[k])
    BY <1>13, <2>3, Zenon DEF First
  <2>5. p[j] \in Int /\ p[k] \in Int
    <3>1. p[j] \in 1..n /\ p[k] \in 1..n
      BY <1>16
    <3> QED BY <3>1
  <2> QED BY <2>3, <2>4, <2>5
<1> DEFINE sorted == [k \in 1..n |-> s[p[k]]]
<1>20. sorted \in Seq(T) /\ Len(sorted) = n
  <2>1. sorted \in [1..n -> T]
    BY <1>16
  <2> HIDE DEF sorted
  <2> QED BY <1>1, <2>1
<1>21. \A k \in 1..n : sorted[k] = s[p[k]]
  OBVIOUS
<1> HIDE DEF sorted
<1>22. SortedAt(sorted, s, key, p)
  BY <1>16, <1>18, <1>19, <1>20, <1>21, Zenon DEF SortedAt, Orders, Before
<1> QED BY <1>14, <1>20, <1>22 DEF sorted

\* Sorting loses nothing.
LEMMA SortByType ==
    ASSUME NEW T, NEW s \in Seq(T), NEW key, \A i \in 1..Len(s) : key[i] \in Nat
    PROVE  SortBy(s, key) \in Seq(T) /\ Len(SortBy(s, key)) = Len(s)
BY SortedInOrder DEF SortedAt

\* Sequences of the same lengths start at the same places.
LEMMA SameStarts ==
    ASSUME NEW T, NEW ss \in Seq(Seq(T)), NEW start, Starts(start, ss),
           NEW U, NEW tt \in Seq(Seq(U)), NEW other, Starts(other, tt),
           Len(tt) = Len(ss), \A k \in 1..Len(ss) : Len(tt[k]) = Len(ss[k])
    PROVE  other = start
<1> DEFINE n == Len(ss)
           P == {m \in Nat : m <= n => other[m] = start[m]}
<1>1. n \in Nat /\ start \in [0..n -> Nat] /\ other \in [0..n -> Nat]
      /\ start[0] = 0 /\ other[0] = 0
      /\ \A k \in 1..n : start[k] = start[k-1] + Len(ss[k]) /\ other[k] = other[k-1] + Len(ss[k])
  BY DEF Starts
<1> HIDE DEF n
<1>2. 0 \in P
  BY <1>1
<1>3. ASSUME NEW m \in Nat, m \in P PROVE m + 1 \in P
  <2> SUFFICES ASSUME m + 1 <= n PROVE other[m + 1] = start[m + 1]
    OBVIOUS
  <2>1. m + 1 \in 1..n /\ (m + 1) - 1 = m /\ m <= n
    BY <1>1
  <2>2. other[m] = start[m]
    BY <1>3, <2>1
  <2> DEFINE i == m + 1
  <2>3. i \in 1..n /\ i - 1 = m
    BY <2>1
  <2> HIDE DEF i
  <2>4. other[i] = start[i]
    BY <1>1, <2>2, <2>3
  <2> QED BY <2>4 DEF i
<1>4. \A m \in Nat : m \in P
  <2> HIDE DEF P
  <2> QED BY <1>2, <1>3, NaturalsOf
<1>5. \A k \in 0..n : other[k] = start[k]
  BY <1>1, <1>4
<1> QED BY <1>1, <1>5

LEMMA NotEmpty ==
    ASSUME NEW s, Listed(s)
    PROVE  s # << >> <=> Len(s) # 0
<1>1. PICK S : s \in Seq(S)
  BY DEF Listed
<1> QED BY <1>1

\* f numbers 1..n from 0 on.
Numbers(f, n) ==
    /\ \A i \in 1..n : f[i] \in 0..(n - 1)
    /\ \A x \in 0..(n - 1) : \E i \in 1..n : f[i] = x
    /\ \A i, j \in 1..n : f[i] = f[j] => i = j

LEMMA NumbersAlike ==
    ASSUME NEW n, NEW f, Numbers(f, n), NEW g, \A i \in 1..n : g[i] = f[i]
    PROVE  Numbers(g, n)
<1>1. \A i \in 1..n : g[i] \in 0..(n - 1)
  BY Zenon DEF Numbers
<1>2. \A x \in 0..(n - 1) : \E i \in 1..n : g[i] = x
  BY Zenon DEF Numbers
<1>3. \A i, j \in 1..n : g[i] = g[j] => i = j
  BY Zenon DEF Numbers
<1> QED BY <1>1, <1>2, <1>3 DEF Numbers

\* Numbers that increase are the positions.
LEMMA NumbersInOrder ==
    ASSUME NEW n \in Nat, NEW f, Numbers(f, n), \A i, j \in 1..n : i < j => f[i] < f[j]
    PROVE  \A i \in 1..n : f[i] = i - 1
<1> DEFINE g == [i \in 1..n |-> i - 1]
<1>1. Increasing(f, n) /\ Increasing(g, n)
  BY DEF Numbers, Increasing
<1>2. Among(f, n, g, n)
  <2> SUFFICES ASSUME NEW i \in 1..n PROVE \E j \in 1..n : f[i] = g[j]
    BY DEF Among
  <2>1. PICK x \in 0..(n - 1) : x = f[i]
    BY DEF Numbers
  <2>2. x + 1 \in 1..n /\ g[x + 1] = x
    OBVIOUS
  <2> QED BY <2>1, <2>2
<1>3. Among(g, n, f, n)
  <2> SUFFICES ASSUME NEW i \in 1..n PROVE \E j \in 1..n : g[i] = f[j]
    BY DEF Among
  <2>1. g[i] \in 0..(n - 1)
    OBVIOUS
  <2> HIDE DEF g
  <2> QED BY <2>1 DEF Numbers
<1> HIDE DEF g
<1>4. \A i \in 1..n : f[i] = g[i]
  BY <1>1, <1>2, <1>3, SameIncreasing
<1> QED BY <1>4 DEF g

ImageOf(rank, N) == {rank[x] : x \in N}

\* p lists the elements of N, each once.
Lists(p, a, N) ==
    /\ p \in [1..a -> N]
    /\ \A i, j \in 1..a : p[i] = p[j] => i = j
    /\ \A x \in N : \E i \in 1..a : p[i] = x

LEMMA IncreasingOnce ==
    ASSUME NEW n \in Nat, NEW f, Increasing(f, n)
    PROVE  \A i, j \in 1..n : f[i] = f[j] => i = j
<1>1. ASSUME NEW i \in 1..n, NEW j \in 1..n, f[i] = f[j] PROVE ~(i < j) /\ ~(j < i)
  BY <1>1 DEF Increasing
<1> QED BY <1>1

\* The ranks of N, which are as many as its elements, number a list of it.
LEMMA RanksNumber ==
    ASSUME NEW a \in Nat, NEW N, NEW p, Lists(p, a, N),
           NEW rank, ImageOf(rank, N) = 0..(Cardinality(N) - 1),
           NEW g, \A i \in 1..a : g[i] = rank[p[i]]
    PROVE  Cardinality(N) = a /\ Numbers(g, a)
<1>1. p \in Surjection(1..a, N) /\ p \in Injection(1..a, N)
  BY DEF Lists, Surjection, Injection, IsInjective
<1>2. ExistsBijection(1..a, N)
  BY <1>1 DEF ExistsBijection, Bijection
<1>3. Cardinality(N) = a /\ IsFiniteSet(N)
  <2> HIDE DEF Lists
  <2> QED BY <1>2, FS_CountingElements, FS_NatBijection
<1> DEFINE f == [i \in 1..a |-> rank[p[i]]]
           T == 0..(a - 1)
<1>4. IsFiniteSet(1..a) /\ Cardinality(1..a) = a /\ Cardinality(T) = a
  BY FS_Interval, SMTT(20)
<1>5. \A i \in 1..a : f[i] \in T
  <2>1. \A x \in N : rank[x] \in T
    BY <1>3 DEF ImageOf
  <2> QED BY <2>1 DEF Lists
<1>6. \A x \in T : \E i \in 1..a : f[i] = x
  <2> SUFFICES ASSUME NEW x \in T PROVE \E i \in 1..a : f[i] = x
    OBVIOUS
  <2>1. PICK y \in N : rank[y] = x
    BY <1>3 DEF ImageOf
  <2>2. PICK i \in 1..a : p[i] = y
    BY DEF Lists
  <2> QED BY <2>1, <2>2
<1>7. f \in Surjection(1..a, T)
  <2>1. f = [i \in 1..a |-> f[i]]
    OBVIOUS
  <2> HIDE DEF f, T
  <2> QED BY <1>5, <1>6, <2>1 DEF Surjection
<1> HIDE DEF f, T
<1>8. f \in Injection(1..a, T)
  BY <1>4, <1>7, FS_SurjSameCardinalityImpliesInj
<1>9. \A i, j \in 1..a : f[i] = f[j] => i = j
  BY <1>8 DEF Injection, IsInjective
<1>10. Numbers(f, a)
  BY <1>5, <1>6, <1>9 DEF Numbers, T
<1>11. \A i \in 1..a : g[i] = f[i]
  BY DEF f
<1> QED BY <1>3, <1>10, <1>11, NumbersAlike

\* A concatenation, part by part.
Parts(all, r, s) ==
    /\ Len(all) = Len(r) + Len(s)
    /\ \A i \in 1..Len(r) : all[i] = r[i]
    /\ \A i \in 1..Len(s) : all[Len(r) + i] = s[i]

LEMMA TwoJoined ==
    ASSUME NEW T, NEW r \in Seq(T), NEW s \in Seq(T)
    PROVE  r \o s \in Seq(T) /\ Parts(r \o s, r, s)
<1> DEFINE u == r \o s
<1>1. /\ u \in Seq(T) /\ Len(u) = Len(r) + Len(s)
      /\ \A i \in 1..(Len(r) + Len(s)) :
             u[i] = IF i <= Len(r) THEN r[i] ELSE s[i - Len(r)]
  BY ConcatProperties
<1> HIDE DEF u
<1>2. ASSUME NEW i \in 1..Len(r) PROVE u[i] = r[i]
  <2>1. i \in 1..(Len(r) + Len(s)) /\ i <= Len(r)
    OBVIOUS
  <2> QED BY <1>1, <2>1
<1>3. ASSUME NEW i \in 1..Len(s) PROVE u[Len(r) + i] = s[i]
  <2>1. PICK k \in 1..(Len(r) + Len(s)) : k = Len(r) + i
    OBVIOUS
  <2>2. ~(k <= Len(r)) /\ k - Len(r) = i
    BY <2>1
  <2> QED BY <1>1, <2>1, <2>2
<1> QED BY <1>1, <1>2, <1>3 DEF Parts, u

ThreeParts(all, r, s, t) ==
    /\ Len(all) = Len(r) + Len(s) + Len(t)
    /\ \A i \in 1..Len(r) : all[i] = r[i]
    /\ \A i \in 1..Len(s) : all[Len(r) + i] = s[i]
    /\ \A i \in 1..Len(t) : all[Len(r) + Len(s) + i] = t[i]

LEMMA ThreeJoined ==
    ASSUME NEW r, Listed(r), NEW s, Listed(s), NEW t, Listed(t)
    PROVE  Listed((r \o s) \o t) /\ ThreeParts((r \o s) \o t, r, s, t)
<1> DEFINE T == Elements(r) \cup Elements(s) \cup Elements(t)
<1>1. r \in Seq(Elements(r)) /\ s \in Seq(Elements(s)) /\ t \in Seq(Elements(t))
  BY ListedFacts
<1>2. r \in Seq(T) /\ s \in Seq(T) /\ t \in Seq(T)
  BY <1>1
<1> HIDE DEF T
<1>3. PICK u : u = r \o s
  OBVIOUS
<1>4. u \in Seq(T) /\ Parts(u, r, s)
  BY <1>2, <1>3, TwoJoined
<1>5. PICK v : v = u \o t
  OBVIOUS
<1>6. v \in Seq(T) /\ Parts(v, u, t)
  BY <1>2, <1>4, <1>5, TwoJoined
<1>7. PICK a, b, c \in Nat : a = Len(r) /\ b = Len(s) /\ c = Len(t)
  BY <1>2
<1>8. Len(u) = a + b /\ Len(v) = a + b + c
  BY <1>4, <1>6, <1>7 DEF Parts
<1>9. ASSUME NEW i \in 1..a PROVE v[i] = r[i]
  <2>1. i \in 1..(a + b)
    BY <1>7
  <2>2. v[i] = u[i]
    BY <1>6, <1>8, <2>1 DEF Parts
  <2>3. u[i] = r[i]
    BY <1>4, <1>7 DEF Parts
  <2> QED BY <2>2, <2>3
<1>10. ASSUME NEW i \in 1..b PROVE v[a + i] = s[i]
  <2>1. PICK k \in 1..(a + b) : k = a + i
    BY <1>7
  <2>2. v[k] = u[k]
    BY <1>6, <1>8, <2>1 DEF Parts
  <2>3. u[a + i] = s[i]
    BY <1>4, <1>7 DEF Parts
  <2> QED BY <2>1, <2>2, <2>3
<1>11. ASSUME NEW i \in 1..c PROVE v[a + b + i] = t[i]
  BY <1>6, <1>7, <1>8 DEF Parts
<1>12. Listed(v)
  BY <1>6 DEF Listed
<1>13. ThreeParts(v, r, s, t)
  BY <1>7, <1>8, <1>9, <1>10, <1>11 DEF ThreeParts
<1> QED BY <1>3, <1>5, <1>12, <1>13

\* There is one such order.
LEMMA OneOrder ==
    ASSUME NEW n \in Nat, NEW key, \A i \in 1..n : key[i] \in Nat,
           NEW p, Orders(p, key, n), NEW q, Orders(q, key, n)
    PROVE  p = q
<1> DEFINE P == {m \in Nat : \A k \in 1..n : k <= m => p[k] = q[k]}
<1>0. /\ p \in [1..n -> 1..n] /\ q \in [1..n -> 1..n]
      /\ \A i \in 1..n : \E k \in 1..n : p[k] = i
      /\ \A i \in 1..n : \E k \in 1..n : q[k] = i
      /\ \A j, k \in 1..n : j < k => Before(key, p[j], p[k])
      /\ \A j, k \in 1..n : j < k => Before(key, q[j], q[k])
  BY Zenon DEF Orders
<1>1. \A i \in 1..n : ~Before(key, i, i)
  BY DEF Before
<1>2. \A i, j \in 1..n : Before(key, i, j) => ~Before(key, j, i)
  <2> SUFFICES ASSUME NEW i \in 1..n, NEW j \in 1..n PROVE Before(key, i, j) => ~Before(key, j, i)
    OBVIOUS
  <2>1. key[i] \in Nat /\ key[j] \in Nat
    OBVIOUS
  <2> QED BY <2>1 DEF Before
<1>3. 0 \in P
  OBVIOUS
<1>4. ASSUME NEW m \in Nat, m \in P PROVE m + 1 \in P
  <2> SUFFICES ASSUME NEW i \in 1..n, i <= m + 1 PROVE p[i] = q[i]
    OBVIOUS
  <2>1. \A k \in 1..n : k < i => p[k] = q[k]
    BY <1>4
  <2>2. PICK j \in 1..n : q[j] = p[i]
    BY <1>0
  <2>3. PICK h \in 1..n : p[h] = q[i]
    BY <1>0
  <2>4. p[i] \in 1..n /\ q[i] \in 1..n
    BY <1>0
  <2>5. ~(j < i)
    <3> SUFFICES ASSUME j < i PROVE FALSE
      OBVIOUS
    <3>1. p[j] = p[i] /\ Before(key, p[j], p[i])
      BY <1>0, <2>1, <2>2
    <3> QED BY <1>1, <2>4, <3>1
  <2>6. ~(h < i)
    <3> SUFFICES ASSUME h < i PROVE FALSE
      OBVIOUS
    <3>1. q[h] = q[i] /\ Before(key, q[h], q[i])
      BY <1>0, <2>1, <2>3
    <3> QED BY <1>1, <2>4, <3>1
  <2>7. j = i \/ h = i
    <3> SUFFICES ASSUME i < j, i < h PROVE FALSE
      BY <2>5, <2>6
    <3>1. Before(key, q[i], p[i]) /\ Before(key, p[i], q[i])
      BY <1>0, <2>2, <2>3
    <3> QED BY <1>2, <2>4, <3>1
  <2> QED BY <2>2, <2>3, <2>7
<1>5. n \in P
  <2> HIDE DEF P
  <2> QED BY <1>3, <1>4, NaturalsOf
<1>6. \A k \in 1..n : p[k] = q[k]
  BY <1>5
<1> QED BY <1>0, <1>6

\* The order of one sequence after another whose keys are all lower.
OneThenOther(p, n, q, m) == [i \in 1..(n + m) |-> IF i <= n THEN p[i] ELSE n + q[i - n]]

LEMMA JoinedOrder ==
    ASSUME NEW n \in Nat, NEW m \in Nat, NEW key, \A i \in 1..(n + m) : key[i] \in Nat,
           NEW low, \A i \in 1..n : key[i] = low[i],
           NEW high, \A i \in 1..m : key[n + i] = high[i],
           \A i \in 1..n, j \in 1..m : low[i] < high[j],
           NEW p, Orders(p, low, n), NEW q, Orders(q, high, m)
    PROVE  Orders(OneThenOther(p, n, q, m), key, n + m)
<1> DEFINE r == OneThenOther(p, n, q, m)
           N == n + m
<1>0. /\ p \in [1..n -> 1..n] /\ q \in [1..m -> 1..m]
      /\ \A i \in 1..n : \E k \in 1..n : p[k] = i
      /\ \A i \in 1..m : \E k \in 1..m : q[k] = i
      /\ \A j, k \in 1..n : j < k => Before(low, p[j], p[k])
      /\ \A j, k \in 1..m : j < k => Before(high, q[j], q[k])
  BY Zenon DEF Orders
<1>1. /\ r = [i \in 1..N |-> r[i]]
      /\ \A i \in 1..n : i \in 1..N /\ r[i] = p[i] /\ p[i] \in 1..n /\ p[i] \in 1..N
      /\ \A i \in 1..m : n + i \in 1..N /\ r[n + i] = n + q[i] /\ q[i] \in 1..m
                         /\ n + q[i] \in 1..N
  <2>1. \A i \in 1..N : r[i] = IF i <= n THEN p[i] ELSE n + q[i - n]
    BY DEF OneThenOther
  <2>2. r = [i \in 1..N |-> r[i]]
    BY DEF OneThenOther
  <2> HIDE DEF r
  <2>3. ASSUME NEW i \in 1..n
        PROVE  i \in 1..N /\ r[i] = p[i] /\ p[i] \in 1..n /\ p[i] \in 1..N
    <3>1. i \in 1..N /\ i <= n /\ p[i] \in 1..n
      BY <1>0
    <3> QED BY <2>1, <3>1
  <2>4. ASSUME NEW i \in 1..m
        PROVE  n + i \in 1..N /\ r[n + i] = n + q[i] /\ q[i] \in 1..m /\ n + q[i] \in 1..N
    <3>1. n + i \in 1..N /\ ~(n + i <= n) /\ (n + i) - n = i /\ q[i] \in 1..m
      BY <1>0
    <3> QED BY <2>1, <3>1
  <2> QED BY <2>2, <2>3, <2>4
<1> HIDE DEF r
<1>2. \A i \in 1..N : i \in 1..n \/ (i - n \in 1..m /\ i = n + (i - n))
  OBVIOUS
<1>3. r \in [1..N -> 1..N]
  <2>1. \A i \in 1..N : r[i] \in 1..N
    <3> SUFFICES ASSUME NEW i \in 1..N PROVE r[i] \in 1..N
      OBVIOUS
    <3>1. CASE i \in 1..n
      BY <1>1, <3>1
    <3>2. CASE i - n \in 1..m /\ i = n + (i - n)
      <4>1. r[n + (i - n)] = n + q[i - n] /\ n + q[i - n] \in 1..N
        BY <1>1, <3>2
      <4> QED BY <3>2, <4>1
    <3> QED BY <1>2, <3>1, <3>2
  <2> QED BY <1>1, <2>1
<1>4. ASSUME NEW i \in 1..N PROVE \E k \in 1..N : r[k] = i
  <2>1. CASE i \in 1..n
    <3>1. PICK k \in 1..n : p[k] = i
      BY <1>0, <2>1
    <3> QED BY <1>1, <3>1
  <2>2. CASE i - n \in 1..m /\ i = n + (i - n)
    <3>1. PICK k \in 1..m : q[k] = i - n
      BY <1>0, <2>2
    <3>2. r[n + k] = i /\ n + k \in 1..N
      BY <1>1, <2>2, <3>1
    <3> QED BY <3>2
  <2> QED BY <1>2, <2>1, <2>2
<1>5. ASSUME NEW j \in 1..N, NEW k \in 1..N, j < k PROVE Before(key, r[j], r[k])
  <2>1. CASE j \in 1..n /\ k \in 1..n
    <3>1. Before(low, p[j], p[k])
      BY <1>0, <1>5, <2>1
    <3>2. r[j] = p[j] /\ r[k] = p[k] /\ key[p[j]] = low[p[j]] /\ key[p[k]] = low[p[k]]
      BY <1>1, <2>1
    <3> QED BY <3>1, <3>2, Zenon DEF Before
  <2>2. CASE j \in 1..n /\ k \notin 1..n
    <3>1. k - n \in 1..m /\ k = n + (k - n)
      BY <1>2, <2>2
    <3> DEFINE h == k - n
    <3>2. h \in 1..m /\ k = n + h
      BY <3>1
    <3> HIDE DEF h
    <3>3. r[j] = p[j] /\ p[j] \in 1..n /\ r[k] = n + q[h] /\ q[h] \in 1..m
      BY <1>1, <2>2, <3>2
    <3>4. key[r[j]] = low[p[j]] /\ key[r[k]] = high[q[h]]
      BY <3>3
    <3> QED BY <3>3, <3>4 DEF Before
  <2>3. CASE j \notin 1..n
    <3>1. j - n \in 1..m /\ j = n + (j - n) /\ k - n \in 1..m /\ k = n + (k - n) /\ j - n < k - n
      <4>1. j - n \in 1..m /\ j > n
        BY <1>2, <2>3
      <4> QED BY <1>5, <4>1
    <3> DEFINE g == j - n
               h == k - n
    <3>2. g \in 1..m /\ h \in 1..m /\ g < h /\ j = n + g /\ k = n + h
      BY <3>1
    <3> HIDE DEF g, h
    <3>3. /\ r[j] = n + q[g] /\ q[g] \in 1..m /\ r[k] = n + q[h] /\ q[h] \in 1..m
          /\ Before(high, q[g], q[h])
      BY <1>0, <1>1, <3>2
    <3>4. key[r[j]] = high[q[g]] /\ key[r[k]] = high[q[h]]
      BY <3>3
    <3>5. q[g] < q[h] => r[j] < r[k]
      BY <3>3
    <3> QED BY <3>3, <3>4, <3>5 DEF Before
  <2> QED BY <2>1, <2>2, <2>3
<1> QED BY <1>3, <1>4, <1>5 DEF Orders, r

\* s and t have at each place what is at one place in ss and tt.
Matched(s, t, ss, tt) ==
    /\ Len(t) = Len(s)
    /\ \A i \in 1..Len(s) :
           \E k \in 1..Len(ss) : \E j \in 1..Len(ss[k]) : s[i] = ss[k][j] /\ t[i] = tt[k][j]

\* So it is for the concatenations of sequences of the same lengths.
LEMMA FlattenedAlike ==
    ASSUME NEW T, NEW ss \in Seq(Seq(T)), NEW U, NEW tt \in Seq(Seq(U)),
           Len(tt) = Len(ss), \A k \in 1..Len(ss) : Len(tt[k]) = Len(ss[k])
    PROVE  /\ FlattenSeq(ss) \in Seq(T) /\ FlattenSeq(tt) \in Seq(U)
           /\ Matched(FlattenSeq(ss), FlattenSeq(tt), ss, tt)
<1> DEFINE s == FlattenSeq(ss)
           t == FlattenSeq(tt)
<1>1. s \in Seq(T) /\ (\E start : FlattensTo(s, ss, start))
      /\ t \in Seq(U) /\ (\E start : FlattensTo(t, tt, start))
  BY FlattenedAt
<1> HIDE DEF s, t
<1>2. PICK start : FlattensTo(s, ss, start)
  BY <1>1
<1>3. PICK other : FlattensTo(t, tt, other)
  BY <1>1
<1>4. other = start
  <2>1. Starts(start, ss) /\ Starts(other, tt)
    BY <1>2, <1>3, Zenon DEF FlattensTo
  <2> QED BY <2>1, SameStarts
<1>5. Len(t) = Len(s)
  BY <1>2, <1>3, <1>4, Zenon DEF FlattensTo
<1>6. ASSUME NEW i \in 1..Len(s)
      PROVE  \E k \in 1..Len(ss) : \E j \in 1..Len(ss[k]) : s[i] = ss[k][j] /\ t[i] = tt[k][j]
  <2>1. PICK k \in 1..Len(ss) : \E j \in 1..Len(ss[k]) : i = start[k-1] + j /\ s[i] = ss[k][j]
    <3>1. PlacedAt(s, ss, start, i)
      BY <1>2, PlaceFound
    <3> QED BY <3>1, Zenon DEF PlacedAt
  <2>2. PICK j \in 1..Len(ss[k]) : i = start[k-1] + j /\ s[i] = ss[k][j]
    BY <2>1
  <2>3. k \in 1..Len(tt) /\ j \in 1..Len(tt[k])
    OBVIOUS
  <2>4. t[start[k-1] + j] = tt[k][j]
    BY <1>3, <1>4, <2>3, Zenon DEF FlattensTo
  <2> QED BY <2>2, <2>4
<1>7. Matched(s, t, ss, tt)
  BY <1>5, <1>6, Zenon DEF Matched
<1> QED BY <1>1, <1>7 DEF s, t

\* A concatenation in two parts.
LEMMA FlattenedInParts ==
    ASSUME NEW T, NEW ss \in Seq(Seq(T)), NEW a \in 0..Len(ss),
           NEW aa \in Seq(Seq(T)), Len(aa) = a, \A k \in 1..a : aa[k] = ss[k],
           NEW bb \in Seq(Seq(T)), Len(bb) = Len(ss) - a,
           \A k \in 1..(Len(ss) - a) : bb[k] = ss[a + k]
    PROVE  FlattenSeq(ss) = FlattenSeq(aa) \o FlattenSeq(bb)
<1> DEFINE n == Len(ss)
           m == n - a
           s == FlattenSeq(ss)
           u == FlattenSeq(aa)
           v == FlattenSeq(bb)
<1>1. n \in Nat /\ a \in Nat /\ a <= n /\ m \in Nat /\ n = a + m /\ Len(bb) = m
  OBVIOUS
<1>2. /\ s \in Seq(T) /\ (\E start : FlattensTo(s, ss, start))
      /\ u \in Seq(T) /\ (\E start : FlattensTo(u, aa, start))
      /\ v \in Seq(T) /\ (\E start : FlattensTo(v, bb, start))
  BY FlattenedAt
<1> HIDE DEF s, u, v
<1>3. PICK start : FlattensTo(s, ss, start)
  BY <1>2
<1>4. PICK su : FlattensTo(u, aa, su)
  BY <1>2
<1>5. PICK sv : FlattensTo(v, bb, sv)
  BY <1>2
<1>6. /\ \A k \in 0..n : start[k] \in Nat
      /\ start[0] = 0 /\ Len(s) = start[n]
      /\ \A k \in 1..n : start[k] = start[k-1] + Len(ss[k])
  BY <1>3 DEF FlattensTo, Starts
<1> HIDE DEF n, m
<1> DEFINE fu == [k \in 0..a |-> start[k]]
           fv == [k \in 0..m |-> start[a + k] - start[a]]
<1>7. su = fu
  <2>1. Starts(fu, aa)
    <3>1. fu \in [0..a -> Nat]
      <4>1. \A k \in 0..a : start[k] \in Nat
        BY <1>1, <1>6
      <4> QED BY <4>1
    <3>2. fu[0] = 0
      BY <1>1, <1>6
    <3>3. ASSUME NEW k \in 1..a PROVE fu[k] = fu[k-1] + Len(aa[k])
      <4>1. k \in 1..n /\ k \in 0..a /\ k - 1 \in 0..a
        BY <1>1
      <4>2. fu[k] = start[k] /\ fu[k-1] = start[k-1] /\ aa[k] = ss[k]
        BY <4>1
      <4> HIDE DEF fu
      <4> QED BY <1>6, <4>1, <4>2
    <3> HIDE DEF fu
    <3> QED BY <3>1, <3>2, <3>3 DEF Starts
  <2>2. Starts(su, aa)
    BY <1>4, Zenon DEF FlattensTo
  <2> HIDE DEF fu
  <2> QED BY <2>1, <2>2, SameStarts
<1>8. sv = fv
  <2>1. Starts(fv, bb)
    <3>1. fv \in [0..m -> Nat]
      <4> SUFFICES ASSUME NEW k \in 0..m PROVE start[a + k] - start[a] \in Nat
        OBVIOUS
      <4>1. a \in 0..n /\ a + k \in 0..n /\ a <= a + k
        BY <1>1
      <4>2. Starts(start, ss)
        BY <1>3, Zenon DEF FlattensTo
      <4>3. start[a] <= start[a + k]
        BY <4>1, <4>2, StartsGrow DEF n
      <4> QED BY <1>6, <4>1, <4>3
    <3>2. fv[0] = 0
      <4>1. 0 \in 0..m /\ a + 0 = a /\ a \in 0..n
        BY <1>1
      <4>2. fv[0] = start[a] - start[a] /\ start[a] \in Nat
        BY <1>6, <4>1
      <4> QED BY <4>2
    <3>3. ASSUME NEW k \in 1..m PROVE fv[k] = fv[k-1] + Len(bb[k])
      <4>1. /\ a + k \in 1..n /\ a + k \in 0..n /\ (a + k) - 1 = a + (k - 1)
            /\ a + (k - 1) \in 0..n /\ a \in 0..n /\ k \in 0..m /\ k - 1 \in 0..m
        BY <1>1
      <4>2. fv[k] = start[a + k] - start[a] /\ fv[k-1] = start[a + (k - 1)] - start[a]
        BY <4>1
      <4>3. bb[k] = ss[a + k]
        BY DEF m, n
      <4>4. start[a + k] = start[a + (k - 1)] + Len(ss[a + k])
        BY <1>6, <4>1
      <4>5. start[a + k] \in Nat /\ start[a + (k - 1)] \in Nat /\ start[a] \in Nat
        BY <1>6, <4>1
      <4>6. Len(ss[a + k]) \in Nat
        BY <4>1 DEF n
      <4> HIDE DEF fv
      <4>7. PICK x, y, z, d : /\ x = start[a + k] /\ y = start[a + (k - 1)] /\ z = start[a]
                              /\ d = Len(bb[k])
        OBVIOUS
      <4>8. fv[k] = x - z /\ fv[k-1] = y - z /\ x = y + d
        BY <4>2, <4>3, <4>4, <4>7, Zenon
      <4>9. x \in Nat /\ y \in Nat /\ z \in Nat /\ d \in Nat
        BY <4>3, <4>5, <4>6, <4>7, Zenon
      <4>10. x - z = (y - z) + d
        BY <4>8, <4>9
      <4> QED BY <4>7, <4>8, <4>10, Zenon
    <3> HIDE DEF fv
    <3> QED BY <1>1, <3>1, <3>2, <3>3 DEF Starts
  <2>2. Starts(sv, bb)
    BY <1>5, Zenon DEF FlattensTo
  <2> HIDE DEF fv
  <2> QED BY <2>1, <2>2, SameStarts
<1>9. \A k \in 0..a : su[k] = start[k]
  BY <1>7
<1>10. \A k \in 0..m : sv[k] = start[a + k] - start[a]
  BY <1>8
<1> HIDE DEF fu, fv
<1>11. Len(u) = start[a] /\ Len(v) = start[n] - start[a] /\ start[a] \in Nat
  <2>1. a \in 0..a /\ m \in 0..m /\ a + m = n /\ a \in 0..n
    BY <1>1
  <2>2. Len(u) = su[a] /\ Len(v) = sv[m]
    BY <1>1, <1>4, <1>5, Zenon DEF FlattensTo
  <2> QED BY <1>6, <1>9, <1>10, <2>1, <2>2
<1>12. /\ u \o v \in Seq(T) /\ Len(u \o v) = Len(u) + Len(v)
       /\ \A k \in 1..(Len(u) + Len(v)) : (u \o v)[k] = IF k <= Len(u) THEN u[k] ELSE v[k - Len(u)]
  BY <1>2, ConcatProperties
<1>13. Len(u \o v) = Len(s)
  <2>1. n \in 0..n
    BY <1>1
  <2>2. start[n] \in Nat
    BY <1>6, <2>1
  <2> QED BY <1>6, <1>11, <1>12, <2>2
<1>14. ASSUME NEW i \in 1..Len(s) PROVE s[i] = (u \o v)[i]
  <2>1. PICK k \in 1..Len(ss) : \E j \in 1..Len(ss[k]) : i = start[k-1] + j /\ s[i] = ss[k][j]
    <3>1. PlacedAt(s, ss, start, i)
      BY <1>3, PlaceFound
    <3> QED BY <3>1, Zenon DEF PlacedAt
  <2>2. PICK j \in 1..Len(ss[k]) : i = start[k-1] + j /\ s[i] = ss[k][j]
    BY <2>1
  <2>3. k \in 1..n /\ i \in 1..(Len(u) + Len(v))
    BY <1>12, <1>13 DEF n
  <2>4. CASE k <= a
    <3>1. k \in 1..a /\ k - 1 \in 0..a
      BY <1>1, <2>3, <2>4
    <3>2. aa[k] = ss[k] /\ su[k-1] = start[k-1]
      BY <1>9, <3>1
    <3>3. su[k-1] + j \in 1..Len(u) /\ u[su[k-1] + j] = aa[k][j]
      <4>1. k \in 1..Len(aa) /\ j \in 1..Len(aa[k])
        BY <3>1, <3>2
      <4> QED BY <1>4, <4>1, Zenon DEF FlattensTo
    <3>4. i \in 1..Len(u) /\ u[i] = ss[k][j]
      BY <2>2, <3>2, <3>3
    <3> QED BY <1>12, <2>2, <2>3, <3>4
  <2>5. CASE ~(k <= a)
    <3> DEFINE h == k - a
    <3>1. h \in 1..m /\ k = a + h /\ h - 1 \in 0..m /\ k - 1 = a + (h - 1)
      BY <1>1, <2>3, <2>5
    <3>2. bb[h] = ss[k] /\ sv[h-1] = start[k-1] - start[a]
      <4>1. bb[h] = ss[a + h]
        BY <3>1 DEF m, n
      <4>2. sv[h-1] = start[a + (h - 1)] - start[a]
        BY <1>10, <3>1
      <4> QED BY <3>1, <4>1, <4>2
    <3> HIDE DEF h
    <3>3. sv[h-1] + j \in 1..Len(v) /\ v[sv[h-1] + j] = bb[h][j]
      <4>1. h \in 1..Len(bb) /\ j \in 1..Len(bb[h])
        BY <1>1, <3>1, <3>2
      <4> QED BY <1>5, <4>1, Zenon DEF FlattensTo
    <3>4. start[k-1] \in Nat
      <4>1. k - 1 \in 0..n
        BY <1>1, <2>3
      <4> QED BY <1>6, <4>1
    <3> DEFINE g == sv[h-1] + j
    <3>5. g = i - Len(u) /\ g \in 1..Len(v) /\ v[g] = ss[k][j]
      <4>1. g = i - Len(u)
        <5>1. PICK x, z : x = start[k-1] /\ z = start[a]
          OBVIOUS
        <5>2. g = (x - z) + j /\ i = x + j /\ Len(u) = z
          BY <1>11, <2>2, <3>2, <5>1, Zenon
        <5>3. x \in Nat /\ z \in Nat /\ j \in Int
          BY <1>11, <3>4, <5>1
        <5>4. (x - z) + j = (x + j) - z
          BY <5>3
        <5> QED BY <5>2, <5>4, Zenon
      <4> QED BY <3>2, <3>3, <4>1
    <3> HIDE DEF g
    <3>6. ~(i <= Len(u))
      <4>1. PICK x, y : x = Len(u) /\ y = Len(v)
        OBVIOUS
      <4>2. x \in Nat /\ y \in Int /\ i \in Int
        <5>1. x \in Nat
          BY <1>11, <4>1, Zenon
        <5> QED BY <1>2, <4>1, <5>1
      <4>3. g = i - x /\ g \in 1..y
        BY <3>5, <4>1, Zenon
      <4>4. ~(i <= x)
        BY <4>2, <4>3
      <4> QED BY <4>1, <4>4, Zenon
    <3> QED BY <1>12, <2>2, <2>3, <3>5, <3>6
  <2> QED BY <2>4, <2>5
<1>15. s = u \o v
  <2> DEFINE w == u \o v
  <2>1. w \in Seq(T) /\ Len(w) = Len(s) /\ \A i \in 1..Len(s) : s[i] = w[i]
    BY <1>12, <1>13, <1>14
  <2> HIDE DEF w
  <2>2. s = [i \in 1..Len(s) |-> s[i]] /\ w = [i \in 1..Len(s) |-> w[i]]
    BY <1>2, <2>1
  <2>3. s = w
    BY <2>1, <2>2
  <2> QED BY <2>3 DEF w
<1> QED BY <1>15 DEF s, u, v

\* Selecting the same positions.
LEMMA SelectedAlike ==
    ASSUME NEW T, NEW s \in Seq(T), NEW S, NEW U, NEW t \in Seq(U), NEW Q,
           Len(t) = Len(s), \A i \in 1..Len(s) : t[i] \in Q <=> s[i] \in S
    PROVE  /\ Select(s, S) \in Seq(T) /\ Select(t, Q) \in Seq(U)
           /\ Len(Select(t, Q)) = Len(Select(s, S))
           /\ \A k \in 1..Len(Select(s, S)) :
                  \E i \in 1..Len(s) : Select(s, S)[k] = s[i] /\ Select(t, Q)[k] = t[i]
                                       /\ s[i] \in S
<1> DEFINE r == Select(s, S)
           v == Select(t, Q)
<1>1. r \in Seq(T) /\ (\E p : TakenAt(r, s, S, p)) /\ v \in Seq(U) /\ (\E p : TakenAt(v, t, Q, p))
  BY SelectInOrder
<1> HIDE DEF r, v
<1>2. PICK p : TakenAt(r, s, S, p)
  BY <1>1
<1>3. PICK q : TakenAt(v, t, Q, q)
  BY <1>1
<1>4. /\ p \in [1..Len(r) -> 1..Len(s)] /\ Increasing(p, Len(r))
      /\ \A k \in 1..Len(r) : r[k] = s[p[k]] /\ r[k] \in S
      /\ \A i \in 1..Len(s) : s[i] \in S => \E k \in 1..Len(r) : p[k] = i
  BY <1>2, Zenon DEF TakenAt
<1>5. /\ q \in [1..Len(v) -> 1..Len(s)] /\ Increasing(q, Len(v))
      /\ \A k \in 1..Len(v) : v[k] = t[q[k]] /\ v[k] \in Q
      /\ \A i \in 1..Len(s) : t[i] \in Q => \E k \in 1..Len(v) : q[k] = i
  BY <1>3 DEF TakenAt
<1>6. Len(r) \in Nat /\ Len(v) \in Nat
  BY <1>1
<1>7. Among(p, Len(r), q, Len(v))
  <2> SUFFICES ASSUME NEW i \in 1..Len(r) PROVE \E j \in 1..Len(v) : p[i] = q[j]
    BY Zenon DEF Among
  <2>1. p[i] \in 1..Len(s) /\ t[p[i]] \in Q
    BY <1>4
  <2> QED BY <1>5, <2>1
<1>8. Among(q, Len(v), p, Len(r))
  <2> SUFFICES ASSUME NEW j \in 1..Len(v) PROVE \E i \in 1..Len(r) : q[j] = p[i]
    BY Zenon DEF Among
  <2>1. q[j] \in 1..Len(s) /\ s[q[j]] \in S
    BY <1>5
  <2> QED BY <1>4, <2>1
<1>9. Len(r) = Len(v) /\ \A i \in 1..Len(r) : p[i] = q[i]
  <2>1. Increasing(p, Len(r)) /\ Increasing(q, Len(v))
    BY <1>4, <1>5
  <2> QED BY <1>6, <1>7, <1>8, <2>1, SameIncreasing
<1>10. ASSUME NEW k \in 1..Len(r)
       PROVE  \E i \in 1..Len(s) : r[k] = s[i] /\ v[k] = t[i] /\ s[i] \in S
  <2>1. p[k] \in 1..Len(s) /\ r[k] = s[p[k]] /\ v[k] = t[p[k]] /\ s[p[k]] \in S
    BY <1>4, <1>5, <1>9
  <2> QED BY <2>1
<1> QED BY <1>1, <1>9, <1>10 DEF r, v

\* The positions of s that have an element of S, in order.
Picks(q, m, s, S) ==
    /\ m \in Nat /\ q \in [1..m -> 1..Len(s)] /\ Increasing(q, m)
    /\ \A k \in 1..m : s[q[k]] \in S
    /\ \A i \in 1..Len(s) : s[i] \in S => \E k \in 1..m : q[k] = i

\* They are those of what Select takes.
LEMMA SelectedAt ==
    ASSUME NEW T, NEW s \in Seq(T), NEW S, NEW m, NEW q, Picks(q, m, s, S)
    PROVE  /\ Select(s, S) \in Seq(T) /\ Len(Select(s, S)) = m
           /\ \A k \in 1..m : Select(s, S)[k] = s[q[k]]
<1> DEFINE r == Select(s, S)
<1>0. /\ m \in Nat /\ q \in [1..m -> 1..Len(s)] /\ Increasing(q, m)
      /\ \A k \in 1..m : s[q[k]] \in S
      /\ \A i \in 1..Len(s) : s[i] \in S => \E k \in 1..m : q[k] = i
  BY DEF Picks
<1>1. r \in Seq(T) /\ \E p : TakenAt(r, s, S, p)
  BY SelectInOrder
<1> HIDE DEF r
<1>2. PICK p : TakenAt(r, s, S, p)
  BY <1>1
<1>3. /\ p \in [1..Len(r) -> 1..Len(s)] /\ Increasing(p, Len(r))
      /\ \A k \in 1..Len(r) : r[k] = s[p[k]] /\ r[k] \in S
      /\ \A i \in 1..Len(s) : s[i] \in S => \E k \in 1..Len(r) : p[k] = i
  BY <1>2, Zenon DEF TakenAt
<1>4. Among(p, Len(r), q, m)
  <2> SUFFICES ASSUME NEW i \in 1..Len(r) PROVE \E j \in 1..m : p[i] = q[j]
    BY Zenon DEF Among
  <2>1. p[i] \in 1..Len(s) /\ s[p[i]] \in S
    BY <1>3
  <2>2. PICK j \in 1..m : q[j] = p[i]
    BY <1>0, <2>1
  <2> QED BY <2>2
<1>5. Among(q, m, p, Len(r))
  <2> SUFFICES ASSUME NEW j \in 1..m PROVE \E i \in 1..Len(r) : q[j] = p[i]
    BY Zenon DEF Among
  <2>1. q[j] \in 1..Len(s) /\ s[q[j]] \in S
    BY <1>0
  <2>2. PICK i \in 1..Len(r) : p[i] = q[j]
    BY <1>3, <2>1
  <2> QED BY <2>2
<1>6. Len(r) \in Nat
  BY <1>1
<1>7. Len(r) = m /\ \A i \in 1..Len(r) : p[i] = q[i]
  BY <1>0, <1>3, <1>4, <1>5, <1>6, SameIncreasing, SMTT(30)
<1> QED BY <1>1, <1>3, <1>7 DEF r

LEMMA PrefixSelected ==
    ASSUME NEW T, NEW s \in Seq(T), NEW S, NEW a \in 0..Len(s),
           \A i \in 1..Len(s) : s[i] \in S <=> i <= a
    PROVE  Len(Select(s, S)) = a /\ \A k \in 1..a : Select(s, S)[k] = s[k]
<1>1. PICK q : q = [k \in 1..a |-> k]
  OBVIOUS
<1>2. /\ \A k \in 1..a : q[k] = k /\ k \in 1..Len(s) /\ k <= a
      /\ q \in [1..a -> 1..Len(s)] /\ a \in Nat
  BY <1>1
<1>3. Increasing(q, a)
  BY <1>2 DEF Increasing
<1>4. \A k \in 1..a : s[q[k]] \in S
  BY <1>2
<1>5. \A i \in 1..Len(s) : s[i] \in S => \E k \in 1..a : q[k] = i
  <2>1. \A i \in 1..Len(s) : i <= a => i \in 1..a
    BY <1>2
  <2> QED BY <1>2, <2>1
<1>6. Picks(q, a, s, S)
  BY <1>2, <1>3, <1>4, <1>5, Zenon DEF Picks
<1>7. Len(Select(s, S)) = a /\ \A k \in 1..a : Select(s, S)[k] = s[q[k]]
  BY <1>6, SelectedAt
<1> QED BY <1>2, <1>7

LEMMA SuffixSelected ==
    ASSUME NEW T, NEW s \in Seq(T), NEW S, NEW a \in 0..Len(s),
           \A i \in 1..Len(s) : s[i] \in S <=> ~(i <= a)
    PROVE  /\ Len(Select(s, S)) = Len(s) - a
           /\ \A k \in 1..(Len(s) - a) : Select(s, S)[k] = s[a + k]
<1>0. Len(s) - a \in Nat
  OBVIOUS
<1>1. PICK m \in Nat : m = Len(s) - a
  BY <1>0
<1>2. PICK q : q = [k \in 1..m |-> a + k]
  OBVIOUS
<1>3. \A k \in 1..m : a + k \in 1..Len(s) /\ ~(a + k <= a)
  BY <1>1
<1>4. /\ \A k \in 1..m : q[k] = a + k
      /\ q \in [1..m -> 1..Len(s)]
  BY <1>2, <1>3
<1>5. Increasing(q, m)
  <2>1. \A i \in 1..m : q[i] \in Int
    BY <1>4
  <2>2. \A i, j \in 1..m : i < j => a + i < a + j
    BY <1>1
  <2> QED BY <1>4, <2>1, <2>2 DEF Increasing
<1>6. \A k \in 1..m : s[q[k]] \in S
  BY <1>3, <1>4
<1>7. \A i \in 1..Len(s) : s[i] \in S => \E k \in 1..m : q[k] = i
  <2>1. \A i \in 1..Len(s) : ~(i <= a) => i - a \in 1..m /\ i = a + (i - a)
    BY <1>1
  <2> QED BY <1>4, <2>1
<1>8. Picks(q, m, s, S)
  BY <1>4, <1>5, <1>6, <1>7, Zenon DEF Picks
<1>9. Len(Select(s, S)) = m /\ \A k \in 1..m : Select(s, S)[k] = s[q[k]]
  BY <1>8, SelectedAt
<1> QED BY <1>1, <1>4, <1>9

\* What SortBy returns is a sequence.
LEMMA SortByListed ==
    ASSUME NEW s, Listed(s), NEW key
    PROVE  Listed(SortBy(s, key))
<1> DEFINE r == SortBy(s, key)
<1>1. Len(s) \in Nat
  BY ListedFacts
<1>2. \E f : r = [k \in 1..Len(s) |-> f[k]]
  <2> DEFINE least(S) == CHOOSE i \in S : \A j \in S :
                             key[i] < key[j] \/ (key[i] = key[j] /\ i <= j)
             rest == CHOOSE g : g = [k \in 0..Len(s) |->
                         IF k = 0 THEN 1..Len(s) ELSE g[k-1] \ {least(g[k-1])}]
             f == [k \in 1..Len(s) |-> s[least(rest[k-1])]]
  <2>1. r = f
    BY Zenon DEF SortBy
  <2>2. f = [k \in 1..Len(s) |-> f[k]]
    OBVIOUS
  <2> QED BY <2>1, <2>2, Zenon
<1> HIDE DEF r
<1>3. r = [k \in 1..Len(s) |-> r[k]]
  BY <1>2
<1>4. Listed(r)
  BY <1>1, <1>3, Tabled
<1> QED BY <1>4 DEF r

-----------------------------------------------------------------------------
(***************************************************************************)
(* Transactions and their calls.                                           *)
(***************************************************************************)
CallFields == {"index", "parent", "depth", "type", "address", "caller", "stateReverted",
               "statusFailed", "begin", "end", "logs", "changes"}

TrxFields == {"hash", "index", "from", "to", "begin", "end", "status", "calls", "receipt"}

\* PopulateLogBlockIndices retouches every transaction, or stops at a panic.
Retouched(us, ts, hashes) ==
    \/ us = ts
    \/ \E before, numbered :
           us = [i \in 1..Len(ts) |-> Retouch(ts[i], before[i], numbered, hashes)]

LEMMA RetouchedOrNot ==
    ASSUME NEW ts, NEW hashes
    PROVE  Retouched(PopulateLogBlockIndices(ts, hashes).trxs, ts, hashes)
<1> DEFINE us == PopulateLogBlockIndices(ts, hashes).trxs
           receipts == FlattenSeq([i \in 1..Len(ts) |-> ts[i].receipt])
           numbered == NumberedLogs(ts, hashes)
           ok == /\ Len(receipts) = Len(numbered)
                 /\ \A k \in 1..Len(receipts) : receipts[k].data = numbered[k].data
           before == CHOOSE f : f = [i \in 1..Len(ts) |->
                         IF i = 1 THEN 0 ELSE f[i-1] + Len(ts[i-1].receipt)]
<1>1. PopulateLogBlockIndices(ts, hashes) =
          [ok |-> ok,
           trxs |-> IF ok THEN [i \in 1..Len(ts) |-> Retouch(ts[i], before[i], numbered, hashes)]
                    ELSE ts]
  BY Zenon DEF PopulateLogBlockIndices
<1> HIDE DEF receipts, numbered, ok, before
<1>2. us = IF ok THEN [i \in 1..Len(ts) |-> Retouch(ts[i], before[i], numbered, hashes)] ELSE ts
  BY <1>1
<1> QED BY <1>2, Zenon DEF Retouched

\* The index after the highest one.
LEMMA HighestIndex ==
    ASSUME NEW s, Listed(s), \A t \in Elements(s) : t.index \in Nat
    PROVE  /\ NextIndex(s) \in Nat
           /\ \A t \in Elements(s) : t.index < NextIndex(s)
           /\ NextIndex(s) = 0 \/ \E t \in Elements(s) : NextIndex(s) = t.index + 1
<1> DEFINE n == Len(s)
           upTo(m) == {-1} \cup {s[i].index : i \in 1..m}
           P == {m \in Nat : m <= n => \E x \in upTo(m) : \A y \in upTo(m) : x >= y}
<1>1. n \in Nat /\ \A i \in 1..n : s[i].index \in Nat
  <2>1. \A i \in 1..n : s[i] \in Elements(s)
    BY DEF Elements
  <2> QED BY <2>1, ListedFacts
<1>2. 0 \in P
  <2>1. upTo(0) = {-1}
    OBVIOUS
  <2> QED BY <2>1
<1>3. ASSUME NEW m \in Nat, m \in P PROVE m + 1 \in P
  <2> SUFFICES ASSUME m + 1 <= n
               PROVE  \E x \in upTo(m + 1) : \A y \in upTo(m + 1) : x >= y
    OBVIOUS
  <2>1. PICK x \in upTo(m) : \A y \in upTo(m) : x >= y
    BY <1>1, <1>3
  <2> DEFINE last == s[m + 1].index
  <2>2. last \in Nat
    BY <1>1
  <2>3. upTo(m + 1) = upTo(m) \cup {last}
    <3>1. 1..(m + 1) = (1..m) \cup {m + 1}
      OBVIOUS
    <3> QED BY <3>1
  <2>4. \A y \in upTo(m) : y \in Int
    <3>1. \A i \in 1..m : i \in 1..n
      BY <1>1
    <3> QED BY <1>1, <3>1
  <2> HIDE DEF upTo, last
  <2>5. CASE x >= last
    BY <2>1, <2>3, <2>5
  <2>6. CASE ~(x >= last)
    <3>1. \A y \in upTo(m) : last >= y
      BY <2>1, <2>2, <2>4, <2>6
    <3>2. last >= last
      BY <2>2
    <3> QED BY <2>3, <3>1, <3>2
  <2> QED BY <2>5, <2>6
<1>4. n \in P
  <2> HIDE DEF P
  <2> QED BY <1>1, <1>2, <1>3, NaturalsOf
<1>5. PICK x \in upTo(n) : \A y \in upTo(n) : x >= y
  BY <1>1, <1>4
<1>6. upTo(n) = {-1} \cup {t.index : t \in ToSet(s)}
  <2>1. ToSet(s) = {s[i] : i \in 1..n}
    BY ListedFacts DEF Elements
  <2> QED BY <2>1
<1>7. \A y \in upTo(n) : y \in Int /\ y >= -1
  BY <1>1
<1>8. \A y \in upTo(n) : y = -1 \/ \E t \in Elements(s) : y = t.index
  BY DEF Elements
<1>9. \A t \in Elements(s) : t.index \in upTo(n)
  BY DEF Elements
<1> HIDE DEF upTo
<1> DEFINE top == Max(upTo(n))
<1>10. top \in upTo(n) /\ \A y \in upTo(n) : top >= y
  BY <1>5, Zenon DEF Max
<1>11. NextIndex(s) = 1 + top
  BY <1>6, Zenon DEF NextIndex
<1> HIDE DEF top
<1> QED BY <1>7, <1>8, <1>9, <1>10, <1>11

-----------------------------------------------------------------------------
(***************************************************************************)
(* Ordinals.                                                               *)
(***************************************************************************)
\* The logs or changes s have ordinals from b to e.
Dated(s, b, e) ==
    Listed(s) /\ \A k \in 1..Len(s) : "ord" \in DOMAIN s[k] /\ s[k].ord \in b..e

\* The ordinals of a call, but for its end, are from b to e.
Within(c, b, e) ==
    /\ CallFields \subseteq DOMAIN c
    /\ c.begin = 0 \/ c.begin \in b..e
    /\ Dated(c.logs, b, e) /\ Dated(c.changes, b, e)

Spanned(cs, b, e) ==
    Listed(cs) /\ \A i \in 1..Len(cs) : Within(cs[i], b, e) /\ cs[i].end \in b..e

\* A transaction begins after 0, and spans its calls.
Timed(t) ==
    /\ TrxFields \subseteq DOMAIN t
    /\ t.index \in Nat /\ t.begin \in Nat \ {0} /\ t.end \in Nat
    /\ t.hash # MergedHash => t.begin <= t.end /\ Spanned(t.calls, t.begin, t.end)

TimedTrxs(ts) == Listed(ts) /\ ts # << >> /\ \A t \in Elements(ts) : Timed(t)

\* The logs ms are those of ls, at the same ordinals.
SameTimes(ms, ls) ==
    \/ ms = ls
    \/ /\ ms = [k \in 1..Len(ls) |-> ms[k]]
       /\ \A k \in 1..Len(ls) : "ord" \in DOMAIN ls[k] =>
              "ord" \in DOMAIN ms[k] /\ ms[k].ord = ls[k].ord

\* u is t, rewritten by a pass that does not concern its ordinals.
Keeps(u, t) ==
    /\ TrxFields \subseteq DOMAIN u
    /\ u.hash = t.hash /\ u.index = t.index /\ u.begin = t.begin /\ u.end = t.end
    /\ \A b, e : Spanned(t.calls, b, e) => Spanned(u.calls, b, e)

\* The transactions us are ts, rewritten one by one but for their ordinals.
Rewritten(us, ts) ==
    /\ us = [i \in 1..Len(ts) |-> us[i]]
    /\ \A i \in 1..Len(ts) : TrxFields \subseteq DOMAIN ts[i] => Keeps(us[i], ts[i])

LEMMA RewrittenTwice ==
    ASSUME NEW ts, Listed(ts), NEW us, Rewritten(us, ts), NEW vs, Rewritten(vs, us)
    PROVE  Rewritten(vs, ts) /\ Listed(us) /\ Len(us) = Len(ts)
<1>1. Listed(us) /\ Len(us) = Len(ts)
  <2>1. Len(ts) \in Nat /\ us = [i \in 1..Len(ts) |-> us[i]]
    BY ListedFacts, Zenon DEF Rewritten
  <2> QED BY <2>1, Tabled
<1>2. ASSUME NEW i \in 1..Len(ts), TrxFields \subseteq DOMAIN ts[i]
      PROVE  Keeps(vs[i], ts[i])
  <2>1. Keeps(us[i], ts[i])
    BY <1>2, Zenon DEF Rewritten
  <2>2. TrxFields \subseteq DOMAIN us[i] /\ i \in 1..Len(us)
    BY <1>1, <2>1 DEF Keeps
  <2>3. Keeps(vs[i], us[i])
    BY <2>2, Zenon DEF Rewritten
  <2> QED BY <2>1, <2>3, Zenon DEF Keeps
<1>3. vs = [i \in 1..Len(ts) |-> vs[i]]
  <2>1. vs = [i \in 1..Len(us) |-> vs[i]]
    BY Zenon DEF Rewritten
  <2> QED BY <1>1, <2>1
<1> QED BY <1>1, <1>2, <1>3, Zenon DEF Rewritten

LEMMA StaysDated ==
    ASSUME NEW ls, NEW ms, NEW b, NEW e, Dated(ls, b, e), SameTimes(ms, ls)
    PROVE  Dated(ms, b, e)
<1>1. CASE ms = ls
  BY <1>1, Zenon
<1>2. CASE /\ ms = [k \in 1..Len(ls) |-> ms[k]]
           /\ \A k \in 1..Len(ls) : "ord" \in DOMAIN ls[k] =>
                  "ord" \in DOMAIN ms[k] /\ ms[k].ord = ls[k].ord
  <2>1. Len(ls) \in Nat
    BY ListedFacts DEF Dated
  <2>2. Listed(ms) /\ Len(ms) = Len(ls)
    BY <1>2, <2>1, Tabled
  <2> QED BY <1>2, <2>2, Zenon DEF Dated
<1> QED BY <1>1, <1>2 DEF SameTimes

LEMMA NothingDated ==
    ASSUME NEW b, NEW e
    PROVE  Dated(<< >>, b, e)
<1>1. << >> \in Seq({}) /\ Len(<< >>) = 0
  OBVIOUS
<1> QED BY <1>1 DEF Dated, Listed

LEMMA DatedLonger ==
    ASSUME NEW s, NEW b \in Nat, NEW e \in Nat, Dated(s, b, e), NEW f \in Nat, e <= f
    PROVE  Dated(s, b, f)
<1>1. \A o : o \in b..e => o \in b..f
  OBVIOUS
<1> QED BY <1>1, Zenon DEF Dated

LEMMA DatedMore ==
    ASSUME NEW s, NEW b, NEW e, Dated(s, b, e),
           NEW x, "ord" \in DOMAIN x, x.ord \in b..e
    PROVE  Dated(Append(s, x), b, e)
<1> DEFINE r == Append(s, x)
<1>1. /\ \E S : r \in Seq(S)
      /\ Len(s) \in Nat /\ Len(r) = Len(s) + 1
      /\ (\A k \in 1..Len(s) : r[k] = s[k]) /\ r[Len(s) + 1] = x
  BY AppendAny DEF Dated, Listed
<1> HIDE DEF r
<1>2. ASSUME NEW k \in 1..Len(r)
      PROVE  "ord" \in DOMAIN r[k] /\ r[k].ord \in b..e
  <2>1. k \in 1..Len(s) \/ k = Len(s) + 1
    BY <1>1
  <2>2. CASE k = Len(s) + 1
    BY <1>1, <2>2
  <2>3. CASE k \in 1..Len(s)
    BY <1>1, <2>3 DEF Dated
  <2> QED BY <2>1, <2>2, <2>3
<1> QED BY <1>1, <1>2, Zenon DEF Dated, Listed, r

LEMMA DatedElements ==
    ASSUME NEW s, NEW b, NEW e, Dated(s, b, e), NEW x \in ToSet(s)
    PROVE  x.ord \in b..e
<1>1. ToSet(s) = Elements(s)
  BY ListedFacts DEF Dated
<1> QED BY <1>1 DEF Dated, Elements

LEMMA WithinLonger ==
    ASSUME NEW c, NEW b \in Nat, NEW e \in Nat, Within(c, b, e), NEW f \in Nat, e <= f
    PROVE  Within(c, b, f)
<1>1. \A o : o \in b..e => o \in b..f
  OBVIOUS
<1>2. Dated(c.logs, b, f) /\ Dated(c.changes, b, f)
  BY DatedLonger DEF Within
<1> QED BY <1>1, <1>2, Zenon DEF Within

LEMMA StaysWithin ==
    ASSUME NEW c, NEW d, NEW b, NEW e, Within(c, b, e), CallFields \subseteq DOMAIN d,
           d.begin = c.begin, d.changes = c.changes, SameTimes(d.logs, c.logs)
    PROVE  Within(d, b, e)
<1>1. Dated(d.logs, b, e)
  BY StaysDated DEF Within
<1> QED BY <1>1, Zenon DEF Within

\* Calls rewritten one by one, but for their ordinals.
LEMMA StaysSpanned ==
    ASSUME NEW ds, NEW cs, cs = [i \in 1..Len(ds) |-> cs[i]],
           \A i \in 1..Len(ds) : CallFields \subseteq DOMAIN ds[i] =>
               /\ CallFields \subseteq DOMAIN cs[i]
               /\ cs[i].begin = ds[i].begin /\ cs[i].end = ds[i].end
               /\ cs[i].changes = ds[i].changes
               /\ SameTimes(cs[i].logs, ds[i].logs),
           NEW b, NEW e, Spanned(ds, b, e)
    PROVE  Spanned(cs, b, e)
<1>1. Len(ds) \in Nat
  BY ListedFacts DEF Spanned
<1>2. Listed(cs) /\ Len(cs) = Len(ds)
  BY <1>1, Tabled
<1>3. ASSUME NEW i \in 1..Len(ds)
      PROVE  Within(cs[i], b, e) /\ cs[i].end \in b..e
  <2>1. Within(ds[i], b, e) /\ ds[i].end \in b..e
    BY Zenon DEF Spanned
  <2>2. CallFields \subseteq DOMAIN ds[i]
    BY <2>1, Zenon DEF Within
  <2>3. Within(cs[i], b, e)
    BY <2>1, <2>2, StaysWithin
  <2> QED BY <2>1, <2>2, <2>3
<1> QED BY <1>2, <1>3, Zenon DEF Spanned

LEMMA RevertKeeps ==
    ASSUME NEW t, TrxFields \subseteq DOMAIN t
    PROVE  Keeps(Revert(t), t)
<1> DEFINE u == Revert(t)
           rs == PopulateStateReverted(t.calls)
           marked(i) == [t.calls[i] EXCEPT !.stateReverted = RevertedCalls(t.calls)[i]]
<1>1. rs = [i \in 1..Len(t.calls) |-> marked(i)]
  BY Zenon DEF PopulateStateReverted
<1>2. ASSUME NEW i, CallFields \subseteq DOMAIN t.calls[i]
      PROVE  /\ CallFields \subseteq DOMAIN marked(i)
             /\ marked(i).begin = t.calls[i].begin /\ marked(i).end = t.calls[i].end
             /\ marked(i).logs = t.calls[i].logs /\ marked(i).changes = t.calls[i].changes
  <2>1. PICK reverted : reverted = RevertedCalls(t.calls)[i]
    OBVIOUS
  <2>2. marked(i) = [t.calls[i] EXCEPT !.stateReverted = reverted]
    BY <2>1
  <2> HIDE DEF marked
  <2> QED BY <1>2, <2>2 DEF CallFields
<1>3. u = [t EXCEPT !.calls = rs]
  BY Zenon DEF Revert
<1> HIDE DEF u, rs, marked
<1>4. /\ TrxFields \subseteq DOMAIN u
      /\ u.hash = t.hash /\ u.index = t.index /\ u.begin = t.begin /\ u.end = t.end
      /\ u.calls = rs
  BY <1>3 DEF TrxFields
<1>5. rs = [i \in 1..Len(t.calls) |-> rs[i]] /\ \A i \in 1..Len(t.calls) : rs[i] = marked(i)
  BY <1>1
<1>6. \A b, e : Spanned(t.calls, b, e) => Spanned(rs, b, e)
  <2>1. \A i \in 1..Len(t.calls) : CallFields \subseteq DOMAIN t.calls[i] =>
            /\ CallFields \subseteq DOMAIN rs[i]
            /\ rs[i].begin = t.calls[i].begin /\ rs[i].end = t.calls[i].end
            /\ rs[i].changes = t.calls[i].changes
            /\ SameTimes(rs[i].logs, t.calls[i].logs)
    BY <1>2, <1>5, Zenon DEF SameTimes
  <2> QED BY <1>5, <2>1, StaysSpanned
<1> QED BY <1>4, <1>6, Zenon DEF Keeps, u

LEMMA StatusKeeps ==
    ASSUME NEW t, TrxFields \subseteq DOMAIN t
    PROVE  Keeps(PopulateTrxStatus(t), t)
<1> DEFINE u == PopulateTrxStatus(t)
<1>1. u = t \/ \E status : u = [t EXCEPT !.status = status]
  BY Zenon DEF PopulateTrxStatus
<1>2. /\ TrxFields \subseteq DOMAIN u
      /\ u.hash = t.hash /\ u.index = t.index /\ u.begin = t.begin /\ u.end = t.end
      /\ u.calls = t.calls
  <2>1. CASE u = t
    BY <2>1, Zenon
  <2>2. CASE \E status : u = [t EXCEPT !.status = status]
    <3> HIDE DEF u
    <3> QED BY <2>2 DEF TrxFields
  <2> QED BY <1>1, <2>1, <2>2
<1> QED BY <1>2, Zenon DEF Keeps

LEMMA RetouchKeeps ==
    ASSUME NEW t, TrxFields \subseteq DOMAIN t, NEW before, NEW numbered, NEW hashes
    PROVE  Keeps(Retouch(t, before, numbered, hashes), t)
<1> DEFINE callLog(l) ==
               LET at == {k \in 1..Len(numbered) : SameLog(l, numbered[k])} IN
               IF t.hash \in hashes /\ t.hash # MergedHash THEN l
               ELSE IF at # {} THEN [l EXCEPT !.blockIndex = Min(at) - 1]
               ELSE IF t.hash = MergedHash THEN l ELSE [l EXCEPT !.blockIndex = 0]
           newLogs(ls) == [k \in 1..Len(ls) |-> callLog(ls[k])]
           newCall(c) == [c EXCEPT !.logs = newLogs(c.logs)]
           cs == [i \in 1..Len(t.calls) |-> newCall(t.calls[i])]
           u == Retouch(t, before, numbered, hashes)
<1>1. PICK receipt : u = [t EXCEPT !.receipt = receipt, !.calls = cs]
  BY Zenon DEF Retouch, MapSeq
<1>2. ASSUME NEW l, "ord" \in DOMAIN l
      PROVE  "ord" \in DOMAIN callLog(l) /\ callLog(l).ord = l.ord
  <2>1. callLog(l) = l \/ \E x : callLog(l) = [l EXCEPT !.blockIndex = x]
    BY Zenon
  <2> HIDE DEF callLog
  <2> QED BY <1>2, <2>1
<1> HIDE DEF callLog
<1>3. ASSUME NEW ls PROVE SameTimes(newLogs(ls), ls)
  <2>1. /\ newLogs(ls) = [k \in 1..Len(ls) |-> newLogs(ls)[k]]
        /\ \A k \in 1..Len(ls) : newLogs(ls)[k] = callLog(ls[k])
    OBVIOUS
  <2> HIDE DEF newLogs
  <2> QED BY <1>2, <2>1, Zenon DEF SameTimes
<1> HIDE DEF newLogs
<1>4. ASSUME NEW c, CallFields \subseteq DOMAIN c
      PROVE  /\ CallFields \subseteq DOMAIN newCall(c)
             /\ newCall(c).begin = c.begin /\ newCall(c).end = c.end
             /\ newCall(c).logs = newLogs(c.logs) /\ newCall(c).changes = c.changes
  BY <1>4 DEF CallFields
<1> HIDE DEF newCall, u
<1>5. /\ TrxFields \subseteq DOMAIN u
      /\ u.hash = t.hash /\ u.index = t.index /\ u.begin = t.begin /\ u.end = t.end
      /\ u.calls = cs
  <2> HIDE DEF cs
  <2> QED BY <1>1 DEF TrxFields
<1>6. /\ cs = [i \in 1..Len(t.calls) |-> cs[i]]
      /\ \A i \in 1..Len(t.calls) : cs[i] = newCall(t.calls[i])
  OBVIOUS
<1> HIDE DEF cs
<1>7. \A b, e : Spanned(t.calls, b, e) => Spanned(cs, b, e)
  <2>1. ASSUME NEW i \in 1..Len(t.calls), CallFields \subseteq DOMAIN t.calls[i]
        PROVE  /\ CallFields \subseteq DOMAIN cs[i]
               /\ cs[i].begin = t.calls[i].begin /\ cs[i].end = t.calls[i].end
               /\ cs[i].changes = t.calls[i].changes
               /\ SameTimes(cs[i].logs, t.calls[i].logs)
    <3>1. cs[i] = newCall(t.calls[i])
      BY <1>6
    <3>2. /\ CallFields \subseteq DOMAIN cs[i]
          /\ cs[i].begin = t.calls[i].begin /\ cs[i].end = t.calls[i].end
          /\ cs[i].changes = t.calls[i].changes
          /\ cs[i].logs = newLogs(t.calls[i].logs)
      BY <1>4, <2>1, <3>1
    <3>3. SameTimes(newLogs(t.calls[i].logs), t.calls[i].logs)
      BY <1>3
    <3> QED BY <3>2, <3>3
  <2> QED BY <1>6, <2>1, StaysSpanned
<1> QED BY <1>5, <1>7, Zenon DEF Keeps, u

LEMMA UpgradeKeeps ==
    ASSUME NEW t, TrxFields \subseteq DOMAIN t
    PROVE  Keeps([t EXCEPT !.calls = UpgradeCalls(t.calls)], t)
<1> DEFINE u == [t EXCEPT !.calls = UpgradeCalls(t.calls)]
           heads == HeadParents(t.calls)
           new(i) == IF heads[i] # 0
                     THEN [t.calls[i] EXCEPT !.caller = t.calls[heads[i]].address]
                     ELSE t.calls[i]
           cs == [i \in 1..Len(t.calls) |-> new(i)]
<1>1. UpgradeCalls(t.calls) = cs
  BY Zenon DEF UpgradeCalls
<1>2. ASSUME NEW i, CallFields \subseteq DOMAIN t.calls[i]
      PROVE  /\ CallFields \subseteq DOMAIN new(i)
             /\ new(i).begin = t.calls[i].begin /\ new(i).end = t.calls[i].end
             /\ new(i).logs = t.calls[i].logs /\ new(i).changes = t.calls[i].changes
  <2>1. new(i) = t.calls[i] \/ \E x : new(i) = [t.calls[i] EXCEPT !.caller = x]
    BY Zenon
  <2> HIDE DEF new
  <2> QED BY <1>2, <2>1 DEF CallFields
<1> HIDE DEF new
<1>3. cs = [i \in 1..Len(t.calls) |-> cs[i]] /\ \A i \in 1..Len(t.calls) : cs[i] = new(i)
  OBVIOUS
<1> HIDE DEF cs
<1>4. /\ TrxFields \subseteq DOMAIN u
      /\ u.hash = t.hash /\ u.index = t.index /\ u.begin = t.begin /\ u.end = t.end
      /\ u.calls = cs
  BY <1>1 DEF TrxFields
<1> HIDE DEF u
<1>5. \A b, e : Spanned(t.calls, b, e) => Spanned(cs, b, e)
  <2>1. \A i \in 1..Len(t.calls) : CallFields \subseteq DOMAIN t.calls[i] =>
            /\ CallFields \subseteq DOMAIN cs[i]
            /\ cs[i].begin = t.calls[i].begin /\ cs[i].end = t.calls[i].end
            /\ cs[i].changes = t.calls[i].changes
            /\ SameTimes(cs[i].logs, t.calls[i].logs)
    BY <1>2, <1>3, Zenon DEF SameTimes
  <2> QED BY <1>3, <2>1, StaysSpanned
<1> QED BY <1>4, <1>5, Zenon DEF Keeps, u

LEMMA ShiftTimes ==
    ASSUME NEW t, Timed(t), NEW base \in Nat
    PROVE  LET u == ShiftOrdinals(t, base) IN
           /\ Timed(u) /\ u.hash = t.hash
           /\ u.begin = t.begin + base /\ u.end = t.end + base
<1> DEFINE shared(l) == t.hash = MergedHash /\ \E r \in ToSet(t.receipt) : SameLog(l, r)
           shiftLog(l) == [l EXCEPT !.ord = l.ord + (IF shared(l) THEN 2 * base ELSE base)]
           shiftLogs(ls) == [k \in 1..Len(ls) |-> shiftLog(ls[k])]
           shiftChange(ch) == [ch EXCEPT !.ord = ch.ord + base]
           shiftChanges(chs) == [k \in 1..Len(chs) |-> shiftChange(chs[k])]
           shiftCall(c) ==
               [c EXCEPT !.begin = IF c.begin = 0 THEN 0 ELSE c.begin + base,
                         !.end = c.end + base,
                         !.logs = shiftLogs(c.logs),
                         !.changes = shiftChanges(c.changes)]
           cs == [i \in 1..Len(t.calls) |-> shiftCall(t.calls[i])]
           u == ShiftOrdinals(t, base)
<1>1. PICK receipt : u = [t EXCEPT !.begin = t.begin + base, !.end = t.end + base,
                                   !.calls = cs, !.receipt = receipt]
  BY Zenon DEF ShiftOrdinals, MapSeq
<1>2. /\ TrxFields \subseteq DOMAIN t /\ t.index \in Nat
      /\ t.begin \in Nat \ {0} /\ t.end \in Nat
  BY Zenon DEF Timed
<1>3. ASSUME t.hash # MergedHash, NEW l, "ord" \in DOMAIN l
      PROVE  "ord" \in DOMAIN shiftLog(l) /\ shiftLog(l).ord = l.ord + base
  <2>1. ~shared(l)
    BY <1>3
  <2>2. shiftLog(l) = [l EXCEPT !.ord = l.ord + base]
    BY <2>1
  <2> HIDE DEF shiftLog
  <2> QED BY <1>3, <2>2
<1> HIDE DEF shiftLog
<1>4. ASSUME NEW ls
      PROVE  /\ shiftLogs(ls) = [k \in 1..Len(ls) |-> shiftLogs(ls)[k]]
             /\ \A k \in 1..Len(ls) : shiftLogs(ls)[k] = shiftLog(ls[k])
  OBVIOUS
<1> HIDE DEF shiftLogs
<1>5. ASSUME NEW ch, "ord" \in DOMAIN ch
       PROVE  "ord" \in DOMAIN shiftChange(ch) /\ shiftChange(ch).ord = ch.ord + base
  BY <1>5
<1> HIDE DEF shiftChange
<1>6. ASSUME NEW chs
       PROVE  /\ shiftChanges(chs) = [k \in 1..Len(chs) |-> shiftChanges(chs)[k]]
              /\ \A k \in 1..Len(chs) : shiftChanges(chs)[k] = shiftChange(chs[k])
  OBVIOUS
<1> HIDE DEF shiftChanges
<1>7. ASSUME NEW c, CallFields \subseteq DOMAIN c
      PROVE  /\ CallFields \subseteq DOMAIN shiftCall(c)
             /\ shiftCall(c).begin = IF c.begin = 0 THEN 0 ELSE c.begin + base
             /\ shiftCall(c).end = c.end + base
             /\ shiftCall(c).logs = shiftLogs(c.logs)
             /\ shiftCall(c).changes = shiftChanges(c.changes)
  BY <1>7 DEF CallFields
<1> HIDE DEF shiftCall, u
<1>8. /\ cs = [i \in 1..Len(t.calls) |-> cs[i]]
      /\ \A i \in 1..Len(t.calls) : cs[i] = shiftCall(t.calls[i])
  OBVIOUS
<1> HIDE DEF cs
<1>9. /\ TrxFields \subseteq DOMAIN u /\ u.hash = t.hash /\ u.index = t.index
      /\ u.begin = t.begin + base /\ u.end = t.end + base /\ u.calls = cs
  BY <1>1, <1>2 DEF TrxFields
<1>10. ASSUME t.hash # MergedHash
      PROVE  Spanned(cs, t.begin + base, t.end + base)
  <2>1. Spanned(t.calls, t.begin, t.end) /\ t.begin <= t.end
    BY <1>10, Zenon DEF Timed
  <2>2. Listed(cs) /\ Len(cs) = Len(t.calls)
    <3>1. Len(t.calls) \in Nat
      BY <2>1, ListedFacts DEF Spanned
    <3> QED BY <1>8, <3>1, Tabled
  <2>3. \A o : o \in t.begin..t.end => o + base \in (t.begin + base)..(t.end + base)
    BY <1>2
  <2>4. ASSUME NEW s, NEW u1, Dated(s, t.begin, t.end),
               u1 = [k \in 1..Len(s) |-> u1[k]],
               \A k \in 1..Len(s) : "ord" \in DOMAIN s[k] =>
                   "ord" \in DOMAIN u1[k] /\ u1[k].ord = s[k].ord + base
        PROVE  Dated(u1, t.begin + base, t.end + base)
    <3>1. Len(s) \in Nat
      BY <2>4, ListedFacts DEF Dated
    <3>2. Listed(u1) /\ Len(u1) = Len(s)
      BY <2>4, <3>1, Tabled
    <3>3. ASSUME NEW k \in 1..Len(s)
          PROVE  "ord" \in DOMAIN u1[k] /\ u1[k].ord \in (t.begin + base)..(t.end + base)
      <4>1. "ord" \in DOMAIN s[k] /\ s[k].ord \in t.begin..t.end
        BY <2>4, Zenon DEF Dated
      <4> QED BY <2>3, <2>4, <4>1, Zenon
    <3> QED BY <3>2, <3>3, Zenon DEF Dated
  <2>5. ASSUME NEW i \in 1..Len(t.calls)
        PROVE  /\ Within(cs[i], t.begin + base, t.end + base)
               /\ cs[i].end \in (t.begin + base)..(t.end + base)
    <3> DEFINE c == t.calls[i]
    <3>1. Within(c, t.begin, t.end) /\ c.end \in t.begin..t.end
      BY <2>1, Zenon DEF Spanned
    <3> HIDE DEF c
    <3>2. /\ CallFields \subseteq DOMAIN cs[i]
          /\ cs[i].begin = IF c.begin = 0 THEN 0 ELSE c.begin + base
          /\ cs[i].end = c.end + base /\ cs[i].logs = shiftLogs(c.logs)
          /\ cs[i].changes = shiftChanges(c.changes)
      BY <1>7, <1>8, <3>1, Zenon DEF Within, c
    <3>3. cs[i].begin = 0 \/ cs[i].begin \in (t.begin + base)..(t.end + base)
      BY <2>3, <3>1, <3>2, Zenon DEF Within
    <3>4. Dated(shiftLogs(c.logs), t.begin + base, t.end + base)
      <4>1. /\ Dated(c.logs, t.begin, t.end)
            /\ shiftLogs(c.logs) = [k \in 1..Len(c.logs) |-> shiftLogs(c.logs)[k]]
        BY <1>4, <3>1, Zenon DEF Within
      <4>2. \A k \in 1..Len(c.logs) : "ord" \in DOMAIN c.logs[k] =>
                "ord" \in DOMAIN shiftLogs(c.logs)[k]
                /\ shiftLogs(c.logs)[k].ord = c.logs[k].ord + base
        BY <1>3, <1>4, <1>10, SMTT(30)
      <4> QED BY <2>4, <4>1, <4>2, Zenon
    <3>5. Dated(shiftChanges(c.changes), t.begin + base, t.end + base)
      <4>1. /\ Dated(c.changes, t.begin, t.end)
            /\ shiftChanges(c.changes) =
                   [k \in 1..Len(c.changes) |-> shiftChanges(c.changes)[k]]
        BY <1>6, <3>1, Zenon DEF Within
      <4>2. \A k \in 1..Len(c.changes) : "ord" \in DOMAIN c.changes[k] =>
                "ord" \in DOMAIN shiftChanges(c.changes)[k]
                /\ shiftChanges(c.changes)[k].ord = c.changes[k].ord + base
        BY <1>5, <1>6, SMTT(30)
      <4> QED BY <2>4, <4>1, <4>2, Zenon
    <3> QED BY <2>3, <3>1, <3>2, <3>3, <3>4, <3>5, Zenon DEF Within
  <2> QED BY <2>2, <2>5, Zenon DEF Spanned
<1>11. Timed(u)
  <2>1. u.begin \in Nat \ {0} /\ u.end \in Nat
    BY <1>2, <1>9
  <2>2. t.begin <= t.end => u.begin <= u.end
    BY <1>2, <1>9
  <2> QED BY <1>2, <1>9, <1>10, <2>1, <2>2, Zenon DEF Timed
<1> QED BY <1>9, <1>11 DEF u

\* Transactions one after the other: each begins after "base" of the one before, the
\* first after base[0], and ends at its own.
InTurn(us, base) ==
    /\ Listed(us) /\ us # << >>
    /\ base \in [0..Len(us) -> Nat]
    /\ \A i \in 1..Len(us) : /\ Timed(us[i])
                             /\ us[i].begin > base[i-1] /\ us[i].end = base[i]

LEMMA KeptTimed ==
    ASSUME NEW t, Timed(t), NEW u, Keeps(u, t)
    PROVE  Timed(u)
BY Zenon DEF Timed, Keeps

LEMMA KeptInTurn ==
    ASSUME NEW ts, NEW base, InTurn(ts, base), NEW us, Rewritten(us, ts)
    PROVE  InTurn(us, base) /\ Len(us) = Len(ts)
<1>1. Len(ts) \in Nat /\ ts \in Seq(Elements(ts))
  BY ListedFacts DEF InTurn
<1>2. Listed(us) /\ Len(us) = Len(ts)
  <2>1. us = [i \in 1..Len(ts) |-> us[i]]
    BY Zenon DEF Rewritten
  <2> QED BY <1>1, <2>1, Tabled
<1>3. us # << >>
  <2>1. Len(ts) # 0
    BY <1>1 DEF InTurn
  <2> QED BY <1>2, <2>1
<1>4. ASSUME NEW i \in 1..Len(ts)
      PROVE  Timed(us[i]) /\ us[i].begin > base[i-1] /\ us[i].end = base[i]
  <2>1. Timed(ts[i]) /\ ts[i].begin > base[i-1] /\ ts[i].end = base[i]
    BY Zenon DEF InTurn
  <2>2. Keeps(us[i], ts[i])
    BY <2>1, Zenon DEF Timed, Rewritten
  <2>3. Timed(us[i])
    BY <2>1, <2>2, KeptTimed
  <2> QED BY <2>1, <2>2, <2>3, Zenon DEF Keeps
<1> QED BY <1>2, <1>3, <1>4, Zenon DEF InTurn

\* Baselines, by its recursion.
LEMMA BaselinesAre ==
    ASSUME NEW ts, Listed(ts), \A i \in 1..Len(ts) : ts[i].end \in Nat, NEW first \in Nat
    PROVE  LET base == Baselines(ts, first) IN
           /\ base \in [0..Len(ts) -> Nat] /\ base[0] = first
           /\ \A i \in 1..Len(ts) : base[i] = ts[i].end + base[i-1]
<1> DEFINE n == Len(ts)
           step == [p \in Nat \X (1..n) |-> ts[p[2]].end + p[1]]
           Counts(f) == f = [i \in 0..n |-> IF i = 0 THEN first ELSE ts[i].end + f[i-1]]
           base == CHOOSE f : Counts(f)
<1>1. n \in Nat
  BY ListedFacts
<1>2. step \in [Nat \X (1..n) -> Nat]
  <2>1. \A p \in Nat \X (1..n) : ts[p[2]].end + p[1] \in Nat
    OBVIOUS
  <2> QED BY <2>1
<1>3. \A m \in Nat, i \in 1..n : step[<<m, i>>] = ts[i].end + m
  OBVIOUS
<1> HIDE DEF step
<1>4. PICK F \in [0..n -> Nat] : Unfolds(F, n, first, step)
  BY <1>1, <1>2, RecursionFromZero
<1>5. ASSUME NEW i \in 0..n
      PROVE  F[i] = IF i = 0 THEN first ELSE ts[i].end + F[i-1]
  <2>1. i # 0 => i \in 1..n /\ i - 1 \in 0..n
    BY <1>1
  <2> QED BY <1>3, <1>4, <2>1 DEF Unfolds
<1>6. Counts(F)
  BY <1>5
<1>7. Counts(base)
  BY <1>6, Zenon
<1>8. Baselines(ts, first) = base
  BY Zenon DEF Baselines
<1> HIDE DEF base
<1>9. \A i \in 0..n : base[i] = IF i = 0 THEN first ELSE ts[i].end + base[i-1]
  BY <1>7
<1>10. base[0] = first /\ \A i \in 1..n : base[i] = ts[i].end + base[i-1]
  <2>1. 0 \in 0..n /\ \A i \in 1..n : i \in 0..n /\ i # 0
    BY <1>1
  <2> QED BY <1>9, <2>1
<1> DEFINE P == {m \in Nat : m <= n => base[m] \in Nat}
<1>11. 0 \in P
  BY <1>10
<1>12. ASSUME NEW m \in Nat, m \in P PROVE m + 1 \in P
  <2>1. m + 1 <= n => m + 1 \in 1..n /\ (m + 1) - 1 = m /\ m <= n
    BY <1>1
  <2>2. m + 1 <= n => base[m + 1] = ts[m + 1].end + base[m]
    BY <1>10, <2>1
  <2>3. m + 1 <= n => ts[m + 1].end \in Nat /\ base[m] \in Nat
    BY <1>12, <2>1
  <2> QED BY <2>2, <2>3
<1>13. \A m \in 0..n : base[m] \in Nat
  <2> HIDE DEF P
  <2>1. \A m \in Nat : m \in P
    BY <1>11, <1>12, NaturalsOf
  <2> QED BY <1>1, <2>1 DEF P
<1>14. base \in [0..n -> Nat]
  BY <1>7, <1>13
<1> QED BY <1>8, <1>10, <1>14

\* The block-level changes from "first" on are shifted.
ShiftedChanges(changed, first, by) ==
    [k \in 1..Len(changed) |-> IF changed[k].ord >= first
                               THEN [changed[k] EXCEPT !.ord = changed[k].ord + by]
                               ELSE changed[k]]

LEMMA ReorderedInTurn ==
    ASSUME NEW block, {"trxs", "changes", "ver"} \subseteq DOMAIN block,
           TimedTrxs(block.trxs), NEW first \in Nat
    PROVE  LET out == ReorderTransactionsAndRenumberOrdinals(block, first) IN
           /\ \E base : /\ InTurn(out.trxs, base) /\ base[0] = first
                        /\ out.changes =
                               ShiftedChanges(block.changes, first, base[Len(out.trxs)])
           /\ {"trxs", "changes", "ver"} \subseteq DOMAIN out
           /\ \A i \in 1..Len(out.trxs) : \E t \in Elements(block.trxs) :
                  out.trxs[i].hash = t.hash
<1> DEFINE ts == block.trxs
           key == MapSeq(ts, LAMBDA t : t.index)
           sorted == SortBy(ts, key)
           base == Baselines(sorted, first)
           us == [i \in 1..Len(sorted) |-> ShiftOrdinals(sorted[i], base[i-1])]
           moved == ShiftedChanges(block.changes, first, base[Len(sorted)])
           out == ReorderTransactionsAndRenumberOrdinals(block, first)
<1>1. /\ Listed(ts) /\ ts \in Seq(Elements(ts)) /\ Len(ts) \in Nat /\ Len(ts) # 0
      /\ \A i \in 1..Len(ts) : ts[i] \in Elements(ts)
  <2>1. \A i \in 1..Len(ts) : ts[i] \in Elements(ts)
    BY DEF Elements
  <2>2. Listed(ts) /\ ts # << >>
    BY Zenon DEF TimedTrxs
  <2> HIDE DEF ts
  <2> QED BY <2>1, <2>2, ListedFacts, NotEmpty
<1>2. \A t \in Elements(ts) : Timed(t)
  BY Zenon DEF TimedTrxs
<1>3. out = [block EXCEPT !.trxs = us, !.changes = moved]
  BY Zenon DEF ReorderTransactionsAndRenumberOrdinals, ShiftedChanges, MapSeq
<1> HIDE DEF ts, out
<1>4. \A i \in 1..Len(ts) : key[i] \in Nat
  <2>1. \A i \in 1..Len(ts) : ts[i].index \in Nat
    BY <1>1, <1>2, Zenon DEF Timed
  <2>2. \A i \in 1..Len(ts) : key[i] = ts[i].index
    BY DEF MapSeq
  <2> HIDE DEF key
  <2> QED BY <2>1, <2>2
<1> HIDE DEF key
<1>5. sorted \in Seq(Elements(ts)) /\ Len(sorted) = Len(ts)
  BY <1>1, <1>4, SortByType
<1> HIDE DEF sorted
<1>6. Listed(sorted) /\ \A i \in 1..Len(sorted) : Timed(sorted[i])
  BY <1>2, <1>5 DEF Listed
<1>7. /\ base \in [0..Len(sorted) -> Nat] /\ base[0] = first
      /\ \A i \in 1..Len(sorted) : base[i] = sorted[i].end + base[i-1]
  <2>1. \A i \in 1..Len(sorted) : sorted[i].end \in Nat
    BY <1>6, Zenon DEF Timed
  <2> QED BY <1>6, <2>1, BaselinesAre
<1> HIDE DEF base
<1>8. /\ us = [i \in 1..Len(sorted) |-> us[i]]
      /\ \A i \in 1..Len(sorted) : us[i] = ShiftOrdinals(sorted[i], base[i-1])
  OBVIOUS
<1> HIDE DEF us
<1>9. Listed(us) /\ Len(us) = Len(sorted) /\ us # << >>
  <2>1. Listed(us) /\ Len(us) = Len(sorted)
    BY <1>1, <1>5, <1>8, Tabled
  <2> QED BY <1>1, <1>5, <2>1, NotEmpty
<1>10. ASSUME NEW i \in 1..Len(sorted)
       PROVE  /\ Timed(us[i]) /\ us[i].begin > base[i-1] /\ us[i].end = base[i]
              /\ us[i].hash = sorted[i].hash
  <2> DEFINE t == sorted[i]
             b == base[i-1]
  <2>1. Timed(t) /\ t.begin \in Nat \ {0} /\ t.end \in Nat
    BY <1>6, Zenon DEF Timed
  <2>2. b \in Nat /\ base[i] = t.end + b
    <3>1. i - 1 \in 0..Len(sorted)
      BY <1>1, <1>5
    <3> QED BY <1>7, <3>1
  <2>3. us[i] = ShiftOrdinals(t, b)
    BY <1>8
  <2> HIDE DEF t, b
  <2>4. /\ Timed(us[i]) /\ us[i].begin = t.begin + b /\ us[i].end = t.end + b
        /\ us[i].hash = t.hash
    BY <2>1, <2>2, <2>3, ShiftTimes, SMTT(30)
  <2>5. us[i].begin > b
    <3>1. PICK x, y : x = t.begin /\ y = us[i].begin
      OBVIOUS
    <3>2. x \in Nat \ {0} /\ b \in Nat /\ y = x + b
      BY <2>1, <2>2, <2>4, <3>1, Zenon
    <3>3. y > b
      BY <3>2
    <3> QED BY <3>1, <3>3, Zenon
  <2> QED BY <2>2, <2>4, <2>5 DEF b, t
<1>11. InTurn(us, base)
  BY <1>7, <1>9, <1>10, Zenon DEF InTurn
<1>12. out.trxs = us /\ out.changes = moved /\ {"trxs", "changes", "ver"} \subseteq DOMAIN out
  <2> HIDE DEF moved
  <2> QED BY <1>3
<1>13. \A i \in 1..Len(out.trxs) : \E t \in Elements(ts) : out.trxs[i].hash = t.hash
  <2>1. \A i \in 1..Len(sorted) : sorted[i] \in Elements(ts)
    BY <1>5
  <2> QED BY <1>9, <1>10, <1>12, <2>1, Zenon
<1> QED BY <1>7, <1>9, <1>11, <1>12, <1>13, Zenon DEF out, moved, ts

\* Of finitely many naturals there is a greatest.
LEMMA GreatestOf ==
    ASSUME NEW n \in Nat, n # 0, NEW f, \A i \in 1..n : f[i] \in Nat
    PROVE  Max({f[i] : i \in 1..n}) \in {f[i] : i \in 1..n}
<1> DEFINE P == {m \in Nat : m \in 1..n => \E x \in 1..m : \A y \in 1..m : f[x] >= f[y]}
<1>1. 0 \in P
  OBVIOUS
<1>2. ASSUME NEW m \in Nat, m \in P PROVE m + 1 \in P
  <2> SUFFICES ASSUME m + 1 \in 1..n
               PROVE  \E x \in 1..(m + 1) : \A y \in 1..(m + 1) : f[x] >= f[y]
    OBVIOUS
  <2>1. CASE m = 0
    <3>1. 1..(m + 1) = {1} /\ f[1] \in Nat
      BY <2>1
    <3>2. f[1] >= f[1]
      BY <3>1
    <3> QED BY <3>1, <3>2
  <2>2. CASE m # 0
    <3>1. PICK x \in 1..m : \A y \in 1..m : f[x] >= f[y]
      BY <1>2, <2>2
    <3>2. /\ f[m + 1] \in Nat /\ \A y \in 1..m : f[y] \in Nat
          /\ \A y \in 1..(m + 1) : y \in 1..m \/ y = m + 1
      OBVIOUS
    <3>3. CASE f[x] >= f[m + 1]
      <4>1. \A y \in 1..(m + 1) : f[x] >= f[y]
        BY <3>1, <3>2, <3>3
      <4> QED BY <4>1
    <3>4. CASE ~(f[x] >= f[m + 1])
      <4>1. \A y \in 1..(m + 1) : f[m + 1] >= f[y]
        <5>1. \A y \in 1..m : f[m + 1] >= f[y]
          BY <3>1, <3>2, <3>4
        <5>2. f[m + 1] >= f[m + 1]
          BY <3>2
        <5> QED BY <3>2, <5>1, <5>2
      <4>2. m + 1 \in 1..(m + 1)
        OBVIOUS
      <4> QED BY <4>1, <4>2
    <3> QED BY <3>3, <3>4
  <2> QED BY <2>1, <2>2
<1>3. n \in P
  <2> HIDE DEF P
  <2> QED BY <1>1, <1>2, NaturalsOf
<1>4. PICK x \in 1..n : \A y \in 1..n : f[x] >= f[y]
  BY <1>3
<1> DEFINE S == {f[i] : i \in 1..n}
<1>5. f[x] \in S /\ \A e \in S : f[x] >= e
  BY <1>4
<1> HIDE DEF S
<1>6. Max(S) \in S
  BY <1>5, Zenon DEF Max
<1> QED BY <1>6 DEF S

\* The merged transaction begins with the first of those it merges.
LEMMA MergedTimes ==
    ASSUME NEW merge, TimedTrxs(merge), NEW index \in Nat
    PROVE  Timed(MergedSystemTrx(merge, index))
<1> DEFINE n == Len(merge)
           u == MergedSystemTrx(merge, index)
<1>1. /\ n \in Nat /\ n # 0 /\ ToSet(merge) = {merge[i] : i \in 1..n}
      /\ \A i \in 1..n : merge[i].begin \in Nat \ {0} /\ merge[i].end \in Nat
  <2>1. Listed(merge) /\ merge # << >> /\ \A t \in Elements(merge) : Timed(t)
    BY Zenon DEF TimedTrxs
  <2>2. \A i \in 1..n : merge[i] \in Elements(merge)
    BY DEF Elements
  <2>3. \A i \in 1..n : merge[i].begin \in Nat \ {0} /\ merge[i].end \in Nat
    BY <2>1, <2>2, Zenon DEF Timed
  <2>4. n \in Nat /\ n # 0 /\ ToSet(merge) = {merge[i] : i \in 1..n}
    BY <2>1, ListedFacts, NotEmpty DEF Elements
  <2> QED BY <2>3, <2>4
<1>2. Min({t.begin : t \in ToSet(merge)}) \in Nat \ {0}
  <2> DEFINE S == {t.begin : t \in ToSet(merge)}
  <2>1. S \in SUBSET (Nat \ {0}) /\ S # {}
    <3>1. S = {merge[i].begin : i \in 1..n} /\ 1 \in 1..n
      BY <1>1
    <3> HIDE DEF S
    <3> QED BY <1>1, <3>1
  <2> HIDE DEF S
  <2>2. PICK x \in S : \A y \in S : x <= y
    BY <2>1, LeastNatural
  <2>3. Min(S) \in S
    BY <2>2, Zenon DEF Min
  <2> QED BY <2>1, <2>3 DEF S
<1>3. Max({t.end : t \in ToSet(merge)}) \in Nat
  <2> DEFINE f == [i \in 1..n |-> merge[i].end]
  <2>1. \A i \in 1..n : f[i] \in Nat /\ f[i] = merge[i].end
    BY <1>1
  <2> HIDE DEF f
  <2>2. {t.end : t \in ToSet(merge)} = {f[i] : i \in 1..n}
    BY <1>1, <2>1
  <2>3. Max({f[i] : i \in 1..n}) \in {f[i] : i \in 1..n}
    BY <1>1, <2>1, GreatestOf
  <2> QED BY <2>1, <2>2, <2>3
<1>4. PICK begin, end : /\ begin = Min({t.begin : t \in ToSet(merge)})
                        /\ end = Max({t.end : t \in ToSet(merge)})
  OBVIOUS
<1>5. PICK calls, receipt, born, done :
          u = [hash |-> MergedHash, index |-> index, from |-> NullAddress,
               to |-> NullAddress, begin |-> begin, end |-> end,
               status |-> "SUCCEEDED", calls |-> calls, receipt |-> receipt,
               born |-> born, done |-> done, system |-> FALSE]
  BY <1>4, Zenon DEF MergedSystemTrx
<1> HIDE DEF u
<1>6. /\ TrxFields \subseteq DOMAIN u /\ u.hash = MergedHash /\ u.index = index
      /\ u.begin = begin /\ u.end = end
  BY <1>5 DEF TrxFields
<1>7. begin \in Nat \ {0} /\ end \in Nat
  BY <1>2, <1>3, <1>4
<1>8. Timed(u)
  BY <1>6, <1>7 DEF Timed
<1> QED BY <1>8 DEF u

\* Combining keeps every transaction or merges it.
LEMMA CombinedTimes ==
    ASSUME NEW ts, TimedTrxs(ts)
    PROVE  TimedTrxs(CombinePolygonSystemTransactions(ts).trxs)
<1> DEFINE ordinary == {t \in ToSet(ts) : ~Mergeable(t) /\ ~Unmergeable(t)}
           mergeable == {t \in ToSet(ts) : Mergeable(t)}
           unmergeable == {t \in ToSet(ts) : Unmergeable(t)}
           normal == Select(ts, ordinary)
           merge == Select(ts, mergeable)
           unmerge == Select(ts, unmergeable)
           next == NextIndex(normal)
           system == MergedSystemTrx(merge, next)
           merged == IF merge = << >> THEN << >> ELSE <<system>>
           moved == [i \in 1..Len(unmerge) |->
                       [unmerge[i] EXCEPT !.index = next + Len(merged) + i - 1]]
           AllTimed(s) == Listed(s) /\ \A t \in Elements(s) : Timed(t)
<1>1. CombinePolygonSystemTransactions(ts).trxs = (normal \o merged) \o moved
  <2>1. PICK hashes : CombinePolygonSystemTransactions(ts) =
                          [trxs |-> normal \o merged \o moved, systemHashes |-> hashes]
    BY ZenonT(40) DEF CombinePolygonSystemTransactions
  <2> HIDE DEF normal, merged, moved
  <2> QED BY <2>1
<1>2. /\ Listed(ts) /\ ts \in Seq(Elements(ts)) /\ ToSet(ts) = Elements(ts)
      /\ Len(ts) \in Nat /\ Len(ts) # 0
      /\ \A t \in Elements(ts) : Timed(t)
  BY ListedFacts, NotEmpty DEF TimedTrxs
<1>3. ASSUME NEW S
      PROVE  /\ AllTimed(Select(ts, S)) /\ Len(Select(ts, S)) \in Nat
             /\ \A i \in 1..Len(ts) : ts[i] \in S => Len(Select(ts, S)) # 0
  <2> DEFINE s == Select(ts, S)
  <2>1. s \in Seq(Elements(ts)) /\ \A i \in 1..Len(ts) : ts[i] \in S => ts[i] \in Elements(s)
    BY <1>2, SelectType
  <2> HIDE DEF s
  <2>2. Listed(s) /\ \A t \in Elements(s) : t \in Elements(ts)
    BY <2>1 DEF Listed, Elements
  <2>3. Len(s) = 0 => Elements(s) = {}
    BY DEF Elements
  <2>4. Len(s) \in Nat
    BY <2>2, ListedFacts
  <2>5. AllTimed(s)
    BY <1>2, <2>2
  <2> QED BY <2>1, <2>3, <2>4, <2>5 DEF s
<1>4. Len(normal) # 0 \/ Len(merge) # 0 \/ Len(unmerge) # 0
  <2>1. ts[1] \in ToSet(ts) /\ 1 \in 1..Len(ts)
    BY <1>2 DEF Elements
  <2>2. ts[1] \in ordinary \/ ts[1] \in mergeable \/ ts[1] \in unmergeable
    BY <2>1
  <2> HIDE DEF ordinary, mergeable, unmergeable
  <2> QED BY <1>3, <2>1, <2>2
<1>5. /\ AllTimed(normal) /\ AllTimed(merge) /\ AllTimed(unmerge)
      /\ Len(normal) \in Nat /\ Len(merge) \in Nat /\ Len(unmerge) \in Nat
  <2> HIDE DEF ordinary, mergeable, unmergeable, AllTimed
  <2> QED BY <1>3
<1> HIDE DEF normal, merge, unmerge
<1>6. next \in Nat
  <2>1. Listed(normal) /\ \A t \in Elements(normal) : t.index \in Nat
    BY <1>5, Zenon DEF Timed
  <2> QED BY <2>1, HighestIndex
<1> HIDE DEF next
<1>7. AllTimed(merged) /\ Len(merged) \in Nat /\ (Len(merge) # 0 => Len(merged) # 0)
  <2>1. CASE merge = << >>
    <3>1. merged = << >> /\ << >> \in Seq({}) /\ Elements(<< >>) = {} /\ Len(<< >>) = 0
      BY <2>1 DEF Elements
    <3> HIDE DEF merged
    <3> QED BY <2>1, <3>1 DEF Listed
  <2>2. CASE merge # << >>
    <3>1. TimedTrxs(merge)
      BY <1>5, <2>2 DEF TimedTrxs
    <3>2. Timed(system)
      BY <1>6, <3>1, MergedTimes
    <3> HIDE DEF system
    <3>3. /\ merged = <<system>> /\ <<system>> \in Seq({system})
          /\ Elements(<<system>>) = {system} /\ Len(<<system>>) = 1
      BY <2>2 DEF Elements
    <3>4. Listed(merged) /\ Len(merged) = 1
      BY <3>3, Zenon DEF Listed
    <3> HIDE DEF merged
    <3> QED BY <3>2, <3>3, <3>4
  <2> QED BY <2>1, <2>2
<1> HIDE DEF merged
<1>8. AllTimed(moved) /\ Len(moved) = Len(unmerge)
  <2>1. /\ moved = [i \in 1..Len(unmerge) |-> moved[i]]
        /\ \A i \in 1..Len(unmerge) :
               moved[i] = [unmerge[i] EXCEPT !.index = next + Len(merged) + i - 1]
    OBVIOUS
  <2> HIDE DEF moved
  <2>2. Listed(moved) /\ Len(moved) = Len(unmerge)
    BY <1>5, <2>1, Tabled
  <2>3. ASSUME NEW i \in 1..Len(unmerge)
        PROVE  Timed(moved[i])
    <3> DEFINE t == unmerge[i]
               k == next + Len(merged) + i - 1
               u == [t EXCEPT !.index = k]
    <3>1. k \in Nat
      BY <1>6, <1>7
    <3>2. Timed(t)
      BY <1>5 DEF Elements
    <3> HIDE DEF k
    <3>3. moved[i] = u
      BY <2>1 DEF k
    <3> HIDE DEF t
    <3>4. /\ TrxFields \subseteq DOMAIN u /\ u.index = k /\ u.hash = t.hash
          /\ u.begin = t.begin /\ u.end = t.end /\ u.calls = t.calls
      BY <3>2 DEF TrxFields, Timed
    <3> HIDE DEF u
    <3>5. Timed(u)
      BY <3>1, <3>2, <3>4, Zenon DEF Timed
    <3> QED BY <3>3, <3>5
  <2> QED BY <2>2, <2>3 DEF Elements
<1> HIDE DEF moved
<1>9. ASSUME NEW s, NEW t, AllTimed(s), AllTimed(t)
      PROVE  AllTimed(s \o t) /\ Len(s \o t) = Len(s) + Len(t)
  <2> DEFINE T == Elements(s) \cup Elements(t)
  <2>1. s \in Seq(Elements(s)) /\ t \in Seq(Elements(t))
    BY <1>9, ListedFacts
  <2>2. s \in Seq(T) /\ t \in Seq(T)
    BY <2>1
  <2> HIDE DEF T
  <2>3. /\ s \o t \in Seq(T) /\ Elements(s \o t) = Elements(s) \cup Elements(t)
        /\ Len(s \o t) = Len(s) + Len(t)
    BY <2>2, ElementsJoined
  <2>4. Listed(s \o t)
    BY <2>3, Zenon DEF Listed
  <2> QED BY <1>9, <2>3, <2>4
<1> DEFINE all == (normal \o merged) \o moved
<1>10. AllTimed(all) /\ Len(all) = Len(normal) + Len(merged) + Len(unmerge)
  <2> HIDE DEF AllTimed
  <2>1. AllTimed(normal \o merged) /\ Len(normal \o merged) = Len(normal) + Len(merged)
    BY <1>5, <1>7, <1>9
  <2> QED BY <1>8, <1>9, <2>1
<1>11. all # << >>
  <2>1. Len(all) # 0
    BY <1>4, <1>5, <1>7, <1>10
  <2> HIDE DEF all
  <2> QED BY <1>10, <2>1, NotEmpty
<1> QED BY <1>1, <1>10, <1>11 DEF TimedTrxs

LEMMA RevertedTimes ==
    ASSUME NEW ts, TimedTrxs(ts)
    PROVE  TimedTrxs(MapSeq(ts, Revert))
<1> DEFINE us == MapSeq(ts, Revert)
<1>1. us = [j \in 1..Len(ts) |-> Revert(ts[j])]
  BY Zenon DEF MapSeq
<1> HIDE DEF us
<1>2. us = [j \in 1..Len(ts) |-> us[j]] /\ \A j \in 1..Len(ts) : us[j] = Revert(ts[j])
  BY <1>1
<1>3. Listed(ts) /\ Len(ts) \in Nat /\ Len(ts) # 0
  BY ListedFacts, NotEmpty DEF TimedTrxs
<1>4. Listed(us) /\ Len(us) = Len(ts) /\ us # << >>
  <2>1. Listed(us) /\ Len(us) = Len(ts)
    BY <1>2, <1>3, Tabled
  <2> QED BY <1>3, <2>1, NotEmpty
<1>5. ASSUME NEW j \in 1..Len(ts)
      PROVE  Timed(us[j])
  <2>1. Timed(ts[j])
    BY DEF TimedTrxs, Elements
  <2>2. Keeps(us[j], ts[j])
    BY <1>2, <2>1, RevertKeeps DEF Timed
  <2> QED BY <2>1, <2>2, KeptTimed
<1>6. \A t \in Elements(us) : Timed(t)
  BY <1>4, <1>5 DEF Elements
<1> QED BY <1>4, <1>6 DEF TimedTrxs, us

\* The passes after the ordering rewrite the transactions one by one, and keep the
\* changes.
LEMMA FinishRewrites ==
    ASSUME NEW ordered, {"trxs", "changes", "ver"} \subseteq DOMAIN ordered,
           Listed(ordered.trxs), NEW hashes, NEW chain
    PROVE  LET settled == MapSeq(ordered.trxs, PopulateTrxStatus)
               out == Finish(ordered, PopulateLogBlockIndices(settled, hashes), chain).block
           IN  Rewritten(out.trxs, ordered.trxs) /\ out.changes = ordered.changes
<1> DEFINE ts == ordered.trxs
           settled == MapSeq(ts, PopulateTrxStatus)
           indexed == PopulateLogBlockIndices(settled, hashes)
           done == [ordered EXCEPT !.trxs = indexed.trxs]
           upgrade == chain.upgrade /\ done.ver = 2
           final == UpgradeBlockV2ToV3(done)
           made == Finish(ordered, indexed, chain)
<1>1. Len(ts) \in Nat
  BY ListedFacts
<1>2. Rewritten(settled, ts)
  <2>1. settled = [i \in 1..Len(ts) |-> PopulateTrxStatus(ts[i])]
    BY Zenon DEF MapSeq
  <2> HIDE DEF settled, ts
  <2>2. /\ settled = [i \in 1..Len(ts) |-> settled[i]]
        /\ \A i \in 1..Len(ts) : settled[i] = PopulateTrxStatus(ts[i])
    BY <2>1
  <2>3. \A i \in 1..Len(ts) : TrxFields \subseteq DOMAIN ts[i] => Keeps(settled[i], ts[i])
    BY <2>2, StatusKeeps
  <2> QED BY <2>2, <2>3, Zenon DEF Rewritten
<1>3. Listed(settled) /\ Len(settled) = Len(ts)
  <2>1. settled = [i \in 1..Len(ts) |-> settled[i]]
    BY <1>2, Zenon DEF Rewritten
  <2> HIDE DEF settled, ts
  <2> QED BY <1>1, <2>1, Tabled
<1>4. made = IF indexed.ok /\ (upgrade => CanUpgradeV2ToV3(done.trxs))
             THEN [ok |-> TRUE, block |-> IF upgrade THEN final ELSE done]
             ELSE [ok |-> FALSE, block |-> done]
  BY Zenon DEF Finish
<1> HIDE DEF settled
<1>5. Retouched(indexed.trxs, settled, hashes)
  BY RetouchedOrNot
<1> HIDE DEF indexed
<1>6. Rewritten(indexed.trxs, settled)
  <2>1. CASE indexed.trxs = settled
    <3>1. settled = [i \in 1..Len(settled) |-> settled[i]]
      BY <1>2, <1>3, Zenon DEF Rewritten
    <3> QED BY <2>1, <3>1, Zenon DEF Rewritten, Keeps
  <2>2. CASE indexed.trxs # settled
    <3>1. PICK before, numbered : indexed.trxs =
              [i \in 1..Len(settled) |-> Retouch(settled[i], before[i], numbered, hashes)]
      BY <1>5, <2>2, Zenon DEF Retouched
    <3>2. /\ indexed.trxs = [i \in 1..Len(settled) |-> indexed.trxs[i]]
          /\ \A i \in 1..Len(settled) :
                 indexed.trxs[i] = Retouch(settled[i], before[i], numbered, hashes)
      BY <3>1
    <3>3. \A i \in 1..Len(settled) : TrxFields \subseteq DOMAIN settled[i] =>
                                         Keeps(indexed.trxs[i], settled[i])
      BY <3>2, RetouchKeeps
    <3> QED BY <3>2, <3>3, Zenon DEF Rewritten
  <2> QED BY <2>1, <2>2
<1>7. /\ done.trxs = indexed.trxs /\ done.changes = ordered.changes
      /\ {"trxs", "changes", "ver"} \subseteq DOMAIN done
  OBVIOUS
<1> HIDE DEF done, ts
<1>8. Rewritten(done.trxs, ts) /\ Listed(done.trxs) /\ Len(done.trxs) = Len(ts)
  <2>1. Listed(ts)
    BY DEF ts
  <2>2. Rewritten(indexed.trxs, ts)
    BY <1>2, <1>6, <2>1, RewrittenTwice
  <2>3. indexed.trxs = [i \in 1..Len(ts) |-> indexed.trxs[i]]
    BY <2>2, Zenon DEF Rewritten
  <2>4. Listed(indexed.trxs) /\ Len(indexed.trxs) = Len(ts)
    BY <1>1, <2>3, Tabled DEF ts
  <2> QED BY <1>7, <2>2, <2>4
<1>9. Rewritten(final.trxs, ts) /\ final.changes = done.changes
  <2>1. CASE done.ver # 2
    <3>1. final = done
      BY <2>1, Zenon DEF UpgradeBlockV2ToV3
    <3> QED BY <1>8, <3>1
  <2>2. CASE done.ver = 2
    <3> DEFINE us == done.trxs
               vs == [i \in 1..Len(us) |-> [us[i] EXCEPT !.calls = UpgradeCalls(us[i].calls)]]
    <3>1. final = [done EXCEPT !.ver = 3, !.trxs = vs]
      BY <2>2, Zenon DEF UpgradeBlockV2ToV3, MapSeq
    <3>2. /\ vs = [i \in 1..Len(us) |-> vs[i]]
          /\ \A i \in 1..Len(us) : vs[i] = [us[i] EXCEPT !.calls = UpgradeCalls(us[i].calls)]
      OBVIOUS
    <3> HIDE DEF vs, final
    <3>3. \A i \in 1..Len(us) : TrxFields \subseteq DOMAIN us[i] => Keeps(vs[i], us[i])
      BY <3>2, UpgradeKeeps
    <3>4. Rewritten(vs, us)
      BY <3>2, <3>3, Zenon DEF Rewritten
    <3>5. Rewritten(vs, ts)
      <4>1. Listed(ts) /\ Rewritten(us, ts)
        BY <1>8 DEF ts
      <4> QED BY <3>4, <4>1, RewrittenTwice
    <3>6. final.trxs = vs /\ final.changes = done.changes
      BY <1>7, <3>1
    <3> QED BY <3>5, <3>6
  <2> QED BY <2>1, <2>2
<1> HIDE DEF final
<1>10. made.block = done \/ made.block = final
  <2> DEFINE can == indexed.ok /\ (upgrade => CanUpgradeV2ToV3(done.trxs))
  <2>1. made = IF can THEN [ok |-> TRUE, block |-> IF upgrade THEN final ELSE done]
               ELSE [ok |-> FALSE, block |-> done]
    BY <1>4
  <2> HIDE DEF can, made, upgrade
  <2>2. \/ made = [ok |-> TRUE, block |-> final]
        \/ made = [ok |-> TRUE, block |-> done]
        \/ made = [ok |-> FALSE, block |-> done]
    BY <2>1, Zenon
  <2> QED BY <2>2
<1> HIDE DEF made
<1>11. Rewritten(made.block.trxs, ts) /\ made.block.changes = ordered.changes
  BY <1>7, <1>8, <1>9, <1>10
<1> QED BY <1>11, Zenon DEF made, indexed, settled, ts

\* normalizeInPlace puts the transactions in turn, and the changes around them.
LEMMA NormalizedInTurn ==
    ASSUME NEW block, {"trxs", "ver", "changes"} \subseteq DOMAIN block,
           TimedTrxs(block.trxs), NEW chain, chain.reorder, NEW first \in Nat
    PROVE  LET out == NormalizeInPlace(block, chain, first).block IN
           \E base : /\ InTurn(out.trxs, base) /\ base[0] = first
                     /\ out.changes =
                            ShiftedChanges(block.changes, first, base[Len(out.trxs)])
<1> DEFINE us == MapSeq(block.trxs, Revert)
           combined == IF chain.combine THEN CombinePolygonSystemTransactions(us)
                       ELSE [trxs |-> us, systemHashes |-> {}]
           whole == [block EXCEPT !.trxs = combined.trxs]
           ordered == ReorderTransactionsAndRenumberOrdinals(whole, first)
           hashes == combined.systemHashes
           settled == MapSeq(ordered.trxs, PopulateTrxStatus)
           out == Finish(ordered, PopulateLogBlockIndices(settled, hashes), chain).block
<1>1. NormalizeInPlace(block, chain, first).block = out
  BY Zenon DEF NormalizeInPlace, Arrange
<1>2. TimedTrxs(us)
  BY RevertedTimes
<1> HIDE DEF us
<1>3. TimedTrxs(combined.trxs)
  <2>1. CASE chain.combine
    BY <1>2, <2>1, CombinedTimes
  <2>2. CASE ~chain.combine
    BY <1>2, <2>2
  <2> QED BY <2>1, <2>2
<1> HIDE DEF combined
<1>4. /\ whole.trxs = combined.trxs /\ whole.changes = block.changes
      /\ {"trxs", "changes", "ver"} \subseteq DOMAIN whole
  OBVIOUS
<1> HIDE DEF whole
<1>5. PICK base : /\ InTurn(ordered.trxs, base) /\ base[0] = first
                  /\ ordered.changes =
                         ShiftedChanges(block.changes, first, base[Len(ordered.trxs)])
  BY <1>3, <1>4, ReorderedInTurn
<1>6. {"trxs", "changes", "ver"} \subseteq DOMAIN ordered
  BY <1>3, <1>4, ReorderedInTurn
<1> HIDE DEF ordered, hashes
<1>7. Rewritten(out.trxs, ordered.trxs) /\ out.changes = ordered.changes
  <2>1. Listed(ordered.trxs)
    BY <1>5, Zenon DEF InTurn
  <2> QED BY <1>6, <2>1, FinishRewrites
<1> HIDE DEF out
<1>8. InTurn(out.trxs, base) /\ Len(out.trxs) = Len(ordered.trxs)
  BY <1>5, <1>7, KeptInTurn
<1> QED BY <1>1, <1>5, <1>7, <1>8

\* Transactions that neither overlap nor are merged, one after the other.
Sequential(ts) ==
    /\ Listed(ts)
    /\ \A i \in 1..Len(ts) : Timed(ts[i]) /\ ts[i].hash # MergedHash
    /\ \A i \in 1..Len(ts) - 1 : ts[i].end < ts[i+1].begin

LEMMA KeptSequential ==
    ASSUME NEW ts, Sequential(ts), NEW us, Rewritten(us, ts)
    PROVE  Sequential(us)
<1>1. Listed(us) /\ Len(us) = Len(ts) /\ Len(ts) \in Nat
  <2>1. us = [i \in 1..Len(ts) |-> us[i]]
    BY Zenon DEF Rewritten
  <2>2. Len(ts) \in Nat
    BY ListedFacts DEF Sequential
  <2> QED BY <2>1, <2>2, Tabled
<1>2. ASSUME NEW i \in 1..Len(ts)
      PROVE  /\ Timed(us[i]) /\ us[i].hash # MergedHash
             /\ us[i].begin = ts[i].begin /\ us[i].end = ts[i].end
  <2>1. Timed(ts[i]) /\ ts[i].hash # MergedHash
    BY Zenon DEF Sequential
  <2>2. Keeps(us[i], ts[i])
    BY <2>1, Zenon DEF Timed, Rewritten
  <2>3. Timed(us[i])
    BY <2>1, <2>2, KeptTimed
  <2> QED BY <2>1, <2>2, <2>3, Zenon DEF Keeps
<1>3. ASSUME NEW i \in 1..Len(ts) - 1
      PROVE  us[i].end < us[i+1].begin
  <2>1. i \in 1..Len(ts) /\ i + 1 \in 1..Len(ts)
    BY <1>1
  <2>2. ts[i].end < ts[i+1].begin
    BY DEF Sequential
  <2> QED BY <1>2, <2>1, <2>2
<1> QED BY <1>1, <1>2, <1>3, Zenon DEF Sequential

LEMMA NothingSequential ==
    ASSUME NEW ts, Listed(ts), Len(ts) = 0
    PROVE  Sequential(ts)
<1>1. \A i \in 1..Len(ts) : FALSE
  OBVIOUS
<1>2. \A i \in 1..Len(ts) - 1 : FALSE
  OBVIOUS
<1> QED BY <1>1, <1>2, Zenon DEF Sequential

\* The reordering makes transactions that all have their own clock sequential.
LEMMA ReorderedSequential ==
    ASSUME NEW block, {"trxs", "changes", "ver"} \subseteq DOMAIN block,
           Listed(block.trxs), NEW first \in Nat,
           \A i \in 1..Len(block.trxs) : /\ Timed(block.trxs[i])
                                         /\ block.trxs[i].hash # MergedHash
    PROVE  LET out == ReorderTransactionsAndRenumberOrdinals(block, first) IN
           Sequential(out.trxs) /\ {"trxs", "changes", "ver"} \subseteq DOMAIN out
<1> DEFINE ts == block.trxs
           out == ReorderTransactionsAndRenumberOrdinals(block, first)
<1>1. Len(ts) \in Nat /\ ts \in Seq(Elements(ts))
  BY ListedFacts
<1>2. CASE ts = << >>
  <2> DEFINE key == MapSeq(ts, LAMBDA t : t.index)
             sorted == SortBy(ts, key)
             base == Baselines(sorted, first)
             us == [i \in 1..Len(sorted) |-> ShiftOrdinals(sorted[i], base[i-1])]
             moved == ShiftedChanges(block.changes, first, base[Len(sorted)])
  <2>1. out = [block EXCEPT !.trxs = us, !.changes = moved]
    BY Zenon DEF ReorderTransactionsAndRenumberOrdinals, ShiftedChanges, MapSeq
  <2>2. Len(ts) = 0
    BY <1>2
  <2> HIDE DEF ts, out, key, moved
  <2>3. Len(sorted) = 0
    <3>1. \A i \in 1..Len(ts) : key[i] \in Nat
      BY <2>2
    <3>2. Len(sorted) = Len(ts)
      BY <1>1, <3>1, SortByType
    <3> QED BY <2>2, <3>2
  <2> HIDE DEF sorted, base
  <2>4. us = [i \in 1..0 |-> us[i]]
    BY <2>3
  <2> HIDE DEF us
  <2>5. Listed(us) /\ Len(us) = 0
    BY <2>4, Tabled
  <2>6. out.trxs = us /\ {"trxs", "changes", "ver"} \subseteq DOMAIN out
    BY <2>1
  <2> QED BY <2>5, <2>6, NothingSequential DEF out
<1>3. CASE ts # << >>
  <2>1. TimedTrxs(ts) /\ \A t \in Elements(ts) : t.hash # MergedHash
    BY <1>3, Zenon DEF TimedTrxs, Elements
  <2>2. /\ {"trxs", "changes", "ver"} \subseteq DOMAIN out
        /\ \A i \in 1..Len(out.trxs) : \E t \in Elements(ts) : out.trxs[i].hash = t.hash
    BY <2>1, ReorderedInTurn
  <2>3. PICK base : InTurn(out.trxs, base)
    BY <2>1, ReorderedInTurn
  <2> HIDE DEF ts, out
  <2> DEFINE us == out.trxs
  <2>4. /\ Listed(us) /\ Len(us) \in Nat /\ base \in [0..Len(us) -> Nat]
        /\ \A i \in 1..Len(us) : Timed(us[i]) /\ us[i].begin > base[i-1] /\ us[i].end = base[i]
    BY <2>3, ListedFacts DEF InTurn
  <2>5. \A i \in 1..Len(us) : us[i].hash # MergedHash
    BY <2>1, <2>2
  <2>6. ASSUME NEW i \in 1..Len(us) - 1
        PROVE  us[i].end < us[i+1].begin
    <3>1. i \in 1..Len(us) /\ i + 1 \in 1..Len(us) /\ (i + 1) - 1 = i /\ i \in 0..Len(us)
      BY <2>4
    <3>2. us[i+1].begin \in Nat
      BY <2>4, <3>1 DEF Timed
    <3>3. us[i+1].begin > base[i] /\ us[i].end = base[i] /\ base[i] \in Nat
      BY <2>4, <3>1
    <3> QED BY <3>2, <3>3
  <2>7. Sequential(us)
    BY <2>4, <2>5, <2>6, Zenon DEF Sequential
  <2> QED BY <2>2, <2>7 DEF out
<1> QED BY <1>2, <1>3 DEF ts

\* normalizeInPlace returns sequential transactions: it makes them so when it
\* reorders, and keeps them so when it does not.
LEMMA NormalizedSequential ==
    ASSUME NEW block, {"trxs", "ver", "changes"} \subseteq DOMAIN block,
           Listed(block.trxs), NEW chain, ~chain.combine, NEW first \in Nat,
           \A i \in 1..Len(block.trxs) : /\ Timed(block.trxs[i])
                                         /\ block.trxs[i].hash # MergedHash,
           chain.reorder \/ Sequential(block.trxs)
    PROVE  Sequential(NormalizeInPlace(block, chain, first).block.trxs)
<1> DEFINE ts == block.trxs
           us == MapSeq(ts, Revert)
           whole == [block EXCEPT !.trxs = us]
           ordered == IF chain.reorder
                      THEN ReorderTransactionsAndRenumberOrdinals(whole, first) ELSE whole
           settled == MapSeq(ordered.trxs, PopulateTrxStatus)
           out == Finish(ordered, PopulateLogBlockIndices(settled, {}), chain).block
<1>1. NormalizeInPlace(block, chain, first).block = out
  <2>1. NormalizeInPlace(block, chain, first) =
            Arrange(block, [trxs |-> us, systemHashes |-> {}], chain, first)
    BY Zenon DEF NormalizeInPlace
  <2>2. [trxs |-> us, systemHashes |-> {}].trxs = us
        /\ [trxs |-> us, systemHashes |-> {}].systemHashes = {}
    OBVIOUS
  <2> QED BY <2>1, <2>2, Zenon DEF Arrange
<1>2. Rewritten(us, ts)
  <2>1. us = [j \in 1..Len(ts) |-> Revert(ts[j])]
    BY Zenon DEF MapSeq
  <2> HIDE DEF us, ts
  <2>2. us = [j \in 1..Len(ts) |-> us[j]] /\ \A j \in 1..Len(ts) : us[j] = Revert(ts[j])
    BY <2>1
  <2>3. \A i \in 1..Len(ts) : TrxFields \subseteq DOMAIN ts[i] => Keeps(us[i], ts[i])
    BY <2>2, RevertKeeps
  <2> QED BY <2>2, <2>3, Zenon DEF Rewritten
<1> HIDE DEF us
<1>3. Listed(us) /\ Len(us) = Len(ts)
  <2>1. us = [i \in 1..Len(ts) |-> us[i]] /\ Len(ts) \in Nat
    BY <1>2, ListedFacts, Zenon DEF Rewritten
  <2> HIDE DEF ts
  <2> QED BY <2>1, Tabled
<1>4. \A i \in 1..Len(us) : Timed(us[i]) /\ us[i].hash # MergedHash
  <2> SUFFICES ASSUME NEW i \in 1..Len(ts)
               PROVE  Timed(us[i]) /\ us[i].hash # MergedHash
    BY <1>3
  <2>1. Timed(ts[i]) /\ ts[i].hash # MergedHash
    OBVIOUS
  <2>2. Keeps(us[i], ts[i])
    BY <1>2, <2>1, Zenon DEF Timed, Rewritten
  <2>3. Timed(us[i])
    BY <2>1, <2>2, KeptTimed
  <2> QED BY <2>1, <2>2, <2>3, Zenon DEF Keeps
<1>5. whole.trxs = us /\ {"trxs", "changes", "ver"} \subseteq DOMAIN whole
  OBVIOUS
<1> HIDE DEF whole
<1>6. Sequential(ordered.trxs) /\ {"trxs", "changes", "ver"} \subseteq DOMAIN ordered
  <2>1. CASE chain.reorder
    <3> DEFINE moved == ReorderTransactionsAndRenumberOrdinals(whole, first)
    <3>1. Sequential(moved.trxs) /\ {"trxs", "changes", "ver"} \subseteq DOMAIN moved
      BY <1>3, <1>4, <1>5, ReorderedSequential
    <3>2. ordered = moved
      BY <2>1
    <3> QED BY <3>1, <3>2, Zenon
  <2>2. CASE ~chain.reorder
    <3>1. Sequential(us)
      BY <1>2, <2>2, KeptSequential
    <3>2. ordered = whole
      BY <2>2
    <3> QED BY <1>5, <3>1, <3>2
  <2> QED BY <2>1, <2>2
<1> HIDE DEF ordered
<1>7. Rewritten(out.trxs, ordered.trxs)
  <2>1. Listed(ordered.trxs)
    BY <1>6, Zenon DEF Sequential
  <2> QED BY <1>6, <2>1, FinishRewrites
<1> HIDE DEF out
<1>8. Sequential(out.trxs)
  BY <1>6, <1>7, KeptSequential
<1> QED BY <1>1, <1>8

-----------------------------------------------------------------------------
(***************************************************************************)
(* Logs and receipts: the logs of a transaction in the order of their      *)
(* ordinals, and the receipt that pairs with them.                         *)
(***************************************************************************)
Ords(s) == MapSeq(s, LAMBDA l : l.ord)

\* One log tells what another one does, and comes from the same transaction.
Echoes(r, l) == r.data = l.data /\ r.trx = l.trx

\* The receipt tells what these logs do, in the order of their ordinals.
Paired(logs, receipt) ==
    /\ Len(receipt) = Len(logs)
    /\ \E p : /\ Orders(p, Ords(logs), Len(logs))
              /\ \A k \in 1..Len(logs) : Echoes(receipt[k], logs[p[k]])

\* Every log of s was emitted before every log of t.
Precedes(s, t) == \A a \in Elements(s), b \in Elements(t) : a.ord < b.ord

LEMMA PairedJoined ==
    ASSUME NEW T, \A l \in T : l.ord \in Nat, NEW a \in Seq(T), NEW b \in Seq(T), Precedes(a, b),
           NEW R, NEW r \in Seq(R), NEW s \in Seq(R), Paired(a, r), Paired(b, s)
    PROVE  Paired(a \o b, r \o s)
<1> DEFINE n == Len(a)
           m == Len(b)
           c == a \o b
           t == r \o s
<1>1. PICK p : Orders(p, Ords(a), n) /\ \A k \in 1..n : Echoes(r[k], a[p[k]])
  BY Zenon DEF Paired
<1>2. PICK q : Orders(q, Ords(b), m) /\ \A k \in 1..m : Echoes(s[k], b[q[k]])
  BY Zenon DEF Paired
<1>3. n \in Nat /\ m \in Nat /\ Len(r) = n /\ Len(s) = m
  BY DEF Paired
<1>4. /\ c \in Seq(T) /\ Len(c) = n + m
      /\ \A k \in 1..(n + m) : c[k] = IF k <= n THEN a[k] ELSE b[k - n]
  BY ConcatProperties
<1>5. /\ Len(t) = n + m
      /\ \A k \in 1..(n + m) : t[k] = IF k <= n THEN r[k] ELSE s[k - n]
  <2>1. /\ Len(t) = Len(r) + Len(s)
        /\ \A k \in 1..(Len(r) + Len(s)) : t[k] = IF k <= Len(r) THEN r[k] ELSE s[k - Len(r)]
    BY ConcatProperties
  <2> HIDE DEF t, n, m
  <2> QED BY <1>3, <2>1
<1> HIDE DEF n, m, c, t
<1>6. \A k \in 1..n : k \in 1..(n + m) /\ c[k] = a[k] /\ t[k] = r[k]
  <2> SUFFICES ASSUME NEW k \in 1..n PROVE k \in 1..(n + m) /\ c[k] = a[k] /\ t[k] = r[k]
    OBVIOUS
  <2>1. k \in 1..(n + m) /\ k <= n
    BY <1>3
  <2> QED BY <1>4, <1>5, <2>1
<1>7. \A k \in 1..m : n + k \in 1..(n + m) /\ c[n + k] = b[k] /\ t[n + k] = s[k]
  <2> SUFFICES ASSUME NEW k \in 1..m
               PROVE  n + k \in 1..(n + m) /\ c[n + k] = b[k] /\ t[n + k] = s[k]
    OBVIOUS
  <2>1. n + k \in 1..(n + m) /\ ~(n + k <= n) /\ (n + k) - n = k
    BY <1>3
  <2> QED BY <1>4, <1>5, <2>1
<1>8. /\ \A i \in 1..(n + m) : Ords(c)[i] = c[i].ord /\ Ords(c)[i] \in Nat
      /\ \A i \in 1..n : Ords(a)[i] = a[i].ord
      /\ \A i \in 1..m : Ords(b)[i] = b[i].ord
  <2>1. \A i \in 1..(n + m) : c[i] \in T
    BY <1>4
  <2>2. \A i \in 1..(n + m) : Ords(c)[i] = c[i].ord
    BY <1>4 DEF Ords, MapSeq
  <2>3. \A i \in 1..n : Ords(a)[i] = a[i].ord
    BY DEF Ords, MapSeq, n
  <2>4. \A i \in 1..m : Ords(b)[i] = b[i].ord
    BY DEF Ords, MapSeq, m
  <2> QED BY <2>1, <2>2, <2>3, <2>4
<1>9. \A i \in 1..n, j \in 1..m : Ords(a)[i] < Ords(b)[j]
  <2>1. \A i \in 1..n : a[i] \in Elements(a)
    BY DEF Elements, n
  <2>2. \A j \in 1..m : b[j] \in Elements(b)
    BY DEF Elements, m
  <2> QED BY <1>8, <2>1, <2>2 DEF Precedes
<1> DEFINE o == OneThenOther(p, n, q, m)
<1>10. Orders(o, Ords(c), n + m)
  <2>1. \A i \in 1..n : Ords(c)[i] = Ords(a)[i]
    BY <1>6, <1>8
  <2>2. \A i \in 1..m : Ords(c)[n + i] = Ords(b)[i]
    BY <1>7, <1>8
  <2> HIDE DEF o
  <2>3. Orders(OneThenOther(p, n, q, m), Ords(c), n + m)
    BY <1>1, <1>2, <1>3, <1>8, <1>9, <2>1, <2>2, JoinedOrder
  <2> QED BY <2>3 DEF o
<1>11. ASSUME NEW k \in 1..(n + m) PROVE Echoes(t[k], c[o[k]])
  <2>0. o[k] = IF k <= n THEN p[k] ELSE n + q[k - n]
    BY DEF OneThenOther
  <2> HIDE DEF o
  <2>1. CASE k <= n
    <3>1. k \in 1..n /\ o[k] = p[k]
      BY <1>3, <2>0, <2>1
    <3>2. p[k] \in 1..n
      BY <1>1, <3>1 DEF Orders
    <3> QED BY <1>1, <1>6, <3>1, <3>2, ZenonT(30)
  <2>2. CASE ~(k <= n)
    <3> DEFINE h == k - n
    <3>1. h \in 1..m /\ k = n + h /\ o[k] = n + q[h]
      BY <1>3, <2>0, <2>2
    <3> HIDE DEF h
    <3>2. q[h] \in 1..m
      BY <1>2, <3>1 DEF Orders
    <3> QED BY <1>2, <1>7, <3>1, <3>2, SMTT(30)
  <2> QED BY <2>1, <2>2
<1> HIDE DEF o
<1>12. Paired(c, t)
  <2>1. Len(c) = n + m /\ Len(t) = n + m
    BY <1>4, <1>5
  <2> QED BY <1>10, <1>11, <2>1, ZenonT(40) DEF Paired
<1> QED BY <1>12 DEF c, t

LEMMA PairedNone == Paired(<< >>, << >>)
<1> DEFINE p == [i \in 1..0 |-> i]
<1>1. Len(<< >>) = 0 /\ \A i \in 1..0 : FALSE
  OBVIOUS
<1>2. p \in [1..0 -> 1..0]
  OBVIOUS
<1> HIDE DEF p
<1>3. Orders(p, Ords(<< >>), 0)
  BY <1>1, <1>2, Zenon DEF Orders
<1> QED BY <1>1, <1>3, Zenon DEF Paired

\* So it is for logs of several transactions, each after those of the one before.
LEMMA PairedFlattened ==
    ASSUME NEW T, \A l \in T : l.ord \in Nat, NEW ss \in Seq(Seq(T)),
           NEW R, NEW rs \in Seq(Seq(R)), Len(rs) = Len(ss),
           \A k \in 1..Len(ss) : Paired(ss[k], rs[k]),
           \A j, k \in 1..Len(ss) : j < k => Precedes(ss[j], ss[k])
    PROVE  Paired(FlattenSeq(ss), FlattenSeq(rs))
<1> DEFINE n == Len(ss)
           F == CHOOSE f : Concatenates(f, ss)
           G == CHOOSE f : Concatenates(f, rs)
<1>1. n \in Nat /\ (\A k \in 1..n : ss[k] \in Seq(T) /\ rs[k] \in Seq(R))
  OBVIOUS
<1>2. Concatenates(F, ss) /\ Concatenates(G, rs)
  BY ConcatenationExists
<1>3. /\ FlattenSeq(ss) = IF n = 0 THEN ss ELSE F[n]
      /\ FlattenSeq(rs) = IF n = 0 THEN rs ELSE G[n]
  BY <1>1 DEF FlattenSeq, Concatenates
<1> HIDE DEF F, G
<1>4. /\ F \in [1..n -> Seq(T)] /\ G \in [1..n -> Seq(R)]
      /\ \A k \in 1..n : F[k] = IF k = 1 THEN ss[k] ELSE F[k-1] \o ss[k]
      /\ \A k \in 1..n : G[k] = IF k = 1 THEN rs[k] ELSE G[k-1] \o rs[k]
  BY <1>2, ConcatenationType
<1> DEFINE Pairs(m) == /\ Paired(F[m], G[m])
                       /\ \A k \in 1..n : m < k => Precedes(F[m], ss[k])
           P == {m \in Nat : m \in 1..n => Pairs(m)}
<1>5. 0 \in P
  OBVIOUS
<1>6. ASSUME NEW m \in Nat, m \in P PROVE m + 1 \in P
  <2>0. SUFFICES ASSUME m + 1 \in 1..n PROVE Pairs(m + 1)
    <3> HIDE DEF Pairs
    <3> QED OBVIOUS
  <2> DEFINE i == m + 1
  <2>1. Paired(ss[i], rs[i]) /\ ss[i] \in Seq(T) /\ rs[i] \in Seq(R)
    BY <1>1, <2>0
  <2>2. CASE m = 0
    <3>1. i = 1 /\ i \in 1..n
      BY <2>0, <2>2
    <3>2. F[i] = ss[i] /\ G[i] = rs[i]
      <4> HIDE DEF i
      <4> QED BY <1>4, <3>1
    <3>3. \A k \in 1..n : i < k => Precedes(F[i], ss[k])
      <4> HIDE DEF i
      <4> QED BY <3>1, <3>2
    <3> HIDE DEF i
    <3>4. Paired(F[i], G[i])
      BY <2>1, <3>2
    <3> QED BY <3>3, <3>4 DEF i
  <2>3. CASE m # 0
    <3>1. m \in 1..n /\ i # 1 /\ i - 1 = m /\ i \in 1..n
      BY <1>1, <2>0, <2>3
    <3>2. Pairs(m)
      BY <1>6, <3>1
    <3> HIDE DEF i
    <3>3. F[i] = F[m] \o ss[i] /\ G[i] = G[m] \o rs[i] /\ F[m] \in Seq(T) /\ G[m] \in Seq(R)
      BY <1>4, <3>1
    <3>4. m < i
      BY DEF i
    <3>5. Paired(F[i], G[i])
      BY <2>1, <3>1, <3>2, <3>3, <3>4, PairedJoined
    <3>6. ASSUME NEW k \in 1..n, i < k PROVE Precedes(F[i], ss[k])
      <4>1. Precedes(F[m], ss[k]) /\ Precedes(ss[i], ss[k])
        <5>1. m < k
          BY <3>6 DEF i
        <5> QED BY <3>1, <3>2, <3>6, <5>1
      <4>2. Elements(F[i]) = Elements(F[m]) \cup Elements(ss[i])
        <5>1. PICK x, y, z : x = F[i] /\ y = F[m] /\ z = ss[i]
          OBVIOUS
        <5>2. x = y \o z /\ y \in Seq(T) /\ z \in Seq(T)
          BY <2>1, <3>3, <5>1, Zenon
        <5>3. Elements(y \o z) = Elements(y) \cup Elements(z)
          BY <5>2, ElementsJoined, SMTT(40)
        <5> QED BY <5>1, <5>2, <5>3, Zenon
      <4> QED BY <4>1, <4>2 DEF Precedes
    <3> QED BY <3>5, <3>6 DEF i
  <2> QED BY <2>2, <2>3
<1>7. n \in P
  <2> HIDE DEF P
  <2> QED BY <1>1, <1>5, <1>6, NaturalsOf
<1>8. CASE n = 0
  <2>1. FlattenSeq(ss) = << >> /\ FlattenSeq(rs) = << >>
    BY <1>3, <1>8
  <2> QED BY <2>1, PairedNone
<1>9. CASE n # 0
  <2>1. n \in 1..n
    BY <1>1, <1>9
  <2>2. Pairs(n)
    BY <1>7, <2>1
  <2> QED BY <1>3, <1>9, <2>2
<1> QED BY <1>8, <1>9

\* Sorting the logs by ordinal puts them in the order of the receipt.
LEMMA PairedSorted ==
    ASSUME NEW T, \A l \in T : l.ord \in Nat, NEW s \in Seq(T), NEW receipt, Paired(s, receipt)
    PROVE  LET sorted == SortBy(s, Ords(s)) IN
           /\ sorted \in Seq(T) /\ Len(sorted) = Len(receipt)
           /\ \A k \in 1..Len(receipt) : Echoes(receipt[k], sorted[k])
<1> DEFINE n == Len(s)
           sorted == SortBy(s, Ords(s))
<1>1. n \in Nat /\ \A i \in 1..n : Ords(s)[i] \in Nat
  <2>1. \A i \in 1..n : Ords(s)[i] = s[i].ord /\ s[i] \in T
    BY DEF Ords, MapSeq
  <2> QED BY <2>1
<1>2. sorted \in Seq(T) /\ \E p : SortedAt(sorted, s, Ords(s), p)
  BY <1>1, SortedInOrder
<1> HIDE DEF sorted
<1>3. PICK p : SortedAt(sorted, s, Ords(s), p)
  BY <1>2
<1>4. PICK q : Orders(q, Ords(s), n) /\ \A k \in 1..n : Echoes(receipt[k], s[q[k]])
  BY Zenon DEF Paired
<1>5. Orders(p, Ords(s), n) /\ Len(sorted) = n /\ \A k \in 1..n : sorted[k] = s[p[k]]
  BY <1>3, Zenon DEF SortedAt
<1> HIDE DEF n
<1>6. p = q
  BY <1>1, <1>4, <1>5, OneOrder
<1>7. Len(receipt) = n
  BY DEF Paired, n
<1> QED BY <1>2, <1>4, <1>5, <1>6, <1>7 DEF sorted

-----------------------------------------------------------------------------
(***************************************************************************)
(* Lists of logs no two of which are the same.                             *)
(***************************************************************************)
\* A log, with all that one has.
IsLog(l) ==
    /\ l = [trx |-> l.trx, index |-> l.index, data |-> l.data, ord |-> l.ord,
            blockIndex |-> l.blockIndex]
    /\ l.blockIndex \in Nat

AllLogs(s) == Listed(s) /\ \A k \in 1..Len(s) : IsLog(s[k])

DistinctLogs(s) == \A j, k \in 1..Len(s) : SameLog(s[j], s[k]) => j = k

\* No log of one list is in the other.
Disjoint(s, t) == \A j \in 1..Len(s), k \in 1..Len(t) : ~SameLog(s[j], t[k])

LEMMA DistinctSelected ==
    ASSUME NEW T, NEW s \in Seq(T), DistinctLogs(s), NEW S
    PROVE  DistinctLogs(Select(s, S))
<1> DEFINE r == Select(s, S)
<1>1. r \in Seq(T) /\ \E p : TakenAt(r, s, S, p)
  BY SelectInOrder
<1> HIDE DEF r
<1>2. PICK p : TakenAt(r, s, S, p)
  BY <1>1
<1>3. /\ \A k \in 1..Len(r) : p[k] \in 1..Len(s) /\ r[k] = s[p[k]]
      /\ Increasing(p, Len(r)) /\ Len(r) \in Nat
  BY <1>1, <1>2 DEF TakenAt
<1>4. \A j, k \in 1..Len(r) : p[j] = p[k] => j = k
  BY <1>3, IncreasingOnce
<1>5. ASSUME NEW j \in 1..Len(r), NEW k \in 1..Len(r), SameLog(r[j], r[k]) PROVE j = k
  <2>1. SameLog(s[p[j]], s[p[k]]) /\ p[j] \in 1..Len(s) /\ p[k] \in 1..Len(s)
    BY <1>3, <1>5
  <2>2. p[j] = p[k]
    BY <2>1 DEF DistinctLogs
  <2> QED BY <1>4, <2>2
<1> QED BY <1>5 DEF DistinctLogs, r

LEMMA DistinctSorted ==
    ASSUME NEW T, NEW s \in Seq(T), DistinctLogs(s),
           NEW key, \A i \in 1..Len(s) : key[i] \in Nat
    PROVE  /\ DistinctLogs(SortBy(s, key)) /\ SortBy(s, key) \in Seq(T)
           /\ Elements(SortBy(s, key)) \subseteq Elements(s)
<1> DEFINE r == SortBy(s, key)
           n == Len(s)
<1>1. r \in Seq(T) /\ \E p : SortedAt(r, s, key, p)
  BY SortedInOrder
<1> HIDE DEF r
<1>2. PICK p : SortedAt(r, s, key, p)
  BY <1>1
<1>3. /\ p \in [1..n -> 1..n] /\ Len(r) = n
      /\ \A j, k \in 1..n : j < k => Before(key, p[j], p[k])
      /\ \A k \in 1..n : r[k] = s[p[k]]
  BY <1>2 DEF SortedAt, Orders
<1>4. \A k \in 1..n : p[k] \in 1..n
  BY <1>3
<1>5. ASSUME NEW j \in 1..n, NEW k \in 1..n, p[j] = p[k] PROVE j = k
  <2>1. PICK x : x = p[j] /\ x = p[k] /\ x \in 1..n
    BY <1>4, <1>5
  <2>2. key[x] \in Nat /\ x \in Nat
    BY <2>1
  <2>3. ~Before(key, x, x)
    BY <2>2 DEF Before
  <2>4. ~(j < k) /\ ~(k < j)
    BY <1>3, <2>1, <2>3
  <2> QED BY <2>4
<1>6. ASSUME NEW j \in 1..Len(r), NEW k \in 1..Len(r), SameLog(r[j], r[k]) PROVE j = k
  <2>1. SameLog(s[p[j]], s[p[k]]) /\ p[j] \in 1..n /\ p[k] \in 1..n
    BY <1>3, <1>4, <1>6
  <2>2. p[j] = p[k]
    BY <2>1 DEF DistinctLogs
  <2> QED BY <1>3, <1>5, <2>2
<1>7. Elements(r) \subseteq Elements(s)
  BY <1>3, <1>4 DEF Elements
<1> QED BY <1>1, <1>6, <1>7 DEF DistinctLogs, r

LEMMA DistinctFlattened ==
    ASSUME NEW T, NEW ss \in Seq(Seq(T)), \A k \in 1..Len(ss) : DistinctLogs(ss[k]),
           \A j, k \in 1..Len(ss) : j # k => Disjoint(ss[j], ss[k])
    PROVE  DistinctLogs(FlattenSeq(ss))
<1> DEFINE s == FlattenSeq(ss)
<1>1. PICK start : FlattensTo(s, ss, start)
  BY FlattenedAt
<1> HIDE DEF s
<1>2. ASSUME NEW x \in 1..Len(s), NEW y \in 1..Len(s), SameLog(s[x], s[y]) PROVE x = y
  <2>1. PICK j \in 1..Len(ss) : \E a \in 1..Len(ss[j]) : x = start[j-1] + a /\ s[x] = ss[j][a]
    <3>1. PlacedAt(s, ss, start, x)
      BY <1>1, PlaceFound
    <3> QED BY <3>1, Zenon DEF PlacedAt
  <2>2. PICK a \in 1..Len(ss[j]) : x = start[j-1] + a /\ s[x] = ss[j][a]
    BY <2>1
  <2>3. PICK k \in 1..Len(ss) : \E b \in 1..Len(ss[k]) : y = start[k-1] + b /\ s[y] = ss[k][b]
    <3>1. PlacedAt(s, ss, start, y)
      BY <1>1, PlaceFound
    <3> QED BY <3>1, Zenon DEF PlacedAt
  <2>4. PICK b \in 1..Len(ss[k]) : y = start[k-1] + b /\ s[y] = ss[k][b]
    BY <2>3
  <2>5. SameLog(ss[j][a], ss[k][b])
    BY <1>2, <2>2, <2>4
  <2>6. j = k
    BY <2>5, Zenon DEF Disjoint
  <2>7. a = b
    BY <2>5, <2>6, Zenon DEF DistinctLogs
  <2> QED BY <2>2, <2>4, <2>6, <2>7
<1> QED BY <1>2 DEF DistinctLogs, s

\* The elements of the parts are those of the whole.
LEMMA ElementsFlattened ==
    ASSUME NEW T, NEW ss \in Seq(Seq(T)), NEW e \in Elements(FlattenSeq(ss))
    PROVE  \E k \in 1..Len(ss) : e \in Elements(ss[k])
<1> DEFINE s == FlattenSeq(ss)
<1>1. PICK start : FlattensTo(s, ss, start)
  BY FlattenedAt
<1> HIDE DEF s
<1>2. PICK x \in 1..Len(s) : e = s[x]
  BY DEF Elements, s
<1>3. PlacedAt(s, ss, start, x)
  BY <1>1, PlaceFound
<1>4. PICK k \in 1..Len(ss) : \E j \in 1..Len(ss[k]) : x = start[k-1] + j /\ s[x] = ss[k][j]
  BY <1>3, Zenon DEF PlacedAt
<1> QED BY <1>2, <1>4 DEF Elements

-----------------------------------------------------------------------------
(***************************************************************************)
(* The tree of the calls of a transaction, and what the passes carry along *)
(* of it: every call, whatever order or index they give its transaction.   *)
(***************************************************************************)
\* A call is where its index says; the first one is the root, and any other one is a
\* level below the call that made it.
InPlace(calls, i) ==
    /\ calls[i].index = i /\ calls[i].depth \in Nat
    /\ calls[i].parent = 0 <=> i = 1
    /\ calls[i].depth = IF i = 1 THEN 0 ELSE calls[calls[i].parent].depth + 1

\* The calls of a transaction as a node prints them: each after the call that made
\* it, which a delegate call always has.
NodeCalls(calls) ==
    /\ Listed(calls)
    /\ \A i \in 1..Len(calls) :
          /\ CallFields \subseteq DOMAIN calls[i]
          /\ calls[i].statusFailed \in BOOLEAN
          /\ calls[i].parent \in 0..(i - 1)
          /\ calls[i].type = "DELEGATE" => calls[i].parent # 0
          /\ InPlace(calls, i)

CallAlike(c, d) ==
    /\ c.index = d.index /\ c.depth = d.depth
    /\ c.parent = d.parent /\ c.type = d.type /\ c.address = d.address
    /\ c.caller = d.caller /\ c.stateReverted = d.stateReverted

SameCalls(cs, ds) == Len(cs) = Len(ds) /\ \A i \in 1..Len(ds) : CallAlike(cs[i], ds[i])

\* t is a transaction the node executed, with the calls of one of src, or merged.
Descends(t, src) ==
    /\ TrxFields \subseteq DOMAIN t
    /\ t.index \in Nat
    /\ NodeCalls(t.calls)
    /\ \/ t.hash = MergedHash
       \/ \E s \in Elements(src) : t.hash = s.hash /\ SameCalls(t.calls, s.calls)

Family(ts, src) == Listed(ts) /\ \A t \in Elements(ts) : Descends(t, src)

\* u is t, rewritten by a pass that does not concern its tree of calls.
Carries(u, t) ==
    /\ TrxFields \subseteq DOMAIN u
    /\ u.hash = t.hash /\ u.index = t.index /\ u.from = t.from
    /\ NodeCalls(t.calls) => NodeCalls(u.calls) /\ SameCalls(u.calls, t.calls)

LEMMA Carried ==
    ASSUME NEW ts, NEW src, Family(ts, src), NEW us, Listed(us),
           \A u \in Elements(us) : \E t \in Elements(ts) : Carries(u, t)
    PROVE  Family(us, src)
<1> SUFFICES ASSUME NEW u \in Elements(us)
             PROVE  Descends(u, src)
  BY DEF Family
<1>1. PICK t \in Elements(ts) : Carries(u, t)
  OBVIOUS
<1>2. Descends(t, src)
  BY DEF Family
<1>3. TrxFields \subseteq DOMAIN u /\ u.index \in Nat /\ u.hash = t.hash
  BY <1>1, <1>2, Zenon DEF Carries, Descends
<1>4. NodeCalls(u.calls) /\ SameCalls(u.calls, t.calls)
  BY <1>1, <1>2, Zenon DEF Carries, Descends
<1>5. CASE t.hash = MergedHash
  BY <1>3, <1>4, <1>5, Zenon DEF Descends
<1>6. CASE t.hash # MergedHash
  <2>1. PICK s \in Elements(src) : t.hash = s.hash /\ SameCalls(t.calls, s.calls)
    BY <1>2, <1>6, Zenon DEF Descends
  <2>2. SameCalls(u.calls, s.calls)
    BY <1>4, <2>1 DEF SameCalls, CallAlike
  <2> QED BY <1>3, <1>4, <2>1, <2>2, Zenon DEF Descends
<1> QED BY <1>5, <1>6

\* Calls rewritten one by one, but for what makes them a tree.
SamePlace(c, d) ==
    /\ c.index = d.index /\ c.depth = d.depth
    /\ c.parent = d.parent /\ c.type = d.type /\ c.statusFailed = d.statusFailed

LEMMA TreeKept ==
    ASSUME NEW ds, NodeCalls(ds), NEW cs, cs = [i \in 1..Len(ds) |-> cs[i]],
           \A i \in 1..Len(ds) : /\ CallFields \subseteq DOMAIN cs[i]
                                 /\ SamePlace(cs[i], ds[i])
    PROVE  NodeCalls(cs) /\ Len(cs) = Len(ds)
<1>1. Len(ds) \in Nat
  BY ListedFacts DEF NodeCalls
<1>2. Listed(cs) /\ Len(cs) = Len(ds)
  BY <1>1, Tabled
<1>3. ASSUME NEW i \in 1..Len(ds)
      PROVE  /\ cs[i].statusFailed \in BOOLEAN
             /\ cs[i].parent \in 0..(i - 1)
             /\ cs[i].type = "DELEGATE" => cs[i].parent # 0
             /\ InPlace(cs, i)
  <2>1. /\ ds[i].statusFailed \in BOOLEAN
        /\ ds[i].parent \in 0..(i - 1)
        /\ ds[i].type = "DELEGATE" => ds[i].parent # 0
        /\ InPlace(ds, i)
    BY Zenon DEF NodeCalls
  <2>2. SamePlace(cs[i], ds[i])
    OBVIOUS
  <2>3. i # 1 => ds[i].parent \in 1..Len(ds)
    BY <1>1, <2>1 DEF InPlace
  <2>4. i # 1 => SamePlace(cs[ds[i].parent], ds[ds[i].parent])
    BY <2>3
  <2>5. InPlace(cs, i)
    BY <2>1, <2>2, <2>4 DEF InPlace, SamePlace
  <2> QED BY <2>1, <2>2, <2>5, Zenon DEF SamePlace
<1> QED BY <1>2, <1>3, Zenon DEF NodeCalls

LEMMA CallsRewritten ==
    ASSUME NEW ds, NodeCalls(ds), NEW cs, cs = [i \in 1..Len(ds) |-> cs[i]],
           \A i \in 1..Len(ds) : /\ CallFields \subseteq DOMAIN cs[i]
                                 /\ CallAlike(cs[i], ds[i])
                                 /\ cs[i].statusFailed = ds[i].statusFailed
    PROVE  NodeCalls(cs) /\ SameCalls(cs, ds)
<1>1. NodeCalls(cs) /\ Len(cs) = Len(ds)
  <2>1. \A i \in 1..Len(ds) : SamePlace(cs[i], ds[i])
    BY Zenon DEF CallAlike, SamePlace
  <2> QED BY <2>1, TreeKept
<1> QED BY <1>1, Zenon DEF SameCalls

\* ShiftOrdinals.
LEMMA ShiftCarries ==
    ASSUME NEW t, TrxFields \subseteq DOMAIN t, NEW base
    PROVE  Carries(ShiftOrdinals(t, base), t)
<1> DEFINE shared(l) == t.hash = MergedHash /\ \E r \in ToSet(t.receipt) : SameLog(l, r)
           shiftLog(l) == [l EXCEPT !.ord = @ + (IF shared(l) THEN 2 * base ELSE base)]
           shiftCall(c) ==
               [c EXCEPT !.begin = IF @ = 0 THEN 0 ELSE @ + base,
                         !.end = @ + base,
                         !.logs = MapSeq(@, shiftLog),
                         !.changes = MapSeq(@, LAMBDA ch : [ch EXCEPT !.ord = @ + base])]
           cs == [i \in 1..Len(t.calls) |-> shiftCall(t.calls[i])]
           u == ShiftOrdinals(t, base)
<1>1. PICK receipt : u = [t EXCEPT !.begin = t.begin + base, !.end = t.end + base,
                                   !.calls = cs, !.receipt = receipt]
  BY Zenon DEF ShiftOrdinals, MapSeq
<1>2. ASSUME NEW c, CallFields \subseteq DOMAIN c
      PROVE  /\ CallFields \subseteq DOMAIN shiftCall(c)
             /\ CallAlike(shiftCall(c), c)
             /\ shiftCall(c).statusFailed = c.statusFailed
  <2>1. PICK begin, end, logs, moved :
            shiftCall(c) = [c EXCEPT !.begin = begin, !.end = end, !.logs = logs,
                                     !.changes = moved]
    BY Zenon
  <2> HIDE DEF shiftCall
  <2> QED BY <1>2, <2>1 DEF CallFields, CallAlike
<1> HIDE DEF shiftCall, u
<1>3. /\ TrxFields \subseteq DOMAIN u /\ u.hash = t.hash /\ u.index = t.index
      /\ u.from = t.from /\ u.calls = cs
  <2> HIDE DEF cs
  <2> QED BY <1>1 DEF TrxFields
<1>4. ASSUME NodeCalls(t.calls)
      PROVE  NodeCalls(cs) /\ SameCalls(cs, t.calls)
  <2>1. \A i \in 1..Len(t.calls) : CallFields \subseteq DOMAIN t.calls[i]
    BY <1>4, Zenon DEF NodeCalls
  <2>2. \A i \in 1..Len(t.calls) : cs[i] = shiftCall(t.calls[i])
    OBVIOUS
  <2>3. cs = [i \in 1..Len(t.calls) |-> cs[i]]
    OBVIOUS
  <2> HIDE DEF cs
  <2>4. ASSUME NEW i \in 1..Len(t.calls)
        PROVE  /\ CallFields \subseteq DOMAIN cs[i]
               /\ CallAlike(cs[i], t.calls[i])
               /\ cs[i].statusFailed = t.calls[i].statusFailed
    BY <1>2, <2>1, <2>2, Zenon
  <2> QED BY <1>4, <2>3, <2>4, CallsRewritten
<1> QED BY <1>3, <1>4, Zenon DEF Carries, u

\* PopulateTrxStatus.
LEMMA StatusCarries ==
    ASSUME NEW t, TrxFields \subseteq DOMAIN t
    PROVE  Carries(PopulateTrxStatus(t), t)
<1> DEFINE u == PopulateTrxStatus(t)
<1>1. u = t \/ \E status : u = [t EXCEPT !.status = status]
  BY Zenon DEF PopulateTrxStatus
<1>2. /\ TrxFields \subseteq DOMAIN u /\ u.hash = t.hash /\ u.index = t.index
      /\ u.from = t.from /\ u.calls = t.calls
  <2>1. CASE u = t
    BY <2>1, Zenon
  <2>2. CASE \E status : u = [t EXCEPT !.status = status]
    <3> HIDE DEF u
    <3> QED BY <2>2 DEF TrxFields
  <2> QED BY <1>1, <2>1, <2>2
<1>3. SameCalls(t.calls, t.calls)
  BY DEF SameCalls, CallAlike
<1> QED BY <1>2, <1>3, Zenon DEF Carries

\* Retouch.
LEMMA RetouchCarries ==
    ASSUME NEW t, TrxFields \subseteq DOMAIN t, NEW before, NEW numbered, NEW hashes
    PROVE  Carries(Retouch(t, before, numbered, hashes), t)
<1> DEFINE callLog(l) ==
               LET at == {k \in 1..Len(numbered) : SameLog(l, numbered[k])} IN
               IF t.hash \in hashes /\ t.hash # MergedHash THEN l
               ELSE IF at # {} THEN [l EXCEPT !.blockIndex = Min(at) - 1]
               ELSE IF t.hash = MergedHash THEN l ELSE [l EXCEPT !.blockIndex = 0]
           newCall(c) == [c EXCEPT !.logs = MapSeq(@, callLog)]
           cs == [i \in 1..Len(t.calls) |-> newCall(t.calls[i])]
           u == Retouch(t, before, numbered, hashes)
<1>1. PICK receipt : u = [t EXCEPT !.receipt = receipt, !.calls = cs]
  BY Zenon DEF Retouch, MapSeq
<1>2. ASSUME NEW c, CallFields \subseteq DOMAIN c
      PROVE  /\ CallFields \subseteq DOMAIN newCall(c)
             /\ CallAlike(newCall(c), c)
             /\ newCall(c).statusFailed = c.statusFailed
  <2>1. PICK logs : newCall(c) = [c EXCEPT !.logs = logs]
    BY Zenon
  <2> HIDE DEF newCall
  <2> QED BY <1>2, <2>1 DEF CallFields, CallAlike
<1> HIDE DEF newCall, u
<1>3. /\ TrxFields \subseteq DOMAIN u /\ u.hash = t.hash /\ u.index = t.index
      /\ u.from = t.from /\ u.calls = cs
  <2> HIDE DEF cs
  <2> QED BY <1>1 DEF TrxFields
<1>4. ASSUME NodeCalls(t.calls)
      PROVE  NodeCalls(cs) /\ SameCalls(cs, t.calls)
  <2>1. \A i \in 1..Len(t.calls) : CallFields \subseteq DOMAIN t.calls[i]
    BY <1>4, Zenon DEF NodeCalls
  <2>2. \A i \in 1..Len(t.calls) : cs[i] = newCall(t.calls[i])
    OBVIOUS
  <2>3. cs = [i \in 1..Len(t.calls) |-> cs[i]]
    OBVIOUS
  <2> HIDE DEF cs
  <2>4. ASSUME NEW i \in 1..Len(t.calls)
        PROVE  /\ CallFields \subseteq DOMAIN cs[i]
               /\ CallAlike(cs[i], t.calls[i])
               /\ cs[i].statusFailed = t.calls[i].statusFailed
    BY <1>2, <2>1, <2>2, Zenon
  <2> QED BY <1>4, <2>3, <2>4, CallsRewritten
<1> QED BY <1>3, <1>4, Zenon DEF Carries, u

\* Transactions with the same hash, index and sender, one by one.
Alike(us, ts) ==
    /\ Len(us) = Len(ts)
    /\ \A i \in 1..Len(ts) : /\ us[i].hash = ts[i].hash /\ us[i].index = ts[i].index
                              /\ us[i].from = ts[i].from

\* A pass that carries every transaction of a family along gives a family.
LEMMA PassedOn ==
    ASSUME NEW ts, NEW src, Family(ts, src), NEW us, us = [i \in 1..Len(ts) |-> us[i]],
           \A i \in 1..Len(ts) : TrxFields \subseteq DOMAIN ts[i] => Carries(us[i], ts[i])
    PROVE  Family(us, src) /\ Alike(us, ts)
<1>1. Len(ts) \in Nat
  BY ListedFacts DEF Family
<1>2. Listed(us) /\ Len(us) = Len(ts)
  BY <1>1, Tabled
<1>3. \A i \in 1..Len(ts) : ts[i] \in Elements(ts)
  BY DEF Elements
<1>4. \A i \in 1..Len(ts) : Carries(us[i], ts[i])
  <2>1. \A i \in 1..Len(ts) : TrxFields \subseteq DOMAIN ts[i]
    BY <1>3, Zenon DEF Family, Descends
  <2> QED BY <2>1
<1>5. \A u \in Elements(us) : \E t \in Elements(ts) : Carries(u, t)
  BY <1>2, <1>3, <1>4 DEF Elements
<1>6. Family(us, src)
  BY <1>2, <1>5, Carried
<1>7. Alike(us, ts)
  BY <1>2, <1>4, Zenon DEF Alike, Carries
<1> QED BY <1>6, <1>7

LEMMA StatusFamily ==
    ASSUME NEW ts, NEW src, Family(ts, src)
    PROVE  /\ Family(MapSeq(ts, PopulateTrxStatus), src)
           /\ Alike(MapSeq(ts, PopulateTrxStatus), ts)
<1> DEFINE us == MapSeq(ts, PopulateTrxStatus)
<1>1. us = [i \in 1..Len(ts) |-> PopulateTrxStatus(ts[i])]
  BY Zenon DEF MapSeq
<1> HIDE DEF us
<1>2. /\ us = [i \in 1..Len(ts) |-> us[i]]
      /\ \A i \in 1..Len(ts) : us[i] = PopulateTrxStatus(ts[i])
  BY <1>1
<1>3. \A i \in 1..Len(ts) : TrxFields \subseteq DOMAIN ts[i] => Carries(us[i], ts[i])
  BY <1>2, StatusCarries
<1>4. Family(us, src) /\ Alike(us, ts)
  BY <1>2, <1>3, PassedOn
<1> QED BY <1>4 DEF us

LEMMA IndexedFamily ==
    ASSUME NEW ts, NEW src, Family(ts, src), NEW hashes
    PROVE  /\ Family(PopulateLogBlockIndices(ts, hashes).trxs, src)
           /\ Alike(PopulateLogBlockIndices(ts, hashes).trxs, ts)
<1>0. PICK us : us = PopulateLogBlockIndices(ts, hashes).trxs
  OBVIOUS
<1>1. Retouched(us, ts, hashes)
  BY <1>0, RetouchedOrNot
<1>2. CASE us = ts
  <2>1. Alike(ts, ts)
    BY DEF Alike
  <2> QED BY <1>0, <1>2, <2>1
<1>3. CASE us # ts
  <2>1. PICK before, numbered :
            us = [i \in 1..Len(ts) |-> Retouch(ts[i], before[i], numbered, hashes)]
    BY <1>1, <1>3, Zenon DEF Retouched
  <2>2. /\ us = [i \in 1..Len(ts) |-> us[i]]
        /\ \A i \in 1..Len(ts) : us[i] = Retouch(ts[i], before[i], numbered, hashes)
    BY <2>1
  <2>3. \A i \in 1..Len(ts) : TrxFields \subseteq DOMAIN ts[i] => Carries(us[i], ts[i])
    BY <2>2, RetouchCarries
  <2>4. Family(us, src) /\ Alike(us, ts)
    BY <2>2, <2>3, PassedOn
  <2> QED BY <1>0, <2>4
<1> QED BY <1>2, <1>3

LEMMA ReorderedFamily ==
    ASSUME NEW block, "trxs" \in DOMAIN block, NEW src, Family(block.trxs, src), NEW first
    PROVE  LET us == ReorderTransactionsAndRenumberOrdinals(block, first).trxs
               key == MapSeq(block.trxs, LAMBDA t : t.index)
           IN  Family(us, src) /\ Alike(us, SortBy(block.trxs, key))
<1> DEFINE ts == block.trxs
           key == MapSeq(ts, LAMBDA t : t.index)
           sorted == SortBy(ts, key)
           baseline == Baselines(sorted, first)
           us == [i \in 1..Len(sorted) |-> ShiftOrdinals(sorted[i], baseline[i-1])]
<1>1. ts \in Seq(Elements(ts)) /\ \A i \in 1..Len(ts) : ts[i] \in Elements(ts)
  <2>1. \A i \in 1..Len(ts) : ts[i] \in Elements(ts)
    BY DEF Elements
  <2> QED BY <2>1, ListedFacts DEF Family
<1>2. \A i \in 1..Len(ts) : key[i] \in Nat
  <2>1. \A i \in 1..Len(ts) : ts[i].index \in Nat
    BY <1>1, Zenon DEF Family, Descends
  <2>2. \A i \in 1..Len(ts) : key[i] = ts[i].index
    BY DEF MapSeq
  <2> HIDE DEF key, ts
  <2> QED BY <2>1, <2>2
<1> HIDE DEF key
<1>3. sorted \in Seq(Elements(ts))
  <2> HIDE DEF ts
  <2> QED BY <1>1, <1>2, SortByType
<1> HIDE DEF sorted, ts
<1>4. Family(sorted, src)
  <2>1. Listed(sorted)
    BY <1>3 DEF Listed
  <2>2. \A t \in Elements(sorted) : t \in Elements(ts)
    BY <1>3 DEF Elements
  <2> QED BY <2>1, <2>2 DEF Family, ts
<1>5. ReorderTransactionsAndRenumberOrdinals(block, first).trxs = us
  <2>1. PICK moved : ReorderTransactionsAndRenumberOrdinals(block, first) =
                         [block EXCEPT !.trxs = us, !.changes = moved]
    BY Zenon DEF ReorderTransactionsAndRenumberOrdinals, sorted, key, ts
  <2> HIDE DEF us
  <2> QED BY <2>1
<1> HIDE DEF baseline
<1>6. /\ us = [i \in 1..Len(sorted) |-> us[i]]
      /\ \A i \in 1..Len(sorted) : us[i] = ShiftOrdinals(sorted[i], baseline[i-1])
  OBVIOUS
<1> HIDE DEF us
<1>7. \A i \in 1..Len(sorted) : TrxFields \subseteq DOMAIN sorted[i] => Carries(us[i], sorted[i])
  BY <1>6, ShiftCarries
<1>8. Family(us, src) /\ Alike(us, sorted)
  BY <1>4, <1>6, <1>7, PassedOn
<1> QED BY <1>5, <1>8 DEF sorted, key, ts

LEMMA JoinedFamily ==
    ASSUME NEW src, NEW s, Family(s, src), NEW t, Family(t, src)
    PROVE  Family(s \o t, src)
<1> DEFINE T == Elements(s) \cup Elements(t)
<1>1. s \in Seq(Elements(s)) /\ t \in Seq(Elements(t))
  BY ListedFacts DEF Family
<1>2. s \in Seq(T) /\ t \in Seq(T)
  BY <1>1
<1>3. s \o t \in Seq(T) /\ Elements(s \o t) = Elements(s) \cup Elements(t)
  <2> HIDE DEF T
  <2> QED BY <1>2, ElementsJoined
<1>4. Listed(s \o t)
  BY <1>3, Zenon DEF Listed
<1> QED BY <1>3, <1>4, Zenon DEF Family

LEMMA SelectedFamily ==
    ASSUME NEW ts, NEW src, Family(ts, src), NEW S
    PROVE  Family(Select(ts, S), src)
<1> DEFINE s == Select(ts, S)
<1>1. ts \in Seq(Elements(ts))
  BY ListedFacts DEF Family
<1>2. s \in Seq(Elements(ts))
  BY <1>1, SelectType
<1> HIDE DEF s
<1>3. Listed(s)
  BY <1>2 DEF Listed
<1>4. \A t \in Elements(s) : t \in Elements(ts)
  BY <1>2 DEF Elements
<1> QED BY <1>3, <1>4 DEF Family, s

\* The offset of a merged transaction counts the artificial root and all calls before.
LEMMA OffsetsAre ==
    ASSUME NEW merge, Listed(merge),
           \A k \in 1..Len(merge) : NodeCalls(merge[k].calls),
           NEW T, NEW cc \in Seq(Seq(T)), Len(cc) = Len(merge),
           \A k \in 1..Len(merge) : cc[k] = merge[k].calls,
           NEW start, Starts(start, cc)
    PROVE  \A k \in 1..Len(merge) : CallIdxOffset(merge)[k] = 1 + start[k-1]
<1> DEFINE n == Len(merge)
           next(o, k) == Max({o} \cup {c.index + o : c \in ToSet(merge[k-1].calls)})
           Offsets(f) == f = [k \in 1..n |-> IF k = 1 THEN 1 ELSE next(f[k-1], k)]
           off == CHOOSE f : Offsets(f)
           f0 == [k \in 1..n |-> 1 + start[k-1]]
<1>1. /\ n \in Nat /\ start[0] = 0 /\ \A k \in 0..n : start[k] \in Nat
      /\ \A k \in 1..n : start[k] = start[k-1] + Len(merge[k].calls)
  <2>1. n \in Nat
    BY ListedFacts
  <2> QED BY <2>1 DEF Starts
<1>2. ASSUME NEW k \in 1..n, k # 1
      PROVE  next(1 + start[(k-1)-1], k) = 1 + start[k-1]
  <2> DEFINE j == k - 1
             cs == merge[j].calls
             o == 1 + start[j-1]
             S == {o} \cup {c.index + o : c \in ToSet(cs)}
  <2>1. j \in 1..n /\ j - 1 \in 0..n /\ j \in Nat
    BY <1>1, <1>2
  <2>2. NodeCalls(cs) /\ Len(cs) \in Nat
    BY <2>1, ListedFacts DEF NodeCalls
  <2>3. o \in Nat /\ 1 + start[j] = o + Len(cs)
    <3>1. start[j-1] \in Nat /\ start[j] = start[j-1] + Len(cs)
      BY <1>1, <2>1
    <3> HIDE DEF cs, j
    <3> QED BY <2>2, <3>1
  <2> HIDE DEF j, cs, o
  <2>4. ToSet(cs) = {cs[i] : i \in 1..Len(cs)}
    BY <2>2, ListedFacts DEF NodeCalls, Elements
  <2>5. \A i \in 1..Len(cs) : cs[i].index = i
    BY <2>2 DEF NodeCalls, InPlace
  <2>6. /\ o + Len(cs) \in S /\ \A x \in S : x \in Nat /\ x <= o + Len(cs)
    <3>1. ASSUME NEW x \in S PROVE x \in Nat /\ x <= o + Len(cs)
      <4>1. CASE x = o
        BY <2>2, <2>3, <4>1
      <4>2. CASE x # o
        <5>1. PICK c \in ToSet(cs) : x = c.index + o
          BY <4>2
        <5>2. PICK i \in 1..Len(cs) : c = cs[i]
          BY <2>4
        <5>3. x = i + o
          BY <2>5, <5>1, <5>2
        <5> QED BY <2>2, <2>3, <5>3
      <4> QED BY <4>1, <4>2
    <3>2. CASE Len(cs) = 0
      <4>1. o + Len(cs) = o
        BY <2>3, <3>2
      <4> QED BY <3>1, <4>1
    <3>3. CASE Len(cs) # 0
      <4>1. Len(cs) \in 1..Len(cs)
        BY <2>2, <3>3
      <4>2. cs[Len(cs)] \in ToSet(cs) /\ cs[Len(cs)].index = Len(cs)
        BY <2>4, <2>5, <4>1
      <4>3. cs[Len(cs)].index + o \in S
        BY <4>2
      <4>4. cs[Len(cs)].index + o = o + Len(cs)
        BY <2>2, <2>3, <4>2
      <4> HIDE DEF S
      <4> QED BY <3>1, <4>3, <4>4
    <3> QED BY <3>2, <3>3
  <2> HIDE DEF S
  <2>7. Max(S) \in S /\ \A y \in S : Max(S) >= y
    <3>1. \E x \in S : \A y \in S : x >= y
      BY <2>2, <2>3, <2>6
    <3> QED BY <3>1, Zenon DEF Max
  <2>8. Max(S) = o + Len(cs)
    BY <2>2, <2>3, <2>6, <2>7
  <2>9. next(o, k) = Max(S)
    BY DEF S, cs, j
  <2> HIDE DEF next
  <2> QED BY <2>3, <2>8, <2>9 DEF o, j
<1> HIDE DEF next
<1>3. Offsets(f0)
  <2>1. \A k \in 1..n : f0[k] = 1 + start[k-1] /\ (k # 1 => k - 1 \in 1..n)
    BY <1>1
  <2>2. ASSUME NEW k \in 1..n
        PROVE  f0[k] = IF k = 1 THEN 1 ELSE next(f0[k-1], k)
    <3>1. CASE k = 1
      BY <1>1, <2>1, <3>1
    <3>2. CASE k # 1
      <4>1. f0[k-1] = 1 + start[(k-1)-1]
        BY <2>1, <3>2
      <4> QED BY <1>2, <2>1, <3>2, <4>1
    <3> QED BY <3>1, <3>2
  <2>3. f0 = [k \in 1..n |-> f0[k]]
    OBVIOUS
  <2> HIDE DEF f0
  <2> QED BY <2>2, <2>3
<1>4. Offsets(off)
  <2> HIDE DEF f0, Offsets
  <2> QED BY <1>3, Zenon
<1>5. CallIdxOffset(merge) = off
  BY Zenon DEF CallIdxOffset, off, next
<1> HIDE DEF off, f0
<1>6. \A k \in 1..n : off[k] = IF k = 1 THEN 1 ELSE next(off[k-1], k)
  BY <1>4
<1> DEFINE P == {m \in Nat : m \in 1..n => off[m] = 1 + start[m-1]}
<1>7. 0 \in P
  OBVIOUS
<1>8. ASSUME NEW m \in Nat, m \in P PROVE m + 1 \in P
  <2> SUFFICES ASSUME m + 1 \in 1..n PROVE off[m + 1] = 1 + start[(m + 1)-1]
    OBVIOUS
  <2> DEFINE k == m + 1
  <2>1. k \in 1..n /\ k - 1 = m
    OBVIOUS
  <2>2. CASE k = 1
    BY <1>1, <1>6, <2>1, <2>2
  <2>3. CASE k # 1
    <3>1. off[m] = 1 + start[m-1]
      BY <1>1, <1>8, <2>1, <2>3
    <3> HIDE DEF k
    <3>2. off[k] = next(off[m], k)
      BY <1>6, <2>1, <2>3
    <3>3. next(1 + start[(k-1)-1], k) = 1 + start[k-1]
      BY <1>2, <2>1, <2>3
    <3>4. off[k] = 1 + start[k-1]
      BY <2>1, <3>1, <3>2, <3>3
    <3> QED BY <3>4 DEF k
  <2> QED BY <2>2, <2>3
<1>9. \A m \in Nat : m \in P
  <2> HIDE DEF P
  <2> QED BY <1>7, <1>8, NaturalsOf
<1> QED BY <1>1, <1>5, <1>9

\* c is the call d moved o places down, below an artificial root.
Moved(c, d, o) ==
    /\ CallFields \subseteq DOMAIN c /\ c.statusFailed = d.statusFailed /\ c.type = d.type
    /\ c.index = d.index + o /\ c.depth = d.depth + 1
    /\ c.parent = IF d.parent = 0 THEN 1 ELSE d.parent + o

LEMMA ShiftedCall ==
    ASSUME NEW d, CallFields \subseteq DOMAIN d, NEW o
    PROVE  Moved(ShiftCall(d, o), d, o)
<1> DEFINE c == ShiftCall(d, o)
<1>1. PICK x, y, z : /\ x = d.index + o /\ y = d.depth + 1
                     /\ z = IF d.parent = 0 THEN 1 ELSE d.parent + o
  OBVIOUS
<1>2. c = [d EXCEPT !.index = x, !.depth = y, !.parent = z]
  BY <1>1, Zenon DEF ShiftCall
<1> HIDE DEF c
<1>3. /\ CallFields \subseteq DOMAIN c /\ c.statusFailed = d.statusFailed
      /\ c.index = x /\ c.depth = y /\ c.type = d.type /\ c.parent = z
  BY <1>2 DEF CallFields
<1>4. Moved(c, d, o)
  BY <1>1, <1>3 DEF Moved
<1> QED BY <1>4 DEF c

\* The calls of the merged transaction are a tree as a node would print it.
LEMMA MergedCalls ==
    ASSUME NEW merge, Listed(merge), NEW index,
           \A k \in 1..Len(merge) : NodeCalls(merge[k].calls)
    PROVE  NodeCalls(MergedSystemTrx(merge, index).calls)
<1> DEFINE n == Len(merge)
           off == CallIdxOffset(merge)
           ss == [k \in 1..n |-> MapSeq(merge[k].calls, LAMBDA c : ShiftCall(c, off[k]))]
           cc == [k \in 1..n |-> merge[k].calls]
           T == UNION {Elements(cc[k]) : k \in 1..n}
           U == UNION {Elements(ss[k]) : k \in 1..n}
           calls == FlattenSeq(ss)
<1>1. PICK top : /\ MergedSystemTrx(merge, index).calls = <<top>> \o calls
                 /\ CallFields \subseteq DOMAIN top
                 /\ top.index = 1 /\ top.parent = 0 /\ top.depth = 0
                 /\ top.type = "CALL" /\ top.statusFailed = FALSE
  <2>1. PICK b, e, begin, end, receipt, born, done :
            MergedSystemTrx(merge, index) =
                [hash |-> MergedHash, index |-> index, from |-> NullAddress,
                 to |-> NullAddress, begin |-> begin, end |-> end, status |-> "SUCCEEDED",
                 calls |-> <<[NewCall(1, "CALL", NullAddress, b)
                                 EXCEPT !.caller = NullAddress, !.end = e]>> \o calls,
                 receipt |-> receipt, born |-> born, done |-> done, system |-> FALSE]
    BY Zenon DEF MergedSystemTrx
  <2>2. PICK top : top = [NewCall(1, "CALL", NullAddress, b)
                             EXCEPT !.caller = NullAddress, !.end = e]
    OBVIOUS
  <2>3. /\ CallFields \subseteq DOMAIN top
        /\ top.index = 1 /\ top.parent = 0 /\ top.depth = 0
        /\ top.type = "CALL" /\ top.statusFailed = FALSE
    BY <2>2 DEF NewCall, CallFields
  <2> HIDE DEF calls
  <2>4. MergedSystemTrx(merge, index).calls = <<top>> \o calls
    BY <2>1, <2>2
  <2> QED BY <2>3, <2>4
<1>2. n \in Nat /\ \A k \in 1..n : /\ NodeCalls(merge[k].calls) /\ Listed(merge[k].calls)
                                   /\ Len(merge[k].calls) \in Nat
  BY ListedFacts DEF NodeCalls
<1>3. /\ cc \in Seq(Seq(T)) /\ Len(cc) = n
      /\ \A k \in 1..n : cc[k] = merge[k].calls
  <2>1. \A k \in 1..n : cc[k] = merge[k].calls
    OBVIOUS
  <2>2. ASSUME NEW k \in 1..n PROVE cc[k] \in Seq(T)
    <3>1. cc[k] \in Seq(Elements(cc[k]))
      BY <1>2, <2>1, ListedFacts
    <3>2. Elements(cc[k]) \subseteq T
      OBVIOUS
    <3> HIDE DEF T, cc
    <3> QED BY <3>1, <3>2
  <2>3. cc = [k \in 1..n |-> cc[k]]
    OBVIOUS
  <2> HIDE DEF cc, T
  <2>4. cc \in [1..n -> Seq(T)]
    BY <2>2, <2>3
  <2> QED BY <1>2, <2>1, <2>4
<1>4. PICK start : Starts(start, cc)
  <2> HIDE DEF cc, T
  <2> QED BY <1>3, FlattenedAt DEF FlattensTo
<1>5. \A k \in 1..n : off[k] = 1 + start[k-1]
  <2> HIDE DEF cc, T, off
  <2> QED BY <1>2, <1>3, <1>4, OffsetsAre DEF off
<1>6. \A k \in 1..n : start[k-1] \in Nat
  <2>1. \A k \in 1..n : k - 1 \in 0..n
    BY <1>2
  <2> HIDE DEF cc, T
  <2> QED BY <1>3, <1>4, <2>1 DEF Starts
<1> HIDE DEF off, cc, T
<1>7. ASSUME NEW k \in 1..n
      PROVE  /\ Listed(ss[k]) /\ Len(ss[k]) = Len(merge[k].calls)
             /\ \A j \in 1..Len(merge[k].calls) :
                    ss[k][j] = ShiftCall(merge[k].calls[j], 1 + start[k-1])
  <2>1. ss[k] = [j \in 1..Len(merge[k].calls) |-> ShiftCall(merge[k].calls[j], off[k])]
    BY Zenon DEF MapSeq
  <2>2. PICK t : t = ss[k]
    OBVIOUS
  <2>3. /\ t = [j \in 1..Len(merge[k].calls) |-> t[j]]
        /\ \A j \in 1..Len(merge[k].calls) : t[j] = ShiftCall(merge[k].calls[j], off[k])
    BY <2>1, <2>2
  <2>4. Listed(t) /\ Len(t) = Len(merge[k].calls)
    BY <1>2, <2>3, Tabled
  <2> QED BY <1>5, <2>2, <2>3, <2>4
<1>8. ss \in Seq(Seq(U)) /\ Len(ss) = n
  <2>1. ASSUME NEW k \in 1..n PROVE ss[k] \in Seq(U)
    <3>1. ss[k] \in Seq(Elements(ss[k]))
      BY <1>7, ListedFacts
    <3>2. Elements(ss[k]) \subseteq U
      OBVIOUS
    <3> HIDE DEF U, ss
    <3> QED BY <3>1, <3>2
  <2>2. ss = [k \in 1..n |-> ss[k]]
    OBVIOUS
  <2> HIDE DEF ss, U
  <2>3. ss \in [1..n -> Seq(U)]
    BY <2>1, <2>2
  <2> QED BY <1>2, <2>3
<1> HIDE DEF ss, U
<1>9. /\ calls \in Seq(U) /\ FlattensTo(calls, ss, start)
  <2>1. calls \in Seq(U) /\ \E s : FlattensTo(calls, ss, s)
    BY <1>8, FlattenedAt
  <2> HIDE DEF calls
  <2>2. PICK s : FlattensTo(calls, ss, s)
    BY <2>1
  <2>3. Starts(s, ss)
    BY <2>2 DEF FlattensTo
  <2>4. s = start
    <3>1. Len(ss) = Len(cc) /\ \A k \in 1..Len(cc) : Len(ss[k]) = Len(cc[k])
      BY <1>3, <1>7, <1>8
    <3> QED BY <1>3, <1>4, <1>8, <2>3, <3>1, SameStarts
  <2> QED BY <2>1, <2>2, <2>4
<1> HIDE DEF calls
<1> DEFINE cs == <<top>> \o calls
           m == Len(calls)
<1>10. /\ Listed(cs) /\ Len(cs) = m + 1 /\ cs[1] = top /\ m \in Nat
       /\ \A i \in 1..m : cs[i + 1] = calls[i]
  <2> DEFINE V == U \cup {top}
  <2>1. <<top>> \in Seq(V) /\ calls \in Seq(V) /\ Len(<<top>>) = 1 /\ m \in Nat
    BY <1>9
  <2> HIDE DEF V
  <2>2. /\ cs \in Seq(V) /\ Len(cs) = 1 + m
        /\ \A i \in 1..(1 + m) : cs[i] = IF i <= 1 THEN <<top>>[i] ELSE calls[i - 1]
    BY <2>1, ConcatProperties
  <2> HIDE DEF cs
  <2>3. Listed(cs)
    BY <2>2 DEF Listed
  <2>4. ASSUME NEW i \in 1..m PROVE cs[i + 1] = calls[i]
    <3>1. i + 1 \in 1..(1 + m) /\ ~(i + 1 <= 1) /\ (i + 1) - 1 = i
      BY <2>1
    <3> QED BY <2>2, <3>1
  <2>5. cs[1] = top
    BY <2>1, <2>2
  <2> QED BY <2>1, <2>2, <2>3, <2>4, <2>5
<1> HIDE DEF cs
<1>11. \A i \in 1..m : PlacedAt(calls, ss, start, i)
  BY <1>8, <1>9, PlaceFound
<1>12. ASSUME NEW i \in 1..m
       PROVE  \E k \in 1..n : \E j \in 1..Len(merge[k].calls) :
                  /\ i = start[k-1] + j
                  /\ calls[i] = ShiftCall(merge[k].calls[j], 1 + start[k-1])
  <2>1. PICK k \in 1..n : \E j \in 1..Len(ss[k]) :
            i = start[k-1] + j /\ calls[i] = ss[k][j]
    BY <1>8, <1>11, Zenon DEF PlacedAt
  <2>2. PICK j \in 1..Len(ss[k]) : i = start[k-1] + j /\ calls[i] = ss[k][j]
    BY <2>1
  <2>3. j \in 1..Len(merge[k].calls)
    BY <1>7
  <2>4. calls[i] = ShiftCall(merge[k].calls[j], 1 + start[k-1])
    BY <1>7, <2>2, <2>3
  <2> QED BY <2>2, <2>3, <2>4
<1>13. \A k \in 1..n : \A j \in 1..Len(merge[k].calls) :
           /\ start[k-1] + j \in 1..m
           /\ calls[start[k-1] + j] = ShiftCall(merge[k].calls[j], 1 + start[k-1])
  BY <1>7, <1>8, <1>9, SMTT(30) DEF FlattensTo
<1>15. ASSUME NEW h \in 1..Len(cs)
       PROVE  /\ CallFields \subseteq DOMAIN cs[h] /\ cs[h].statusFailed \in BOOLEAN
              /\ cs[h].parent \in 0..(h - 1)
              /\ cs[h].type = "DELEGATE" => cs[h].parent # 0
              /\ InPlace(cs, h)
  <2>1. CASE h = 1
    <3>1. 0 \in 0..(h - 1)
      BY <2>1
    <3>2. InPlace(cs, h)
      BY <1>1, <1>10, <2>1 DEF InPlace
    <3>3. cs[h] = top /\ top.statusFailed \in BOOLEAN
      BY <1>1, <1>10, <2>1
    <3> QED BY <1>1, <3>1, <3>2, <3>3
  <2>2. CASE h # 1
    <3>1. PICK i \in 1..m : h = i + 1
      <4>1. h - 1 \in 1..m /\ h = (h - 1) + 1
        BY <1>10, <2>2
      <4> QED BY <4>1
    <3>2. PICK k \in 1..n : \E j \in 1..Len(merge[k].calls) :
              /\ i = start[k-1] + j
              /\ calls[i] = ShiftCall(merge[k].calls[j], 1 + start[k-1])
      BY <1>12
    <3>3. PICK j \in 1..Len(merge[k].calls) :
              /\ i = start[k-1] + j
              /\ calls[i] = ShiftCall(merge[k].calls[j], 1 + start[k-1])
      BY <3>2
    <3>4. PICK s \in Nat : s = start[k-1]
      BY <1>6
    <3>5. PICK o \in Nat : o = 1 + s
      BY <3>4
    <3>6. PICK ds : ds = merge[k].calls
      OBVIOUS
    <3>7. NodeCalls(ds) /\ Len(ds) \in Nat /\ j \in 1..Len(ds)
      <4>1. NodeCalls(merge[k].calls) /\ Len(merge[k].calls) \in Nat
        BY <1>2
      <4> QED BY <3>6, <4>1
    <3>8. /\ h = j + o /\ cs[h] = ShiftCall(ds[j], o)
          /\ \A g \in 1..Len(ds) : g + o \in 1..Len(cs) /\ cs[g + o] = ShiftCall(ds[g], o)
      <4>1. h = j + o
        <5>1. h = i + 1 /\ i = s + j
          BY <3>1, <3>3, <3>4
        <5>2. j \in Nat
          BY <3>7
        <5> QED BY <3>5, <5>1, <5>2
      <4>2. cs[h] = ShiftCall(ds[j], o)
        BY <1>10, <3>1, <3>3, <3>4, <3>5, <3>6
      <4>3. ASSUME NEW g \in 1..Len(ds)
            PROVE  g + o \in 1..Len(cs) /\ cs[g + o] = ShiftCall(ds[g], o)
        <5>1. s + g \in 1..m /\ calls[s + g] = ShiftCall(ds[g], o)
          BY <1>13, <3>4, <3>5, <3>6
        <5>2. g + o = (s + g) + 1
          BY <3>5, <3>7
        <5>3. PICK e \in 1..m : e = s + g
          BY <5>1
        <5>4. g + o = e + 1 /\ cs[e + 1] = calls[e] /\ e + 1 \in 1..Len(cs)
          <6>1. e \in Nat /\ e <= m /\ m \in Nat
            BY <1>10
          <6>2. cs[e + 1] = calls[e] /\ Len(cs) = m + 1
            BY <1>10
          <6>3. g + o = e + 1
            BY <5>2, <5>3
          <6>4. e \in 1..m
            BY <5>3
          <6> HIDE DEF m
          <6>5. e + 1 \in 1..Len(cs)
            BY <6>1, <6>2, <6>4
          <6> QED BY <6>2, <6>3, <6>5
        <5> QED BY <5>1, <5>3, <5>4
      <4> QED BY <4>1, <4>2, <4>3
    <3>9. \A g \in 1..Len(ds) :
              /\ CallFields \subseteq DOMAIN ds[g] /\ ds[g].statusFailed \in BOOLEAN
              /\ ds[g].parent \in 0..(g - 1) /\ InPlace(ds, g)
      BY <3>7, Zenon DEF NodeCalls
    <3>10. PICK d : d = ds[j]
      OBVIOUS
    <3>11. /\ CallFields \subseteq DOMAIN d /\ d.statusFailed \in BOOLEAN
           /\ d.parent \in 0..(j - 1) /\ InPlace(ds, j)
      BY <3>7, <3>9, <3>10
    <3>12. Moved(cs[h], d, o)
      <4>1. cs[h] = ShiftCall(d, o)
        BY <3>8, <3>10
      <4>2. CallFields \subseteq DOMAIN d
        BY <3>11
      <4> QED BY <4>1, <4>2, ShiftedCall
    <3>13. d.index = j /\ d.depth \in Nat /\ (d.parent = 0 <=> j = 1)
           /\ d.depth = IF j = 1 THEN 0 ELSE ds[d.parent].depth + 1
      BY <3>10, <3>11 DEF InPlace
    <3>14. cs[h].index = h /\ cs[h].depth \in Nat
      <4>1. cs[h].index = j + o
        BY <3>12, <3>13 DEF Moved
      <4>2. PICK e \in Nat : e = d.depth
        BY <3>13
      <4>3. cs[h].depth = e + 1
        BY <3>12, <4>2 DEF Moved
      <4> QED BY <3>8, <4>1, <4>3
    <3>17. CallFields \subseteq DOMAIN cs[h] /\ cs[h].statusFailed \in BOOLEAN
      BY <3>11, <3>12, Zenon DEF Moved
    <3>15. CASE d.parent = 0
      <4>1. cs[h].parent = 1 /\ cs[h].depth = 1 /\ cs[1].depth = 0
        BY <1>1, <1>10, <3>12, <3>13, <3>15 DEF Moved
      <4>2. 1 \in 0..(h - 1)
        BY <3>1
      <4>3. InPlace(cs, h)
        BY <2>2, <3>14, <4>1 DEF InPlace
      <4> QED BY <2>2, <3>17, <4>1, <4>2, <4>3
    <3>16. CASE d.parent # 0
      <4>1. PICK g : g = d.parent
        OBVIOUS
      <4>2. g \in 1..Len(ds) /\ g <= j - 1
        BY <3>7, <3>11, <3>16, <4>1
      <4>3. cs[h].parent = g + o
        BY <3>12, <3>16, <4>1 DEF Moved
      <4>4. g + o \in 1..(h - 1) /\ g + o # 0 /\ g + o \in 0..(h - 1)
        <5>1. g \in Nat /\ j \in Nat /\ h = j + o /\ 1 <= g /\ g <= j - 1
          BY <3>7, <3>8, <4>2, SMTT(30)
        <5>2. g + o <= h - 1 /\ 1 <= g + o /\ g + o \in Nat /\ h \in Nat
          BY <5>1
        <5> QED BY <5>2
      <4>5. cs[g + o] = ShiftCall(ds[g], o)
        BY <3>8, <4>2
      <4>6. CallFields \subseteq DOMAIN ds[g]
        BY <3>9, <4>2
      <4>7. cs[g + o].depth = ds[g].depth + 1
        BY <4>5, <4>6, ShiftedCall DEF Moved
      <4>8. d.depth = ds[g].depth + 1
        BY <3>13, <3>16, <4>1
      <4>9. cs[h].depth = cs[cs[h].parent].depth + 1
        BY <3>12, <4>3, <4>7, <4>8 DEF Moved
      <4>10. InPlace(cs, h)
        BY <2>2, <3>14, <4>3, <4>4, <4>9 DEF InPlace
      <4> QED BY <3>17, <4>3, <4>4, <4>10
    <3> QED BY <3>15, <3>16
  <2> QED BY <2>1, <2>2
<1>16. NodeCalls(cs)
  BY <1>10, <1>15, Zenon DEF NodeCalls
<1> QED BY <1>1, <1>16 DEF cs

LEMMA CombinedFamily ==
    ASSUME NEW ts, NEW src, Family(ts, src)
    PROVE  Family(CombinePolygonSystemTransactions(ts).trxs, src)
<1> DEFINE normal == Select(ts, {t \in ToSet(ts) : ~Mergeable(t) /\ ~Unmergeable(t)})
           merge == Select(ts, {t \in ToSet(ts) : Mergeable(t)})
           unmerge == Select(ts, {t \in ToSet(ts) : Unmergeable(t)})
           next == NextIndex(normal)
           system == MergedSystemTrx(merge, next)
           merged == IF merge = << >> THEN << >> ELSE <<system>>
           moved == [i \in 1..Len(unmerge) |->
                       [unmerge[i] EXCEPT !.index = next + Len(merged) + i - 1]]
<1>1. CombinePolygonSystemTransactions(ts).trxs = (normal \o merged) \o moved
  <2>1. PICK hashes : CombinePolygonSystemTransactions(ts) =
                          [trxs |-> normal \o merged \o moved, systemHashes |-> hashes]
    BY ZenonT(40) DEF CombinePolygonSystemTransactions
  <2> HIDE DEF normal, merged, moved
  <2> QED BY <2>1
<1>2. Family(normal, src) /\ Family(unmerge, src) /\ Family(merge, src)
  BY SelectedFamily
<1> HIDE DEF normal, merge, unmerge
<1>3. next \in Nat
  <2>1. Listed(normal) /\ \A t \in Elements(normal) : t.index \in Nat
    BY <1>2, Zenon DEF Family, Descends
  <2> QED BY <2>1, HighestIndex
<1> HIDE DEF next
<1>4. TrxFields \subseteq DOMAIN system /\ system.hash = MergedHash /\ system.index = next
  <2>1. PICK begin, end, calls, receipt, born, done :
            system = [hash |-> MergedHash, index |-> next, from |-> NullAddress,
                      to |-> NullAddress, begin |-> begin, end |-> end,
                      status |-> "SUCCEEDED", calls |-> calls, receipt |-> receipt,
                      born |-> born, done |-> done, system |-> FALSE]
    BY Zenon DEF MergedSystemTrx
  <2> HIDE DEF system
  <2> QED BY <2>1 DEF TrxFields
<1> HIDE DEF system
<1>5. Family(merged, src) /\ Len(merged) \in Nat
  <2>1. CASE merge = << >>
    <3>1. merged = << >> /\ << >> \in Seq({}) /\ Elements(<< >>) = {} /\ Len(<< >>) = 0
      BY <2>1 DEF Elements
    <3> QED BY <3>1 DEF Family, Listed
  <2>2. CASE merge # << >>
    <3>1. /\ merged = <<system>> /\ <<system>> \in Seq({system})
          /\ Elements(<<system>>) = {system} /\ Len(<<system>>) = 1
      BY <2>2 DEF Elements
    <3>2. Descends(system, src)
      <4>1. NodeCalls(system.calls)
        <5>1. \A k \in 1..Len(merge) : NodeCalls(merge[k].calls)
          <6>1. \A k \in 1..Len(merge) : merge[k] \in Elements(merge)
            BY DEF Elements
          <6> QED BY <1>2, <6>1 DEF Family, Descends
        <5>2. Listed(merge)
          BY <1>2 DEF Family
        <5> QED BY <5>1, <5>2, MergedCalls DEF system
      <4> QED BY <1>3, <1>4, <4>1 DEF Descends
    <3>3. Listed(merged) /\ Len(merged) = 1
      BY <3>1, Zenon DEF Listed
    <3> QED BY <3>1, <3>2, <3>3 DEF Family
  <2> QED BY <2>1, <2>2
<1> HIDE DEF merged
<1>6. Family(moved, src)
  <2>1. Len(unmerge) \in Nat /\ \A i \in 1..Len(unmerge) : Descends(unmerge[i], src)
    <3>1. \A i \in 1..Len(unmerge) : unmerge[i] \in Elements(unmerge)
      BY DEF Elements
    <3> QED BY <1>2, <3>1, ListedFacts DEF Family
  <2>2. /\ moved = [i \in 1..Len(unmerge) |-> moved[i]]
        /\ \A i \in 1..Len(unmerge) :
               moved[i] = [unmerge[i] EXCEPT !.index = next + Len(merged) + i - 1]
    OBVIOUS
  <2> HIDE DEF moved
  <2>3. ASSUME NEW i \in 1..Len(unmerge)
        PROVE  Descends(moved[i], src)
    <3> DEFINE t == unmerge[i]
               k == next + Len(merged) + i - 1
    <3>1. k \in Nat
      BY <1>3, <1>5
    <3>2. TrxFields \subseteq DOMAIN t
      BY <2>1, Zenon DEF Descends
    <3> HIDE DEF k
    <3>3. /\ TrxFields \subseteq DOMAIN [t EXCEPT !.index = k]
          /\ [t EXCEPT !.index = k].index = k
          /\ [t EXCEPT !.index = k].hash = t.hash
          /\ [t EXCEPT !.index = k].calls = t.calls
      BY <3>2 DEF TrxFields
    <3>4. moved[i] = [t EXCEPT !.index = k]
      BY <2>2 DEF k
    <3>5. /\ TrxFields \subseteq DOMAIN moved[i] /\ moved[i].index \in Nat
          /\ moved[i].hash = t.hash /\ moved[i].calls = t.calls
      BY <3>1, <3>3, <3>4
    <3> QED BY <2>1, <3>5, Zenon DEF Descends
  <2>4. Listed(moved) /\ Len(moved) = Len(unmerge)
    BY <2>1, <2>2, Tabled
  <2>5. \A t \in Elements(moved) : Descends(t, src)
    BY <2>3, <2>4 DEF Elements
  <2> QED BY <2>4, <2>5, Zenon DEF Family
<1> HIDE DEF moved
<1> QED BY <1>1, <1>2, <1>5, <1>6, JoinedFamily

-----------------------------------------------------------------------------
(***************************************************************************)
(* The logs that are kept of the calls of a transaction.                   *)
(***************************************************************************)
\* The logs of a call, whose ordinals are from b to e.
Tells(c, b, e) ==
    /\ CallFields \subseteq DOMAIN c /\ Listed(c.logs)
    /\ \A k \in 1..Len(c.logs) :
           {"ord", "data", "trx"} \subseteq DOMAIN c.logs[k] /\ c.logs[k].ord \in b..e

\* The logs of a list of calls.
Emits(cs, b, e) == Listed(cs) /\ \A i \in 1..Len(cs) : Tells(cs[i], b, e)

EmittedLogs(cs) == UNION {Elements(cs[i].logs) : i \in 1..Len(cs)}

\* Those of the i-th call that are kept when it is undone or not.
KeptOf(cs, undone, i) ==
    Select(cs[i].logs, {l \in ToSet(cs[i].logs) : ~undone[i] \/ l.data = PolygonFeeLog})

KeptLogsOf(cs, undone) == FlattenSeq([i \in 1..Len(cs) |-> KeptOf(cs, undone, i)])

LEMMA SurvivingIsKept ==
    ASSUME NEW cs, NEW undone, \A i \in 1..Len(cs) : cs[i].stateReverted = undone[i]
    PROVE  SurvivingLogs(cs) = KeptLogsOf(cs, undone)
<1>1. ASSUME NEW i \in 1..Len(cs)
      PROVE  Select(cs[i].logs, {l \in ToSet(cs[i].logs) :
                                     ~cs[i].stateReverted \/ IsPolygonException(l)})
                 = KeptOf(cs, undone, i)
  <2>1. {l \in ToSet(cs[i].logs) : ~cs[i].stateReverted \/ IsPolygonException(l)} =
        {l \in ToSet(cs[i].logs) : ~undone[i] \/ l.data = PolygonFeeLog}
    BY DEF IsPolygonException
  <2> QED BY <2>1, Zenon DEF KeptOf
<1>2. [i \in 1..Len(cs) |-> Select(cs[i].logs, {l \in ToSet(cs[i].logs) :
                                     ~cs[i].stateReverted \/ IsPolygonException(l)})] =
      [i \in 1..Len(cs) |-> KeptOf(cs, undone, i)]
  BY <1>1, Zenon
<1> QED BY <1>2, Zenon DEF SurvivingLogs, KeptLogsOf

LEMMA EmittedLogsFacts ==
    ASSUME NEW cs, NEW b, NEW e, Emits(cs, b, e)
    PROVE  /\ Len(cs) \in Nat
           /\ \A i \in 1..Len(cs) : cs[i].logs \in Seq(EmittedLogs(cs)) /\ Len(cs[i].logs) \in Nat
                                    /\ ToSet(cs[i].logs) = Elements(cs[i].logs)
           /\ \A l \in EmittedLogs(cs) : {"ord", "data", "trx"} \subseteq DOMAIN l /\ l.ord \in b..e
<1>1. Len(cs) \in Nat
  BY ListedFacts DEF Emits
<1>2. ASSUME NEW i \in 1..Len(cs)
      PROVE  cs[i].logs \in Seq(EmittedLogs(cs)) /\ Len(cs[i].logs) \in Nat
             /\ ToSet(cs[i].logs) = Elements(cs[i].logs)
  <2>1. /\ cs[i].logs \in Seq(Elements(cs[i].logs)) /\ Len(cs[i].logs) \in Nat
        /\ ToSet(cs[i].logs) = Elements(cs[i].logs)
    BY ListedFacts DEF Emits, Tells
  <2>2. Elements(cs[i].logs) \subseteq EmittedLogs(cs)
    BY DEF EmittedLogs
  <2> QED BY <2>1, <2>2
<1>3. ASSUME NEW l \in EmittedLogs(cs)
      PROVE  {"ord", "data", "trx"} \subseteq DOMAIN l /\ l.ord \in b..e
  <2>1. PICK i \in 1..Len(cs) : l \in Elements(cs[i].logs)
    BY DEF EmittedLogs
  <2>2. PICK k \in 1..Len(cs[i].logs) : l = cs[i].logs[k]
    BY <2>1 DEF Elements
  <2> QED BY <2>2, Zenon DEF Emits, Tells
<1> QED BY <1>1, <1>2, <1>3

LEMMA KeptLogsType ==
    ASSUME NEW cs, NEW b, NEW e, Emits(cs, b, e), NEW undone
    PROVE  /\ [i \in 1..Len(cs) |-> KeptOf(cs, undone, i)] \in Seq(Seq(EmittedLogs(cs)))
           /\ KeptLogsOf(cs, undone) \in Seq(EmittedLogs(cs))
<1> DEFINE ss == [i \in 1..Len(cs) |-> KeptOf(cs, undone, i)]
           T == EmittedLogs(cs)
<1>1. Len(cs) \in Nat /\ \A i \in 1..Len(cs) : cs[i].logs \in Seq(T)
  BY EmittedLogsFacts
<1>2. \A i \in 1..Len(cs) : KeptOf(cs, undone, i) \in Seq(T)
  <2> HIDE DEF T
  <2> SUFFICES ASSUME NEW i \in 1..Len(cs) PROVE KeptOf(cs, undone, i) \in Seq(T)
    OBVIOUS
  <2>1. \A S : Select(cs[i].logs, S) \in Seq(T)
    BY <1>1, SelectInOrder
  <2> QED BY <2>1, Zenon DEF KeptOf
<1>3. ss \in Seq(Seq(T))
  <2> HIDE DEF T
  <2> QED BY <1>1, <1>2
<1>4. FlattenSeq(ss) \in Seq(T)
  <2> HIDE DEF ss, T
  <2> QED BY <1>3, FlattenedAt
<1> QED BY <1>3, <1>4 DEF KeptLogsOf

\* The logs of cs are those of ds, later by "base".
Later(cs, ds, base) ==
    /\ Len(cs) = Len(ds)
    /\ \A i \in 1..Len(ds) :
           /\ Len(cs[i].logs) = Len(ds[i].logs)
           /\ \A k \in 1..Len(ds[i].logs) :
                  /\ cs[i].logs[k].ord = ds[i].logs[k].ord + base
                  /\ Echoes(cs[i].logs[k], ds[i].logs[k])

\* So are those that are kept.
LEMMA KeptLater ==
    ASSUME NEW cs, NEW ds, NEW base, Later(cs, ds, base),
           NEW b, NEW e, Emits(ds, b, e), NEW x, NEW y, Emits(cs, x, y), NEW undone
    PROVE  LET s == KeptLogsOf(cs, undone)
               t == KeptLogsOf(ds, undone)
           IN  /\ Len(s) = Len(t)
               /\ \A k \in 1..Len(t) : s[k].ord = t[k].ord + base /\ Echoes(s[k], t[k])
<1> DEFINE n == Len(ds)
           ss == [i \in 1..Len(cs) |-> KeptOf(cs, undone, i)]
           tt == [i \in 1..Len(ds) |-> KeptOf(ds, undone, i)]
<1>1. ss \in Seq(Seq(EmittedLogs(cs))) /\ tt \in Seq(Seq(EmittedLogs(ds)))
  BY KeptLogsType
<1>2. n \in Nat /\ Len(cs) = n /\ Len(ss) = n /\ Len(tt) = n
      /\ \A i \in 1..n : ss[i] = KeptOf(cs, undone, i) /\ tt[i] = KeptOf(ds, undone, i)
  BY EmittedLogsFacts DEF Later
<1> HIDE DEF ss, tt
<1>3. ASSUME NEW i \in 1..n
      PROVE  /\ Len(ss[i]) = Len(tt[i])
             /\ \A k \in 1..Len(tt[i]) : /\ ss[i][k].ord = tt[i][k].ord + base
                                         /\ Echoes(ss[i][k], tt[i][k])
  <2> DEFINE u == ds[i].logs
             v == cs[i].logs
             S == {l \in ToSet(u) : ~undone[i] \/ l.data = PolygonFeeLog}
             Q == {l \in ToSet(v) : ~undone[i] \/ l.data = PolygonFeeLog}
  <2>1. /\ u \in Seq(EmittedLogs(ds)) /\ ToSet(u) = Elements(u)
        /\ v \in Seq(EmittedLogs(cs)) /\ ToSet(v) = Elements(v)
    BY <1>2, EmittedLogsFacts
  <2>2. /\ Len(v) = Len(u)
        /\ \A k \in 1..Len(u) : v[k].ord = u[k].ord + base /\ Echoes(v[k], u[k])
    BY Zenon DEF Later
  <2>3. ss[i] = Select(v, Q) /\ tt[i] = Select(u, S)
    BY <1>2, Zenon DEF KeptOf
  <2> HIDE DEF u, v
  <2>4. \A k \in 1..Len(u) : v[k] \in Q <=> u[k] \in S
    <3>1. \A k \in 1..Len(u) : v[k] \in ToSet(v) /\ u[k] \in ToSet(u)
      BY <2>1, <2>2 DEF Elements
    <3> QED BY <2>2, <3>1 DEF Echoes
  <2> HIDE DEF S, Q
  <2>5. /\ Len(Select(v, Q)) = Len(Select(u, S))
        /\ \A k \in 1..Len(Select(u, S)) :
               \E j \in 1..Len(u) : Select(u, S)[k] = u[j] /\ Select(v, Q)[k] = v[j]
    BY <2>1, <2>2, <2>4, SelectedAlike
  <2> QED BY <2>2, <2>3, <2>5
<1>4. /\ Len(FlattenSeq(ss)) = Len(FlattenSeq(tt))
      /\ \A m \in 1..Len(FlattenSeq(tt)) :
             \E i \in 1..n : \E k \in 1..Len(tt[i]) :
                 FlattenSeq(tt)[m] = tt[i][k] /\ FlattenSeq(ss)[m] = ss[i][k]
  <2>1. PICK T : tt \in Seq(Seq(T))
    BY <1>1
  <2>2. PICK U : ss \in Seq(Seq(U))
    BY <1>1
  <2>3. Len(ss) = Len(tt)
    BY <1>2
  <2>4. \A k \in 1..Len(tt) : Len(ss[k]) = Len(tt[k])
    BY <1>2, <1>3
  <2>5. Matched(FlattenSeq(tt), FlattenSeq(ss), tt, ss)
    BY <2>1, <2>2, <2>3, <2>4, FlattenedAlike
  <2> QED BY <1>2, <2>5 DEF Matched
<1>5. KeptLogsOf(cs, undone) = FlattenSeq(ss) /\ KeptLogsOf(ds, undone) = FlattenSeq(tt)
  BY DEF KeptLogsOf, ss, tt
<1> QED BY <1>3, <1>4, <1>5, SMTT(30)

\* Logs that are all later by as much are paired with a receipt of the same data.
LEMMA PairedLater ==
    ASSUME NEW s, NEW r, Paired(s, r), Len(s) \in Nat, \A k \in 1..Len(s) : s[k].ord \in Nat,
           NEW base \in Nat, NEW t, Len(t) = Len(s),
           \A k \in 1..Len(s) : t[k].ord = s[k].ord + base /\ Echoes(t[k], s[k]),
           NEW q, Len(q) = Len(r), \A k \in 1..Len(r) : Echoes(q[k], r[k])
    PROVE  Paired(t, q)
<1> DEFINE n == Len(s)
<1>1. PICK p : Orders(p, Ords(s), n) /\ \A k \in 1..n : Echoes(r[k], s[p[k]])
  BY Zenon DEF Paired
<1>2. Len(r) = n
  BY DEF Paired
<1>3. /\ p \in [1..n -> 1..n]
      /\ \A i \in 1..n : \E k \in 1..n : p[k] = i
      /\ \A j, k \in 1..n : j < k => Before(Ords(s), p[j], p[k])
  BY <1>1, Zenon DEF Orders
<1>4. \A i \in 1..n : Ords(s)[i] = s[i].ord /\ Ords(t)[i] = t[i].ord
  BY DEF Ords, MapSeq
<1>5. ASSUME NEW i \in 1..n, NEW j \in 1..n, Before(Ords(s), i, j)
      PROVE  Before(Ords(t), i, j)
  <2>1. s[i].ord \in Nat /\ s[j].ord \in Nat
    OBVIOUS
  <2>2. Ords(t)[i] = s[i].ord + base /\ Ords(t)[j] = s[j].ord + base
    BY <1>4
  <2>3. s[i].ord < s[j].ord \/ (s[i].ord = s[j].ord /\ i < j)
    BY <1>4, <1>5 DEF Before
  <2> QED BY <2>1, <2>2, <2>3 DEF Before
<1>6. Orders(p, Ords(t), n)
  <2>1. \A j, k \in 1..n : j < k => Before(Ords(t), p[j], p[k])
    BY <1>3, <1>5
  <2> QED BY <1>3, <2>1, Zenon DEF Orders
<1>7. \A k \in 1..n : Echoes(q[k], t[p[k]])
  BY <1>1, <1>2, <1>3 DEF Echoes
<1> QED BY <1>2, <1>6, <1>7 DEF Paired

-----------------------------------------------------------------------------
(***************************************************************************)
(* A transaction whose receipt is ready to be numbered.                    *)
(***************************************************************************)
\* A transaction whose receipt has the logs that survive, in the order they were emitted,
\* from b to e.
Ready(t, b, e) ==
    /\ TrxFields \subseteq DOMAIN t
    /\ Emits(t.calls, b, e)
    /\ Listed(t.receipt) /\ \A k \in 1..Len(t.receipt) : {"data", "trx"} \subseteq DOMAIN t.receipt[k]
    /\ Paired(SurvivingLogs(t.calls), t.receipt)

LEMMA EmitsWithin ==
    ASSUME NEW cs, NEW b \in Nat, NEW e \in Nat, Emits(cs, b, e), NEW x \in Nat, NEW y \in Nat,
           x <= b, e <= y
    PROVE  Emits(cs, x, y)
<1>1. \A o : o \in b..e => o \in x..y
  OBVIOUS
<1> QED BY <1>1, Zenon DEF Emits, Tells

\* Nothing that matters changes when only other fields do.
LEMMA ReadyAlike ==
    ASSUME NEW t, NEW b, NEW e, Ready(t, b, e), NEW u, TrxFields \subseteq DOMAIN u,
           u.calls = t.calls, u.receipt = t.receipt
    PROVE  Ready(u, b, e)
BY Zenon DEF Ready

LEMMA StatusReady ==
    ASSUME NEW t, NEW b, NEW e, Ready(t, b, e)
    PROVE  Ready(PopulateTrxStatus(t), b, e)
<1>1. PICK x : PopulateTrxStatus(t) = t \/ PopulateTrxStatus(t) = [t EXCEPT !.status = x]
  BY Zenon DEF PopulateTrxStatus
<1>2. TrxFields \subseteq DOMAIN t
  BY Zenon DEF Ready
<1> DEFINE u == PopulateTrxStatus(t)
<1>3. TrxFields \subseteq DOMAIN u /\ u.calls = t.calls /\ u.receipt = t.receipt
  <2> HIDE DEF u
  <2>1. u = t \/ u = [t EXCEPT !.status = x]
    BY <1>1 DEF u
  <2> QED BY <1>2, <2>1 DEF TrxFields
<1> HIDE DEF u
<1>4. Ready(u, b, e)
  BY <1>3, ReadyAlike
<1> QED BY <1>4 DEF u

LEMMA ShiftReady ==
    ASSUME NEW t, t.hash # MergedHash, NEW base \in Nat, NEW b \in Nat, NEW e \in Nat, Ready(t, b, e)
    PROVE  Ready(ShiftOrdinals(t, base), b + base, e + base)
<1> DEFINE shared(l) == t.hash = MergedHash /\ \E r \in ToSet(t.receipt) : SameLog(l, r)
           shiftLog(l) == [l EXCEPT !.ord = l.ord + (IF shared(l) THEN 2 * base ELSE base)]
           shiftLogs(ls) == [k \in 1..Len(ls) |-> shiftLog(ls[k])]
           shiftCall(c) ==
               [c EXCEPT !.begin = IF c.begin = 0 THEN 0 ELSE c.begin + base,
                         !.end = c.end + base,
                         !.logs = shiftLogs(c.logs),
                         !.changes = MapSeq(c.changes, LAMBDA ch : [ch EXCEPT !.ord = @ + base])]
           cs == [i \in 1..Len(t.calls) |-> shiftCall(t.calls[i])]
           rs == shiftLogs(t.receipt)
           u == ShiftOrdinals(t, base)
           n == Len(t.calls)
<1>1. u = [t EXCEPT !.begin = t.begin + base, !.end = t.end + base, !.calls = cs, !.receipt = rs]
  BY Zenon DEF ShiftOrdinals, MapSeq
<1>2. ASSUME NEW l
      PROVE  /\ "ord" \in DOMAIN l => "ord" \in DOMAIN shiftLog(l) /\ shiftLog(l).ord = l.ord + base
             /\ {"data", "trx"} \subseteq DOMAIN l =>
                    {"data", "trx"} \subseteq DOMAIN shiftLog(l) /\ Echoes(shiftLog(l), l)
  <2>1. ~shared(l)
    OBVIOUS
  <2>2. shiftLog(l) = [l EXCEPT !.ord = l.ord + base]
    BY <2>1
  <2> HIDE DEF shiftLog
  <2> QED BY <2>2 DEF Echoes
<1> HIDE DEF shiftLog
<1>3. ASSUME NEW ls, Listed(ls)
      PROVE  /\ Listed(shiftLogs(ls)) /\ Len(shiftLogs(ls)) = Len(ls)
             /\ \A k \in 1..Len(ls) : shiftLogs(ls)[k] = shiftLog(ls[k])
  <2> DEFINE ms == shiftLogs(ls)
  <2>1. ms = [k \in 1..Len(ls) |-> ms[k]] /\ \A k \in 1..Len(ls) : ms[k] = shiftLog(ls[k])
    OBVIOUS
  <2> HIDE DEF ms
  <2>2. Len(ls) \in Nat
    BY <1>3, ListedFacts
  <2>3. Listed(ms) /\ Len(ms) = Len(ls)
    BY <2>1, <2>2, Tabled
  <2> QED BY <2>1, <2>3 DEF ms
<1> HIDE DEF shiftLogs
<1>4. ASSUME NEW c, CallFields \subseteq DOMAIN c
      PROVE  /\ CallFields \subseteq DOMAIN shiftCall(c)
             /\ shiftCall(c).stateReverted = c.stateReverted
             /\ shiftCall(c).logs = shiftLogs(c.logs)
  <2>1. PICK moved :
            shiftCall(c) = [c EXCEPT !.begin = IF c.begin = 0 THEN 0 ELSE c.begin + base,
                                     !.end = c.end + base, !.logs = shiftLogs(c.logs),
                                     !.changes = moved]
    BY Zenon
  <2> HIDE DEF shiftCall
  <2> QED BY <1>4, <2>1 DEF CallFields
<1> HIDE DEF shiftCall, u
<1>5. /\ cs = [i \in 1..n |-> cs[i]]
      /\ \A i \in 1..n : cs[i] = shiftCall(t.calls[i])
  OBVIOUS
<1> HIDE DEF cs, rs
<1>6. /\ TrxFields \subseteq DOMAIN u /\ u.calls = cs /\ u.receipt = rs
  <2>1. TrxFields \subseteq DOMAIN t
    BY Zenon DEF Ready
  <2> QED BY <1>1, <2>1 DEF TrxFields
<1>7. Emits(t.calls, b, e) /\ Listed(t.calls) /\ n \in Nat
  BY ListedFacts DEF Ready, Emits
<1>8. Listed(cs) /\ Len(cs) = n
  BY <1>5, <1>7, Tabled
<1>9. ASSUME NEW i \in 1..n
      PROVE  /\ CallFields \subseteq DOMAIN cs[i] /\ Listed(cs[i].logs)
             /\ cs[i].stateReverted = t.calls[i].stateReverted
             /\ Len(cs[i].logs) = Len(t.calls[i].logs)
             /\ \A k \in 1..Len(t.calls[i].logs) :
                    /\ {"ord", "data", "trx"} \subseteq DOMAIN cs[i].logs[k]
                    /\ cs[i].logs[k].ord = t.calls[i].logs[k].ord + base
                    /\ Echoes(cs[i].logs[k], t.calls[i].logs[k])
                    /\ t.calls[i].logs[k].ord \in b..e
  <2> DEFINE c == t.calls[i]
  <2>1. Tells(c, b, e)
    BY <1>7, Zenon DEF Emits
  <2> HIDE DEF c
  <2>2. /\ CallFields \subseteq DOMAIN cs[i] /\ cs[i].stateReverted = c.stateReverted
        /\ cs[i].logs = shiftLogs(c.logs)
    BY <1>4, <1>5, <2>1, Zenon DEF Tells, c
  <2>3. /\ Listed(cs[i].logs) /\ Len(cs[i].logs) = Len(c.logs)
        /\ \A k \in 1..Len(c.logs) : cs[i].logs[k] = shiftLog(c.logs[k])
    BY <1>3, <2>1, <2>2, Zenon DEF Tells
  <2>4. ASSUME NEW k \in 1..Len(c.logs)
        PROVE  /\ {"ord", "data", "trx"} \subseteq DOMAIN cs[i].logs[k]
               /\ cs[i].logs[k].ord = c.logs[k].ord + base
               /\ Echoes(cs[i].logs[k], c.logs[k])
               /\ c.logs[k].ord \in b..e
    <3>1. "ord" \in DOMAIN c.logs[k] /\ {"data", "trx"} \subseteq DOMAIN c.logs[k] /\ c.logs[k].ord \in b..e
      BY <2>1 DEF Tells
    <3>2. cs[i].logs[k] = shiftLog(c.logs[k])
      BY <2>3
    <3>3. /\ "ord" \in DOMAIN shiftLog(c.logs[k]) /\ shiftLog(c.logs[k]).ord = c.logs[k].ord + base
          /\ {"data", "trx"} \subseteq DOMAIN shiftLog(c.logs[k]) /\ Echoes(shiftLog(c.logs[k]), c.logs[k])
      BY <1>2, <3>1
    <3> QED BY <3>1, <3>2, <3>3
  <2> QED BY <2>2, <2>3, <2>4 DEF c
<1>10. Emits(cs, b + base, e + base)
  <2>1. \A o : o \in b..e => o + base \in (b + base)..(e + base)
    OBVIOUS
  <2>2. ASSUME NEW i \in 1..n PROVE Tells(cs[i], b + base, e + base)
    <3>1. \A k \in 1..Len(t.calls[i].logs) : cs[i].logs[k].ord \in (b + base)..(e + base)
      BY <1>9, <2>1
    <3> QED BY <1>9, <3>1, Zenon DEF Tells
  <2> QED BY <1>8, <2>2, Zenon DEF Emits
<1>11. Later(cs, t.calls, base)
  BY <1>8, <1>9, Zenon DEF Later
<1> DEFINE undone == [i \in 1..n |-> t.calls[i].stateReverted]
           s == KeptLogsOf(cs, undone)
           v == KeptLogsOf(t.calls, undone)
<1>12. SurvivingLogs(cs) = s /\ SurvivingLogs(t.calls) = v
  <2>1. \A i \in 1..n : t.calls[i].stateReverted = undone[i] /\ cs[i].stateReverted = undone[i]
    BY <1>9
  <2> HIDE DEF undone
  <2> QED BY <1>8, <2>1, SurvivingIsKept
<1> HIDE DEF undone
<1>13. /\ Len(s) = Len(v)
       /\ \A k \in 1..Len(v) : s[k].ord = v[k].ord + base /\ Echoes(s[k], v[k])
  BY <1>7, <1>10, <1>11, KeptLater
<1>14. Len(v) \in Nat /\ \A k \in 1..Len(v) : v[k].ord \in Nat
  <2>1. v \in Seq(EmittedLogs(t.calls))
    BY <1>7, KeptLogsType
  <2>2. \A l \in EmittedLogs(t.calls) : l.ord \in Nat
    BY <1>7, EmittedLogsFacts
  <2> HIDE DEF v
  <2> QED BY <2>1, <2>2
<1> HIDE DEF s, v
<1>15. /\ Paired(v, t.receipt) /\ Listed(t.receipt)
       /\ \A k \in 1..Len(t.receipt) : {"data", "trx"} \subseteq DOMAIN t.receipt[k]
  BY <1>12, Zenon DEF Ready
<1>16. /\ Listed(rs) /\ Len(rs) = Len(t.receipt)
       /\ \A k \in 1..Len(t.receipt) : {"data", "trx"} \subseteq DOMAIN rs[k] /\ Echoes(rs[k], t.receipt[k])
  <2>1. /\ Listed(rs) /\ Len(rs) = Len(t.receipt)
        /\ \A k \in 1..Len(t.receipt) : rs[k] = shiftLog(t.receipt[k])
    BY <1>3, <1>15 DEF rs
  <2> QED BY <1>2, <1>15, <2>1
<1>17. Paired(s, rs)
  BY <1>13, <1>14, <1>15, <1>16, PairedLater
<1>18. Ready(u, b + base, e + base)
  BY <1>6, <1>10, <1>12, <1>16, <1>17, Zenon DEF Ready
<1> QED BY <1>18 DEF u

-----------------------------------------------------------------------------
(***************************************************************************)
(* What can be read of a transaction without its calls.                    *)
(***************************************************************************)
\* t has a root call, and logs in its receipt.
Readable(t) ==
    /\ TrxFields \subseteq DOMAIN t
    /\ Listed(t.calls) /\ t.calls # << >>
    /\ \A i \in 1..Len(t.calls) : CallFields \subseteq DOMAIN t.calls[i]
    /\ Listed(t.receipt) /\ \A k \in 1..Len(t.receipt) : "data" \in DOMAIN t.receipt[k]

\* The logs rs say what ls do.
SaysSame(rs, ls) == Len(rs) = Len(ls) /\ \A k \in 1..Len(ls) : rs[k].data = ls[k].data

\* u is t, with what an endpoint shows of it.
Reads(u, t) ==
    /\ Readable(u)
    /\ u.hash = t.hash /\ u.index = t.index /\ u.to = t.to
    /\ u.calls[1].statusFailed = t.calls[1].statusFailed
    /\ SaysSame(u.receipt, t.receipt)

\* The status of t is the one of its root call.
Judged(t) ==
    IF t.calls[1].statusFailed THEN t.status \in {"FAILED", "REVERTED"}
    ELSE t.status = "SUCCEEDED"

LEMMA ReadsTwice ==
    ASSUME NEW t, NEW u, Reads(u, t), NEW v, Reads(v, u)
    PROVE  Reads(v, t)
BY DEF Reads, SaysSame

LEMMA ListedTable ==
    ASSUME NEW s, Listed(s)
    PROVE  s = [k \in 1..Len(s) |-> s[k]]
<1>1. PICK S : s \in Seq(S)
  BY DEF Listed
<1> QED BY <1>1

\* Every call and log rewritten in its place.
LEMMA ReadsRewritten ==
    ASSUME NEW t, Readable(t), NEW u, TrxFields \subseteq DOMAIN u,
           u.hash = t.hash, u.index = t.index, u.to = t.to,
           u.calls = [i \in 1..Len(t.calls) |-> u.calls[i]],
           \A i \in 1..Len(t.calls) :
               CallFields \subseteq DOMAIN t.calls[i] =>
                   /\ CallFields \subseteq DOMAIN u.calls[i]
                   /\ u.calls[i].statusFailed = t.calls[i].statusFailed,
           u.receipt = [k \in 1..Len(t.receipt) |-> u.receipt[k]],
           \A k \in 1..Len(t.receipt) :
               "data" \in DOMAIN t.receipt[k] =>
                   "data" \in DOMAIN u.receipt[k] /\ u.receipt[k].data = t.receipt[k].data
    PROVE  Reads(u, t)
<1>1. /\ Listed(t.calls) /\ t.calls # << >> /\ Listed(t.receipt)
      /\ \A i \in 1..Len(t.calls) : CallFields \subseteq DOMAIN t.calls[i]
      /\ \A k \in 1..Len(t.receipt) : "data" \in DOMAIN t.receipt[k]
  BY Zenon DEF Readable
<1>2. PICK cs, rs : cs = u.calls /\ rs = u.receipt
  OBVIOUS
<1>3. PICK n, m : n = Len(t.calls) /\ m = Len(t.receipt)
  OBVIOUS
<1>4. n \in Nat /\ m \in Nat /\ n # 0
  <2>1. PICK ds : ds = t.calls
    OBVIOUS
  <2>2. PICK S : ds \in Seq(S)
    BY <1>1, <2>1 DEF Listed
  <2>3. Len(ds) # 0
    BY <1>1, <2>1, <2>2
  <2> QED BY <1>1, <1>3, <2>1, <2>3, ListedFacts
<1>5. cs = [i \in 1..n |-> cs[i]] /\ rs = [k \in 1..m |-> rs[k]]
  BY <1>2, <1>3
<1>6. Listed(cs) /\ Len(cs) = n /\ Listed(rs) /\ Len(rs) = m
  BY <1>4, <1>5, Tabled
<1>7. cs # << >>
  BY <1>4, <1>6
<1>8. /\ \A i \in 1..n : /\ CallFields \subseteq DOMAIN cs[i]
                         /\ cs[i].statusFailed = t.calls[i].statusFailed
      /\ \A k \in 1..m : "data" \in DOMAIN rs[k] /\ rs[k].data = t.receipt[k].data
  BY <1>1, <1>2, <1>3, Zenon
<1>9. Readable(u)
  BY <1>2, <1>6, <1>7, <1>8, Zenon DEF Readable
<1>10. 1 \in 1..n
  BY <1>4
<1> QED BY <1>2, <1>3, <1>6, <1>8, <1>9, <1>10, Zenon DEF Reads, SaysSame

LEMMA RevertReads ==
    ASSUME NEW t, Readable(t)
    PROVE  Reads(Revert(t), t) /\ Revert(t).status = t.status
<1> DEFINE u == Revert(t)
           rs == PopulateStateReverted(t.calls)
           marked(i) == [t.calls[i] EXCEPT !.stateReverted = RevertedCalls(t.calls)[i]]
<1>1. rs = [i \in 1..Len(t.calls) |-> marked(i)]
  BY Zenon DEF PopulateStateReverted
<1>2. ASSUME NEW i, CallFields \subseteq DOMAIN t.calls[i]
      PROVE  /\ CallFields \subseteq DOMAIN marked(i)
             /\ marked(i).statusFailed = t.calls[i].statusFailed
  <2>1. PICK reverted : reverted = RevertedCalls(t.calls)[i]
    OBVIOUS
  <2>2. marked(i) = [t.calls[i] EXCEPT !.stateReverted = reverted]
    BY <2>1
  <2> HIDE DEF marked
  <2> QED BY <1>2, <2>2 DEF CallFields
<1>3. u = [t EXCEPT !.calls = rs]
  BY Zenon DEF Revert
<1>4. TrxFields \subseteq DOMAIN t
  BY Zenon DEF Readable
<1> HIDE DEF u, rs, marked
<1>5. /\ TrxFields \subseteq DOMAIN u
      /\ u.hash = t.hash /\ u.index = t.index /\ u.to = t.to /\ u.status = t.status
      /\ u.calls = rs /\ u.receipt = t.receipt
  BY <1>3, <1>4 DEF TrxFields
<1>6. rs = [i \in 1..Len(t.calls) |-> rs[i]] /\ \A i \in 1..Len(t.calls) : rs[i] = marked(i)
  BY <1>1
<1>7. \A i \in 1..Len(t.calls) : CallFields \subseteq DOMAIN t.calls[i] =>
          /\ CallFields \subseteq DOMAIN rs[i]
          /\ rs[i].statusFailed = t.calls[i].statusFailed
  BY <1>2, <1>6, Zenon
<1>8. t.receipt = [k \in 1..Len(t.receipt) |-> t.receipt[k]]
  BY ListedTable, Zenon DEF Readable
<1>9. Reads(u, t)
  BY <1>5, <1>6, <1>7, <1>8, ReadsRewritten
<1> QED BY <1>5, <1>9 DEF u

LEMMA StatusReads ==
    ASSUME NEW t, Readable(t), t.status = "UNKNOWN"
    PROVE  Reads(PopulateTrxStatus(t), t) /\ Judged(PopulateTrxStatus(t))
<1>1. PICK u, failed, other :
          /\ u = PopulateTrxStatus(t) /\ failed = t.calls[1].statusFailed
          /\ other = IF t.calls[1].statusReverted THEN "REVERTED" ELSE "FAILED"
  OBVIOUS
<1>2. other \in {"FAILED", "REVERTED"}
  BY <1>1
<1>3. /\ TrxFields \subseteq DOMAIN t /\ t.calls # << >>
  BY Zenon DEF Readable
<1>4. u = [t EXCEPT !.status = IF ~failed THEN "SUCCEEDED" ELSE other]
  BY <1>1, <1>3, Zenon DEF PopulateTrxStatus
<1>5. /\ TrxFields \subseteq DOMAIN u
      /\ u.hash = t.hash /\ u.index = t.index /\ u.to = t.to
      /\ u.calls = t.calls /\ u.receipt = t.receipt
      /\ u.status = IF ~failed THEN "SUCCEEDED" ELSE other
  BY <1>3, <1>4 DEF TrxFields
<1>6. Readable(u)
  BY <1>5, Zenon DEF Readable
<1>7. Reads(u, t)
  BY <1>5, <1>6, Zenon DEF Reads, SaysSame
<1>8. Judged(u)
  BY <1>1, <1>2, <1>5 DEF Judged
<1> QED BY <1>1, <1>7, <1>8

LEMMA ShiftReads ==
    ASSUME NEW t, Readable(t), NEW base
    PROVE  Reads(ShiftOrdinals(t, base), t) /\ ShiftOrdinals(t, base).status = t.status
<1> DEFINE shared(l) == t.hash = MergedHash /\ \E r \in ToSet(t.receipt) : SameLog(l, r)
           shiftLog(l) == [l EXCEPT !.ord = @ + (IF shared(l) THEN 2 * base ELSE base)]
           shiftCall(c) ==
               [c EXCEPT !.begin = IF @ = 0 THEN 0 ELSE @ + base,
                         !.end = @ + base,
                         !.logs = MapSeq(@, shiftLog),
                         !.changes = MapSeq(@, LAMBDA ch : [ch EXCEPT !.ord = @ + base])]
           cs == [i \in 1..Len(t.calls) |-> shiftCall(t.calls[i])]
           rs == [k \in 1..Len(t.receipt) |-> shiftLog(t.receipt[k])]
           u == ShiftOrdinals(t, base)
<1>1. u = [t EXCEPT !.begin = t.begin + base, !.end = t.end + base,
                    !.calls = cs, !.receipt = rs]
  BY Zenon DEF ShiftOrdinals, MapSeq
<1>2. ASSUME NEW c, CallFields \subseteq DOMAIN c
      PROVE  /\ CallFields \subseteq DOMAIN shiftCall(c)
             /\ shiftCall(c).statusFailed = c.statusFailed
  <2>1. PICK begin, end, logs, moved :
            shiftCall(c) = [c EXCEPT !.begin = begin, !.end = end, !.logs = logs,
                                     !.changes = moved]
    BY Zenon
  <2> HIDE DEF shiftCall
  <2> QED BY <1>2, <2>1 DEF CallFields
<1>3. ASSUME NEW l, "data" \in DOMAIN l
      PROVE  "data" \in DOMAIN shiftLog(l) /\ shiftLog(l).data = l.data
  <2>1. PICK x : shiftLog(l) = [l EXCEPT !.ord = x]
    BY Zenon
  <2> HIDE DEF shiftLog
  <2> QED BY <1>3, <2>1
<1> HIDE DEF shiftCall, shiftLog, u
<1>4. /\ cs = [i \in 1..Len(t.calls) |-> cs[i]] /\ rs = [k \in 1..Len(t.receipt) |-> rs[k]]
      /\ \A i \in 1..Len(t.calls) : cs[i] = shiftCall(t.calls[i])
      /\ \A k \in 1..Len(t.receipt) : rs[k] = shiftLog(t.receipt[k])
  OBVIOUS
<1> HIDE DEF cs, rs
<1>5. TrxFields \subseteq DOMAIN t
  BY Zenon DEF Readable
<1>6. /\ TrxFields \subseteq DOMAIN u
      /\ u.hash = t.hash /\ u.index = t.index /\ u.to = t.to /\ u.status = t.status
      /\ u.calls = cs /\ u.receipt = rs
  BY <1>1, <1>5 DEF TrxFields
<1>7. /\ \A i \in 1..Len(t.calls) : CallFields \subseteq DOMAIN t.calls[i] =>
             /\ CallFields \subseteq DOMAIN cs[i]
             /\ cs[i].statusFailed = t.calls[i].statusFailed
      /\ \A k \in 1..Len(t.receipt) : "data" \in DOMAIN t.receipt[k] =>
             "data" \in DOMAIN rs[k] /\ rs[k].data = t.receipt[k].data
  BY <1>2, <1>3, <1>4, Zenon
<1>8. Reads(u, t)
  BY <1>4, <1>6, <1>7, ReadsRewritten
<1> QED BY <1>6, <1>8 DEF u

LEMMA RetouchReads ==
    ASSUME NEW t, Readable(t), NEW before, NEW numbered, NEW hashes
    PROVE  /\ Reads(Retouch(t, before, numbered, hashes), t)
           /\ Retouch(t, before, numbered, hashes).status = t.status
<1> DEFINE receiptLog(l, k) == [l EXCEPT !.ord = numbered[k].ord,
                                         !.index = numbered[k].index,
                                         !.blockIndex = k - 1]
           callLog(l) ==
               LET at == {k \in 1..Len(numbered) : SameLog(l, numbered[k])} IN
               IF t.hash \in hashes /\ t.hash # MergedHash THEN l
               ELSE IF at # {} THEN [l EXCEPT !.blockIndex = Min(at) - 1]
               ELSE IF t.hash = MergedHash THEN l ELSE [l EXCEPT !.blockIndex = 0]
           newCall(c) == [c EXCEPT !.logs = MapSeq(@, callLog)]
           cs == [i \in 1..Len(t.calls) |-> newCall(t.calls[i])]
           rs == [k \in 1..Len(t.receipt) |-> receiptLog(t.receipt[k], before + k)]
           u == Retouch(t, before, numbered, hashes)
<1>1. u = [t EXCEPT !.receipt = rs, !.calls = cs]
  BY Zenon DEF Retouch, MapSeq
<1>2. ASSUME NEW c, CallFields \subseteq DOMAIN c
      PROVE  /\ CallFields \subseteq DOMAIN newCall(c)
             /\ newCall(c).statusFailed = c.statusFailed
  <2>1. PICK logs : newCall(c) = [c EXCEPT !.logs = logs]
    BY Zenon
  <2> HIDE DEF newCall
  <2> QED BY <1>2, <2>1 DEF CallFields
<1>3. ASSUME NEW l, NEW k, "data" \in DOMAIN l
      PROVE  "data" \in DOMAIN receiptLog(l, k) /\ receiptLog(l, k).data = l.data
  <2>1. PICK x, y, z : receiptLog(l, k) = [l EXCEPT !.ord = x, !.index = y, !.blockIndex = z]
    BY Zenon
  <2> HIDE DEF receiptLog
  <2> QED BY <1>3, <2>1
<1> HIDE DEF newCall, receiptLog, u
<1>4. /\ cs = [i \in 1..Len(t.calls) |-> cs[i]] /\ rs = [k \in 1..Len(t.receipt) |-> rs[k]]
      /\ \A i \in 1..Len(t.calls) : cs[i] = newCall(t.calls[i])
      /\ \A k \in 1..Len(t.receipt) : rs[k] = receiptLog(t.receipt[k], before + k)
  OBVIOUS
<1> HIDE DEF cs, rs
<1>5. TrxFields \subseteq DOMAIN t
  BY Zenon DEF Readable
<1>6. /\ TrxFields \subseteq DOMAIN u
      /\ u.hash = t.hash /\ u.index = t.index /\ u.to = t.to /\ u.status = t.status
      /\ u.calls = cs /\ u.receipt = rs
  BY <1>1, <1>5 DEF TrxFields
<1>7. /\ \A i \in 1..Len(t.calls) : CallFields \subseteq DOMAIN t.calls[i] =>
             /\ CallFields \subseteq DOMAIN cs[i]
             /\ cs[i].statusFailed = t.calls[i].statusFailed
      /\ \A k \in 1..Len(t.receipt) : "data" \in DOMAIN t.receipt[k] =>
             "data" \in DOMAIN rs[k] /\ rs[k].data = t.receipt[k].data
  <2>1. ASSUME NEW i \in 1..Len(t.calls), CallFields \subseteq DOMAIN t.calls[i]
        PROVE  CallFields \subseteq DOMAIN cs[i] /\ cs[i].statusFailed = t.calls[i].statusFailed
    BY <1>2, <1>4, <2>1, Zenon
  <2>2. ASSUME NEW k \in 1..Len(t.receipt), "data" \in DOMAIN t.receipt[k]
        PROVE  "data" \in DOMAIN rs[k] /\ rs[k].data = t.receipt[k].data
    <3>1. PICK l, m : l = t.receipt[k] /\ m = before + k
      OBVIOUS
    <3>2. rs[k] = receiptLog(l, m) /\ "data" \in DOMAIN l
      BY <1>4, <2>2, <3>1
    <3>3. "data" \in DOMAIN receiptLog(l, m) /\ receiptLog(l, m).data = l.data
      BY <1>3, <3>2
    <3> QED BY <3>1, <3>2, <3>3
  <2> QED BY <2>1, <2>2
<1>8. Reads(u, t)
  BY <1>4, <1>6, <1>7, ReadsRewritten
<1> QED BY <1>6, <1>8 DEF u

LEMMA UpgradeReads ==
    ASSUME NEW t, Readable(t)
    PROVE  LET u == [t EXCEPT !.calls = UpgradeCalls(t.calls)] IN
           Reads(u, t) /\ u.status = t.status
<1> DEFINE u == [t EXCEPT !.calls = UpgradeCalls(t.calls)]
           heads == HeadParents(t.calls)
           new(i) == IF heads[i] # 0
                     THEN [t.calls[i] EXCEPT !.caller = t.calls[heads[i]].address]
                     ELSE t.calls[i]
           cs == [i \in 1..Len(t.calls) |-> new(i)]
<1>1. UpgradeCalls(t.calls) = cs
  BY Zenon DEF UpgradeCalls
<1>2. ASSUME NEW i, CallFields \subseteq DOMAIN t.calls[i]
      PROVE  /\ CallFields \subseteq DOMAIN new(i)
             /\ new(i).statusFailed = t.calls[i].statusFailed
  <2>1. new(i) = t.calls[i] \/ \E x : new(i) = [t.calls[i] EXCEPT !.caller = x]
    BY Zenon
  <2> HIDE DEF new
  <2> QED BY <1>2, <2>1 DEF CallFields
<1> HIDE DEF new
<1>3. cs = [i \in 1..Len(t.calls) |-> cs[i]] /\ \A i \in 1..Len(t.calls) : cs[i] = new(i)
  OBVIOUS
<1> HIDE DEF cs
<1>4. TrxFields \subseteq DOMAIN t
  BY Zenon DEF Readable
<1>5. /\ TrxFields \subseteq DOMAIN u
      /\ u.hash = t.hash /\ u.index = t.index /\ u.to = t.to /\ u.status = t.status
      /\ u.calls = cs /\ u.receipt = t.receipt
  BY <1>1, <1>4 DEF TrxFields
<1> HIDE DEF u
<1>6. \A i \in 1..Len(t.calls) : CallFields \subseteq DOMAIN t.calls[i] =>
          /\ CallFields \subseteq DOMAIN cs[i]
          /\ cs[i].statusFailed = t.calls[i].statusFailed
  BY <1>2, <1>3, Zenon
<1>7. t.receipt = [k \in 1..Len(t.receipt) |-> t.receipt[k]]
  BY ListedTable, Zenon DEF Readable
<1>8. Reads(u, t)
  BY <1>3, <1>5, <1>6, <1>7, ReadsRewritten
<1> QED BY <1>5, <1>8 DEF u

\* The transactions us are ts, each with its status.
Settles(us, ts) ==
    /\ us = [i \in 1..Len(ts) |-> us[i]]
    /\ \A i \in 1..Len(ts) : Reads(us[i], ts[i]) /\ Judged(us[i])

LEMMA SettlesOn ==
    ASSUME NEW ts, Listed(ts), NEW us, Settles(us, ts), NEW vs,
           vs = [i \in 1..Len(us) |-> vs[i]],
           \A i \in 1..Len(us) :
               Readable(us[i]) => Reads(vs[i], us[i]) /\ vs[i].status = us[i].status
    PROVE  Settles(vs, ts) /\ Listed(us) /\ Len(us) = Len(ts)
<1>1. us = [i \in 1..Len(ts) |-> us[i]] /\ Len(ts) \in Nat
  BY ListedFacts, Zenon DEF Settles
<1>2. Listed(us) /\ Len(us) = Len(ts)
  BY <1>1, Tabled
<1>3. ASSUME NEW i \in 1..Len(ts)
      PROVE  Reads(vs[i], ts[i]) /\ Judged(vs[i])
  <2>1. Reads(us[i], ts[i]) /\ Judged(us[i])
    BY Zenon DEF Settles
  <2>2. Readable(us[i])
    BY <2>1, Zenon DEF Reads
  <2>3. Reads(vs[i], us[i]) /\ vs[i].status = us[i].status
    BY <1>2, <2>2
  <2>4. Judged(vs[i])
    BY <2>1, <2>3, Zenon DEF Judged, Reads
  <2> QED BY <2>1, <2>3, <2>4, ReadsTwice
<1>4. vs = [i \in 1..Len(ts) |-> vs[i]]
  BY <1>2
<1> QED BY <1>2, <1>3, <1>4, Zenon DEF Settles

\* The passes after the ordering give each transaction its status.
LEMMA FinishReads ==
    ASSUME NEW ordered, {"trxs", "changes", "ver"} \subseteq DOMAIN ordered,
           Listed(ordered.trxs), NEW hashes, NEW chain,
           \A i \in 1..Len(ordered.trxs) : /\ Readable(ordered.trxs[i])
                                           /\ ordered.trxs[i].status = "UNKNOWN"
    PROVE  LET settled == MapSeq(ordered.trxs, PopulateTrxStatus) IN
           Settles(Finish(ordered, PopulateLogBlockIndices(settled, hashes), chain).block.trxs,
                   ordered.trxs)
<1> DEFINE ts == ordered.trxs
           settled == MapSeq(ts, PopulateTrxStatus)
           indexed == PopulateLogBlockIndices(settled, hashes)
           done == [ordered EXCEPT !.trxs = indexed.trxs]
           upgrade == chain.upgrade /\ done.ver = 2
           final == UpgradeBlockV2ToV3(done)
           made == Finish(ordered, indexed, chain)
<1>1. Settles(settled, ts)
  <2>1. settled = [i \in 1..Len(ts) |-> PopulateTrxStatus(ts[i])]
    BY Zenon DEF MapSeq
  <2>2. \A i \in 1..Len(ts) : Readable(ts[i]) /\ ts[i].status = "UNKNOWN"
    OBVIOUS
  <2> HIDE DEF settled, ts
  <2>3. /\ settled = [i \in 1..Len(ts) |-> settled[i]]
        /\ \A i \in 1..Len(ts) : settled[i] = PopulateTrxStatus(ts[i])
    BY <2>1
  <2>4. \A i \in 1..Len(ts) : Reads(settled[i], ts[i]) /\ Judged(settled[i])
    BY <2>2, <2>3, StatusReads
  <2> QED BY <2>3, <2>4, Zenon DEF Settles
<1>2. made = IF indexed.ok /\ (upgrade => CanUpgradeV2ToV3(done.trxs))
             THEN [ok |-> TRUE, block |-> IF upgrade THEN final ELSE done]
             ELSE [ok |-> FALSE, block |-> done]
  BY Zenon DEF Finish
<1>3. Listed(ts)
  OBVIOUS
<1> HIDE DEF settled
<1>4. Retouched(indexed.trxs, settled, hashes)
  BY RetouchedOrNot
<1> HIDE DEF indexed
<1>5. done.trxs = indexed.trxs /\ {"trxs", "changes", "ver"} \subseteq DOMAIN done
  OBVIOUS
<1> HIDE DEF done, ts
<1>6. Settles(indexed.trxs, ts)
  <2>1. CASE indexed.trxs = settled
    BY <1>1, <2>1
  <2>2. CASE indexed.trxs # settled
    <3>1. PICK before, numbered : indexed.trxs =
              [i \in 1..Len(settled) |-> Retouch(settled[i], before[i], numbered, hashes)]
      BY <1>4, <2>2, Zenon DEF Retouched
    <3>2. /\ indexed.trxs = [i \in 1..Len(settled) |-> indexed.trxs[i]]
          /\ \A i \in 1..Len(settled) :
                 indexed.trxs[i] = Retouch(settled[i], before[i], numbered, hashes)
      BY <3>1
    <3>3. \A i \in 1..Len(settled) : Readable(settled[i]) =>
              /\ Reads(indexed.trxs[i], settled[i])
              /\ indexed.trxs[i].status = settled[i].status
      BY <3>2, RetouchReads
    <3> QED BY <1>1, <1>3, <3>2, <3>3, SettlesOn
  <2> QED BY <2>1, <2>2
<1>7. Settles(done.trxs, ts)
  BY <1>5, <1>6
<1>8. Settles(final.trxs, ts)
  <2>1. CASE done.ver # 2
    <3>1. final = done
      BY <2>1, Zenon DEF UpgradeBlockV2ToV3
    <3> QED BY <1>7, <3>1
  <2>2. CASE done.ver = 2
    <3> DEFINE us == done.trxs
               vs == [i \in 1..Len(us) |-> [us[i] EXCEPT !.calls = UpgradeCalls(us[i].calls)]]
    <3>1. final = [done EXCEPT !.ver = 3, !.trxs = vs]
      BY <2>2, Zenon DEF UpgradeBlockV2ToV3, MapSeq
    <3>2. /\ vs = [i \in 1..Len(us) |-> vs[i]]
          /\ \A i \in 1..Len(us) : vs[i] = [us[i] EXCEPT !.calls = UpgradeCalls(us[i].calls)]
      OBVIOUS
    <3> HIDE DEF vs, final
    <3>3. \A i \in 1..Len(us) : Readable(us[i]) =>
              Reads(vs[i], us[i]) /\ vs[i].status = us[i].status
      BY <3>2, UpgradeReads
    <3>4. Settles(vs, ts)
      <4>1. Settles(us, ts)
        BY <1>7
      <4> HIDE DEF us
      <4> QED BY <1>3, <3>2, <3>3, <4>1, SettlesOn
    <3>5. final.trxs = vs
      BY <1>5, <3>1
    <3> QED BY <3>4, <3>5
  <2> QED BY <2>1, <2>2
<1> HIDE DEF final
<1>9. made.block = done \/ made.block = final
  <2> DEFINE can == indexed.ok /\ (upgrade => CanUpgradeV2ToV3(done.trxs))
  <2>1. made = IF can THEN [ok |-> TRUE, block |-> IF upgrade THEN final ELSE done]
               ELSE [ok |-> FALSE, block |-> done]
    BY <1>2
  <2> HIDE DEF can, made, upgrade
  <2>2. \/ made = [ok |-> TRUE, block |-> final]
        \/ made = [ok |-> TRUE, block |-> done]
        \/ made = [ok |-> FALSE, block |-> done]
    BY <2>1, Zenon
  <2> QED BY <2>2
<1> HIDE DEF made
<1>10. Settles(made.block.trxs, ts)
  BY <1>7, <1>8, <1>9
<1> QED BY <1>10, Zenon DEF made, indexed, settled, ts

\* What is read of the transactions us is what was of those of ts, in any order.
Rereads(us, ts) ==
    /\ Listed(us) /\ Len(us) = Len(ts)
    /\ \A i \in 1..Len(us) : \E t \in Elements(ts) : Reads(us[i], t)

\* Transactions as they are handed to normalizeInPlace.
Unread(ts) ==
    /\ Listed(ts)
    /\ \A i \in 1..Len(ts) : Readable(ts[i]) /\ ts[i].status = "UNKNOWN" /\ ts[i].index \in Nat

LEMMA RereadTwice ==
    ASSUME NEW ts, NEW us, Rereads(us, ts), NEW vs, Rereads(vs, us)
    PROVE  Rereads(vs, ts)
<1>1. Listed(vs) /\ Len(vs) = Len(ts) /\ Len(vs) = Len(us)
  BY Zenon DEF Rereads
<1>2. ASSUME NEW i \in 1..Len(vs)
      PROVE  \E t \in Elements(ts) : Reads(vs[i], t)
  <2>1. PICK u \in Elements(us) : Reads(vs[i], u)
    BY Zenon DEF Rereads
  <2>2. PICK j \in 1..Len(us) : u = us[j]
    BY DEF Elements
  <2>3. PICK t \in Elements(ts) : Reads(u, t)
    BY <2>2, Zenon DEF Rereads
  <2> QED BY <2>1, <2>3, ReadsTwice
<1> QED BY <1>1, <1>2, Zenon DEF Rereads

LEMMA ReorderedReads ==
    ASSUME NEW block, {"trxs", "changes", "ver"} \subseteq DOMAIN block, Unread(block.trxs),
           NEW first
    PROVE  LET out == ReorderTransactionsAndRenumberOrdinals(block, first) IN
           /\ Rereads(out.trxs, block.trxs) /\ Unread(out.trxs)
           /\ {"trxs", "changes", "ver"} \subseteq DOMAIN out
<1> DEFINE ts == block.trxs
           key == MapSeq(ts, LAMBDA t : t.index)
           sorted == SortBy(ts, key)
           baseline == Baselines(sorted, first)
           us == [i \in 1..Len(sorted) |-> ShiftOrdinals(sorted[i], baseline[i-1])]
           out == ReorderTransactionsAndRenumberOrdinals(block, first)
<1>1. PICK moved : out = [block EXCEPT !.trxs = us, !.changes = moved]
  BY Zenon DEF ReorderTransactionsAndRenumberOrdinals
<1>2. /\ ts \in Seq(Elements(ts)) /\ Len(ts) \in Nat
      /\ \A i \in 1..Len(ts) : ts[i] \in Elements(ts)
  <2>1. \A i \in 1..Len(ts) : ts[i] \in Elements(ts)
    BY DEF Elements
  <2> QED BY <2>1, ListedFacts DEF Unread
<1>3. \A i \in 1..Len(ts) : key[i] \in Nat
  <2>1. \A i \in 1..Len(ts) : ts[i].index \in Nat
    BY Zenon DEF Unread
  <2>2. \A i \in 1..Len(ts) : key[i] = ts[i].index
    BY DEF MapSeq
  <2> HIDE DEF key, ts
  <2> QED BY <2>1, <2>2
<1>4. \A i \in 1..Len(ts) : Readable(ts[i]) /\ ts[i].status = "UNKNOWN" /\ ts[i].index \in Nat
  BY Zenon DEF Unread
<1>5. out.trxs = us /\ {"trxs", "changes", "ver"} \subseteq DOMAIN out
  <2> HIDE DEF us, out
  <2> QED BY <1>1
<1> HIDE DEF key, out
<1>6. \E p : SortedAt(sorted, ts, key, p)
  <2> HIDE DEF ts
  <2> QED BY <1>2, <1>3, SortedInOrder
<1>7. PICK p : SortedAt(sorted, ts, key, p)
  BY <1>6
<1> HIDE DEF sorted, ts, baseline
<1>8. /\ Len(sorted) = Len(ts)
      /\ \A k \in 1..Len(ts) : p[k] \in 1..Len(ts) /\ sorted[k] = ts[p[k]]
  BY <1>7 DEF SortedAt, Orders
<1>9. /\ us = [i \in 1..Len(ts) |-> us[i]]
      /\ \A i \in 1..Len(ts) : us[i] = ShiftOrdinals(sorted[i], baseline[i-1])
  BY <1>8
<1> HIDE DEF us
<1>10. Listed(us) /\ Len(us) = Len(ts)
  BY <1>2, <1>9, Tabled
<1>11. ASSUME NEW i \in 1..Len(ts)
       PROVE  /\ ts[p[i]] \in Elements(ts) /\ Reads(us[i], ts[p[i]]) /\ Readable(us[i])
              /\ us[i].status = "UNKNOWN" /\ us[i].index \in Nat
  <2>1. PICK t, b : t = ts[p[i]] /\ b = baseline[i-1]
    OBVIOUS
  <2>2. /\ t \in Elements(ts) /\ Readable(t) /\ t.status = "UNKNOWN" /\ t.index \in Nat
        /\ us[i] = ShiftOrdinals(t, b)
    BY <1>2, <1>4, <1>8, <1>9, <2>1
  <2>3. Reads(us[i], t) /\ us[i].status = t.status
    BY <2>2, ShiftReads
  <2> QED BY <2>1, <2>2, <2>3, Zenon DEF Reads
<1>12. Rereads(us, ts) /\ Unread(us)
  BY <1>10, <1>11, Zenon DEF Rereads, Unread
<1> QED BY <1>5, <1>12 DEF out, ts

\* normalizeInPlace, where no transaction is combined: each one is still to be read,
\* with its status.
LEMMA NormalizedReads ==
    ASSUME NEW block, {"trxs", "changes", "ver"} \subseteq DOMAIN block, Unread(block.trxs),
           NEW chain, ~chain.combine, NEW first
    PROVE  LET us == NormalizeInPlace(block, chain, first).block.trxs IN
           Rereads(us, block.trxs) /\ \A i \in 1..Len(us) : Judged(us[i])
<1> DEFINE ts == block.trxs
           us == MapSeq(ts, Revert)
           whole == [block EXCEPT !.trxs = us]
           ordered == IF chain.reorder
                      THEN ReorderTransactionsAndRenumberOrdinals(whole, first) ELSE whole
           settled == MapSeq(ordered.trxs, PopulateTrxStatus)
           out == Finish(ordered, PopulateLogBlockIndices(settled, {}), chain).block
<1>1. NormalizeInPlace(block, chain, first).block = out
  <2>1. NormalizeInPlace(block, chain, first) =
            Arrange(block, [trxs |-> us, systemHashes |-> {}], chain, first)
    BY Zenon DEF NormalizeInPlace
  <2>2. [trxs |-> us, systemHashes |-> {}].trxs = us
        /\ [trxs |-> us, systemHashes |-> {}].systemHashes = {}
    OBVIOUS
  <2> QED BY <2>1, <2>2, Zenon DEF Arrange
<1>2. us = [i \in 1..Len(ts) |-> us[i]] /\ \A i \in 1..Len(ts) : us[i] = Revert(ts[i])
  BY DEF MapSeq
<1>3. /\ Listed(ts) /\ Len(ts) \in Nat
      /\ \A i \in 1..Len(ts) : Readable(ts[i]) /\ ts[i].status = "UNKNOWN" /\ ts[i].index \in Nat
  BY ListedFacts, Zenon DEF Unread
<1>4. whole.trxs = us /\ {"trxs", "changes", "ver"} \subseteq DOMAIN whole
  OBVIOUS
<1> HIDE DEF us, whole, ts
<1>5. Listed(us) /\ Len(us) = Len(ts)
  BY <1>2, <1>3, Tabled
<1>6. ASSUME NEW i \in 1..Len(ts)
      PROVE  Reads(us[i], ts[i]) /\ us[i].status = "UNKNOWN" /\ us[i].index \in Nat
  <2>1. PICK t, u : t = ts[i] /\ u = us[i]
    OBVIOUS
  <2>2. u = Revert(t) /\ Readable(t) /\ t.status = "UNKNOWN" /\ t.index \in Nat
    BY <1>2, <1>3, <2>1
  <2>3. Reads(u, t) /\ u.status = t.status
    BY <2>2, RevertReads
  <2>4. u.index = t.index
    BY <2>3, Zenon DEF Reads
  <2> QED BY <2>1, <2>2, <2>3, <2>4
<1>7. Unread(us)
  BY <1>5, <1>6, Zenon DEF Unread, Reads
<1>8. Rereads(us, ts)
  <2>1. \A i \in 1..Len(ts) : ts[i] \in Elements(ts)
    BY DEF Elements
  <2> QED BY <1>5, <1>6, <2>1, Zenon DEF Rereads
<1>9. /\ Rereads(ordered.trxs, ts) /\ Unread(ordered.trxs)
      /\ {"trxs", "changes", "ver"} \subseteq DOMAIN ordered
  <2>1. CASE chain.reorder
    <3> DEFINE moved == ReorderTransactionsAndRenumberOrdinals(whole, first)
    <3>1. /\ Rereads(moved.trxs, us) /\ Unread(moved.trxs)
          /\ {"trxs", "changes", "ver"} \subseteq DOMAIN moved
      BY <1>4, <1>7, ReorderedReads
    <3>2. ordered = moved
      BY <2>1
    <3> HIDE DEF moved, ordered
    <3>3. Rereads(moved.trxs, ts)
      BY <1>8, <3>1, RereadTwice
    <3> QED BY <3>1, <3>2, <3>3
  <2>2. CASE ~chain.reorder
    <3>1. ordered = whole
      BY <2>2
    <3> QED BY <1>4, <1>7, <1>8, <3>1
  <2> QED BY <2>1, <2>2
<1> HIDE DEF ordered
<1>10. Settles(out.trxs, ordered.trxs)
  <2>1. /\ Listed(ordered.trxs)
        /\ \A i \in 1..Len(ordered.trxs) : /\ Readable(ordered.trxs[i])
                                            /\ ordered.trxs[i].status = "UNKNOWN"
    BY <1>9, Zenon DEF Unread
  <2> QED BY <1>9, <2>1, FinishReads
<1> HIDE DEF out
<1>11. PICK vs, os : vs = out.trxs /\ os = ordered.trxs
  OBVIOUS
<1>12. /\ Rereads(os, ts) /\ Listed(os) /\ Len(os) \in Nat
       /\ vs = [i \in 1..Len(os) |-> vs[i]]
       /\ \A i \in 1..Len(os) : Reads(vs[i], os[i]) /\ Judged(vs[i])
  <2>1. Listed(os) /\ Rereads(os, ts)
    BY <1>9, <1>11, Zenon DEF Unread
  <2>2. Len(os) \in Nat
    BY <2>1, ListedFacts
  <2> QED BY <1>10, <1>11, <2>1, <2>2, Zenon DEF Settles
<1>13. Listed(vs) /\ Len(vs) = Len(os)
  BY <1>12, Tabled
<1>14. Rereads(vs, os)
  <2>1. \A i \in 1..Len(os) : os[i] \in Elements(os)
    BY DEF Elements
  <2> QED BY <1>12, <1>13, <2>1, Zenon DEF Rereads
<1>15. Rereads(vs, ts)
  BY <1>12, <1>14, RereadTwice
<1>16. \A i \in 1..Len(vs) : Judged(vs[i])
  BY <1>12, <1>13
<1> QED BY <1>1, <1>11, <1>15, <1>16 DEF ts

-----------------------------------------------------------------------------
(***************************************************************************)
(* The traces made of a block of the endpoint.                             *)
(***************************************************************************)
\* Receipts whose logs can be counted.
Countable(got) == \A h \in DOMAIN got : Len(got[h].logs) \in Nat

LEMMA ConvertedEnds ==
    ASSUME NEW trx, NEW got, Countable(got), NEW o \in Nat
    PROVE  ConvertTrx(trx, got, o).end \in Nat
<1> DEFINE logs == IF trx.hash \in DOMAIN got THEN got[trx.hash].logs ELSE << >>
<1>1. Len(logs) \in Nat
  BY DEF Countable
<1>2. ConvertTrx(trx, got, o).end = o + 1 + Len(logs)
  BY DEF ConvertTrx
<1> HIDE DEF logs
<1> QED BY <1>1, <1>2

Converts(f, bts, got) ==
    f = [i \in 1..Len(bts) |->
            ConvertTrx(bts[i], got, IF i = 1 THEN 0 ELSE f[i-1].end + 1)]

LEMMA ConversionExists ==
    ASSUME NEW got, Countable(got), NEW bts, Len(bts) \in Nat
    PROVE  \E f : Converts(f, bts, got)
<1> DEFINE n == Len(bts)
           T == {ConvertTrx(bts[i], got, o) : i \in 1..n, o \in Nat}
           step == [p \in T \X (2..n) |-> ConvertTrx(bts[p[2]], got, p[1].end + 1)]
<1>1. n \in Nat
  OBVIOUS
<1>2. CASE n = 0
  <2> DEFINE f == [i \in 1..n |-> 0]
  <2>1. f = [i \in 1..n |-> ConvertTrx(bts[i], got, IF i = 1 THEN 0 ELSE f[i-1].end + 1)]
    BY <1>2
  <2> QED BY <2>1 DEF Converts
<1>3. CASE n # 0
  <2>1. \A i \in 1..n, o \in Nat : ConvertTrx(bts[i], got, o) \in T
    OBVIOUS
  <2>2. \A t \in T : t.end \in Nat
    BY ConvertedEnds
  <2> HIDE DEF T
  <2>3. \A t \in T, i \in 2..n : step[<<t, i>>] = ConvertTrx(bts[i], got, t.end + 1)
    OBVIOUS
  <2>4. step \in [T \X (2..n) -> T]
    <3>1. ASSUME NEW p \in T \X (2..n) PROVE ConvertTrx(bts[p[2]], got, p[1].end + 1) \in T
      <4>1. p[1].end + 1 \in Nat /\ p[2] \in 1..n
        BY <1>1, <2>2
      <4> QED BY <2>1, <4>1
    <3> QED BY <3>1
  <2>5. ConvertTrx(bts[1], got, 0) \in T
    BY <1>1, <1>3, <2>1
  <2> HIDE DEF step
  <2>6. PICK f \in [1..n -> T] : UnfoldsFromOne(f, n, ConvertTrx(bts[1], got, 0), step)
    BY <1>1, <2>4, <2>5, RecursionFromOne
  <2>7. ASSUME NEW i \in 1..n
        PROVE  f[i] = ConvertTrx(bts[i], got, IF i = 1 THEN 0 ELSE f[i-1].end + 1)
    <3>1. CASE i = 1
      BY <2>6, <3>1 DEF UnfoldsFromOne
    <3>2. CASE i # 1
      <4>1. i \in 2..n /\ i - 1 \in 1..n
        BY <1>1, <3>2
      <4>2. f[i] = step[<<f[i-1], i>>] /\ f[i-1] \in T
        BY <2>6, <3>2, <4>1 DEF UnfoldsFromOne
      <4> QED BY <2>3, <3>2, <4>1, <4>2
    <3> QED BY <3>1, <3>2
  <2>8. Converts(f, bts, got)
    BY <2>7 DEF Converts
  <2> QED BY <2>8
<1> QED BY <1>2, <1>3

\* Each trace is made of the transaction in its place.
LEMMA TracesInPlace ==
    ASSUME NEW got, Countable(got), NEW bts, Len(bts) \in Nat,
           NEW traces, traces = ToFirehoseTraces(bts, got)
    PROVE  /\ Listed(traces) /\ Len(traces) = Len(bts)
           /\ \A i \in 1..Len(bts) : \E o : traces[i] = ConvertTrx(bts[i], got, o)
<1>1. traces = CHOOSE f : Converts(f, bts, got)
  BY Zenon DEF ToFirehoseTraces, Converts
<1>2. Converts(traces, bts, got)
  BY <1>1, ConversionExists, Zenon
<1>3. PICK g : g = [i \in 1..Len(bts) |-> IF i = 1 THEN 0 ELSE traces[i-1].end + 1]
  OBVIOUS
<1>4. /\ traces = [i \in 1..Len(bts) |-> traces[i]]
      /\ \A i \in 1..Len(bts) : traces[i] = ConvertTrx(bts[i], got, g[i])
  BY <1>2, <1>3 DEF Converts
<1>5. Listed(traces) /\ Len(traces) = Len(bts)
  BY <1>4, Tabled
<1> QED BY <1>4, <1>5
=============================================================================

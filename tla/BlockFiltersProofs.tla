------------------------- MODULE BlockFiltersProofs -------------------------
(***************************************************************************)
(* Proofs about BlockFilters, for any chain, request, sizes of index and   *)
(* number of restarts: no match is skipped, no header is skipped, no       *)
(* accepted request panics, and an empty block has its explanation.        *)
(***************************************************************************)
EXTENDS BlockFilters, PostprocessProofs

-----------------------------------------------------------------------------
(***************************************************************************)
(* The index and the filters.                                              *)
(***************************************************************************)
\* The pairs hold block n completely.
Holds(pairs, n) == \A key \in Keys(chain[n]) : <<key, n>> \in pairs

LEMMA InBitmap ==
    ASSUME NEW keys, NEW pairs, NEW n, NEW key \in keys, <<key, n>> \in pairs
    PROVE  n \in Bitmap(keys, pairs)
<1>1. <<key, n>> \in {q \in pairs : q[1] \in keys}
  OBVIOUS
<1> QED BY <1>1 DEF Bitmap

\* A pair of an address and a signature that a block holds is in the filter's bitmap.
LEMMA InFilterBitmap ==
    ASSUME NEW f, NEW pairs, NEW prefix, NEW n, NEW address, NEW signature,
           f.addresses # {} \/ f.signatures # {},
           f.addresses # {} => address \in f.addresses /\ <<<<prefix, address>>, n>> \in pairs,
           f.signatures # {} =>
               signature \in f.signatures /\ <<<<prefix, signature>>, n>> \in pairs
    PROVE  n \in FilterBitmap(f, pairs, prefix)
<1>1. f.addresses # {} => n \in Bitmap({prefix} \X f.addresses, pairs)
  <2> SUFFICES ASSUME f.addresses # {} PROVE n \in Bitmap({prefix} \X f.addresses, pairs)
    OBVIOUS
  <2>1. <<prefix, address>> \in {prefix} \X f.addresses
    OBVIOUS
  <2> QED BY <2>1, InBitmap
<1>2. f.signatures # {} => n \in Bitmap({prefix} \X f.signatures, pairs)
  <2> SUFFICES ASSUME f.signatures # {} PROVE n \in Bitmap({prefix} \X f.signatures, pairs)
    OBVIOUS
  <2>1. <<prefix, signature>> \in {prefix} \X f.signatures
    OBVIOUS
  <2> QED BY <2>1, InBitmap
<1>3. CASE f.signatures = {}
  BY <1>1, <1>3 DEF FilterBitmap
<1>4. CASE f.signatures # {} /\ f.addresses = {}
  BY <1>2, <1>4 DEF FilterBitmap
<1>5. CASE f.signatures # {} /\ f.addresses # {}
  BY <1>1, <1>2, <1>5 DEF FilterBitmap
<1> QED BY <1>3, <1>4, <1>5

LEMMA KeyOfTrace ==
    ASSUME NEW traces, NEW i \in DOMAIN traces,
           NEW key \in CallKeys(traces[i]) \cup LogKeys(traces[i])
    PROVE  key \in Keys(traces)
BY DEF Keys

\* What the index can find of a match: see NoMatchSkipped.
Found(t, trace) ==
    \/ \E f \in t.logs : \E l \in trace.logs : LogMatches(f, l)
    \/ \E f \in t.calls : \E c \in trace.calls :
           CallMatches(f, c) /\ (f.signatures = {} \/ c.method # Nil)

\* What the server makes of a request.
Accepted(t) ==
    t.kind = "combined" =>
        /\ \A f \in t.calls \cup t.logs : f.addresses # {} \/ f.signatures # {}
        /\ \A f \in t.logs : Nil \notin f.signatures

\* A file that holds a block completely has it in the bitmap of every match in it.
LEMMA MatchInBitmap ==
    ASSUME NEW t, Accepted(t), t.kind = "combined",
           NEW pairs, NEW n, Holds(pairs, n),
           NEW i \in DOMAIN chain[n], Found(t, chain[n][i])
    PROVE  n \in CombinedBitmap(t, pairs)
<1> DEFINE trace == chain[n][i]
<1>1. ASSUME NEW f \in t.logs, NEW l \in trace.logs, LogMatches(f, l)
      PROVE  n \in CombinedBitmap(t, pairs)
  <2>1. f.addresses # {} =>
            l.address \in f.addresses /\ <<<<"L", l.address>>, n>> \in pairs
    <3>1. <<"L", l.address>> \in LogKeys(trace)
      BY DEF LogKeys
    <3>2. <<"L", l.address>> \in Keys(chain[n])
      BY <3>1, KeyOfTrace
    <3> QED BY <3>2, <1>1 DEF Holds, LogMatches, MatchAddress
  <2>2. f.signatures # {} =>
            l.topic \in f.signatures /\ <<<<"L", l.topic>>, n>> \in pairs
    <3> SUFFICES ASSUME f.signatures # {}
                 PROVE  l.topic \in f.signatures /\ <<<<"L", l.topic>>, n>> \in pairs
      OBVIOUS
    <3>1. l.topic \in f.signatures /\ l.topic # Nil
      BY <1>1 DEF LogMatches, MatchEvent, Accepted
    <3>2. <<"L", l.topic>> \in LogKeys(trace)
      BY <3>1 DEF LogKeys
    <3>3. <<"L", l.topic>> \in Keys(chain[n])
      BY <3>2, KeyOfTrace
    <3> QED BY <3>1, <3>3 DEF Holds
  <2>3. n \in FilterBitmap(f, pairs, "L")
    <3>1. f.addresses # {} \/ f.signatures # {}
      BY DEF Accepted
    <3> QED BY <2>1, <2>2, <3>1, InFilterBitmap
  <2> QED BY <2>3 DEF CombinedBitmap
<1>2. ASSUME NEW f \in t.calls, NEW c \in trace.calls, CallMatches(f, c),
             f.signatures = {} \/ c.method # Nil
      PROVE  n \in CombinedBitmap(t, pairs)
  <2>1. f.addresses # {} =>
            c.address \in f.addresses /\ <<<<"C", c.address>>, n>> \in pairs
    <3>1. <<"C", c.address>> \in CallKeys(trace)
      BY DEF CallKeys
    <3>2. <<"C", c.address>> \in Keys(chain[n])
      BY <3>1, KeyOfTrace
    <3> QED BY <3>2, <1>2 DEF Holds, CallMatches, MatchAddress
  <2>2. f.signatures # {} =>
            c.method \in f.signatures /\ <<<<"C", c.method>>, n>> \in pairs
    <3> SUFFICES ASSUME f.signatures # {}
                 PROVE  c.method \in f.signatures /\ <<<<"C", c.method>>, n>> \in pairs
      OBVIOUS
    <3>1. c.method \in f.signatures /\ c.method # Nil
      BY <1>2 DEF CallMatches, MatchMethod
    <3>2. <<"C", c.method>> \in CallKeys(trace)
      BY <3>1 DEF CallKeys
    <3>3. <<"C", c.method>> \in Keys(chain[n])
      BY <3>2, KeyOfTrace
    <3> QED BY <3>1, <3>3 DEF Holds
  <2>3. n \in FilterBitmap(f, pairs, "C")
    <3>1. f.addresses # {} \/ f.signatures # {}
      BY DEF Accepted
    <3> QED BY <2>1, <2>2, <3>1, InFilterBitmap
  <2> QED BY <2>3 DEF CombinedBitmap
<1> QED BY <1>1, <1>2 DEF Found

-----------------------------------------------------------------------------
(***************************************************************************)
(* Requests.                                                               *)
(***************************************************************************)
\* A transform keeps the filters of its request, and none without any criterion.
LEMMA CombinedIsAccepted ==
    ASSUME NEW calls, NEW logs, NEW sendAll,
           \A f \in logs : Nil \notin f.signatures
    PROVE  Accepted(NewCombinedFilter(calls, logs, sendAll))
<1> DEFINE t == NewCombinedFilter(calls, logs, sendAll)
<1>1. CASE (\A f \in calls : NewCallToFilter(f)) /\ (\A f \in logs : NewLogFilter(f))
  <2>1. t.calls = calls /\ t.logs = logs
    BY <1>1 DEF NewCombinedFilter, Combined
  <2> QED BY <1>1, <2>1 DEF Accepted, NewCallToFilter, NewLogFilter
<1>2. CASE ~((\A f \in calls : NewCallToFilter(f)) /\ (\A f \in logs : NewLogFilter(f)))
  <2>1. t.kind = "refused"
    BY <1>2 DEF NewCombinedFilter, Refused
  <2> QED BY <2>1 DEF Accepted
<1> QED BY <1>1, <1>2

LEMMA SimpleIsAccepted == Accepted(Refused) /\ Accepted(AllBlocks) /\ Accepted(Header)
BY DEF Accepted, Refused, AllBlocks, Header

\* The message that a request is, or that the tools make of its flags.
LEMMA MessageIsSafe ==
    ASSUME NEW r \in Requests, r.kind = "flags"
    PROVE  LET m == ParseTransformFlags(r) IN
           /\ m.kind \in {"combined", "header", "blocks", "refused"}
           /\ m.kind = "combined" => \A f \in m.logs : Nil \notin f.signatures
           /\ m.kind = "header" => m = Header
           /\ m.kind = "blocks" => m = AllBlocks
           /\ m.kind = "refused" => m = Refused
<1> DEFINE m == ParseTransformFlags(r)
           bad == \E p \in r.calls \cup r.logs : p.parts \notin {0, 2}
           asked == r.calls # {} \/ r.logs # {} \/ r.sendAll
           made == Combined(ParseFilter(r.calls), ParseFilter(r.logs), r.sendAll)
<1>1. m \in {Refused, Header, AllBlocks, made}
  <2>1. CASE bad
    BY <2>1 DEF ParseTransformFlags
  <2>2. CASE ~bad /\ asked
    BY <2>2 DEF ParseTransformFlags
  <2>3. CASE ~bad /\ ~asked
    BY <2>3 DEF ParseTransformFlags
  <2> QED BY <2>1, <2>2, <2>3
<1>2. \A f \in ParseFilter(r.logs) : Nil \notin f.signatures
  BY FiltersAssumption DEF ParseFilter
<1>3. made.kind = "combined" /\ made.logs = ParseFilter(r.logs)
  BY DEF Combined
<1> QED BY <1>1, <1>2, <1>3 DEF Refused, Header, AllBlocks

\* What the server makes of any message it may get.
LEMMA TransformIsAccepted ==
    ASSUME NEW m, m.kind \in {"combined", "calls", "logs", "header", "blocks", "refused"},
           m.kind \in {"combined", "logs"} => \A f \in m.logs : Nil \notin f.signatures,
           m.kind \in {"header", "blocks", "refused"} => Accepted(m)
    PROVE  Accepted(NewTransform(m))
<1>1. CASE m.kind = "combined"
  <2>1. NewTransform(m) = CombinedFilterTransform(m)
    BY <1>1 DEF NewTransform
  <2>2. CASE m.calls = {} /\ m.logs = {} /\ ~m.sendAll
    BY <2>1, <2>2, SimpleIsAccepted DEF CombinedFilterTransform
  <2>3. CASE ~(m.calls = {} /\ m.logs = {} /\ ~m.sendAll)
    <3>1. NewTransform(m) = NewCombinedFilter(m.calls, m.logs, m.sendAll)
      BY <2>1, <2>3 DEF CombinedFilterTransform
    <3> QED BY <3>1, <1>1, CombinedIsAccepted
  <2> QED BY <2>2, <2>3
<1>2. CASE m.kind = "calls"
  <2>1. NewTransform(m) = NewCombinedFilter(m.calls, {}, FALSE)
    BY <1>2 DEF NewTransform, MultiCallToFilterTransform
  <2> QED BY <2>1, CombinedIsAccepted
<1>3. CASE m.kind = "logs"
  <2>1. NewTransform(m) = NewCombinedFilter({}, m.logs, FALSE)
    BY <1>3 DEF NewTransform, MultiLogFilterTransform
  <2> QED BY <2>1, <1>3, CombinedIsAccepted
<1>4. CASE m.kind \in {"header", "blocks", "refused"}
  BY <1>4 DEF NewTransform
<1> QED BY <1>1, <1>2, <1>3, <1>4

LEMMA AskAccepts ==
    ASSUME request \in Requests, Ask
    PROVE  Accepted(transform')
<1> DEFINE m == IF request.kind = "flags" THEN ParseTransformFlags(request) ELSE request
<1>1. transform' = NewTransform(m)
  BY DEF Ask
<1>2. CASE request.kind = "flags"
  <2>1. /\ m.kind \in {"combined", "header", "blocks", "refused"}
        /\ m.kind = "combined" => \A f \in m.logs : Nil \notin f.signatures
        /\ m.kind \in {"header", "blocks", "refused"} => m \in {Header, AllBlocks, Refused}
    BY <1>2, MessageIsSafe
  <2> QED BY <1>1, <2>1, TransformIsAccepted, SimpleIsAccepted
<1>3. CASE request.kind # "flags"
  <2>1. m = request /\ m.kind \in {"combined", "calls", "logs", "header"}
    BY <1>3, FiltersAssumption
  <2>2. m.kind # "header" => \A f \in m.logs : Nil \notin f.signatures
    BY <2>1, FiltersAssumption
  <2>3. m.kind = "header" => Accepted(m)
    BY DEF Accepted
  <2> QED BY <1>1, <2>1, <2>2, <2>3, TransformIsAccepted
<1> QED BY <1>2, <1>3

-----------------------------------------------------------------------------
(***************************************************************************)
(* Indexers.                                                               *)
(***************************************************************************)
\* The pairs hold every block from low up to the one before next.
Complete(pairs, low, next_) ==
    \A n \in FirstBlock..LastBlock : (low <= n /\ n < next_) => Holds(pairs, n)

\* An indexer builds a file that is complete up to the next block, or none.
Building(index, size) ==
    /\ index.next \in Nat /\ index.next >= FirstBlock
    /\ index.low # Nil =>
           /\ index.low \in Nat /\ index.low % size = 0
           /\ index.low <= index.next /\ index.next <= index.low + size
           /\ Complete(index.pairs, index.low, index.next)

\* Every file that an indexer works on, or has written, is complete.
IndexInv ==
    /\ DOMAIN indexers = Sizes
    /\ \A s \in Sizes : Building(indexers[s], s)
    /\ \A f \in indexStore :
           /\ f.size \in Nat \ {0} /\ f.low \in Nat
           /\ Complete(f.pairs, f.low, f.low + f.size)

LEMMA SizesArePositive == \A s \in Sizes : s \in Nat \ {0}
BY FiltersAssumption DEF Sizes

LEMMA LowBelow ==
    ASSUME NEW n \in Nat, NEW s \in Nat \ {0}
    PROVE  /\ Low(n, s) \in Nat /\ Low(n, s) <= n /\ n < Low(n, s) + s
           /\ Low(n, s) % s = 0
BY DEF Low

LEMMA LowOfMultiple ==
    ASSUME NEW n \in Nat, NEW s \in Nat \ {0}, n % s = 0
    PROVE  Low(n, s) = n
BY DEF Low

LEMMA NextMultiple ==
    ASSUME NEW low \in Nat, NEW s \in Nat \ {0}, low % s = 0
    PROVE  (low + s) % s = 0
<1> DEFINE q == low \div s
<1>1. q \in Nat /\ low = s * q
  OBVIOUS
<1>2. low + s = s * (q + 1)
  BY <1>1
<1>3. (s * (q + 1)) % s = 0
  BY <1>1
<1> QED BY <1>2, <1>3

LEMMA NoFileIsBuilding ==
    ASSUME NEW n \in Nat, n >= FirstBlock, NEW s
    PROVE  Building(NoFile(n), s)
BY DEF Building, NoFile

\* Adding the next block keeps the file complete.
LEMMA AddIsBuilding ==
    ASSUME NEW index, NEW s \in Nat \ {0}, Building(index, s), NEW n, n = index.next
    PROVE  Building(Add(index, s, n, Keys(chain[n])), s)
<1> DEFINE keys == Keys(chain[n])
           added == Add(index, s, n, keys)
<1>1. n \in Nat /\ n >= FirstBlock /\ FirstBlock \in Nat
  BY FiltersAssumption DEF Building
<1>2. CASE index.low = Nil /\ n % s # 0 /\ n # FirstBlock
  <2>1. added = NoFile(n + 1)
    BY <1>2 DEF Add
  <2> QED BY <1>1, <2>1, NoFileIsBuilding
<1>3. CASE \/ index.low = Nil /\ (n % s = 0 \/ n = FirstBlock)
           \/ index.low # Nil /\ n >= index.low + s
  <2>1. added = [next |-> n + 1, low |-> Low(n, s), pairs |-> {} \cup (keys \X {n})]
    BY <1>3 DEF Add
  <2>2. Low(n, s) = n \/ n = FirstBlock
    <3>1. CASE index.low = Nil
      BY <1>1, <1>3, <3>1, LowOfMultiple
    <3>2. CASE index.low # Nil /\ n >= index.low + s
      <4>1. n = index.low + s /\ index.low \in Nat /\ index.low % s = 0
        BY <1>1, <3>2 DEF Building
      <4>2. n % s = 0
        BY <4>1, NextMultiple
      <4> QED BY <1>1, <4>2, LowOfMultiple
    <3> QED BY <1>3, <3>1, <3>2
  <2>3. Low(n, s) \in Nat /\ Low(n, s) <= n /\ n < Low(n, s) + s /\ Low(n, s) % s = 0
    BY <1>1, LowBelow
  <2>4. Complete(added.pairs, Low(n, s), n + 1)
    <3> SUFFICES ASSUME NEW m \in FirstBlock..LastBlock, Low(n, s) <= m, m < n + 1
                 PROVE  Holds(added.pairs, m)
      BY DEF Complete
    <3>1. m = n
      BY <1>1, <2>2, <2>3, FiltersAssumption
    <3> QED BY <2>1, <3>1 DEF Holds
  <2> QED BY <1>1, <2>1, <2>3, <2>4 DEF Building
<1>4. CASE index.low # Nil /\ ~(n >= index.low + s)
  <2>1. added = [next |-> n + 1, low |-> index.low, pairs |-> index.pairs \cup (keys \X {n})]
    BY <1>4 DEF Add
  <2>2. /\ index.low \in Nat /\ index.low % s = 0 /\ index.low <= n /\ n < index.low + s
        /\ Complete(index.pairs, index.low, n)
    BY <1>1, <1>4 DEF Building
  <2>3. Complete(added.pairs, index.low, n + 1)
    <3> SUFFICES ASSUME NEW m \in FirstBlock..LastBlock, index.low <= m, m < n + 1
                 PROVE  Holds(added.pairs, m)
      BY DEF Complete
    <3>1. CASE m = n
      BY <2>1, <3>1 DEF Holds
    <3>2. CASE m < n
      <4>1. Holds(index.pairs, m)
        BY <2>2, <3>2 DEF Complete
      <4> QED BY <2>1, <4>1 DEF Holds
    <3> QED BY <1>1, <3>1, <3>2, FiltersAssumption
  <2> QED BY <1>1, <2>1, <2>2, <2>3 DEF Building
<1> QED BY <1>2, <1>3, <1>4

LEMMA IndexStep ==
    ASSUME IndexInv, [Next]_vars
    PROVE  IndexInv'
<1>1. CASE UNCHANGED <<chain, indexers, indexStore>>
  BY <1>1 DEF IndexInv, Building, Complete, Holds
<1>2. ASSUME NEW s \in Sizes, ProcessBlock(s) PROVE IndexInv'
  <2> DEFINE index == indexers[s]
             n == index.next
             file == [size |-> s, low |-> index.low, pairs |-> index.pairs]
             added == Add(index, s, n, Keys(chain[n]))
  <2>1. s \in Nat \ {0} /\ Building(index, s)
    BY SizesArePositive DEF IndexInv
  <2>2. /\ indexers' = [indexers EXCEPT ![s] = added] /\ chain' = chain
        /\ \/ indexStore' = indexStore
           \/ /\ index.low # Nil /\ n >= index.low + s
              /\ indexStore' = {f \in indexStore : f.size # s \/ f.low # index.low} \cup {file}
    BY <1>2 DEF ProcessBlock
  <2>3. Building(added, s)
    BY <2>1, AddIsBuilding
  <2>4. DOMAIN indexers' = Sizes /\ \A z \in Sizes : Building(indexers'[z], z)
    BY <2>2, <2>3 DEF IndexInv
  <2>5. ASSUME NEW f \in indexStore'
        PROVE  f.size \in Nat \ {0} /\ f.low \in Nat /\ Complete(f.pairs, f.low, f.low + f.size)
    <3>1. CASE f \in indexStore
      BY <3>1 DEF IndexInv
    <3>2. CASE f = file /\ index.low # Nil /\ n >= index.low + s
      <4>1. index.low \in Nat /\ n \in Nat /\ Complete(index.pairs, index.low, n)
        BY <2>1, <3>2 DEF Building
      <4>2. Complete(index.pairs, index.low, index.low + s)
        BY <2>1, <3>2, <4>1, FiltersAssumption DEF Complete
      <4> QED BY <2>1, <3>2, <4>1, <4>2
    <3> QED BY <2>2, <3>1, <3>2
  <2> HIDE DEF index, n, file, added
  <2>6. \A z \in Sizes : Building(indexers'[z], z) => Building(indexers[z], z)'
    BY <2>2 DEF Building, Complete, Holds
  <2>7. \A f \in indexStore' : /\ f.size \in Nat \ {0} /\ f.low \in Nat
                               /\ Complete(f.pairs, f.low, f.low + f.size)'
    BY <2>2, <2>5 DEF Complete, Holds
  <2> QED BY <2>4, <2>6, <2>7 DEF IndexInv
<1>3. ASSUME NEW s \in Sizes, NEW n \in FirstBlock..LastBlock, RestartIndexer(s, n) PROVE IndexInv'
  <2>1. /\ indexers' = [indexers EXCEPT ![s] = NoFile(n)]
        /\ UNCHANGED <<chain, indexStore>>
    BY <1>3 DEF RestartIndexer
  <2>2. n \in Nat /\ n >= FirstBlock
    BY FiltersAssumption
  <2>3. Building(NoFile(n), s)
    BY <2>2, NoFileIsBuilding
  <2>4. DOMAIN indexers' = Sizes /\ \A z \in Sizes : Building(indexers'[z], z)
    BY <2>1, <2>3 DEF IndexInv
  <2>5. \A z \in Sizes : Building(indexers'[z], z) => Building(indexers[z], z)'
    BY <2>1 DEF Building, Complete, Holds
  <2>6. \A f \in indexStore' : /\ f.size \in Nat \ {0} /\ f.low \in Nat
                               /\ Complete(f.pairs, f.low, f.low + f.size)'
    BY <2>1 DEF IndexInv, Complete, Holds
  <2> QED BY <2>4, <2>5, <2>6 DEF IndexInv
<1>4. CASE Ask \/ Pass \/ Merge \/ UNCHANGED vars
  BY <1>1, <1>4 DEF Ask, Pass, Merge, vars, indexVars
<1> QED BY <1>2, <1>3, <1>4 DEF Next

-----------------------------------------------------------------------------
(***************************************************************************)
(* The stream.                                                             *)
(***************************************************************************)
\* What the stream has passed was sent if it had to be.
StreamInv ==
    /\ request \in Requests
    /\ next \in Nat /\ FirstBlock <= next /\ next <= LastBlock + 1
    /\ phase = "asking" => next = FirstBlock /\ sent = {}
    /\ phase # "asking" => Accepted(transform)
    /\ NoMatchSkipped /\ HeadersNeverSkipped /\ NeverPanics

LEMMA NothingPanics ==
    ASSUME Accepted(transform), NEW n
    PROVE  ~Panics(n)
BY DEF Accepted, Panics, UsesIndex, HasIndexProvider

\* The file that covers a block is complete at that block.
LEMMA CoveringFileHolds ==
    ASSUME IndexInv, NEW n \in FirstBlock..LastBlock, NEW f \in CoveringFiles(n)
    PROVE  Holds(f.pairs, n)
<1>1. f \in indexStore /\ f.low = Low(n, f.size)
  BY DEF CoveringFiles
<1>2. f.size \in Nat \ {0} /\ f.low \in Nat /\ Complete(f.pairs, f.low, f.low + f.size)
  BY <1>1 DEF IndexInv
<1>3. n \in Nat
  BY FiltersAssumption
<1>4. f.low <= n /\ n < f.low + f.size
  BY <1>1, <1>2, <1>3, LowBelow
<1> QED BY <1>2, <1>4 DEF Complete

LEMMA MatchesPass ==
    ASSUME IndexInv, Accepted(transform), NEW n \in FirstBlock..LastBlock,
           NEW i \in DOMAIN chain[n], Found(transform, chain[n][i])
    PROVE  Passes(n)
<1> SUFFICES ASSUME UsesIndex(n)
             PROVE  \E f \in CoveringFiles(n) : n \in CombinedBitmap(transform, f.pairs)
  BY DEF Passes
<1>1. transform.kind = "combined"
  BY DEF UsesIndex, HasIndexProvider
<1>2. PICK f \in CoveringFiles(n) : TRUE
  BY DEF UsesIndex
<1>3. n \in CombinedBitmap(transform, f.pairs)
  BY <1>1, CoveringFileHolds, MatchInBitmap
<1> QED BY <1>3

LEMMA HeadersPass ==
    ASSUME NEW n, transform.kind # "combined" \/ transform.sendAll
    PROVE  Passes(n)
BY DEF Passes, UsesIndex, HasIndexProvider

LEMMA PassKeeps ==
    ASSUME IndexInv, StreamInv, Pass
    PROVE  StreamInv'
<1> DEFINE out == Transform(transform, chain[next])
           block == [number |-> next, indexed |-> UsesIndex(next), traces |-> out.traces,
                     rest |-> out.rest]
<1>1. phase = "streaming" /\ next <= LastBlock /\ Accepted(transform)
  BY DEF Pass, StreamInv
<1>2. ~Panics(next)
  BY <1>1, NothingPanics
<1>3. /\ phase' = phase /\ next' = next + 1
      /\ sent' = IF Passes(next) THEN sent \cup {block} ELSE sent
      /\ UNCHANGED <<chain, request, transform>>
  BY <1>2 DEF Pass
<1>4. next \in FirstBlock..LastBlock /\ next \in Nat /\ FirstBlock \in Nat
  BY <1>1, FiltersAssumption DEF StreamInv
<1>5. SentNumbers' = IF Passes(next) THEN SentNumbers \cup {next} ELSE SentNumbers
  <2>1. block.number = next
    OBVIOUS
  <2> HIDE DEF block
  <2> QED BY <1>3, <2>1 DEF SentNumbers
<1>6. NoMatchSkipped'
  <2> SUFFICES ASSUME CombinedStream, NEW n \in FirstBlock..next, NEW i \in DOMAIN chain[n],
                      Found(transform, chain[n][i])
               PROVE  n \in SentNumbers'
    <3>1. CombinedStream' <=> CombinedStream
      BY <1>3 DEF CombinedStream
    <3>2. FirstBlock..(next' - 1) = FirstBlock..next
      BY <1>3, <1>4
    <3> QED BY <1>3, <3>1, <3>2 DEF NoMatchSkipped, Found, LogMatches, CallMatches,
                                   MatchAddress, MatchMethod, MatchEvent
  <2>1. CASE n = next
    BY <1>1, <1>4, <1>5, <2>1, MatchesPass
  <2>2. CASE n # next
    <3>1. n \in FirstBlock..(next - 1)
      BY <1>4, <2>2
    <3>2. n \in SentNumbers
      BY <3>1 DEF StreamInv, NoMatchSkipped, Found
    <3> QED BY <1>5, <3>2
  <2> QED BY <2>1, <2>2
<1>7. HeadersNeverSkipped'
  <2> SUFFICES ASSUME transform.kind # "combined" \/ transform.sendAll
               PROVE  SentNumbers' = FirstBlock..(next' - 1)
    BY <1>3 DEF HeadersNeverSkipped
  <2>1. SentNumbers = FirstBlock..(next - 1)
    BY <1>1 DEF StreamInv, HeadersNeverSkipped
  <2>2. Passes(next)
    BY HeadersPass
  <2> QED BY <1>3, <1>4, <1>5, <2>1, <2>2
<1>8. NeverPanics' /\ phase' = "streaming" /\ Accepted(transform')
  BY <1>1, <1>3 DEF NeverPanics
<1>9. request' \in Requests /\ next' \in Nat /\ FirstBlock <= next' /\ next' <= LastBlock + 1
  BY <1>1, <1>3, <1>4, FiltersAssumption DEF StreamInv
<1> QED BY <1>6, <1>7, <1>8, <1>9 DEF StreamInv

LEMMA AskKeeps ==
    ASSUME StreamInv, Ask
    PROVE  StreamInv'
<1>1. /\ next = FirstBlock /\ sent = {} /\ UNCHANGED <<chain, request, next, sent>>
      /\ phase' \in {"refused", "streaming"}
  BY DEF StreamInv, Ask
<1>2. Accepted(transform')
  BY AskAccepts DEF StreamInv
<1>3. FirstBlock..(next' - 1) = {} /\ SentNumbers' = {}
  BY <1>1, FiltersAssumption DEF SentNumbers
<1>4. NoMatchSkipped' /\ HeadersNeverSkipped' /\ NeverPanics'
  BY <1>1, <1>3 DEF NoMatchSkipped, HeadersNeverSkipped, NeverPanics
<1> QED BY <1>1, <1>2, <1>4 DEF StreamInv

LEMMA StreamStep ==
    ASSUME IndexInv, StreamInv, [Next]_vars
    PROVE  StreamInv'
<1>1. CASE Ask
  BY <1>1, AskKeeps
<1>2. CASE Pass
  BY <1>2, PassKeeps
<1>3. CASE \/ UNCHANGED vars \/ Merge
           \/ \E s \in Sizes : ProcessBlock(s)
           \/ \E s \in Sizes : \E n \in FirstBlock..LastBlock : RestartIndexer(s, n)
  <2>1. UNCHANGED <<chain, request, phase, transform, next, sent>>
    BY <1>3 DEF Merge, ProcessBlock, RestartIndexer, vars, streamVars
  <2> QED BY <2>1 DEF StreamInv, NoMatchSkipped, HeadersNeverSkipped, NeverPanics,
                      CombinedStream, SentNumbers, LogMatches, CallMatches, MatchAddress,
                      MatchMethod, MatchEvent, Accepted
<1> QED BY <1>1, <1>2, <1>3 DEF Next

LEMMA StreamCorrect == Spec => [](IndexInv /\ StreamInv)
<1>1. Init => IndexInv /\ StreamInv
  <2> SUFFICES ASSUME Init PROVE IndexInv /\ StreamInv
    OBVIOUS
  <2>1. FirstBlock \in Nat /\ FirstBlock <= LastBlock + 1
    BY FiltersAssumption DEF Init
  <2>2. IndexInv
    BY <2>1, NoFileIsBuilding DEF Init, IndexInv
  <2>3. StreamInv
    BY <2>1 DEF Init, StreamInv, NoMatchSkipped, HeadersNeverSkipped, NeverPanics,
                CombinedStream
  <2> QED BY <2>2, <2>3
<1>2. IndexInv /\ StreamInv /\ [Next]_vars => (IndexInv /\ StreamInv)'
  BY IndexStep, StreamStep
<1> QED BY <1>1, <1>2, PTL DEF Spec

\* No stream loses a block in which a filter matches, nor one whose header it asked
\* for, however far the indexers are, wherever they restarted and whatever was lost.
THEOREM WantedBlocksAreSent == Spec => []WantedBlocksSent
<1>1. IndexInv /\ StreamInv => WantedBlocksSent
  BY DEF StreamInv, WantedBlocksSent
<1> QED BY <1>1, StreamCorrect, PTL

\* No request that the server accepts makes filterBitmap panic.
THEOREM FiltersNeverPanic == Spec => []NeverPanics
BY StreamCorrect, PTL DEF StreamInv

-----------------------------------------------------------------------------
(***************************************************************************)
(* Blocks sent without transactions.                                       *)
(***************************************************************************)
\* A pair of a file says what is in a block: a file has nothing more than the blocks.
Sound(pairs) == \A p \in pairs : p[1] \in Keys(chain[p[2]])

SoundInv ==
    /\ DOMAIN indexers = Sizes
    /\ \A s \in Sizes : Sound(indexers[s].pairs)
    /\ \A f \in indexStore : Sound(f.pairs)

LEMMA AddIsSound ==
    ASSUME NEW index, Sound(index.pairs), NEW s, NEW n
    PROVE  Sound(Add(index, s, n, Keys(chain[n])).pairs)
<1> DEFINE added == Add(index, s, n, Keys(chain[n])).pairs
<1>1. added \subseteq index.pairs \cup (Keys(chain[n]) \X {n})
  <2> DEFINE begun == index.low # Nil
             full == begun /\ n >= index.low + s
  <2>1. CASE ~begun /\ n % s # 0 /\ n # FirstBlock
    BY <2>1 DEF Add, NoFile
  <2>2. CASE ~(~begun /\ n % s # 0 /\ n # FirstBlock)
    <3>1. added = (IF begun /\ ~full THEN index.pairs ELSE {}) \cup (Keys(chain[n]) \X {n})
      BY <2>2 DEF Add
    <3> HIDE DEF begun, full, added
    <3> QED BY <3>1
  <2> QED BY <2>1, <2>2
<1>2. \A p \in Keys(chain[n]) \X {n} : p[1] \in Keys(chain[p[2]])
  OBVIOUS
<1> HIDE DEF added
<1>3. Sound(added)
  BY <1>1, <1>2 DEF Sound
<1> QED BY <1>3 DEF added

LEMMA SoundStep ==
    ASSUME SoundInv, [Next]_vars
    PROVE  SoundInv'
<1>1. CASE UNCHANGED <<chain, indexers, indexStore>>
  BY <1>1 DEF SoundInv, Sound
<1>2. ASSUME NEW s \in Sizes, ProcessBlock(s) PROVE SoundInv'
  <2> DEFINE index == indexers[s]
             file == [size |-> s, low |-> index.low, pairs |-> index.pairs]
             added == Add(index, s, index.next, Keys(chain[index.next]))
  <2>1. /\ indexers' = [indexers EXCEPT ![s] = added] /\ chain' = chain
        /\ indexStore' \subseteq indexStore \cup {file}
    BY <1>2 DEF ProcessBlock
  <2>2. Sound(index.pairs) /\ Sound(file.pairs) /\ Sound(added.pairs)
    BY AddIsSound DEF SoundInv
  <2> HIDE DEF index, file, added
  <2>3. \A pairs : Sound(pairs) => Sound(pairs)'
    BY <2>1 DEF Sound
  <2>4. DOMAIN indexers' = Sizes /\ \A z \in Sizes : Sound(indexers'[z].pairs)
    BY <2>1, <2>2 DEF SoundInv
  <2>5. \A f \in indexStore' : Sound(f.pairs)
    BY <2>1, <2>2 DEF SoundInv
  <2> QED BY <2>1, <2>4, <2>5 DEF SoundInv, Sound
<1>3. ASSUME NEW s \in Sizes, NEW n \in FirstBlock..LastBlock, RestartIndexer(s, n) PROVE SoundInv'
  <2>1. /\ indexers' = [indexers EXCEPT ![s] = NoFile(n)]
        /\ UNCHANGED <<chain, indexStore>>
    BY <1>3 DEF RestartIndexer
  <2>2. Sound(NoFile(n).pairs)
    BY DEF NoFile, Sound
  <2>3. DOMAIN indexers' = Sizes /\ \A z \in Sizes : Sound(indexers'[z].pairs)
    BY <2>1, <2>2 DEF SoundInv
  <2> QED BY <2>1, <2>3 DEF SoundInv, Sound
<1>4. CASE Ask \/ Pass \/ Merge \/ UNCHANGED vars
  BY <1>1, <1>4 DEF Ask, Pass, Merge, vars, indexVars
<1> QED BY <1>2, <1>3, <1>4 DEF Next

\* What Stripped builds, a transaction at a time.
KeptUpto(t, traces, kept) ==
    kept = [i \in 0..Len(traces) |->
               IF i = 0 THEN << >>
               ELSE IF Matches(t, traces[i]) THEN Append(kept[i-1], traces[i]) ELSE kept[i-1]]

LEMMA KeptExists ==
    ASSUME NEW t, NEW S, NEW traces \in Seq(S)
    PROVE  \E kept : kept \in [0..Len(traces) -> Seq(S)] /\ KeptUpto(t, traces, kept)
<1> DEFINE n == Len(traces)
           step == [p \in Seq(S) \X (1..n) |->
                       IF Matches(t, traces[p[2]]) THEN Append(p[1], traces[p[2]]) ELSE p[1]]
<1>1. n \in Nat /\ << >> \in Seq(S)
  OBVIOUS
<1>2. step \in [Seq(S) \X (1..n) -> Seq(S)]
  <2>1. ASSUME NEW p \in Seq(S) \X (1..n)
        PROVE  (IF Matches(t, traces[p[2]]) THEN Append(p[1], traces[p[2]]) ELSE p[1]) \in Seq(S)
    <3>1. p[1] \in Seq(S) /\ traces[p[2]] \in S
      OBVIOUS
    <3> QED BY <3>1
  <2> QED BY <2>1
<1>3. \A q \in Seq(S), i \in 1..n :
          step[<<q, i>>] = IF Matches(t, traces[i]) THEN Append(q, traces[i]) ELSE q
  OBVIOUS
<1> HIDE DEF step
<1>4. PICK kept \in [0..n -> Seq(S)] : Unfolds(kept, n, << >>, step)
  BY <1>1, <1>2, RecursionFromZero
<1>5. ASSUME NEW i \in 1..n
      PROVE  kept[i] = IF Matches(t, traces[i]) THEN Append(kept[i-1], traces[i]) ELSE kept[i-1]
  <2>1. i - 1 \in 0..n
    BY <1>1
  <2>2. kept[i-1] \in Seq(S)
    BY <2>1
  <2> QED BY <1>3, <1>4, <2>2 DEF Unfolds
<1>6. kept[0] = << >>
  BY <1>4 DEF Unfolds
<1>7. \A i \in 0..n : i = 0 \/ i \in 1..n
  BY <1>1
<1>8. KeptUpto(t, traces, kept)
  BY <1>5, <1>6, <1>7 DEF KeptUpto
<1> QED BY <1>8

\* A transaction that matches is not stripped.
LEMMA MatchIsKept ==
    ASSUME NEW t, NEW S, NEW traces \in Seq(S), NEW k \in DOMAIN traces, Matches(t, traces[k])
    PROVE  Stripped(t, traces).traces # << >>
<1> DEFINE n == Len(traces)
           kept == CHOOSE f : KeptUpto(t, traces, f)
<1>1. n \in Nat /\ k \in 1..n
  OBVIOUS
<1>2. KeptUpto(t, traces, kept)
  BY KeptExists
<1>3. Stripped(t, traces).traces = kept[n]
  BY DEF Stripped, KeptUpto
<1>4. \A i \in 0..n :
          kept[i] = IF i = 0 THEN << >>
                    ELSE IF Matches(t, traces[i]) THEN Append(kept[i-1], traces[i]) ELSE kept[i-1]
  BY <1>2 DEF KeptUpto
<1> HIDE DEF kept
<1> DEFINE P == {m \in Nat : m <= n => kept[m] \in Seq(S) /\ (k <= m => kept[m] # << >>)}
<1>5. 0 \in P
  <2>1. << >> \in Seq(S) /\ ~(k <= 0) /\ 0 \in 0..n
    BY <1>1
  <2>2. kept[0] = << >>
    BY <1>4, <2>1
  <2> QED BY <2>1, <2>2
<1>6. ASSUME NEW m \in Nat, m \in P PROVE m + 1 \in P
  <2> SUFFICES ASSUME m + 1 <= n
               PROVE  kept[m + 1] \in Seq(S) /\ (k <= m + 1 => kept[m + 1] # << >>)
    OBVIOUS
  <2>1. m + 1 \in 0..n /\ m + 1 # 0 /\ (m + 1) - 1 = m /\ kept[m] \in Seq(S)
        /\ traces[m + 1] \in S /\ (k <= m => kept[m] # << >>)
    BY <1>1, <1>6
  <2>2. kept[m + 1] = IF Matches(t, traces[m + 1]) THEN Append(kept[m], traces[m + 1])
                      ELSE kept[m]
    BY <1>4, <2>1
  <2>3. Append(kept[m], traces[m + 1]) \in Seq(S) /\ Append(kept[m], traces[m + 1]) # << >>
    <3>1. \A q \in Seq(S), e \in S : Append(q, e) \in Seq(S) /\ Append(q, e) # << >>
      OBVIOUS
    <3> QED BY <2>1, <3>1
  <2>4. CASE k = m + 1
    BY <2>2, <2>3, <2>4
  <2>5. CASE k <= m
    BY <2>1, <2>2, <2>3, <2>5
  <2>6. CASE k > m + 1
    BY <1>1, <2>1, <2>2, <2>3, <2>6
  <2> QED BY <1>1, <2>4, <2>5, <2>6
<1>7. n \in P
  <2> HIDE DEF P
  <2> QED BY <1>1, <1>5, <1>6, NaturalsOf
<1> QED BY <1>1, <1>3, <1>7

\* What the bitmap of a sound file says of a block.
LEMMA BitmapIsSound ==
    ASSUME NEW bytes, NEW prefix, NEW pairs, Sound(pairs), NEW n,
           n \in Bitmap({prefix} \X bytes, pairs)
    PROVE  \E x \in bytes : <<prefix, x>> \in Keys(chain[n])
<1>1. PICK p \in pairs : p[1] \in {prefix} \X bytes /\ p[2] = n
  BY DEF Bitmap
<1>2. PICK x \in bytes : p[1] = <<prefix, x>>
  BY <1>1
<1> QED BY <1>1, <1>2 DEF Sound

LEMMA KeyOfCall ==
    ASSUME NEW traces, NEW x, <<"C", x>> \in Keys(traces)
    PROVE  \E i \in DOMAIN traces : \E c \in traces[i].calls : x \in {c.address, c.method}
<1>1. PICK i \in DOMAIN traces : <<"C", x>> \in CallKeys(traces[i]) \cup LogKeys(traces[i])
  BY DEF Keys
<1>2. <<"C", x>> \notin LogKeys(traces[i])
  BY DEF LogKeys
<1> QED BY <1>1, <1>2 DEF CallKeys

LEMMA KeyOfLog ==
    ASSUME NEW traces, NEW x, <<"L", x>> \in Keys(traces)
    PROVE  \E i \in DOMAIN traces : \E l \in traces[i].logs : x \in {l.address, l.topic}
<1>1. PICK i \in DOMAIN traces : <<"L", x>> \in CallKeys(traces[i]) \cup LogKeys(traces[i])
  BY DEF Keys
<1>2. <<"L", x>> \notin CallKeys(traces[i])
  BY DEF CallKeys
<1> QED BY <1>1, <1>2 DEF LogKeys

CallPairs(traces) ==
    UNION {{<<c.address, c.method>> : c \in traces[i].calls} : i \in DOMAIN traces}
LogPairs(traces) ==
    UNION {{<<l.address, l.topic>> : l \in traces[i].logs} : i \in DOMAIN traces}

FoundApart(f, pairs) == \E p, q \in pairs : p[1] \in f.addresses /\ q[2] \in f.signatures
Confused(f, pairs) == \E p \in pairs : p[2] \in f.addresses \/ p[1] \in f.signatures
Explains(f, pairs) == FoundApart(f, pairs) \/ Confused(f, pairs)

\* A call filter whose bitmap has a block either matches in it or is explained.
LEMMA CallFilterExplained ==
    ASSUME NEW f, NEW pairs, Sound(pairs), NEW n, n \in FilterBitmap(f, pairs, "C")
    PROVE  \/ \E i \in DOMAIN chain[n] : \E c \in chain[n][i].calls : CallMatches(f, c)
           \/ Explains(f, CallPairs(chain[n]))
<1> DEFINE Of(i) == chain[n][i].calls
<1>1. \A i \in DOMAIN chain[n] : \A c \in Of(i) :
          <<c.address, c.method>> \in CallPairs(chain[n])
  BY DEF CallPairs
<1>2. ASSUME NEW i \in DOMAIN chain[n], NEW c \in Of(i),
             c.method \in f.addresses \/ c.address \in f.signatures
      PROVE  Confused(f, CallPairs(chain[n]))
  <2>1. <<c.address, c.method>> \in CallPairs(chain[n])
    BY <1>1
  <2> QED BY <1>2, <2>1 DEF Confused
<1>3. ASSUME NEW S, n \in Bitmap({"C"} \X S, pairs)
      PROVE  \E i \in DOMAIN chain[n] : \E c \in Of(i) : c.address \in S \/ c.method \in S
  <2>1. PICK x \in S : <<"C", x>> \in Keys(chain[n])
    BY <1>3, BitmapIsSound
  <2>2. \E i \in DOMAIN chain[n] : \E c \in Of(i) : x \in {c.address, c.method}
    BY <2>1, KeyOfCall
  <2> QED BY <2>2
<1>4. CASE f.signatures = {}
  <2>1. n \in Bitmap({"C"} \X f.addresses, pairs)
    BY <1>4 DEF FilterBitmap
  <2>2a. PICK i \in DOMAIN chain[n] :
            \E c \in Of(i) : c.address \in f.addresses \/ c.method \in f.addresses
    BY <1>3, <2>1
  <2>2. PICK c \in Of(i) : c.address \in f.addresses \/ c.method \in f.addresses
    BY <2>2a
  <2>3. c.address \in f.addresses => CallMatches(f, c)
    BY <1>4 DEF CallMatches, MatchAddress, MatchMethod
  <2> QED BY <1>2, <2>2, <2>3 DEF Explains
<1>5. CASE f.signatures # {} /\ f.addresses = {}
  <2>1. n \in Bitmap({"C"} \X f.signatures, pairs)
    BY <1>5 DEF FilterBitmap
  <2>2a. PICK i \in DOMAIN chain[n] :
            \E c \in Of(i) : c.address \in f.signatures \/ c.method \in f.signatures
    BY <1>3, <2>1
  <2>2. PICK c \in Of(i) : c.address \in f.signatures \/ c.method \in f.signatures
    BY <2>2a
  <2>3. c.method \in f.signatures => CallMatches(f, c)
    BY <1>5 DEF CallMatches, MatchAddress, MatchMethod
  <2> QED BY <1>2, <2>2, <2>3 DEF Explains
<1>6. CASE f.signatures # {} /\ f.addresses # {}
  <2>1. n \in Bitmap({"C"} \X f.addresses, pairs) /\ n \in Bitmap({"C"} \X f.signatures, pairs)
    BY <1>6 DEF FilterBitmap
  <2>2a. PICK i \in DOMAIN chain[n] :
            \E c \in Of(i) : c.address \in f.addresses \/ c.method \in f.addresses
    BY <1>3, <2>1
  <2>2. PICK c \in Of(i) : c.address \in f.addresses \/ c.method \in f.addresses
    BY <2>2a
  <2>3a. PICK j \in DOMAIN chain[n] :
            \E d \in Of(j) : d.address \in f.signatures \/ d.method \in f.signatures
    BY <1>3, <2>1
  <2>3. PICK d \in Of(j) : d.address \in f.signatures \/ d.method \in f.signatures
    BY <2>3a
  <2>4. <<c.address, c.method>> \in CallPairs(chain[n])
        /\ <<d.address, d.method>> \in CallPairs(chain[n])
    BY <1>1
  <2>5. c.address \in f.addresses /\ d.method \in f.signatures
            => FoundApart(f, CallPairs(chain[n]))
    BY <2>4 DEF FoundApart
  <2> QED BY <1>2, <2>2, <2>3, <2>5 DEF Explains
<1> QED BY <1>4, <1>5, <1>6

LEMMA LogFilterExplained ==
    ASSUME NEW f, NEW pairs, Sound(pairs), NEW n, n \in FilterBitmap(f, pairs, "L")
    PROVE  \/ \E i \in DOMAIN chain[n] : \E l \in chain[n][i].logs : LogMatches(f, l)
           \/ Explains(f, LogPairs(chain[n]))
<1> DEFINE Of(i) == chain[n][i].logs
<1>1. \A i \in DOMAIN chain[n] : \A l \in Of(i) :
          <<l.address, l.topic>> \in LogPairs(chain[n])
  BY DEF LogPairs
<1>2. ASSUME NEW i \in DOMAIN chain[n], NEW l \in Of(i),
             l.topic \in f.addresses \/ l.address \in f.signatures
      PROVE  Confused(f, LogPairs(chain[n]))
  <2>1. <<l.address, l.topic>> \in LogPairs(chain[n])
    BY <1>1
  <2> QED BY <1>2, <2>1 DEF Confused
<1>3. ASSUME NEW S, n \in Bitmap({"L"} \X S, pairs)
      PROVE  \E i \in DOMAIN chain[n] : \E l \in Of(i) : l.address \in S \/ l.topic \in S
  <2>1. PICK x \in S : <<"L", x>> \in Keys(chain[n])
    BY <1>3, BitmapIsSound
  <2>2. \E i \in DOMAIN chain[n] : \E l \in Of(i) : x \in {l.address, l.topic}
    BY <2>1, KeyOfLog
  <2> QED BY <2>2
<1>4. CASE f.signatures = {}
  <2>1. n \in Bitmap({"L"} \X f.addresses, pairs)
    BY <1>4 DEF FilterBitmap
  <2>2a. PICK i \in DOMAIN chain[n] :
            \E l \in Of(i) : l.address \in f.addresses \/ l.topic \in f.addresses
    BY <1>3, <2>1
  <2>2. PICK l \in Of(i) : l.address \in f.addresses \/ l.topic \in f.addresses
    BY <2>2a
  <2>3. l.address \in f.addresses => LogMatches(f, l)
    BY <1>4 DEF LogMatches, MatchAddress, MatchEvent
  <2> QED BY <1>2, <2>2, <2>3 DEF Explains
<1>5. CASE f.signatures # {} /\ f.addresses = {}
  <2>1. n \in Bitmap({"L"} \X f.signatures, pairs)
    BY <1>5 DEF FilterBitmap
  <2>2a. PICK i \in DOMAIN chain[n] :
            \E l \in Of(i) : l.address \in f.signatures \/ l.topic \in f.signatures
    BY <1>3, <2>1
  <2>2. PICK l \in Of(i) : l.address \in f.signatures \/ l.topic \in f.signatures
    BY <2>2a
  <2>3. l.topic \in f.signatures => LogMatches(f, l)
    BY <1>5 DEF LogMatches, MatchAddress, MatchEvent
  <2> QED BY <1>2, <2>2, <2>3 DEF Explains
<1>6. CASE f.signatures # {} /\ f.addresses # {}
  <2>1. n \in Bitmap({"L"} \X f.addresses, pairs) /\ n \in Bitmap({"L"} \X f.signatures, pairs)
    BY <1>6 DEF FilterBitmap
  <2>2a. PICK i \in DOMAIN chain[n] :
            \E l \in Of(i) : l.address \in f.addresses \/ l.topic \in f.addresses
    BY <1>3, <2>1
  <2>2. PICK l \in Of(i) : l.address \in f.addresses \/ l.topic \in f.addresses
    BY <2>2a
  <2>3a. PICK j \in DOMAIN chain[n] :
            \E k \in Of(j) : k.address \in f.signatures \/ k.topic \in f.signatures
    BY <1>3, <2>1
  <2>3. PICK k \in Of(j) : k.address \in f.signatures \/ k.topic \in f.signatures
    BY <2>3a
  <2>4. <<l.address, l.topic>> \in LogPairs(chain[n])
        /\ <<k.address, k.topic>> \in LogPairs(chain[n])
    BY <1>1
  <2>5. l.address \in f.addresses /\ k.topic \in f.signatures
            => FoundApart(f, LogPairs(chain[n]))
    BY <2>4 DEF FoundApart
  <2> QED BY <1>2, <2>2, <2>3, <2>5 DEF Explains
<1> QED BY <1>4, <1>5, <1>6

\* Why a block is sent without transactions.
Explained(t, n) ==
    \/ \E f \in t.calls : Explains(f, CallPairs(chain[n]))
    \/ \E f \in t.logs : Explains(f, LogPairs(chain[n]))

\* What UnmatchedBlocksSkipped overlooks: an indexed block without a match is sent,
\* without transactions, only because the index keeps the addresses and the signatures
\* of a block together.  A filter wants both, and the block has its address in one call
\* (or log) and its signature in another; or what a filter takes for an address is a
\* signature in the block, or the reverse, as nobody looks at how long they are.
EmptyBlocksExplained ==
    CombinedStream =>
        \A b \in sent : (b.indexed /\ b.traces = << >>) => Explained(transform, b.number)

LEMMA EmptyIsExplained ==
    ASSUME SoundInv, chain \in Chains, NEW n \in FirstBlock..LastBlock, transform.kind = "combined",
           UsesIndex(n), Passes(n), Transform(transform, chain[n]).traces = << >>
    PROVE  Explained(transform, n)
<1>1. PICK file \in CoveringFiles(n) : n \in CombinedBitmap(transform, file.pairs)
  BY DEF Passes
<1>2. Sound(file.pairs)
  BY DEF CoveringFiles, SoundInv
<1>3. chain[n] \in Seq(Traces)
  BY FiltersAssumption
<1>4. \A i \in DOMAIN chain[n] : ~Matches(transform, chain[n][i])
  <2>1. Stripped(transform, chain[n]).traces = << >>
    BY DEF Transform
  <2> QED BY <1>3, <2>1, MatchIsKept
<1>5. ASSUME NEW f \in transform.calls, n \in FilterBitmap(f, file.pairs, "C")
      PROVE  Explained(transform, n)
  <2>1. \/ \E i \in DOMAIN chain[n] : \E c \in chain[n][i].calls : CallMatches(f, c)
        \/ Explains(f, CallPairs(chain[n]))
    BY <1>2, <1>5, CallFilterExplained
  <2> QED BY <1>4, <2>1 DEF Matches, Explained
<1>6. ASSUME NEW f \in transform.logs, n \in FilterBitmap(f, file.pairs, "L")
      PROVE  Explained(transform, n)
  <2>1. \/ \E i \in DOMAIN chain[n] : \E l \in chain[n][i].logs : LogMatches(f, l)
        \/ Explains(f, LogPairs(chain[n]))
    BY <1>2, <1>6, LogFilterExplained
  <2> QED BY <1>4, <2>1 DEF Matches, Explained
<1> QED BY <1>1, <1>5, <1>6 DEF CombinedBitmap

EmptyInv ==
    /\ chain \in Chains /\ FirstBlock <= next /\ next \in Nat
    /\ phase = "asking" => sent = {}
    /\ \A b \in sent : (transform.kind = "combined" /\ b.indexed /\ b.traces = << >>)
                           => Explained(transform, b.number)

LEMMA EmptyStep ==
    ASSUME SoundInv, EmptyInv, [Next]_vars
    PROVE  EmptyInv'
<1>1. CASE UNCHANGED <<chain, phase, transform, next, sent>>
  BY <1>1 DEF EmptyInv, Explained
<1>2. CASE \/ UNCHANGED vars \/ Merge
           \/ \E s \in Sizes : ProcessBlock(s)
           \/ \E s \in Sizes : \E n \in FirstBlock..LastBlock : RestartIndexer(s, n)
  BY <1>1, <1>2 DEF Merge, ProcessBlock, RestartIndexer, vars, streamVars
<1>3. CASE Ask
  <2>1. sent = {} /\ UNCHANGED <<chain, next, sent>>
    BY <1>3 DEF Ask, EmptyInv
  <2> QED BY <2>1 DEF EmptyInv
<1>4. CASE Pass
  <2> DEFINE out == Transform(transform, chain[next])
             block == [number |-> next, indexed |-> UsesIndex(next), traces |-> out.traces,
                       rest |-> out.rest]
  <2>1. /\ phase = "streaming" /\ next <= LastBlock
        /\ phase' \in {"streaming", "panicked"} /\ next' \in {next, next + 1}
        /\ sent' = IF Panics(next) \/ ~Passes(next) THEN sent ELSE sent \cup {block}
        /\ UNCHANGED <<chain, transform>>
    BY <1>4 DEF Pass
  <2>2. next \in FirstBlock..LastBlock /\ next' \in Nat /\ FirstBlock <= next'
    BY <2>1, FiltersAssumption DEF EmptyInv
  <2>3. block.number = next /\ block.indexed = UsesIndex(next) /\ block.traces = out.traces
    OBVIOUS
  <2> HIDE DEF block
  <2>4. ASSUME transform.kind = "combined", Passes(next), block.indexed,
               block.traces = << >>
        PROVE  Explained(transform, block.number)
    BY <2>2, <2>3, <2>4, EmptyIsExplained DEF EmptyInv
  <2>5. \A b \in sent' : b \in sent \/ (b = block /\ Passes(next))
    BY <2>1
  <2>6. \A b \in sent' : (transform.kind = "combined" /\ b.indexed /\ b.traces = << >>)
                             => Explained(transform, b.number)
    BY <2>4, <2>5 DEF EmptyInv
  <2>7. \A n : Explained(transform, n) => Explained(transform, n)'
    BY <2>1 DEF Explained
  <2> QED BY <2>1, <2>2, <2>6, <2>7 DEF EmptyInv
<1> QED BY <1>2, <1>3, <1>4 DEF Next

\* A block that an index covers and that has no match is sent, without transactions, only
\* because the index keeps the addresses and the signatures of a block together: the
\* exceptions to what the messages promise are these and no others.
THEOREM EmptyBlocksHaveAReason == Spec => []EmptyBlocksExplained
<1>1. Init => SoundInv /\ EmptyInv
  BY FiltersAssumption DEF Init, SoundInv, EmptyInv, NoFile, Sound
<1>2. SoundInv /\ EmptyInv /\ [Next]_vars => (SoundInv /\ EmptyInv)'
  BY SoundStep, EmptyStep
<1>3. EmptyInv => EmptyBlocksExplained
  BY DEF EmptyInv, EmptyBlocksExplained, CombinedStream
<1> QED BY <1>1, <1>2, <1>3, PTL DEF Spec
=============================================================================

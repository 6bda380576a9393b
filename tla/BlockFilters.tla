---------------------------- MODULE BlockFilters ----------------------------
(***************************************************************************)
(* src/transform: the filters a client asks of a Firehose stream.  A       *)
(* CombinedFilter STRIPS a block of the transactions that match none of    *)
(* its filters, and SKIPS whole blocks with the help of an index: files    *)
(* that EthCombinedIndexer builds from the merged blocks, while streams    *)
(* are being served.  A file only holds, for each key (an address, a       *)
(* method or the first topic of an event), the blocks in which the key is. *)
(*                                                                         *)
(* The indexer's files, the choice of the file that covers a block and the *)
(* stream are of the bstream library (external).                           *)
(***************************************************************************)
EXTENDS Integers, Sequences

CONSTANTS
    Nil, Empty,  \* no value; bytes of length 0
    Bytes,       \* addresses, methods and topics, with Empty
    FirstBlock, LastBlock, \* numbers of the blocks of the chain
    Chains,      \* chains to try: [FirstBlock..LastBlock -> Seq(transaction traces)]
    Requests,    \* of clients: flags of the tools, or a message
    IndexSizes,  \* possibleIndexSizes, in the order they are looked for
    MaxRestarts  \* bound on the restarts of indexers

Sizes == {IndexSizes[i] : i \in 1..Len(IndexSizes)}

Calls == [address: Bytes, method: (Bytes \ {Empty}) \cup {Nil}]
Logs == [address: Bytes, topic: Bytes \cup {Nil}]
Traces == [calls: SUBSET Calls, logs: SUBSET Logs]
Filters == [addresses: SUBSET Bytes, signatures: SUBSET Bytes]

ASSUME FiltersAssumption ==
    /\ FirstBlock \in Nat /\ LastBlock \in Nat /\ FirstBlock <= LastBlock /\ MaxRestarts \in Nat
    /\ Empty \in Bytes /\ Nil \notin Bytes
    /\ IndexSizes \in Seq(Nat \ {0})
    /\ Chains \subseteq [FirstBlock..LastBlock -> Seq(Traces)]
    /\ \A r \in Requests :
           /\ r.kind \in {"flags", "combined", "calls", "logs", "header"}
           /\ r.kind # "header" => \A f \in r.calls \cup r.logs : f.signatures \subseteq Bytes

VARIABLES
    chain,       \* the blocks: block n is chain[n]
    merged,      \* the blocks up to here are in merged-blocks files
    indexers,    \* by size: next block, and the file being built
    indexStore,  \* the files written
    restarts,
    request,     \* of the client
    phase,       \* "asking", "refused", "streaming" or "panicked"
    transform,   \* what the server made of the request
    next,        \* next block of the stream
    sent         \* blocks the client got

indexVars == <<merged, indexers, indexStore, restarts>>
streamVars == <<phase, transform, next, sent>>
vars == <<chain, request, indexVars, streamVars>>

NoFile(n) == [next |-> n, low |-> Nil, pairs |-> {}]

Init ==
    /\ chain \in Chains
    /\ merged = FirstBlock - 1
    /\ indexers = [s \in Sizes |-> NoFile(FirstBlock)]
    /\ indexStore = {} /\ restarts = 0
    /\ request \in Requests
    /\ phase = "asking" /\ transform = Nil /\ next = FirstBlock /\ sent = {}

-----------------------------------------------------------------------------
(***************************************************************************)
(* From the request to the filter.                                         *)
(***************************************************************************)
Refused == [kind |-> "refused"]
AllBlocks == [kind |-> "blocks"]
Header == [kind |-> "header"]
Combined(calls, logs, sendAll) ==
    [kind |-> "combined", calls |-> calls, logs |-> logs, sendAll |-> sendAll]

\* --call-filters and --log-filters hold, between commas, pieces that are empty (no
\* parts) or "addresses:signatures" (2 parts); empty bytes cannot be written there.
ParseFilter(pieces) ==
    {[addresses |-> p.addresses, signatures |-> p.signatures] :
        p \in {q \in pieces : q.parts # 0}}

ParseTransformFlags(flags) ==
    LET asked == flags.calls # {} \/ flags.logs # {} \/ flags.sendAll IN
    CASE \E p \in flags.calls \cup flags.logs : p.parts \notin {0, 2} -> Refused
      [] asked /\ flags.headerOnly -> Refused
      [] asked /\ ~flags.headerOnly ->
             Combined(ParseFilter(flags.calls), ParseFilter(flags.logs), flags.sendAll)
      [] ~asked -> IF flags.headerOnly THEN Header ELSE AllBlocks

NewCallToFilter(f) == f.addresses # {} \/ f.signatures # {}

NewLogFilter(f) == f.addresses # {} \/ f.signatures # {}

NewCombinedFilter(calls, logs, sendAll) ==
    IF (\A f \in calls : NewCallToFilter(f)) /\ (\A f \in logs : NewLogFilter(f))
    THEN Combined(calls, logs, sendAll) ELSE Refused

\* The factory of each message; those of the two older ones make a combined filter.
CombinedFilterTransform(m) ==
    IF m.calls = {} /\ m.logs = {} /\ ~m.sendAll THEN Refused
    ELSE NewCombinedFilter(m.calls, m.logs, m.sendAll)

MultiCallToFilterTransform(m) == NewCombinedFilter(m.calls, {}, FALSE)
MultiLogFilterTransform(m) == NewCombinedFilter({}, m.logs, FALSE)

NewTransform(m) ==
    CASE m.kind = "combined" -> CombinedFilterTransform(m)
      [] m.kind = "calls" -> MultiCallToFilterTransform(m)
      [] m.kind = "logs" -> MultiLogFilterTransform(m)
      [] m.kind \in {"header", "blocks", "refused"} -> m

Ask ==
    LET message == IF request.kind = "flags" THEN ParseTransformFlags(request) ELSE request
        t == NewTransform(message)
    IN  /\ phase = "asking"
        /\ transform' = t
        /\ phase' = IF t = Refused THEN "refused" ELSE "streaming"
        /\ UNCHANGED <<chain, request, indexVars, next, sent>>

-----------------------------------------------------------------------------
(***************************************************************************)
(* What a filter matches.                                                  *)
(***************************************************************************)
MatchAddress(f, address) == f.addresses = {} \/ address \in f.addresses

\* A call whose input is shorter than a method has none, and equals empty bytes.
MatchMethod(f, c) ==
    \/ f.signatures = {} \/ c.method \in f.signatures
    \/ c.method = Nil /\ Empty \in f.signatures

MatchEvent(f, l) == f.signatures = {} \/ l.topic \in f.signatures

CallMatches(f, c) == MatchAddress(f, c.address) /\ MatchMethod(f, c)
LogMatches(f, l) == MatchAddress(f, l.address) /\ MatchEvent(f, l)

Matches(t, trace) ==
    \/ \E f \in t.logs : \E l \in trace.logs : LogMatches(f, l)
    \/ \E f \in t.calls : \E c \in trace.calls : CallMatches(f, c)

\* rest: all of the block but its transactions and its header.
HeaderOnly == [traces |-> << >>, rest |-> FALSE]

Stripped(t, traces) ==
    LET kept[i \in 0..Len(traces)] ==
            IF i = 0 THEN << >>
            ELSE IF Matches(t, traces[i]) THEN Append(kept[i-1], traces[i]) ELSE kept[i-1]
    IN  [traces |-> kept[Len(traces)], rest |-> TRUE]

Transform(t, traces) ==
    CASE t.kind = "blocks" -> [traces |-> traces, rest |-> TRUE]
      [] t.kind = "header" -> HeaderOnly
      [] t.kind = "combined" -> Stripped(t, traces)

-----------------------------------------------------------------------------
(***************************************************************************)
(* The index.                                                              *)
(***************************************************************************)
CallKeysMutant(trace) ==
    {<<"C", c.address>> : c \in {d \in trace.calls : d.method = Nil}} \cup
    {<<"C", c.method>> : c \in {d \in trace.calls : d.method # Nil}}

CallKeys(trace) ==
    {<<"C", c.address>> : c \in trace.calls} \cup
    {<<"C", c.method>> : c \in {d \in trace.calls : d.method # Nil}}

LogKeys(trace) ==
    {<<"L", l.address>> : l \in trace.logs} \cup
    {<<"L", l.topic>> : l \in {k \in trace.logs : k.topic # Nil}}

Keys(traces) == UNION {CallKeys(traces[i]) \cup LogKeys(traces[i]) : i \in DOMAIN traces}

Low(n, size) == n - (n % size)

\* BlockIndexer.Add: a file is begun at a multiple of its size, or at the first block.
Add(index, size, n, keys) ==
    LET begun == index.low # Nil
        full == begun /\ n >= index.low + size
    IN  IF ~begun /\ n % size # 0 /\ n # FirstBlock THEN NoFile(n + 1)
        ELSE [next |-> n + 1,
              low |-> IF begun /\ ~full THEN index.low ELSE Low(n, size),
              pairs |-> (IF begun /\ ~full THEN index.pairs ELSE {}) \cup (keys \X {n})]

\* The file that is full is written when a block beyond it comes; an error of the
\* store is only logged.
ProcessBlock(s) ==
    LET index == indexers[s]
        n == index.next
        file == [size |-> s, low |-> index.low, pairs |-> index.pairs]
    IN  /\ n <= merged
        /\ indexers' = [indexers EXCEPT ![s] = Add(index, s, n, Keys(chain[n]))]
        /\ \/ indexStore' = indexStore
           \/ /\ index.low # Nil /\ n >= index.low + s
              /\ indexStore' = {f \in indexStore : f.size # s \/ f.low # index.low} \cup {file}
        /\ UNCHANGED <<chain, request, merged, restarts, streamVars>>

\* An indexer starts again, somewhere before the block it had come to.
RestartIndexer(s, n) ==
    /\ restarts < MaxRestarts /\ restarts' = restarts + 1
    /\ n \in FirstBlock..(indexers[s].next)
    /\ indexers' = [indexers EXCEPT ![s] = NoFile(n)]
    /\ UNCHANGED <<chain, request, merged, indexStore, streamVars>>

Merge ==
    /\ merged < LastBlock /\ merged' = merged + 1
    /\ UNCHANGED <<chain, request, indexers, indexStore, restarts, streamVars>>

-----------------------------------------------------------------------------
(***************************************************************************)
(* The stream.                                                             *)
(***************************************************************************)
Bitmap(keys, pairs) == {p[2] : p \in {q \in pairs : q[1] \in keys}}

\* filterBitmap: one of the two lists is never empty, or it panics.
FilterBitmap(f, pairs, prefix) ==
    LET addresses == Bitmap({prefix} \X f.addresses, pairs)
        signatures == Bitmap({prefix} \X f.signatures, pairs)
    IN  CASE f.signatures = {} -> addresses
          [] f.addresses = {} -> signatures
          [] f.addresses # {} /\ f.signatures # {} -> addresses \cap signatures

CombinedBitmap(t, pairs) ==
    UNION ({FilterBitmap(f, pairs, "L") : f \in t.logs} \cup
           {FilterBitmap(f, pairs, "C") : f \in t.calls})

HasIndexProvider(t) ==
    t.kind = "combined" /\ ~t.sendAll /\ (t.calls # {} \/ t.logs # {})

\* The first size of which there is a file around n.
CoveringFiles(n) ==
    LET Around(s) == {f \in indexStore : f.size = s /\ f.low = Low(n, s)}
        found == {i \in 1..Len(IndexSizes) : Around(IndexSizes[i]) # {}}
    IN  UNION {Around(IndexSizes[i]) : i \in {j \in found : \A k \in found : j <= k}}

\* Blocks that are not merged yet are live, and not looked up.
UsesIndex(n) == HasIndexProvider(transform) /\ n <= merged /\ CoveringFiles(n) # {}

Passes(n) ==
    UsesIndex(n) => \E f \in CoveringFiles(n) : n \in CombinedBitmap(transform, f.pairs)

\* filterBitmap's default case, when the file is read.
Panics(n) ==
    UsesIndex(n) /\ \E f \in transform.calls \cup transform.logs :
                        f.addresses = {} /\ f.signatures = {}

Pass ==
    /\ phase = "streaming" /\ next <= LastBlock
    /\ phase' = IF Panics(next) THEN "panicked" ELSE phase
    /\ next' = IF Panics(next) THEN next ELSE next + 1
    /\ LET out == Transform(transform, chain[next]) IN
       sent' = IF Panics(next) \/ ~Passes(next) THEN sent
               ELSE sent \cup {[number |-> next, indexed |-> UsesIndex(next),
                                traces |-> out.traces, rest |-> out.rest]}
    /\ UNCHANGED <<chain, request, indexVars, transform>>

Next ==
    \/ Ask \/ Pass \/ Merge
    \/ \E s \in Sizes : ProcessBlock(s)
    \/ \E s \in Sizes : \E n \in FirstBlock..LastBlock : RestartIndexer(s, n)

Spec == Init /\ [][Next]_vars

-----------------------------------------------------------------------------
SentNumbers == {b.number : b \in sent}
CombinedStream == phase = "streaming" /\ transform.kind = "combined"

TypeOK ==
    /\ chain \in Chains /\ merged \in (FirstBlock - 1)..LastBlock
    /\ DOMAIN indexers = Sizes
    /\ \A s \in Sizes :
           /\ indexers[s].next \in FirstBlock..(LastBlock + 1)
           /\ indexers[s].low \in {Nil} \cup {n \in 0..LastBlock : n % s = 0}
    /\ \A f \in indexStore :
           /\ f.size \in Sizes /\ f.low \in 0..LastBlock /\ f.low % f.size = 0
           /\ f.pairs \subseteq ({"C", "L"} \X Bytes) \X (f.low..(f.low + f.size - 1))
    /\ restarts \in 0..MaxRestarts
    /\ phase \in {"asking", "refused", "streaming", "panicked"}
    /\ (phase = "streaming") => transform.kind \in {"blocks", "header", "combined"}
    /\ next \in FirstBlock..(LastBlock + 1) /\ SentNumbers \subseteq FirstBlock..(next - 1)

\* The index never makes a stream lose a block in which a filter matches, however
\* far the indexers are, wherever they restarted and whatever was not written.
\* One match is not in the index: that of an empty signature with a call that has
\* no method.
NoMatchSkipped ==
    CombinedStream =>
        \A n \in FirstBlock..(next - 1) : \A i \in DOMAIN chain[n] :
            (\/ \E f \in transform.logs : \E l \in chain[n][i].logs : LogMatches(f, l)
             \/ \E f \in transform.calls : \E c \in chain[n][i].calls :
                    CallMatches(f, c) /\ (f.signatures = {} \/ c.method # Nil))
            => n \in SentNumbers

\* "If an block index covers a range containing a block that does NOT match any of the
\* filters, the block will be skipped altogether": what a stream gets of the blocks that
\* an index covers has a transaction that matches.
UnmatchedBlocksSkipped ==
    CombinedStream => \A b \in sent : b.indexed => b.traces # << >>

\* With send_all_block_headers, and for every stream that is not a combined filter,
\* every block is sent, whatever the index says.
HeadersNeverSkipped ==
    (phase = "streaming" /\ (transform.kind # "combined" \/ transform.sendAll))
        => SentNumbers = FirstBlock..(next - 1)

\* A stream gets every block that its request asks for: by a filter, or by its header.
WantedBlocksSent == NoMatchSkipped /\ HeadersNeverSkipped

\* No request that the server accepts makes filterBitmap panic.
NeverPanics == phase # "panicked"
=============================================================================

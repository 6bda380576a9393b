# Formal models of firehose-ethereum

This directory specifies, checks and proves properties of the program in `src/`:
the Ethereum side of Firehose. It reads what an instrumented node prints, turns it
into blocks, repairs those blocks, and offers tools and Substreams extensions
around them. The specifications are written in TLA+, checked on small instances
by TLC and, where the prover reaches, proved for every instance with TLAPS.

Contents: [inventory](#the-system), [modules](#modules-and-the-code),
[runs](#runs), [findings](#findings), [proofs](#proofs),
[left out](#what-is-not-modelled), [plan](#plan).

## The system

| part | source | state | operations |
|---|---|---|---|
| console reader | `codec/console_reader.go` | `parseCtx`: the block, transaction and call stack being read, the collected transactions and system calls, protocol flags | one handler for each line type; `ReadBlock` returns at END_BLOCK or BLOCK |
| block normalization | `codec/postprocess.go` | none: it rewrites the block it is given | combine Polygon system transactions, sort and renumber, pair logs, upgrade from version 2, propagate reverts |
| node and reader pipeline | `codec/console_reader.go:386-430` | the `lines` channel | `ProcessData` scans the node's output into it and closes it; `next` takes lines out |
| block messages | `types/pb/.../type.go` | none | accessors, firehose ids and times |
| Substreams eth_call engine | `substreams/rpccalls.go` | the list of RPC clients and the shared index of the current one | batched calls with retry, rolling to the next client |
| RPC block fetcher and poller | `blockfetcher/`, `cmd/fireeth/poller.go` | the latest height seen, the time of the last fetch | wait for the head, fetch a block, then its receipts from ten goroutines, convert |
| RPC polling tool | `cmd/fireeth/tools_poll_rpc_blocks.go` | the height it has come to | the same, for one height after another, printed as BLOCK lines |
| RPC conversion | `block/converter.go` | one ordinal counter | RPC answer to block |
| bootstrapper | `cmd/fireeth/reader_node_bootstraper.go` | the node's data directory | download genesis.json, run the init command, once |
| filters and block index | `transform/`, `tools_transform_flags.go` | files of the index: bitmaps of blocks by key | match transactions and strip the others; skip the blocks of which the index says no |
| peers enforcer | `cmd/fireeth/tools_geth_enforce_peers.go` | one `GethNode` shared by a monitor and an enforcer; the wanted peers | learn the node's enode and its peers, add wanted peers |
| repair and comparison tools | `cmd/fireeth/tools_*.go` | none between runs | rewrite ordinals and types in stored blocks, compare with RPC |

How they interact. An instrumented node prints lines. `ProcessData` pushes them in
a channel; the console reader's loop takes them out and calls the handler of each.
At END_BLOCK the reader calls `normalizeInPlace`, encodes the block and hands it
to the caller of `ReadBlock` (the reader node of firehose-core, not in this
repository). The RPC poller is another source of the same blocks. Everything
after that (merging, indexing, serving) is firehose-core's, with three parts of
this repository plugged in: the filters, the index and the eth_call engine. The
core of the program is thus the reader and the normalization: they hold its
state, and a mistake there is in every stored block. They are modelled first.

What is hard, and what makes each part correct:

* *Reader.* The node cancels blocks, skips and fails transactions at any moment,
  and restarts its protocol. Every handler resets a different part of the
  context, and guards test flags instead of the thing flagged. Correct means: a
  block that comes out holds its own transactions and system calls and nothing of
  what was abandoned; blocks come out once and in order; index-based writes reach
  the call they mean; the finalized block announced is not ahead.
* *Pipeline.* Two processes at their own pace, a bounded channel and a process
  that may go away. Correct means: what comes out is the sequence of blocks that
  the node completed, whole, and all of it in the end.
* *Normalization.* Passes that depend on each other's order, and messages shared
  by pointer. Correct means: ordinals follow execution and are unique, receipts
  pair with calls, a call is reverted exactly when it or a call around it failed,
  a merged transaction is a well-formed tree, and no reachable block panics.
* *eth_call engine.* Requests share an index without a lock; retries without a
  limit. Correct means: every attempt finds a client, an endpoint's failure or
  transient answer does not reach the module, and a cancelled request ends.
* *Fetcher and poller.* A block and each of its receipts are separate calls, on a
  chain that reorganises and an endpoint that fails or falls back. Correct means: a
  block has all its receipts and they are its own, an error has a reason, and a
  fetch ends.
* *Bootstrapper.* A crash between any two steps, and a directory as the only memory.
  Correct means: the node runs on its genesis, and a directory in use is spared.
* *Filters and index.* The index is built while it is used, by indexers that restart
  in the middle of a file, from keys that lose which call had which address. It may
  keep too much and never too little. Every way to ask must refuse what would panic.
* *Peers enforcer.* Two goroutines with one state, a node that restarts and peers
  that move. Correct means: it never adds the node to itself, and every wanted peer
  is connected again, whatever was lost.

`PROJECT.json` lists all hazards line by line with the properties that cover each.

## Modules and the code

```
SequenceOps --- Postprocess
EthBlock --- Postprocess --- ConsoleReader --- NodeReader --(implements)--> BlockStream
   |            |       LibNum  /     |   \           \
   |       Normalization       /      |    \           \
   |            |             /       |     ConsoleReaderProofs --- NodeReaderProofs
RPCBlock --- RPCComparison   /     MCConsoleReader, MCNodeReader
   |            |           /
   |      MCNormalization, NormalizationProofs      (of RPCComparison too)
   +------ BlockFetcher --+--- MCBlockFetcher, BlockFetcherProofs

Bootstrapper --- PeersEnforcer --- MCPeersEnforcer
                       |
               PeersEnforcerProofs                  (PeersEnforcer implements Bootstrapper)

BlockFilters --- MCBlockFilters, BlockFiltersProofs
RPCEngine --- MCRPCEngine, RPCEngineProofs

Postprocess, RPCBlock --- PostprocessProofs ---
                          ConsoleReaderProofs, NormalizationProofs, BlockFetcherProofs, BlockFiltersProofs
```

**EthBlock** has the messages: calls, transactions, logs, blocks, as records with
the fields that decide control flow or that a property relates. Amounts, code and
payloads are left out; what a log says is one model value, and each other change of
a call is its kind and its ordinal. The history fields `born` and `done` (during
which BEGIN_BLOCK a trace started and ended), and `trx` in a log (the identity of
the Go pointer, which merging shares between calls and receipt) are not in the
messages.

**LibNum** is the last-irreversible-block arithmetic of `console_reader.go:1407-1430`.

**Postprocess** is `codec/postprocess.go` as operators on blocks.
`NormalizeInPlace` runs the passes in the code's order, each result feeding the
next, and returns `ok = FALSE` where the code panics. The aliasing of the merged
transaction's logs is kept: a renumbering that visits calls and then receipts adds
its baseline twice to a shared log, as in Go. Recursion is written as recursive
functions, also in `Select` and `SortBy` of **SequenceOps** (the loops that pick and
`sort.Slice`), so that the passes can be proved about. `HeadParents` is the map of upgradeBlockV2ToV3 after each
call, and `WalkUp` where its inner loop ends.

**ConsoleReader** is `parseCtx`. One action per line type with the line's fields as
parameters; the guards are the handler's conditions in the handler's order, and
each error or panic branch is a disjunct that ends the reading (`status`), since
the caller stops at the first error. `Next` allows *any* line after any other, so
nothing about it rests on a well-behaved node. Variables have the names of the Go
fields. `currentRootCall` is a pointer in Go: here the hash of the trace whose
first call it points to, which is what can dangle. `highestOrdinalBeforeTransactions`
starts at -1 in Go's unsigned way; the addition of 1 that follows makes it 0.

**NodeReader** composes the reader with a node that behaves. The node is not in
this repository: it is modelled from the lines the handlers accept and from the
sessions recorded in `codec/testdata`, and marked external in the map. It executes
blocks of transactions, system calls, nested calls and logs, cancels blocks, skips
and fails transactions, and exits at any moment. It keeps what it really executed
beside the lines. Its outermost calls are CALL or CREATE: a delegate call is made by another
call. Both sides of the channel move on their own. It announces one of the
versions that the reader knows (`NodeAssumption`): on any other the reader stops at INIT.

**BlockStream** is the abstract promise: the node produces blocks; the same blocks
are delivered in order, never early. NodeReader implements it under the mapping
`Story`, which says in the node's terms what a returned block claims happened: the
transactions, their call trees, what failed, which calls kept their state, the
receipts.

**Normalization** runs `NormalizeInPlace` over every block that can be executed call
by call within the bounds, under every set of features (`Bounds` gives each its own),
and compares the result with definitions that do not follow the code's algorithm (for
example "it or a call around it failed").

**RPCBlock** is `block/converter.go`: an endpoint's block and receipts made into a
block, and `FixOrdinals`, what the repair tool does to it. **RPCComparison** composes
it with Normalization: the same execution once read from lines and once fetched from
the endpoint, and the comparison that `tools compare-blocks-rpc` makes of the two. The
blocks it compares have no system calls: `stripFirehoseBlock` keeps them and no endpoint
shows them, so that a block with any differs in any case. Receipts are those of Byzantium
and later, with a status.

**BlockFetcher** is `Fetch` and the loop of `poll-rpc-blocks`, which share
`FetchReceipts`. The chain of the endpoint grows and loses blocks between any two
calls, a call may fail, and the context may be cancelled. The loop over transactions,
its limit of goroutines, its stop at the first error, and each goroutine's retries are
steps of their own. What the chain lost it may take back (`Restore`), also while a fetch
goes on. `result`, `printed`, `reorgs`, `seen` and `kept` (the chain never lost the block
since it was fetched) are history.

**Bootstrapper** is `GenesisBootstrapper.Bootstrap`, cut at every step that leaves
something on the disk: the file is created, then written; init reads it, then writes
its database, then ends. A kill may come between any two, and the process is started
again on what is there. The node is external: on a directory that was not initialised
it makes one for its default network, and it takes its directory from the same
arguments, which `InitDirectory` (`findDataDirArgument`) reads in its own way. That the
directory in which the reader looks for files is the node's is an assumption
(`DataDirAssumption`): every configuration of the repository passes
`--datadir={node-data-dir}`.

**PeersEnforcer** adds the sidecar: `GethMonitor` and `GethPeersEnforcer` on the node
that Bootstrapper starts. Each call of the node or of the hosts is a step, and may fail
while the node runs, before or after the node took it; `enodeStr`
and `connectedPeers` are what the monitor was last told. Its lines "read without a
lock" need no step of their own: what is read there is a string that is replaced whole
under the one other writer, and the model lets the monitor write between any two steps
of the enforcer.

**BlockFilters** goes from the request (the flags of the tools, or one of the messages
a server accepts) to the transform, and from there to the blocks that the client gets.
Beside it run one indexer for each size, over the blocks merged so far: it writes a
file when a block beyond it comes, or fails to, and starts again anywhere before. The
format of files, the choice of the file that covers a block and the stream belong to
the bstream library and are marked external.

**RPCEngine** is `substreams/rpccalls.go`: several executions of `ethCall` over one
engine. `at` is where each one is; `rollRpcClient` is split at its reads and writes of
`currentRpcClientIndex` (`RollTest`, `RollReset`, `RollRead`, `RollWrite`), the loop of
`rpcCalls` at `DoRequests`. What an endpoint answers to a batch, and the
cancellation of a request, are the environment; delays are left out. `failures` and
`raced` are history.

The `MC*` modules only name constant values. An operator named `...Mutant` is a
plausible bug in the definition after it; nothing else uses it.

## Runs

| run | question | bounds | states, time |
|---|---|---|---|
| reader_blocks | does the context stay consistent however blocks, traces and sessions are abandoned? | 2 blocks, 2 traces, no call but the root, 2 heights and a distance of 1, versions 2.0, 3.0 and an unknown one | 1.0 M, 1.5 min |
| reader_calls | are calls found at their index, and logs numbered once? | 1 trace, indexes 0 to 2, stack of 2, 2 detail lines, no block completed | 1.4 M, 2 min |
| node_stream | does a node with its reader implement BlockStream, with one clock or one for each transaction, and is every completed block returned? | 2.2 and 2.4, 2 blocks, 2 traces, call trees of 2, one log, a reward in the first block, channel of 1 | 760 k, 2 min |
| norm | what does normalization do to every execution, and does the RPC block agree? | version 2: 4 calls in 2 transactions, delegate calls; 2.3: 3 calls, 2 logs, 2 rewards, reverts; Polygon: 3 transactions of 3 kinds, 4 calls, 1 or 2 logs | 1.9 M, 2.5 min |
| rpc_engine | what may concurrent eth_calls do to each other, and what reaches the module? | 2 requests, 2 clients, retry counts -1, 0 and 1, batches of 1 and 2 answers | 342 k, 40 s |
| fetcher | does a fetched block hold its receipts, whatever the chain and the endpoint do? | heights 1 and 3 of 3, 3 blocks mined, 2 reorganisations, 2 faults, 2 workers, 2 tries, blocks of 0 or 2 transactions | 1.0 M, 2.5 min |
| pod | does the node start on its genesis and get its peers, across kills and failures? | 1 kill, 1 fault, 1 wipe, 1 move or drop, 2 peers (one refused), 2 addresses, 3 lists of arguments | 391 k, 1.5 min |
| filters | can the index lose what a filter matches? | 4 blocks, sizes 4 and 2, 1 restart, 14 chains, every kind of request and filter | 1.9 M, 1.5 min |
| node_ordinals, norm_merged_logs, node_failed_blocks, filters_unmatched | expected violations, see Findings | | seconds |

Why these bounds. Two blocks and two traces are the least in which something of an
abandoned block or trace can reach another one, and what is kept across a block is
a finite set of fields that each handler sets or leaves, so a third block adds no
new way to reach a state. Two calls make a parent and a child and a stack of two;
four calls in Normalization make every shape with a delegate call under a delegate
call under a root, and siblings. Three transactions let a normal one stand between
or around two merged ones. The distance to finality is 1 (2 in the fetcher) where the
code has 200, so that both sides of the comparison are reached; the reader's proof is for
any distance. In reader_blocks three versions are the two that differ in what lines they
allow and one that is refused; the calls of a trace are left to reader_calls. Channel
length 1 already separates the node from the reader by a line: the node may print the end
of a block and exit before that line is read. A reward in the first block only (`Rewards`)
puts a block-level change before, between and after transactions. Two requests are the
least that race, two clients the least where the index can be right, last or past the
end; a retry count of 1 separates "no more" from "one more"; batches of two answers meet
in every order that the early end of the loop tells apart.

In the fetcher two workers are fewer than the goroutines a block could need only by
their sharing the loop; two transactions are the least whose receipts can come in
either order, a height of 3 leaves an irreversible block behind, and two
reorganisations with three blocks let a block go, another take its place and its
transactions, and the first come back, all while its receipts are fetched. In the pod, one of each misfortune already meets every other at every step; a
refused peer can come before or after the one that must be connected; the three lists
are the three answers `findDataDirArgument` can give. In the filters, files of size 2
and 4 over blocks 1 to 4 make a file that begins before the chain, one that is never
full, a block covered by either size, by both and by none; the chains have the address
and the method that a filter wants in one call, in two calls of one transaction, in two
transactions and across a call and a log. Every bound is a CONSTANT and a guard that
names it.

Deadlock is not checked: a session ends (an error, the end of the lines, the
exit of the node), a Normalization behaviour ends with its block, and bounded
counters stop the rest; in RPCEngine every request may have returned, in BlockFetcher the
context may be cancelled, in BlockFilters the stream ends with the chain.

Fairness. Four runs assume any. `node_stream`: weak fairness of `ReaderStep`. The reader
is a goroutine that loops on the channel and is enabled as long as there is a line
or the channel is closed (`CanRead`: in `FairNodeSpec` the weak fairness is written out with
it, since TLC computes ENABLED through the whole normalization of a block); nothing it does
can be disabled by the node. The node is
under no obligation: it may stop for ever in the middle of a block. `rpc_engine`: weak
fairness of `Advance(r)`, the steps of a request's own code, which block on nothing, and
the return of a `DoRequests` whose context was cancelled. No endpoint has to answer.
`fetcher`: weak fairness of `ProgramStep`; a call ends, in an answer or an error, since the
client's calls have the context and a transport that fails; the chain has to do nothing.
`pod`: weak fairness of the reader's own steps (the pod restarts a process that ended),
of the two loops of the sidecar, and of the node dialling what it was told to; and strong
fairness of each `PickPeer(p)`, since Go iterates a map in random order: without it, a
peer that is refused could end every round before the same other peer.

A run checks the type invariant of the reader; the other modules state theirs as well
(`TypeOK`, `NodeTypeOK`, `BootTypeOK`), proved where the table of proofs says so.
No run repeats what `PodSparesUsedDirectories`, `FiltersNeverPanic`,
`SystemCallsAreAccounted`, `EmptyBlocksHaveAReason` and `OneClientNeverPanics` prove.

What the properties say, beyond their comments in the modules:

* `RootCallIsCurrent`, `SystemCallFlag`, `TransactionsDistinct`: relations between
  fields that different handlers reset, none of which any handler tests.
* `TransactionsEndInTheirBlock`, `ReturnedInOrder`: nothing of one block comes out in
  another, whatever the lines. For system calls this is false (`SystemCallsInTheirBlock`,
  see Findings), and only after FAILED_APPLY_TRX (`SystemCallsAreAccounted`).
* `StackEmptyBetweenTransactions`: no handler resets the call stack. It is empty
  between transactions only because a well-behaved node's lines balance.
* `StreamsBlocks`: implementation of BlockStream. It includes that call parents and
  depths, found by the reader with its stack, are those of the real tree.
* `EveryBlockReturned`: also when the node exits right after END_BLOCK.
* `OrdinalsFollowExecution` and `TransactionsOrdered`: over parallel execution.
* `IndexInRangeUnlessRaced` excepts overlapping calls of `rollRpcClient`, which nothing
  prevents: where two overlap the index can pass the end of the list, and stays there, and
  every later attempt of every request panics in `rpcClient()`. What it shows is that there
  is no other way out of the list: requests may interleave anywhere else, and roll a client
  that another has already rolled away from. With one client there is no way at all
  (`OneClientNeverPanics`).
* `ForeverMeansForever`, `FailuresBounded`: when an endpoint's failure may reach the
  module. `TransientOnlyBehindTimeout`: when a transient answer may.
* `ReceiptsOfTheBlock`: nothing ties receipts to their block but the hope that the chain
  stayed, which has to be kept the whole time: a chain that loses the block, runs its
  transactions in another and takes it back gives receipts of both, and at the end nothing
  tells.
* `FetchFailsForAReason`: `latest` outlives calls, failures and reorganisations and still
  never makes `Fetch` ask for a block that was not there.
* `PrintedBlocksLink`: `poll-rpc-blocks` announces the block below as final. It is below
  the head that was answered, which the shadowed `latest` makes it ask for every time.
* `NodeRunsOnItsGenesis` names the only two ways out: a bootstrap of the directory that
  ended between the creation of genesis.json and the end of init (the next start takes
  the file for a bootstrapped node, and the node makes its default network), and a flag
  such as `--datadir.ancient` before `--datadir`.
* `NeverDialsItself`: the hosts may answer with the node's own enode at another address;
  the identity it is recognised by was read an unknown number of restarts ago.
* `PeersGetConnected`: a round that ends at the first refusal still reaches every peer.
* `WantedBlocksSent`: the index loses nothing but a match of an empty signature with a call
  without method. Keys are bytes of any length after a letter for their kind, and a request
  may name an address that is as long as a signature. What the index keeps in vain is in
  `UnmatchedBlocksSkipped` (see Findings) and `EmptyBlocksHaveAReason`: only blocks that
  have a filter's address and its signature in different calls, or that have the one where
  the other is meant.
* `ComparisonFlagsReverts`: the block of the lines and that of the endpoint agree in
  every log number, receipt, order and status, except reverted transactions. It says
  nothing of system calls, which only the first has.
* `CanceledRequestsEnd`: the retries of non-deterministic answers have no limit and do
  not look at the context; the request still ends, at the next `DoRequests`.

## Findings

Each is shown by a run whose property is a sentence of the repository's own documents.

* `OrdinalsUnique` (`postprocess.go:105`). From 2.3 on, system calls keep their
  ordinals while transactions are renumbered after the last *block-level change*,
  and the two can collide.
* `MergedLogsInside` (`postprocess.go:137`). The logs of a merged Polygon transaction,
  shared between calls and receipt, are shifted twice, beyond the end of their call.
* `SystemCallsInTheirBlock` (`console_reader.go:1019`). FAILED_APPLY_TRX resets the block,
  the transactions and the active trace, and keeps `systemCalls`, although the comment at
  375-379 says of it "we just reset everything": the system calls of the failed block come
  out with the next one. The theorem `SystemCallsAreAccounted` says that this is the only
  way in which they do.
* `UnmatchedBlocksSkipped` (`combined_filter.go:308`). `transforms.proto:13-18` says that a
  block that the index covers and that matches no filter is skipped altogether. The index
  of a block keeps all its addresses and all its signatures: a block with the address in
  one call and the method in another is sent, without any transaction.
  `EmptyBlocksHaveAReason` says which blocks these are.

Other observations, which have no run of their own:

* `postprocess.go:210`: merged Polygon transactions each number from 1 and are joined
  without a shift, which is another way to break `OrdinalsUnique`.
* `postprocess.go:140`: transactions are shifted by the last ordinal of the one before,
  which keeps ordinals apart only if each starts at 1. All node versions the
  recordings show do; `testdata/polygon_disordered.dmlog` has some that start at 0.
  `StartOrdinal = 0` in `Norm.cfg` shows it.
* `rpccalls.go:207`: the comment says that without retries `deterministic` is always
  false; the code and its test report true for a deterministic answer.
* `tools_poll_rpc_blocks.go:57`: the tool announces protocol 2.3 and prints BLOCK lines,
  which the reader refuses before protocol 3. Line 64 declares another `latest`.
* `tools_compare_blocks_rpc.go:337`: a reverted transaction is FAILED in the block from
  RPC, and the comparison reports it as a difference.
* `call_filter.go:104` and its twin for logs accept no filter and strip every block; the
  newer message refuses that. A call without method matches an empty signature, which
  the index does not hold.
* `tools_fix_ordinals.go:22` says that correct bundles are not rewritten; every bundle of
  the range is, and must have 100 blocks. `FixOrdinals` leaves correct ones as they are.
* `rpc.go:82` looks at an error that line 74 has returned, and `transform/helpers.go` is
  used by nothing.

## Proofs

All are proved for every value of the constants, and thus for any number of blocks,
traces, lines, requests, restarts or faults.

| module | theorem | property |
|---|---|---|
| ConsoleReaderProofs | TypeCorrect | `TypeOK` |
| | FlagCorrect | `SystemCallFlag` |
| | RootCallCorrect | `RootCallIsCurrent` |
| | TransactionsCollectedOnce | `TransactionsDistinct` |
| | TransactionsStayInTheirBlock | `TransactionsEndInTheirBlock` |
| | BlocksReturnedInOrder | `ReturnedInOrder` |
| | LibBehindBlock | `LibNotAhead` |
| | OnlyVersion3Returned | `ReturnedBlocksAreVersion3` |
| | CallsFoundByIndex | `CallsAtTheirIndex` |
| | LogsAreNumberedOnce | `LogsNumberedOnce` |
| NodeReaderProofs | NodeImplementsReader | NodeSpec implements the reader for any lines (`AnySpec`) |
| | NoLineRefused | no line is an error: the part of `ReaderAcceptsNode` that is not normalization's |
| | StackIsEmptyBetweenTransactions | `StackEmptyBetweenTransactions` |
| | SystemCallsAreAccounted | system calls of another block are those of a failed one: `SystemCallsAccounted` |
| | TransactionsAreOrdered | `TransactionsOrdered` |
| NormalizationProofs | RevertedIsInherited | `StateRevertedIsInherited` |
| | DelegateCallersFound | `DelegateCallers` |
| | OrdinalsFollow, where `StartOrdinal # 0` | `OrdinalsFollowExecution` |
| | BlocksAreWellCombined, where `CombinesSystem` | `WellCombined` |
| | NormalizationNeverPanics | `NeverPanics` |
| | ReceiptsStandForCalls | `ReceiptsMatchCalls` |
| | ComparisonFlagsOnlyReverts, where `CombinesSystem` | `ComparisonFlagsReverts` |
| RPCEngineProofs | TypeCorrect | types of the requests |
| | OneClientNeverPanics, where `NumClients = 1` | the index stays in the list: `IndexInRange` |
| | ForeverIsForever | `ForeverMeansForever` |
| | RetriesAreBounded | `FailuresBounded` |
| | TransientBehindTimeout | `TransientOnlyBehindTimeout` |
| BlockFetcherProofs | ReceiptsAreTheBlocks | `ReceiptsOfTheBlock` |
| | ReceiptsAreComplete | `NoReceiptIsMissing` |
| | FetchErrorsHaveAReason | `FetchFailsForAReason` |
| | PollerPrintsAChain | `PrintedBlocksLink` |
| | FetchedOrdinalsInOrder | `OrdinalsInOrder` |
| BlockFiltersProofs | WantedBlocksAreSent | `WantedBlocksSent` |
| | EmptyBlocksHaveAReason | why a covered block without a match is sent: `EmptyBlocksExplained` |
| | FiltersNeverPanic | nothing panics: `NeverPanics` |
| PeersEnforcerProofs | BootTypeCorrect | types of the bootstrap |
| | NodeOnItsGenesis | `NodeRunsOnItsGenesis` |
| | InitSparesUsedDirectories | init spares a directory in use unless it cannot be read: `InitOnFreshDirectory` |
| | PodImplementsBootstrap | the pod implements Bootstrapper |
| | PodOnItsGenesis, PodSparesUsedDirectories | the same two, in the pod |
| | NodeNeverDialsItself | `NeverDialsItself` |

Assumptions: the named ASSUME of each module, which the runs evaluate. They say that
bounds are naturals, that the lines' fields, requests and answers have their types, that
`Nil` is none of them; in Bootstrapper, that `--datadir` is there, followed by its value; in
NodeReader, that the node's version is one the reader knows.

PostprocessProofs has what the proofs of several components need. Induction over naturals is
stated for a set instead of a predicate (`NaturalsOf`), and what a recursive function
computes for a `step` that is a function (`RecursionFromZero`), so that both can be cited:
the functions by which the models flatten, filter or number a sequence are then known to
exist for sequences of any length, and invariants are carried along them.
`RecursionOnTree` is the same for a function that recurses from a call to its parent.
On these rest the facts about `FlattenSeq`, `Select` and `SortBy`: where each element of
the result comes from (`FlattenedAt`, `SelectInOrder`, `SortedInOrder`), that there is one
way to sort (`OneOrder`), and that what is flattened, picked or sorted in two parts is so
in the whole (`FlattenedInParts`, `JoinedOrder`). It also has what the passes of the
normalization do to transactions, whoever hands them over: what they keep of a call, that
transactions come out one after another (`NormalizedSequential`), that a list of logs
pairs with a receipt joined, flattened or sorted in the same way (`PairedFlattened`,
`PairedSorted`), and that each pass gives back the tree of calls it was given, the merged
transaction included (`MergedCalls`, `CombinedFamily`).

The argument for the reader. There are some thirty handlers with an average of three branches. They are
first reduced, once, to nine ways in which a step can move the context (`Step` in
`ConsoleReaderProofs`): a quiet step that changes at most the details of the active
trace, a session, block or trace that begins, a block that is abandoned, ends or
comes on one line, a trace that is dropped or ends. `NextType` shows under the type
invariant that every step of `Next` is one of the nine and keeps the types; this
is the bulk of the work, one lemma per family of handlers. After it hardly any proof looks
at a handler again. The theorems are proved of `AnySpec`, whose lines have any numbers in
them; `Spec`, whose lines the bounds restrict, is one of its instances (`SomeLines`), and so
is the reader behind a node.

* The type invariant is not inductive as it stands: TRX_FROM and index-0 lines write
  to the first call, so a trace must have one (`HasRootCall`).
* `TraceInv` ties the flag, the root call and the active trace; `currentRootCall` is
  unconstrained while no trace is active, which is why it may dangle.
* `HashInv` strengthens `TransactionsDistinct` by bounding hashes with `tracesSeen` and
  ordering the collected ones: without it two equal hashes could not be excluded
  when a trace ends.
* `BlockInv` carries a `seq` bound for everything returned (`Sound`): a block that ends
  has the sequence number `blocksSeen`, and only a later BEGIN_BLOCK exceeds it. The
  reason that stray transactions cannot enter a block is the guard of BEGIN_BLOCK,
  which needs an empty list.
* `VersionInv` says that a version 2 block in flight implies the upgrade flag. A lemma
  about `NormalizeInPlace` shows that it then comes out as version 3; no
  other pass of it touches the version.
* `CallsFoundByIndex` looks at what a step does to the calls of the active trace
  (`CallsStep`): it keeps the number of each, or appends one numbered by the length.
* `LogsAreNumberedOnce` must speak of logs in the order of their calls, which is not the
  order in which they came: `Counted` says that their numbers, as a set, are 0 up to the
  trace's counter, and that there are as many. A log added to any call keeps it
  (`OneMoreLog`).

For NodeReader. Node and reader are apart by the lines in the channel, so that no invariant
can compare them directly. A *view* is a position in the line protocol (phase, block, open
transaction, number of calls, stack of frames), and `After` says which line leads from which
view to which. `Follows` says that there is a *path*: a view for each line in the channel
and one more, each line leading from one to the next, the last being where the node is
(`NodeView`), and the first agreeing with the reader's context (`Agrees`). It is inductive:
a step of the node appends a view (`NodeSteps`, `NodeLeads`), a line that is read removes
one (`LinesAgree`, `ReaderFollows`).

* The reader's stack agrees with the view's frames, which are empty outside of a
  transaction; that is `StackIsEmptyBetweenTransactions`.
* No guard of a handler fails in a context that agrees with a view from which its line
  leads on (`NoLineRefused`). The panics that remain in `ReaderAcceptsNode` are those of
  normalization.
* `Accounts` says where the system calls held come from: the active block, or one that
  failed. FAILED_APPLY_TRX, which keeps them, is why the second case is there; a view
  carries the number of its block, so that the failure the node recorded is that of the
  block the reader gives up. Normalization takes nothing from and adds nothing to the
  system calls (`NormalizedBlock`).
* `Timekeeps` adds a tick to each view of the path, what the node's clock showed there: a
  line carries an ordinal above the tick before it and not above the one after it
  (`NodeTicks`). `Timely` is what the reader's context keeps with its own tick: the active
  trace begins after those collected, its calls are within it, and each call that is not
  on the stack has ended (`Opened`). Where each transaction starts its own clock
  the collected ones are only `Timed`, and it is the normalization that orders them; where
  the clock goes on through the block they must be ordered as they come, since nothing
  sorts them. `ReturnsInOrder` joins the two cases.

For Normalization. Two passes over a flat list have to find what is a fact of a tree.

* `NodeCalls` says what a list of calls is: every parent comes before its child, and a
  delegate call has a parent. On it `Undone` and `NotDelegate`, which recurse from call to
  parent, exist (`UndoneFacts`, `NotDelegateFacts`).
* `RevertedIsUndone`: when populateStateReverted reaches call i, the set of calls that it
  has reverted is the set of those below i that failed or have an ancestor that failed.
* `HeadsAreFound`: after k calls headParents has, for each delegate call up to k, its
  nearest ancestor that is not one, and nothing for the others. `WalkUpFacts` is why
  jumping through the map ends where walking up would.
* `Descends` says what is left of a transaction of the node between the two passes: the
  same hash and tree, the calls marked as `Undone` wants, the callers untouched. Each pass
  in between, whatever it sorts, merges or renumbers, carries it on (`Carried`:
  `ShiftCarries`, `StatusCarries`, `RetouchCarries`, `CombinedFamily`), for blocks of any
  size under any features; only the merged transaction descends from no other. `Becomes`
  is the outcome after the upgrade (`NormalizedBecomes`).
* `NodeInv` is what execution keeps: trees, open calls that exist, hashes that tell
  transactions apart, and once the block is normalized, `Outcome`: every transaction but
  the merged one is `Becomes` of one that was executed.
* `ClockInv` adds the clock: a transaction that runs has its ordinals from its first one
  up to the clock (`Running`), hence when it has ended they are between its first and its
  last (`Timed`). The passes leave that alone (`Keeps`) or shift it as a whole
  (`ShiftTimes`). After the sort, transactions are `InTurn`: each is shifted by the sum of
  the last ordinals before it (`BaselinesAre`) and begins after that, which is where the
  theorem needs that none begins at 0; what was observed above is then excluded.
* `PlaceInv` adds what the node prints: its transactions are of known kinds (`KnownTrx`), and
  unless they may come in any order the normal ones are counted from 0 as they
  come (`Counted`). `Ranked` is as much of it as the passes need.
  `LaidOut` is the form of a combined block, as three parts: the normal transactions, the
  merged one if there is one, the unmergeable ones renumbered after it; it is numbered
  (`LaidOutNumbered`) and every transaction in it `Comes` from one executed
  (`LaidOutPlacing`). A sort of transactions numbered by `RanksNumber` puts each at its
  index (`SortedPlaced`), and marking calls reverted leaves that alone (`RevertedPlaced`).
* That the merged calls form a tree is `MergedCalls`: the offset by which the calls of each
  transaction are shifted is what was appended before it (`OffsetsAre`), so a parent is
  shifted with its child (`Moved`), and a call without a parent goes to the root.
* `BlocksAreWellCombined` is stated for nodes that execute system transactions only
  when combining is on (`CombinesSystem`, which `EveryChain` satisfies): only Polygon's chain has such
  transactions, and the handler of INIT turns combining on for its client. Without it a
  block would keep the node's own indexes for them.

* `NeverPanics` compares two lists that different passes make: the receipts, transaction by
  transaction, and the logs of all calls that survive, sorted by ordinal. `Paired` says of
  one transaction that its receipt has the data of its kept logs in the order of their
  ordinals. `LogInv` is why it holds of every transaction that has ended (`Accounted`), with
  every log between its first ordinal and its last (`Emits`); and it has, unless the
  transactions are to be reordered, that none begins before the one before it ends.
  Marking the calls leaves the kept logs the ones that survive (`RevertReady`); renumbering
  shifts them with the transaction (`ShiftReady`).
* After the sort and the renumbering the transactions are a `Queue`: their logs are in
  disjoint intervals, one after another, and the combined ones are last. Then sorting all
  logs sorts each transaction by itself (`PairedFlattened`, `QueuePaired`), and receipts and
  numbered logs agree (`QueueNumbered`). The interval of a transaction begins after its
  first ordinal, which is why the theorem, unlike `OrdinalsFollow`, needs nothing of
  `StartOrdinal`.
* `ReceiptsMatchCalls` goes further: what is paired is the same log. The code tells logs
  apart by transaction and index (`SameLog`). `TraceInv` says that while a transaction runs,
  each of its logs has an index of its own, below the number of logs so far (`Wrote`); the
  receipt made at its end numbers its own afresh. So the logs of the calls are all
  different ones, those of the receipt too, and all are of that transaction (`Traced`).
  Every pass before the numbering keeps that (`Retraces`). The merged transaction has it
  with the hashes of those it is made of, and no transaction that is left has one of these
  (`Separate`, `CombinedSeparate`); it shares its logs with its receipt, which is why a
  shift of ordinals must take both along (`ShiftTraced`).
* A log that is numbered is then found once in all the calls and at one place of all the
  receipts (`DistinctLogs`, `OwnersAlike`). Of a system transaction it is the receipt that is
  numbered, of any other the calls, and the same is written on both sides
  (`RetouchStands`): the receipts come out numbered from one transaction to the next, each
  made of the logs of its own calls that survived (`Stood`). Validator transactions are the
  exception which the property names.
* The comparison with the endpoint (`ComparisonFlagsReverts`) rests on those. `ReadInv` says
  that, where nothing is combined, each transaction of the result still has the hash, the
  index, the recipient, the outcome of the root call and the data of the receipt of one that
  was executed (`Reads`, kept by each pass), and its status from that outcome (`Judged`).
  `PlaceInv` makes the result all of them, each at its index, so the endpoint shows the same
  transactions in the same order (`ExecutedFound`, `EndpointDisplays`). Then the number that
  the endpoint gives a log, the logs of the block before it, is the one `Stood` gives it
  (`LogsBeforeAre`, `TraceShown`), and what is stripped on both sides leaves the statuses to
  compare (`StrippedAlike`, `Compared`). `CombinesSystem` is needed here because system
  transactions all have index 0 until they are combined.

For RPCEngine:

* `OneClientInv`: with one client the test of `rollRpcClient` always holds, so that nobody
  comes to the line that adds one, and overlapping requests write 0 over 0. With more
  clients there is no invariant to prove: the lock is missing.
* `RetryInv` ties failures to attempts: a request that may still fail has fewer
  failures than attempts, up to the bound on counters.
* `CutAtTimeout` is the lemma on the loop over the answers: the least answer that is not
  deterministic exists because `<` is well-founded, and it is the timeout.

For BlockFetcher:

* `ChainInv`: a transaction is in one place of the chain, in one place of each block that
  the chain lost, and a block that comes back brings none that is there.
* `JobInv`: the map holds the receipts of the calls that are done, no more and no less,
  and those of the block as long as the chain never lost it (`kept`): that the chain has it
  again would not do. That the order of the goroutines
  does not matter is in it: it speaks of the set of those that are done.
* `HeadInv` and `TryInv` hold up to the first reorganisation since the height was
  answered (`Stable`): what `latest` promises is there, and a receipt that was not found
  was the endpoint's fault each time. `latest` of earlier fetches enters only through them.
* `PollInv`: until the chain loses a block, the last block printed is in it, below the
  head; `LinkInv` gives the next one its parent.
* `OrdinalsInOrder` is about one counter in two nested recursions: `ConvertedInOrder` and
  `TracesInOrder` carry it through logs and traces, `OrdinalsCount` through the flattening,
  and `FixedIsSame` shows that renumbering such a block is the identity.

For BlockFilters:

* `IndexInv`: every file, written or being built, holds all keys of every block from its
  beginning up to its end or the next block. It is inductive because an indexer only
  begins a file at a multiple of its size, or at the first block (`AddIsBuilding`); an
  indexer that began where it restarted would break it.
* `MatchInBitmap`: in a file that holds a block, every match of that block is in the
  bitmap of its filter, whichever of address and signature the filter has.
* `SoundInv` is the converse: a pair of a file is a key of its block. With `KeptExists`
  (transactions without a match are the only ones stripped) it gives
  `EmptyBlocksHaveAReason`. A filter's address and signature found apart are not the only
  reason: an address of the filter that is a signature in the block is in the bitmap too.
* `StreamInv` adds what the server makes of a request (`Accepted`): no filter without any
  criterion, which is why nothing panics.

For Bootstrapper and PeersEnforcer:

* `DirectoryInv` says for each step what an uninterrupted bootstrap has on the disk;
  `InitFindsDirectory` that init and the node agree on the directory (the first argument
  that begins with `--datadir` exists because a set of naturals has a least element).
* `SelfInv`: until the directory is first emptied, `enodeStr` is empty or has the node's
  identity, at every moment of every restart, since a node gets an identity once; so a
  candidate for admin_addPeer is never the node, even one that was looked up before the
  node went down.

Only model-checked: of NodeReader, `ReaderAcceptsNode` as far as normalization could panic,
and the implementation of BlockStream (which needs that normalization's recursive passes
give back the node's call tree and receipt); `IndexInRangeUnlessRaced`; and liveness.
Liveness under fairness and ENABLED are beyond the prover; `RECURSIVE` operators are avoided
so as not to lose it.

## What is not modelled

* In the reader: rates, metrics and the counters of parsed lines (nothing reads
  them back, but for the allocation of `ctx.stats`, which decides a panic and is
  modelled); amounts and payloads of changes; `ReadTransaction`, which only tests
  call. A conversion of a field that fails is the action `ReadMalformed`.
* In the normalization: `computePolygonHash`, the padding of signature points and
  the bloom filters are reduced to the identity of the merged transaction.
* Scanner errors (a line above 50 MiB): `ProcessData` returns without closing the
  channel, and what then stops the reader is outside this repository.
* Conversions of line fields and of header fields from RPC: what they compute decides
  no control flow.
* The walks of the repair tools over stores and the reports of the comparisons: a loop
  over files without state. `find-unknown-status` and `fix-any-type` rewrite one field.
* The head block that the peers' monitor logs, sleeps and delays everywhere.
* Generated code, flags, metrics, test helpers and scripts.

## Plan

Done, in the order of the plan: the messages, the normalization, the console reader and
its node; the eth_call engine; the fetcher and the poller; the bootstrapper; the filters
and their index; the peers enforcer; the comparison with RPC and the renumbering of
fix-ordinals; the proofs above.

Left:

1. `ReaderAcceptsNode` whole: that the reader hands to normalization the transactions of which
   `NormalizationNeverPanics` speaks.

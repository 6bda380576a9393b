------------------------------ MODULE RPCEngine ------------------------------
(***************************************************************************)
(* substreams/rpccalls.go: the eth_call extension of Substreams.  Modules  *)
(* that execute in parallel call ETHCall of the same engine; each call     *)
(* sends its batch to the current RPC client and moves every caller on to  *)
(* the next client when that one does badly.  The index of the current     *)
(* client is shared and not protected: each read and each write of         *)
(* rollRpcClient is a step.                                                *)
(*                                                                         *)
(* The RPC endpoints and the cancellation of a request are the             *)
(* environment.  Delays between attempts decide nothing and are left out.  *)
(***************************************************************************)
EXTENDS Integers, Sequences

CONSTANTS
    Requests,     \* executions of ethCall
    NumClients,   \* len(e.rpcClients)
    RetryCounts,  \* values of retryCount; -1 is for ever, the one production uses
    Inputs,       \* what a request carries: "garbled", "empty", "invalid" or "valid"
    Batches,      \* answers a client may give to the calls of a request
    MaxAttempts   \* the attempts and failures of a request are not counted further

Answer == {"ok", "reverted", "timeout", "transient"}

ASSUME EngineAssumption ==
    /\ NumClients \in Nat \ {0}
    /\ MaxAttempts \in Nat
    /\ RetryCounts \subseteq Nat \cup {-1}
    /\ \A n \in RetryCounts : n + 2 <= MaxAttempts
    /\ Inputs \subseteq {"garbled", "empty", "invalid", "valid"}
    /\ Batches \subseteq Seq(Answer)

VARIABLES
    currentRpcClientIndex,
    at,             \* where each request is
    retryCount,     \* argument of each request
    input,          \* argument of each request
    attemptNumber,
    canceled,       \* whether the context of the request was canceled
    read,           \* what the ++ of rollRpcClient read
    result,         \* what ethCall returned
    failures,       \* history: DoRequests calls that returned an error
    raced           \* history: two requests were in rollRpcClient at the same time

vars == <<currentRpcClientIndex, at, retryCount, input, attemptNumber, canceled, read,
          result, failures, raced>>
arguments == <<retryCount, input>>

Place == {"entry", "loop", "asking", "rolling", "zeroing", "reading", "writing", "done"}

InRoll(r) == at[r] \in {"rolling", "zeroing", "reading", "writing"}

NoResult == [kind |-> "none", answers |-> << >>, deterministic |-> FALSE]

Init ==
    /\ currentRpcClientIndex = 0
    /\ at = [r \in Requests |-> "entry"]
    /\ retryCount \in [Requests -> RetryCounts]
    /\ input \in [Requests -> Inputs]
    /\ attemptNumber = [r \in Requests |-> 0]
    /\ canceled = [r \in Requests |-> FALSE]
    /\ read = [r \in Requests |-> 0]
    /\ result = [r \in Requests |-> NoResult]
    /\ failures = [r \in Requests |-> 0]
    /\ raced = FALSE

Count(n) == IF n < MaxAttempts THEN n + 1 ELSE n

Goto(r, place) == at' = [at EXCEPT ![r] = place]

Return(r, kind, answers, deterministic) ==
    /\ Goto(r, "done")
    /\ result' = [result EXCEPT ![r] =
                     [kind |-> kind, answers |-> answers, deterministic |-> deterministic]]

\* ethCall: the cases it answers itself.
EthCall(r) ==
    /\ at[r] = "entry"
    /\ \/ input[r] = "garbled" /\ Return(r, "error", << >>, FALSE)
       \/ input[r] = "empty" /\ Return(r, "answers", << >>, FALSE)
       \/ input[r] = "invalid" /\ Return(r, "error", << >>, TRUE)
       \/ input[r] = "valid" /\ Goto(r, "loop") /\ UNCHANGED result
    /\ UNCHANGED <<currentRpcClientIndex, arguments, attemptNumber, canceled, read,
                   failures, raced>>

\* The head of rpcCalls' loop, and rpcClient(), which indexes the slice.
NextAttempt(r) ==
    /\ at[r] = "loop"
    /\ attemptNumber' = [attemptNumber EXCEPT ![r] = Count(@)]
    /\ \/ /\ currentRpcClientIndex < NumClients
          /\ Goto(r, "asking") /\ UNCHANGED result
       \/ /\ currentRpcClientIndex >= NumClients
          /\ Return(r, "panic", << >>, FALSE)
    /\ UNCHANGED <<currentRpcClientIndex, arguments, canceled, read, failures, raced>>

Roll(r) ==
    /\ Goto(r, "rolling")
    /\ raced' = (raced \/ \E q \in Requests \ {r} : InRoll(q))
    /\ UNCHANGED result

GivesUpMutant(r) == attemptNumber[r] > retryCount[r]

GivesUpLateMutant(r) ==
    retryCount[r] = 0 \/ (retryCount[r] > 0 /\ attemptNumber[r] > retryCount[r] + 1)

GivesUp(r) ==
    retryCount[r] = 0 \/ (retryCount[r] > 0 /\ attemptNumber[r] > retryCount[r])

CtxErrMutant(r) == canceled[r] /\ retryCount[r] > 0

CtxErr(r) == canceled[r]

\* DoRequests returns an error.
RequestsFail(r) ==
    /\ at[r] = "asking"
    /\ failures' = [failures EXCEPT ![r] = Count(@)]
    /\ \/ /\ GivesUp(r) \/ CtxErr(r)
          /\ Return(r, "error", << >>, FALSE)
          /\ UNCHANGED raced
       \/ /\ ~GivesUp(r) /\ ~CtxErr(r)
          /\ Roll(r)
    /\ UNCHANGED <<currentRpcClientIndex, arguments, attemptNumber, canceled, read>>

Deterministic(answer) == answer \in {"ok", "reverted"}

DeterministicRespMutant(batch) ==
    \/ \A i \in 1..Len(batch) : Deterministic(batch[i])
    \/ \E i \in 1..Len(batch) : batch[i] = "timeout"

\* The loop over the answers stops at the first one that is not deterministic;
\* when that is an EVM execution timeout, the batch is taken as deterministic.
DeterministicResp(batch) ==
    \A i \in 1..Len(batch) :
        (~Deterministic(batch[i]) /\ \A k \in 1..(i - 1) : Deterministic(batch[k]))
            => batch[i] = "timeout"

\* DoRequests returns answers; with a canceled context it does not.
RequestsAnswer(r, batch) ==
    /\ at[r] = "asking" /\ ~canceled[r]
    /\ \/ /\ retryCount[r] = 0 \/ DeterministicResp(batch)
          /\ Return(r, "answers", batch, DeterministicResp(batch))
          /\ UNCHANGED raced
       \/ /\ retryCount[r] # 0 /\ ~DeterministicResp(batch)
          /\ Roll(r)
    /\ UNCHANGED <<currentRpcClientIndex, arguments, attemptNumber, canceled, read,
                   failures>>

LastClientMutant == currentRpcClientIndex = NumClients

LastClient == currentRpcClientIndex = NumClients - 1

\* rollRpcClient: the test, then the reset or the increment.
RollTest(r) ==
    /\ at[r] = "rolling"
    /\ Goto(r, IF LastClient THEN "zeroing" ELSE "reading")
    /\ UNCHANGED <<currentRpcClientIndex, arguments, attemptNumber, canceled, read, result,
                   failures, raced>>

RollReset(r) ==
    /\ at[r] = "zeroing"
    /\ currentRpcClientIndex' = 0
    /\ Goto(r, "loop")
    /\ UNCHANGED <<arguments, attemptNumber, canceled, read, result, failures, raced>>

RollRead(r) ==
    /\ at[r] = "reading"
    /\ read' = [read EXCEPT ![r] = currentRpcClientIndex]
    /\ Goto(r, "writing")
    /\ UNCHANGED <<currentRpcClientIndex, arguments, attemptNumber, canceled, result,
                   failures, raced>>

Rolled(r) == read[r] + 1

RollWrite(r) ==
    /\ at[r] = "writing"
    /\ currentRpcClientIndex' = Rolled(r)
    /\ Goto(r, "loop")
    /\ UNCHANGED <<arguments, attemptNumber, canceled, read, result, failures, raced>>

\* The Substreams request is stopped or times out.
Cancel(r) ==
    /\ ~canceled[r]
    /\ canceled' = [canceled EXCEPT ![r] = TRUE]
    /\ UNCHANGED <<currentRpcClientIndex, at, arguments, attemptNumber, read, result,
                   failures, raced>>

Next ==
    \E r \in Requests :
        \/ EthCall(r) \/ NextAttempt(r)
        \/ RequestsFail(r)
        \/ \E batch \in Batches : RequestsAnswer(r, batch)
        \/ RollTest(r) \/ RollReset(r) \/ RollRead(r) \/ RollWrite(r)
        \/ Cancel(r)

Spec == Init /\ [][Next]_vars

\* What a request does by itself: its own code, and a DoRequests that a canceled
\* context interrupts.  An endpoint may well keep silent.
Advance(r) ==
    \/ EthCall(r) \/ NextAttempt(r)
    \/ RollTest(r) \/ RollReset(r) \/ RollRead(r) \/ RollWrite(r)
    \/ canceled[r] /\ RequestsFail(r)

FairSpec == Spec /\ \A r \in Requests : WF_vars(Advance(r))

-----------------------------------------------------------------------------
Result == [kind: {"none", "answers", "error", "panic"}, answers: Seq(Answer),
           deterministic: BOOLEAN]

\* Every field has its type; the index may be any number, as in Go.
TypeOK ==
    /\ currentRpcClientIndex \in Nat
    /\ at \in [Requests -> Place]
    /\ retryCount \in [Requests -> RetryCounts]
    /\ input \in [Requests -> Inputs]
    /\ attemptNumber \in [Requests -> 0..MaxAttempts]
    /\ canceled \in [Requests -> BOOLEAN]
    /\ read \in [Requests -> Nat]
    /\ result \in [Requests -> Result]
    /\ failures \in [Requests -> 0..MaxAttempts]
    /\ raced \in BOOLEAN

\* rpcClient() finds a client, and no request panicked on the index.
IndexInRange ==
    /\ currentRpcClientIndex < NumClients
    /\ \A r \in Requests : result[r].kind # "panic"

\* As long as no two requests were in rollRpcClient at the same time, the index of
\* the current client is one of the slice's and no request panics on it, whatever
\* else the requests do between its reads and its writes.
IndexInRangeUnlessRaced == ~raced => IndexInRange

\* A request that retries for ever returns an error for a valid input only when it
\* was canceled: no endpoint's failure reaches the Substreams module.
ForeverMeansForever ==
    \A r \in Requests :
        (retryCount[r] = -1 /\ input[r] = "valid" /\ result[r].kind = "error") => canceled[r]

\* "If retryCount is > 0, it will retry retryCount times": a request survives no more
\* than that many failures of DoRequests (attempts that end in a non-deterministic
\* answer are not failures, and are not limited).
FailuresBounded ==
    \A r \in Requests : retryCount[r] >= 0 => failures[r] <= retryCount[r] + 1

\* A transient answer reaches the module, under retries, only behind an EVM timeout
\* in the same batch: that is what the early end of the loop lets through.
TransientOnlyBehindTimeout ==
    \A r \in Requests :
        (retryCount[r] # 0 /\ result[r].kind = "answers") =>
            \A i \in 1..Len(result[r].answers) :
                result[r].answers[i] = "transient" =>
                    \E k \in 1..(i - 1) : result[r].answers[k] = "timeout"

\* A canceled request ends, although the loop looks at its context only after an
\* error of DoRequests.
CanceledRequestsEnd ==
    \A r \in Requests : canceled[r] ~> (at[r] = "done")
=============================================================================

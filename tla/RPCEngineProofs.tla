--------------------------- MODULE RPCEngineProofs ---------------------------
(***************************************************************************)
(* The safety of the eth_call engine, for any number of requests, clients  *)
(* and retries, and any answers.                                           *)
(***************************************************************************)
EXTENDS RPCEngine, WellFoundedInduction, TLAPS

LEMMA CountType ==
    ASSUME NEW n \in 0..MaxAttempts
    PROVE  Count(n) \in 0..MaxAttempts /\ Count(n) >= n /\ (n < MaxAttempts => Count(n) = n + 1)
BY EngineAssumption DEF Count

\* A request that returns keeps the types of the places and the results.
LEMMA ReturnType ==
    ASSUME TypeOK, NEW r \in Requests, NEW kind \in {"answers", "error", "panic"},
           NEW answers \in Seq(Answer), NEW det \in BOOLEAN, Return(r, kind, answers, det)
    PROVE  at' \in [Requests -> Place] /\ result' \in [Requests -> Result]
BY DEF TypeOK, Return, Goto, Place, Result

\* A request that returns sets its own result and no other.
LEMMA ReturnEffect ==
    ASSUME TypeOK, NEW r \in Requests, NEW kind, NEW answers, NEW det,
           Return(r, kind, answers, det)
    PROVE  /\ at'[r] = "done" /\ result'[r].kind = kind /\ result'[r].answers = answers
           /\ \A q \in Requests \ {r} : at'[q] = at[q] /\ result'[q] = result[q]
BY DEF Return, Goto, TypeOK

\* The types hold at first.
LEMMA TypeInit == Init => TypeOK
<1>1. NoResult \in Result
  <2>1. << >> \in Seq(Answer)
    OBVIOUS
  <2> QED BY <2>1 DEF NoResult, Result
<1>2. ASSUME Init
      PROVE  /\ attemptNumber \in [Requests -> 0..MaxAttempts]
             /\ failures \in [Requests -> 0..MaxAttempts]
             /\ result \in [Requests -> Result]
             /\ at \in [Requests -> Place]
             /\ canceled \in [Requests -> BOOLEAN]
             /\ read \in [Requests -> Nat]
  BY <1>1, <1>2, EngineAssumption DEF Init, Place
<1>3. Init => currentRpcClientIndex \in Nat
  BY DEF Init
<1>4. Init => raced \in BOOLEAN
  BY Zenon DEF Init
<1> QED BY <1>2, <1>3, <1>4, Zenon DEF Init, TypeOK

\* Every step keeps the types.
LEMMA TypeStep ==
    ASSUME TypeOK, [Next]_vars
    PROVE  TypeOK'
<1> USE DEF TypeOK
<1>0. CASE UNCHANGED vars
  BY <1>0 DEF vars
<1>1. ASSUME NEW r \in Requests, EthCall(r)
      PROVE  TypeOK'
  <2>1. << >> \in Seq(Answer)
    OBVIOUS
  <2>2. at' \in [Requests -> Place] /\ result' \in [Requests -> Result]
    BY <1>1, <2>1, ReturnType DEF EthCall, Goto, Place
  <2> QED BY <1>1, <2>2 DEF EthCall, arguments
<1>2. ASSUME NEW r \in Requests, NextAttempt(r)
      PROVE  TypeOK'
  <2>1. << >> \in Seq(Answer)
    OBVIOUS
  <2>2. at' \in [Requests -> Place] /\ result' \in [Requests -> Result]
    BY <1>2, <2>1, ReturnType DEF NextAttempt, Goto, Place
  <2>3. attemptNumber' \in [Requests -> 0..MaxAttempts]
    BY <1>2, CountType DEF NextAttempt
  <2> QED BY <1>2, <2>2, <2>3 DEF NextAttempt, arguments
<1>3. ASSUME NEW r \in Requests, RequestsFail(r)
      PROVE  TypeOK'
  <2>1. << >> \in Seq(Answer)
    OBVIOUS
  <2>2. at' \in [Requests -> Place] /\ result' \in [Requests -> Result]
    BY <1>3, <2>1, ReturnType DEF RequestsFail, Roll, Goto, Place
  <2>3. raced' \in BOOLEAN
    BY <1>3, Zenon DEF RequestsFail, Roll
  <2>4. failures' \in [Requests -> 0..MaxAttempts]
    BY <1>3, CountType DEF RequestsFail
  <2> QED BY <1>3, <2>2, <2>3, <2>4 DEF RequestsFail, arguments
<1>4. ASSUME NEW r \in Requests, NEW batch \in Batches, RequestsAnswer(r, batch)
      PROVE  TypeOK'
  <2>1. batch \in Seq(Answer) /\ DeterministicResp(batch) \in BOOLEAN
    BY EngineAssumption DEF DeterministicResp
  <2>2. at' \in [Requests -> Place] /\ result' \in [Requests -> Result]
    BY <1>4, <2>1, ReturnType DEF RequestsAnswer, Roll, Goto, Place
  <2>3. raced' \in BOOLEAN
    BY <1>4, Zenon DEF RequestsAnswer, Roll
  <2> QED BY <1>4, <2>2, <2>3 DEF RequestsAnswer, arguments
<1>5. ASSUME NEW r \in Requests, RollTest(r) \/ RollReset(r) \/ RollRead(r) \/ RollWrite(r)
      PROVE  TypeOK'
  BY <1>5 DEF RollTest, RollReset, RollRead, RollWrite, Rolled, Goto, Place, arguments
<1>6. ASSUME NEW r \in Requests, Cancel(r)
      PROVE  TypeOK'
  BY <1>6 DEF Cancel, arguments
<1> QED BY <1>0, <1>1, <1>2, <1>3, <1>4, <1>5, <1>6 DEF Next

\* The fields of the engine and the variables of its requests keep their types.
THEOREM TypeCorrect == Spec => []TypeOK
BY TypeInit, TypeStep, PTL DEF Spec

-----------------------------------------------------------------------------
(***************************************************************************)
(* The shared index.                                                       *)
(***************************************************************************)
\* With one client the test of rollRpcClient is always true: nobody reads the index to
\* add one to it, and whatever overlaps writes a 0 over a 0.
OneClientInv ==
    /\ TypeOK
    /\ currentRpcClientIndex = 0
    /\ \A r \in Requests : at[r] \notin {"reading", "writing"} /\ result[r].kind # "panic"

\* OneClientInv is kept by every step.
LEMMA OneClientStep ==
    ASSUME NumClients = 1, OneClientInv, [Next]_vars
    PROVE  OneClientInv'
<1>1. TypeOK /\ TypeOK'
  BY TypeStep DEF OneClientInv
<1> USE <1>1 DEF OneClientInv, TypeOK, Return, Goto
<1>0. CASE UNCHANGED vars
  BY <1>0 DEF vars
<1>2. ASSUME NEW r \in Requests, EthCall(r)
      PROVE  OneClientInv'
  <2>1. UNCHANGED <<currentRpcClientIndex>>
    BY <1>2 DEF EthCall
  <2>2. at'[r] \in {"loop", "done"} /\ \A q \in Requests \ {r} : at'[q] = at[q]
    BY <1>2 DEF EthCall
  <2>3. \A q \in Requests : result'[q].kind # "panic"
    BY <1>2 DEF EthCall
  <2> QED BY <2>1, <2>2, <2>3
<1>3. ASSUME NEW r \in Requests, NextAttempt(r)
      PROVE  OneClientInv'
  <2>1. ~(currentRpcClientIndex >= NumClients)
    OBVIOUS
  <2>2. Goto(r, "asking") /\ UNCHANGED <<currentRpcClientIndex, result>>
    BY <1>3, <2>1 DEF NextAttempt
  <2> QED BY <2>2
<1>4. ASSUME NEW r \in Requests, RequestsFail(r)
      PROVE  OneClientInv'
  <2>1. /\ UNCHANGED <<currentRpcClientIndex>>
        /\ Return(r, "error", << >>, FALSE) \/ Roll(r)
    BY <1>4, Zenon DEF RequestsFail
  <2>2. CASE Return(r, "error", << >>, FALSE)
    BY <2>1, <2>2
  <2>3. CASE Goto(r, "rolling") /\ UNCHANGED result
    BY <2>1, <2>3
  <2> QED BY <2>1, <2>2, <2>3, Zenon DEF Roll
<1>5. ASSUME NEW r \in Requests, NEW batch \in Batches, RequestsAnswer(r, batch)
      PROVE  OneClientInv'
  BY <1>5 DEF RequestsAnswer, Roll
<1>6. ASSUME NEW r \in Requests, RollTest(r)
      PROVE  OneClientInv'
  <2>1. LastClient
    BY DEF LastClient
  <2> QED BY <1>6, <2>1 DEF RollTest
<1>7. ASSUME NEW r \in Requests, RollReset(r)
      PROVE  OneClientInv'
  BY <1>7 DEF RollReset
<1>8. ASSUME NEW r \in Requests, RollRead(r) \/ RollWrite(r)
      PROVE  OneClientInv'
  BY <1>8 DEF RollRead, RollWrite
<1>9. ASSUME NEW r \in Requests, Cancel(r)
      PROVE  OneClientInv'
  BY <1>9 DEF Cancel
<1> QED BY <1>0, <1>2, <1>3, <1>4, <1>5, <1>6, <1>7, <1>8, <1>9 DEF Next

\* An engine with a single RPC client never panics on its index, however many requests
\* are in rollRpcClient at the same time and whatever they do between its reads and its
\* writes: the unprotected index needs no lock there.
THEOREM OneClientNeverPanics ==
    ASSUME NumClients = 1
    PROVE  Spec => []IndexInRange
<1>1. Init => OneClientInv
  BY TypeInit DEF Init, OneClientInv, NoResult
<1>2. OneClientInv => IndexInRange
  BY DEF OneClientInv, IndexInRange
<1>3. OneClientInv /\ [Next]_vars => OneClientInv'
  BY OneClientStep
<1> QED BY <1>1, <1>2, <1>3, PTL DEF Spec

-----------------------------------------------------------------------------
(***************************************************************************)
(* Retries.                                                                *)
(***************************************************************************)
\* Why a request got its result.
LEMMA Reasons ==
    ASSUME TypeOK, [Next]_vars, NEW q \in Requests, result'[q] # result[q]
    PROVE  \/ result'[q].kind = "panic"
           \/ result'[q].kind = "error" /\ (input[q] # "valid" \/ GivesUp(q) \/ CtxErr(q))
           \/ result'[q].kind = "answers" /\ result'[q].answers = << >>
           \/ /\ result'[q].kind = "answers" /\ result'[q].answers \in Batches
              /\ retryCount[q] = 0 \/ DeterministicResp(result'[q].answers)
<1> DEFINE Reason ==
           \/ result'[q].kind = "panic"
           \/ result'[q].kind = "error" /\ (input[q] # "valid" \/ GivesUp(q) \/ CtxErr(q))
           \/ result'[q].kind = "answers" /\ result'[q].answers = << >>
           \/ /\ result'[q].kind = "answers" /\ result'[q].answers \in Batches
              /\ retryCount[q] = 0 \/ DeterministicResp(result'[q].answers)
<1>1. ASSUME NEW r \in Requests, EthCall(r)
      PROVE  Reason
  <2>1. \/ Return(r, "error", << >>, FALSE) /\ input[r] # "valid"
        \/ Return(r, "answers", << >>, FALSE)
        \/ Return(r, "error", << >>, TRUE) /\ input[r] # "valid"
        \/ UNCHANGED result
    BY <1>1 DEF EthCall
  <2>2. CASE Return(r, "answers", << >>, FALSE)
    BY <2>2, ReturnEffect
  <2>3. ASSUME NEW det, Return(r, "error", << >>, det), input[r] # "valid"
        PROVE  Reason
    BY <2>3, ReturnEffect
  <2> QED BY <2>1, <2>2, <2>3
<1>2. ASSUME NEW r \in Requests, NextAttempt(r)
      PROVE  Reason
  <2>1. Return(r, "panic", << >>, FALSE)
    BY <1>2 DEF NextAttempt
  <2> QED BY <2>1, ReturnEffect
<1>3. ASSUME NEW r \in Requests, RequestsFail(r)
      PROVE  Reason
  <2>1. Return(r, "error", << >>, FALSE) /\ (GivesUp(r) \/ CtxErr(r))
    BY <1>3 DEF RequestsFail, Roll
  <2> QED BY <2>1, ReturnEffect
<1>4. ASSUME NEW r \in Requests, NEW batch \in Batches, RequestsAnswer(r, batch)
      PROVE  Reason
  <2>1. /\ Return(r, "answers", batch, DeterministicResp(batch))
        /\ retryCount[r] = 0 \/ DeterministicResp(batch)
    BY <1>4 DEF RequestsAnswer, Roll
  <2> QED BY <2>1, ReturnEffect
<1>5. ASSUME NEW r \in Requests,
             RollTest(r) \/ RollReset(r) \/ RollRead(r) \/ RollWrite(r) \/ Cancel(r)
      PROVE  Reason
  BY <1>5 DEF RollTest, RollReset, RollRead, RollWrite, Cancel
<1>6. ~UNCHANGED vars
  BY DEF vars
<1> HIDE DEF Reason
<1>7. Reason
  BY <1>1, <1>2, <1>3, <1>4, <1>5, <1>6 DEF Next
<1> QED BY <1>7 DEF Reason

\* The arguments never change, and a cancelled request stays so.
LEMMA ArgumentsStay ==
    ASSUME TypeOK, [Next]_vars
    PROVE  /\ retryCount' = retryCount /\ input' = input
           /\ \A r \in Requests : canceled[r] => canceled'[r]
<1>1. ASSUME NEW r \in Requests, Cancel(r)
      PROVE  /\ retryCount' = retryCount /\ input' = input
             /\ \A q \in Requests : canceled[q] => canceled'[q]
  BY <1>1 DEF Cancel, TypeOK, arguments
<1> QED BY <1>1 DEF Next, vars, arguments, EthCall, NextAttempt, RequestsFail, RequestsAnswer,
                    RollTest, RollReset, RollRead, RollWrite

\* ForeverMeansForever is kept by every step.
LEMMA ForeverStep ==
    ASSUME TypeOK, ForeverMeansForever, [Next]_vars
    PROVE  ForeverMeansForever'
<1>1. SUFFICES ASSUME NEW q \in Requests, retryCount'[q] = -1, input'[q] = "valid",
                      result'[q].kind = "error"
               PROVE  canceled'[q]
  BY DEF ForeverMeansForever
<1>2. retryCount[q] = -1 /\ input[q] = "valid" /\ (canceled[q] => canceled'[q])
  BY <1>1, ArgumentsStay
<1>3. CASE result'[q] = result[q]
  BY <1>1, <1>2, <1>3 DEF ForeverMeansForever
<1>4. CASE result'[q] # result[q]
  <2>1. GivesUp(q) \/ CtxErr(q)
    BY <1>1, <1>2, <1>4, Reasons
  <2> QED BY <1>2, <2>1 DEF GivesUp, CtxErr
<1> QED BY <1>3, <1>4

\* With retryCount -1, the only value production uses, a valid request that was not
\* cancelled never gets an error, however many attempts fail.
THEOREM ForeverIsForever == Spec => []ForeverMeansForever
<1>1. Init => ForeverMeansForever
  BY DEF Init, ForeverMeansForever, NoResult
<1> QED BY <1>1, TypeInit, TypeStep, ForeverStep, PTL DEF Spec

\* Failures follow attempts, and a request still on its way can fail once more.
RetryInv ==
    /\ TypeOK
    /\ FailuresBounded
    /\ \A r \in Requests :
          /\ failures[r] <= attemptNumber[r]
          /\ at[r] = "asking" /\ attemptNumber[r] < MaxAttempts => failures[r] < attemptNumber[r]
          /\ at[r] # "done" /\ retryCount[r] >= 0 => failures[r] <= retryCount[r]

\* RetryInv is kept by every step.
LEMMA RetryStep ==
    ASSUME RetryInv, [Next]_vars
    PROVE  RetryInv'
<1>0. TypeOK /\ TypeOK'
  BY TypeStep DEF RetryInv
<1> USE <1>0, EngineAssumption DEF RetryInv, FailuresBounded, TypeOK, Return, Goto, arguments
<1>1. CASE UNCHANGED vars
  BY <1>1 DEF vars
<1>2. ASSUME NEW r \in Requests, EthCall(r)
      PROVE  RetryInv'
  BY <1>2 DEF EthCall
<1>3. ASSUME NEW r \in Requests, NextAttempt(r)
      PROVE  RetryInv'
  BY <1>3 DEF NextAttempt, Count
<1>4. ASSUME NEW r \in Requests, RequestsFail(r)
      PROVE  RetryInv'
  <2>1. /\ at[r] = "asking" /\ attemptNumber' = attemptNumber /\ retryCount' = retryCount
        /\ failures' = [failures EXCEPT ![r] = Count(@)]
    BY <1>4 DEF RequestsFail
  <2>2. /\ \A q \in Requests \ {r} : at'[q] = at[q]
        /\ at'[r] = "done" \/ (at'[r] = "rolling" /\ ~GivesUp(r))
    <3>1. Goto(r, "done") \/ (Goto(r, "rolling") /\ ~GivesUp(r))
      BY <1>4, Zenon DEF RequestsFail, Roll, Return
    <3> QED BY <3>1
  <2>3. /\ failures[r] \in Nat /\ attemptNumber[r] \in Nat /\ retryCount[r] \in Nat \cup {-1}
        /\ failures[r] <= MaxAttempts /\ attemptNumber[r] <= MaxAttempts
        /\ retryCount[r] + 2 <= MaxAttempts
    <3>1. retryCount[r] \in RetryCounts
      OBVIOUS
    <3>2. retryCount[r] \in Nat \cup {-1} /\ retryCount[r] + 2 <= MaxAttempts
      BY <3>1
    <3>3. failures[r] \in 0..MaxAttempts /\ attemptNumber[r] \in 0..MaxAttempts
      OBVIOUS
    <3> QED BY <3>2, <3>3
  <2>4. failures'[r] = Count(failures[r]) /\ \A q \in Requests \ {r} : failures'[q] = failures[q]
    BY <2>1
  <2>5. failures'[r] <= attemptNumber[r] /\ failures'[r] <= failures[r] + 1
    BY <2>1, <2>3, <2>4 DEF Count
  <2>6. retryCount[r] >= 0 => failures'[r] <= retryCount[r] + 1
    <3>1. retryCount[r] >= 0 => failures[r] <= retryCount[r]
      BY <2>1
    <3>2. failures'[r] \in Nat
      BY <2>3, <2>4 DEF Count
    <3> QED BY <2>3, <2>5, <3>1, <3>2
  <2>7. retryCount[r] >= 0 /\ at'[r] # "done" => failures'[r] <= retryCount[r]
    <3>1. failures'[r] \in Nat
      BY <2>3, <2>4 DEF Count
    <3>2. retryCount[r] >= 0 /\ at'[r] # "done" => attemptNumber[r] <= retryCount[r]
      BY <2>2, <2>3 DEF GivesUp
    <3> QED BY <2>3, <2>5, <3>1, <3>2
  <2> QED BY <2>1, <2>2, <2>4, <2>5, <2>6, <2>7
<1>5. ASSUME NEW r \in Requests, NEW batch \in Batches, RequestsAnswer(r, batch)
      PROVE  RetryInv'
  BY <1>5 DEF RequestsAnswer, Roll
<1>6. ASSUME NEW r \in Requests, RollTest(r) \/ RollReset(r) \/ RollRead(r) \/ RollWrite(r)
      PROVE  RetryInv'
  BY <1>6 DEF RollTest, RollReset, RollRead, RollWrite
<1>7. ASSUME NEW r \in Requests, Cancel(r)
      PROVE  RetryInv'
  BY <1>7 DEF Cancel
<1> QED BY <1>1, <1>2, <1>3, <1>4, <1>5, <1>6, <1>7 DEF Next

\* A request with a retry count survives at most that many failures of DoRequests.
THEOREM RetriesAreBounded == Spec => []FailuresBounded
<1>1. ASSUME Init
      PROVE  RetryInv
  <2>1. ASSUME NEW r \in Requests
        PROVE  failures[r] = 0 /\ attemptNumber[r] = 0 /\ at[r] = "entry"
               /\ retryCount[r] \in Nat \cup {-1}
    BY <1>1, <2>1, EngineAssumption DEF Init
  <2>2. TypeOK
    BY <1>1, TypeInit
  <2> QED BY <2>1, <2>2 DEF RetryInv, FailuresBounded
<1>2. RetryInv => FailuresBounded
  BY DEF RetryInv
<1> QED BY <1>1, <1>2, RetryStep, PTL DEF Spec

-----------------------------------------------------------------------------
(***************************************************************************)
(* What is called deterministic.                                           *)
(***************************************************************************)
\* The loop over the answers: in a batch it calls deterministic, the first answer
\* that is not is a timeout, and every transient answer comes after it.
LEMMA CutAtTimeout ==
    ASSUME NEW batch \in Seq(Answer), DeterministicResp(batch),
           NEW i \in 1..Len(batch), batch[i] = "transient"
    PROVE  \E k \in 1..(i - 1) : batch[k] = "timeout"
<1> DEFINE Bad == {k \in 1..i : ~Deterministic(batch[k])}
<1>1. i \in Bad
  BY DEF Deterministic
<1>2. Bad \subseteq Nat /\ Bad # {}
  BY <1>1
<1>3. PICK k \in Bad : \A j \in Bad : <<j, k>> \notin OpToRel(<, Nat)
  <2> HIDE DEF Bad
  <2> QED BY <1>2, WFMin, NatLessThanWellFounded, Zenon
<1>4. \A j \in Bad : ~(j < k)
  BY <1>2, <1>3, Zenon DEF OpToRel
<1>5. \A j \in 1..(k - 1) : Deterministic(batch[j])
  BY <1>4
<1>6. batch[k] = "timeout"
  BY <1>5 DEF DeterministicResp
<1> QED BY <1>6

\* TransientOnlyBehindTimeout is kept by every step.
LEMMA TransientStep ==
    ASSUME TypeOK, TransientOnlyBehindTimeout, [Next]_vars
    PROVE  TransientOnlyBehindTimeout'
<1>1. SUFFICES ASSUME NEW q \in Requests, retryCount'[q] # 0, result'[q].kind = "answers"
               PROVE  \A i \in 1..Len(result'[q].answers) :
                         result'[q].answers[i] = "transient" =>
                            \E k \in 1..(i - 1) : result'[q].answers[k] = "timeout"
  BY DEF TransientOnlyBehindTimeout
<1>2. retryCount[q] # 0
  BY <1>1, ArgumentsStay
<1>3. CASE result'[q] = result[q]
  BY <1>1, <1>2, <1>3 DEF TransientOnlyBehindTimeout
<1>4. CASE result'[q] # result[q]
  <2>1. result'[q].answers = << >>
        \/ (result'[q].answers \in Batches /\ DeterministicResp(result'[q].answers))
    <3>1. result'[q].kind # "panic" /\ result'[q].kind # "error"
      BY <1>1
    <3> QED BY <1>2, <1>4, <3>1, Reasons, Zenon
  <2>2. CASE result'[q].answers = << >>
    BY <2>2
  <2>3. CASE result'[q].answers \in Batches /\ DeterministicResp(result'[q].answers)
    <3>1. result'[q].answers \in Seq(Answer)
      BY <2>3, EngineAssumption
    <3> QED BY <2>3, <3>1, CutAtTimeout
  <2> QED BY <2>1, <2>2, <2>3
<1> QED BY <1>3, <1>4

\* For batches of any length: under retries, a transient answer gets through only
\* behind an EVM timeout of the same batch.
THEOREM TransientBehindTimeout == Spec => []TransientOnlyBehindTimeout
<1>1. Init => TransientOnlyBehindTimeout
  BY DEF Init, TransientOnlyBehindTimeout, NoResult
<1> QED BY <1>1, TypeInit, TypeStep, TransientStep, PTL DEF Spec
=============================================================================

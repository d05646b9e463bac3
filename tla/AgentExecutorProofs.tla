------------------------ MODULE AgentExecutorProofs ------------------------
(***************************************************************************)
(* Theorems about AgentExecutor, for every set of request identifiers,     *)
(* every agent configuration and every batch size and iteration limit.     *)
(***************************************************************************)
EXTENDS AgentExecutor, TLAPS

-----------------------------------------------------------------------------
(* The operators the actions are built from.                               *)

\* Answering keeps the result counters within their bound.
LEMMA AnswerType ==
    ASSUME results \in [Ids -> 0..MaxResults]
    PROVE  \A S \in SUBSET Ids : Answer(S) \in [Ids -> 0..MaxResults]
BY DEF Answer, Bump, MaxResults

\* Answering marks the requests it is given and forgets no earlier result.
LEMMA AnswerMarks ==
    ASSUME results \in [Ids -> 0..MaxResults], NEW S, NEW r \in Ids
    PROVE  /\ r \in S => Answer(S)[r] > 0
           /\ results[r] > 0 => Answer(S)[r] > 0
           /\ r \notin S => Answer(S)[r] = results[r]
BY DEF Answer, Bump, MaxResults

\* Posting the entries of a status forgets no earlier result.
LEMMA PostedType ==
    ASSUME results \in [Ids -> 0..MaxResults],
           NEW f \in [Ids -> 0..MaxResults]
    PROVE  /\ Posted(f) \in [Ids -> 0..MaxResults]
           /\ \A r \in Ids : /\ results[r] > 0 => Posted(f)[r] > 0
                             /\ f[r] = 0 => Posted(f)[r] = results[r]
                             /\ results[r] = 0 => Posted(f)[r] = f[r]
BY DEF Posted, MaxResults

\* One more entry, and one more result given.
LEMMA BumpType ==
    ASSUME NEW f \in [Ids -> 0..MaxResults], NEW r \in Ids
    PROVE  /\ [f EXCEPT ![r] = Bump(@)] \in [Ids -> 0..MaxResults]
           /\ [f EXCEPT ![r] = Bump(@)][r] = Bump(f[r])
           /\ \A x \in Ids \ {r} : [f EXCEPT ![r] = Bump(@)][x] = f[x]
BY DEF Bump, MaxResults

\* A batch is a sequence of fresh identifiers.
LEMMA BatchType ==
    ASSUME NEW b \in Batches
    PROVE  b \in Seq(Ids) /\ Range(b) \subseteq Ids
<1>1. PICK n \in 1..MaxBatch : b \in [1..n -> Unused]
  BY DEF Batches
<1>2. n \in Nat
  BY <1>1, ConstantsAssumption
<1>3. b \in [1..n -> Ids]
  BY <1>1 DEF Unused
<1>4. b \in Seq(Ids)
  BY <1>2, <1>3
<1>5. Range(b) \subseteq Ids
  BY <1>3 DEF Range
<1>6. QED
  BY <1>4, <1>5

\* The elements of a queue are its head and the elements of its tail.
LEMMA RangeHeadTail ==
    ASSUME NEW s \in Seq(Ids), s # <<>>
    PROVE  /\ Head(s) \in Ids /\ Tail(s) \in Seq(Ids)
           /\ Range(s) = {Head(s)} \cup Range(Tail(s))
<1>1. Head(s) \in Ids /\ Tail(s) \in Seq(Ids)
  OBVIOUS
<1>2. /\ Len(s) \in Nat \ {0} /\ DOMAIN s = 1..Len(s)
      /\ DOMAIN Tail(s) = 1..(Len(s) - 1)
      /\ \A i \in 1..(Len(s) - 1) : Tail(s)[i] = s[i + 1]
      /\ Head(s) = s[1]
  OBVIOUS
<1>3. ASSUME NEW x \in Range(s) PROVE x \in {Head(s)} \cup Range(Tail(s))
  <2>1. PICK i \in 1..Len(s) : x = s[i]
    BY <1>2 DEF Range
  <2>2. CASE i = 1
    BY <1>2, <2>1, <2>2
  <2>3. CASE i # 1
    <3>1. i - 1 \in 1..(Len(s) - 1) /\ (i - 1) + 1 = i
      BY <1>2, <2>3
    <3>2. x = Tail(s)[i - 1]
      BY <1>2, <2>1, <3>1
    <3>3. QED
      BY <1>2, <3>1, <3>2 DEF Range
  <2>4. QED
    BY <2>2, <2>3
<1>4. ASSUME NEW x \in {Head(s)} \cup Range(Tail(s)) PROVE x \in Range(s)
  <2>1. CASE x = Head(s)
    BY <1>2, <2>1 DEF Range
  <2>2. CASE x \in Range(Tail(s))
    <3>1. PICK i \in 1..(Len(s) - 1) : x = Tail(s)[i]
      BY <1>2, <2>2 DEF Range
    <3>2. i + 1 \in 1..Len(s) /\ x = s[i + 1]
      BY <1>2, <3>1
    <3>3. QED
      BY <1>2, <3>2 DEF Range
  <2>3. QED
    BY <1>4, <2>1, <2>2
<1>5. QED
  BY <1>1, <1>3, <1>4

\* The statuses the executor builds are statuses.
LEMMA StatusType ==
    ASSUME NEW t \in StatusTypes
    PROVE  /\ Plain(t) \in Statuses
           /\ \A rs \in SUBSET Ids : Asking(t, rs) \in Statuses
           /\ \A k \in Subs : PassedOn(t, k) \in Statuses
BY DEF Plain, Asking, PassedOn, Statuses, Owners

-----------------------------------------------------------------------------
(* Type correctness.                                                       *)

LEMMA InitType == Init => TypeOK
<1>1. Plain("none") \in Statuses
  BY StatusType DEF StatusTypes
<1>2. SUFFICES ASSUME Init PROVE TypeOK
  OBVIOUS
<1>3. iter \in 0..MaxIterations /\ results \in [Ids -> 0..MaxResults]
  BY <1>2, ConstantsAssumption DEF Init, MaxResults
<1>4. /\ subStatus \in [Subs -> SubStatuses]
      /\ subAnswered \in [Subs -> BOOLEAN]
  BY <1>2 DEF Init, SubStatuses
<1>5. /\ kind \in [Ids -> AllKinds \cup {"none"}]
      /\ consent \in [Ids -> {"none", "asked", "confirmed", "rejected"}]
  BY <1>2 DEF Init
<1>6. /\ queue \in Seq(Ids) /\ current \in Ids \cup {NoId}
      /\ submitted \in [Ids -> 0..MaxResults]
      /\ given \in [Ids -> 0..MaxResults]
  BY <1>2 DEF Init, NoEntries, MaxResults
<1>7. QED
  BY <1>1, <1>2, <1>3, <1>4, <1>5, <1>6 DEF Init, TypeOK

\* Steps of the caller and steps that end an execution keep the types.
LEMMA OutsideType ==
    TypeOK /\ (Caller \/ Return \/ InterruptReturn \/ Interrupt) => TypeOK'
<1> SUFFICES ASSUME TypeOK, Caller \/ Return \/ InterruptReturn \/ Interrupt
             PROVE  TypeOK'
  OBVIOUS
<1> USE DEF TypeOK, loopVars, convVars, listVars, subVars
<1>1. CASE UserMessage
  BY <1>1 DEF UserMessage
<1>2. CASE SubmitToolResult
  <2>1. status.reqs \subseteq Ids
    BY DEF Statuses
  <2>2. /\ submitted' \in [Ids -> 0..MaxResults]
        /\ given' \in [Ids -> 0..MaxResults]
    <3>1. CASE status.owner = "self"
      <4>1. PICK r \in status.reqs :
               submitted' = [submitted EXCEPT ![r] = Bump(@)] /\ Give(r)
        BY <1>2, <3>1 DEF SubmitToolResult, Subs
      <4>2. QED
        BY <2>1, <4>1, BumpType DEF Give
    <3>2. CASE status.owner # "self"
      BY <1>2, <3>2 DEF SubmitToolResult
    <3>3. QED
      BY <3>1, <3>2
  <2>3. subAnswered' \in [Subs -> BOOLEAN]
    BY <1>2 DEF SubmitToolResult
  <2>4. QED
    BY <1>2, <2>2, <2>3 DEF SubmitToolResult
<1>3. CASE AppendToolResult
  <2>1. /\ results' \in [Ids -> 0..MaxResults]
        /\ given' \in [Ids -> 0..MaxResults]
    <3>1. CASE status.owner = "self"
      <4>1. PICK r \in status.reqs :
               /\ results' = Posted([submitted EXCEPT ![r] = Bump(@)])
               /\ Give(r)
        BY <1>3, <3>1 DEF AppendToolResult
      <4>2. r \in Ids
        BY DEF Statuses
      <4>3. QED
        BY <4>1, <4>2, BumpType, PostedType DEF Give
    <3>2. CASE status.owner # "self"
      BY <1>3, <3>2 DEF AppendToolResult
    <3>3. QED
      BY <3>1, <3>2
  <2>2. /\ submitted' \in [Ids -> 0..MaxResults]
        /\ subAnswered' \in [Subs -> BOOLEAN]
    <3>1. submitted' \in [Ids -> 0..MaxResults]
      BY <1>3 DEF AppendToolResult, NoEntries, MaxResults
    <3>2. \/ subAnswered' = subAnswered
          \/ subAnswered' = [k \in Subs |-> subAnswered[k] \/ status.owner = k]
      BY <1>3 DEF AppendToolResult
    <3>3. \A k \in Subs : (subAnswered[k] \/ status.owner = k) \in BOOLEAN
      OBVIOUS
    <3>4. QED
      BY <3>1, <3>2, <3>3
  <2>3. last' \in {"none", "user", "agent", "request", "result"}
    BY <1>3 DEF AppendToolResult
  <2>4. QED
    BY <1>3, <2>1, <2>2, <2>3 DEF AppendToolResult
<1>10. CASE AppendLateResult
  <2>1. status.reqs \subseteq Ids
    BY DEF Statuses
  <2>2. /\ results' \in [Ids -> 0..MaxResults]
        /\ given' \in [Ids -> 0..MaxResults]
    <3>1. CASE status.owner = "self"
      <4>1. PICK r \in status.reqs : results' = Answer({r}) /\ Give(r)
        BY <1>10, <3>1 DEF AppendLateResult
      <4>2. r \in Ids /\ {r} \in SUBSET Ids
        BY <2>1, <4>1
      <4>3. QED
        BY <4>1, <4>2, AnswerType, BumpType DEF Give
    <3>2. CASE status.owner # "self"
      BY <1>10, <3>2 DEF AppendLateResult
    <3>3. QED
      BY <3>1, <3>2
  <2>3. QED
    BY <1>10, <2>2 DEF AppendLateResult
<1>4. CASE DecideConfirmation
  BY <1>4 DEF DecideConfirmation, Statuses
<1>5. CASE Execute
  <2>1. /\ results' \in [Ids -> 0..MaxResults]
        /\ submitted' \in [Ids -> 0..MaxResults]
    BY <1>5, PostedType DEF Execute, NoEntries, MaxResults
  <2>2. 0 \in 0..MaxIterations
    BY ConstantsAssumption
  <2>3. QED
    BY <1>5, <2>1, <2>2 DEF Execute
<1>9. NoEntries \in [Ids -> 0..MaxResults]
  BY DEF NoEntries, MaxResults
<1>6. CASE Return
  BY <1>6, <1>9 DEF Return, SetStatus
<1>7. CASE InterruptReturn \/ Interrupt
  <2>1. Plain("interrupted") \in Statuses
    BY StatusType DEF StatusTypes
  <2>2. QED
    BY <1>7, <1>9, <2>1 DEF InterruptReturn, Interrupt, SetStatus
<1>8. QED
  BY <1>1, <1>2, <1>3, <1>4, <1>5, <1>6, <1>7, <1>10 DEF Caller

\* Steps of the loop around the tool calls keep the types.
LEMMA LoopType ==
    TypeOK /\ (TakeNextRequest \/ IterationLimit \/ Generation) => TypeOK'
<1> SUFFICES ASSUME TypeOK, TakeNextRequest \/ IterationLimit \/ Generation
             PROVE  TypeOK'
  OBVIOUS
<1> USE DEF TypeOK, loopVars, convVars, listVars, subVars
<1>1. CASE TakeNextRequest
  BY <1>1, RangeHeadTail DEF TakeNextRequest
<1>2. /\ Plain("user") \in Statuses /\ Plain("finished") \in Statuses
      /\ Plain("auth") \in Statuses /\ EndOfTurn \in Statuses
  BY StatusType DEF StatusTypes, EndOfTurn
<1>3. CASE IterationLimit
  BY <1>2, <1>3 DEF IterationLimit, ReturnWith
<1>4. CASE StartGeneration
  <2>1. iter + 1 \in 0..MaxIterations
    BY <1>4, ConstantsAssumption DEF StartGeneration
  <2>2. QED
    BY <1>2, <1>4, <2>1 DEF StartGeneration, ReturnWith
<1>5. CASE GenerateText
  BY <1>5 DEF GenerateText
<1>6. CASE GenerateRequests
  <2>0. PICK b \in Batches : \E ks \in [Range(b) -> Offered] :
           /\ kind' = [r \in Ids |-> IF r \in Range(b) THEN ks[r] ELSE kind[r]]
           /\ shown' = shown \cup Range(b)
           /\ queue' = b
    BY <1>6 DEF GenerateRequests
  <2>1. PICK ks \in [Range(b) -> Offered] :
           /\ kind' = [r \in Ids |-> IF r \in Range(b) THEN ks[r] ELSE kind[r]]
           /\ shown' = shown \cup Range(b)
           /\ queue' = b
    BY <2>0
  <2>2. queue' \in Seq(Ids) /\ shown' \subseteq Ids
    BY <2>1, BatchType
  <2>3. kind' \in [Ids -> AllKinds \cup {"none"}]
    <3>1. \A r \in Range(b) : ks[r] \in AllKinds
      BY <2>1, ConstantsAssumption DEF Offered
    <3>2. QED
      BY <2>1, <3>1
  <2>4. QED
    BY <1>6, <2>2, <2>3 DEF GenerateRequests
<1>7. CASE GenerationFails
  BY <1>7 DEF GenerationFails, Raise
<1>8. CASE Decided
  <2>1. last' \in {"none", "user", "agent", "request", "result"}
    BY <1>8 DEF Decided
  <2>2. ret' \in Statuses /\ handled' \in BOOLEAN
    BY <1>2, <1>8 DEF Decided, ReturnWith
  <2>3. pc' \in {"idle", "loop", "prompt", "decided", "return"}
    BY <1>8 DEF Decided, ReturnWith
  <2>4. QED
    BY <1>8, <2>1, <2>2, <2>3 DEF Decided
<1>9. QED
  BY <1>1, <1>3, <1>4, <1>5, <1>6, <1>7, <1>8 DEF Generation

\* Processing the current request keeps the types.
LEMMA ToolCallType == TypeOK /\ ToolCall => TypeOK'
<1> SUFFICES ASSUME TypeOK, ToolCall PROVE TypeOK'
  OBVIOUS
<1> USE DEF TypeOK, loopVars, convVars, listVars, subVars
<1>1. \A t \in StatusTypes : Plain(t) \in Statuses
  BY StatusType
<1>2. ASSUME NEW S \in SUBSET Ids, Answered(S)
      PROVE  /\ results' \in [Ids -> 0..MaxResults] /\ shown' \subseteq Ids
             /\ last' \in {"none", "user", "agent", "request", "result"}
             /\ current' \in Ids \cup {NoId}
  BY <1>2, AnswerType DEF Answered
<1>3. ASSUME NEW ks, Processing(ks)
      PROVE  /\ {current} \in SUBSET Ids
             /\ {current} \cup Range(queue) \in SUBSET Ids
  <2>1. Range(queue) \subseteq Ids
    BY DEF Range
  <2>2. QED
    BY <1>3, <2>1 DEF Processing
<1>4. ASSUME NEW role, current \in Ids, Post(current, role)
      PROVE  /\ results' \in [Ids -> 0..MaxResults] /\ shown' \subseteq Ids
             /\ last' \in {"none", "user", "agent", "request", "result"}
             /\ handled' \in BOOLEAN /\ stray' \subseteq Ids
  <2>1. {current} \in SUBSET Ids
    BY <1>4
  <2>2. QED
    BY <1>4, <2>1, AnswerType DEF Post
<1>5. ASSUME NEW k \in Subs, NEW s \in SubStatuses, SubBecomes(k, s)
      PROVE  /\ subStatus' \in [Subs -> SubStatuses]
             /\ subAnswered' \in [Subs -> BOOLEAN]
             /\ status' \in Statuses
  <2>1. status' \in Statuses
    BY <1>5 DEF SubBecomes, Detach, Statuses, Owners
  <2>2. QED
    BY <1>5, <2>1 DEF SubBecomes
<1>6. CASE RunServerTool
  <2>1. Plain("auth") \in Statuses
    BY <1>1 DEF StatusTypes
  <2>2. CASE Answered({current}) /\ UNCHANGED <<pc, ret>>
    BY <1>2, <1>3, <1>6, <2>2 DEF RunServerTool
  <2>3. CASE ReturnWith(Plain("auth")) /\ UNCHANGED <<listVars, current>>
    BY <1>6, <2>1, <2>3 DEF RunServerTool, ReturnWith
  <2>4. QED
    BY <1>6, <2>2, <2>3 DEF RunServerTool
<1>7. CASE ServerToolRaises
  BY <1>2, <1>3, <1>7 DEF ServerToolRaises, Raise
<1>8. CASE OutputNotCopyable \/ ConfirmationMissing
  BY <1>8 DEF OutputNotCopyable, ConfirmationMissing, Raise
<1>9. CASE AskConfirmation
  <2>1. Asking("confirm", {current}) \in Statuses
    BY <1>3, <1>9, StatusType DEF AskConfirmation, StatusTypes
  <2>2. QED
    BY <1>3, <1>9, <2>1 DEF AskConfirmation, ReturnWith
<1>10. CASE AnswerWithoutRunning
  BY <1>2, <1>3, <1>10 DEF AnswerWithoutRunning
<1>11. CASE RunClientTool
  <2>1. OpenClientRequests \in SUBSET Ids
    BY DEF OpenClientRequests
  <2>2. Asking("tool", OpenClientRequests) \in Statuses
    BY <2>1, StatusType DEF StatusTypes
  <2>3. QED
    BY <1>11, <2>2 DEF RunClientTool, ReturnWith
<1>12. CASE SubAnswers
  <2>1. kind[current] \in Subs /\ Answered({current})
    BY <1>12 DEF SubAnswers, Processing
  <2>2. \E s \in SubStatuses : SubBecomes(kind[current], s)
    <3>1. "absent" \in SubStatuses /\ "user" \in SubStatuses
      BY DEF SubStatuses, StatusTypes
    <3>2. QED
      BY <1>12, <3>1 DEF SubAnswers
  <2>3. QED
    BY <1>2, <1>3, <1>5, <1>12, <2>1, <2>2 DEF SubAnswers
<1>13. CASE SubRaises
  <2>1. /\ kind[current] \in Subs /\ "absent" \in SubStatuses
        /\ SubBecomes(kind[current], "absent")
        /\ Answered({current} \cup Range(queue))
    BY <1>13 DEF SubRaises, Processing, SubStatuses
  <2>2. QED
    BY <1>2, <1>3, <1>5, <1>13, <2>1 DEF SubRaises, Raise
<1>14. CASE SubYields
  <2>1. kind[current] \in Subs
    BY <1>14 DEF SubYields, Processing
  <2>2. PICK s \in {"tool", "confirm", "auth", "user", "interrupted"} :
           SubBecomes(kind[current], s)
           /\ ReturnWith(PassedOn(s, kind[current]))
    BY <1>14 DEF SubYields
  <2>3. s \in SubStatuses /\ s \in StatusTypes
    BY DEF SubStatuses, StatusTypes
  <2>4. ret' \in Statuses /\ pc' = "return"
    BY <2>1, <2>2, <2>3, StatusType DEF ReturnWith
  <2>5. QED
    BY <1>5, <1>14, <2>1, <2>2, <2>3, <2>4 DEF SubYields
<1>15. CASE SubmitOutputs \/ EndConversation
  <2>1. Plain("finished") \in Statuses
    BY <1>1 DEF StatusTypes
  <2>2. current \in Ids
    BY <1>15 DEF SubmitOutputs, EndConversation, Processing
  <2>3. \E role \in {"user", "assistant"} : Post(current, role)
    BY <1>15 DEF SubmitOutputs, EndConversation
  <2>4. /\ pc' \in {pc, "return"} /\ ret' \in Statuses
        /\ current' \in Ids \cup {NoId}
    BY <1>15, <2>1 DEF SubmitOutputs, EndConversation, ReturnWith
  <2>5. QED
    BY <1>4, <1>15, <2>2, <2>3, <2>4 DEF SubmitOutputs, EndConversation
<1>16. CASE EndConversationRefused \/ TalkToUserFails
  BY <1>16 DEF EndConversationRefused, TalkToUserFails, Raise
<1>17. CASE TalkToUser \/ TalkToUserMisused
  <2>1. shown' \subseteq Ids /\ stray' \subseteq Ids
    BY <1>17 DEF TalkToUser, TalkToUserMisused, RewriteLastMessage
  <2>2. EndOfTurn \in Statuses
    BY <1>1 DEF EndOfTurn, StatusTypes
  <2>3. /\ pc' \in {pc, "return", "idle"} /\ ret' \in Statuses
        /\ current' \in Ids \cup {NoId}
        /\ error' \in {error, "refused"} /\ handled' \in BOOLEAN
    BY <1>17, <2>2 DEF TalkToUser, TalkToUserMisused, ReturnWith, Raise
  <2>4. last' \in {"none", "user", "agent", "request", "result"}
    BY <1>17 DEF TalkToUser, TalkToUserMisused
  <2>5. QED
    BY <1>17, <2>1, <2>3, <2>4 DEF TalkToUser, TalkToUserMisused
<1>18. QED
  BY <1>6, <1>7, <1>8, <1>9, <1>10, <1>11, <1>12, <1>13, <1>14, <1>15, <1>16,
     <1>17 DEF ToolCall

LEMMA StepType == TypeOK /\ [Next]_vars => TypeOK'
<1>1. TypeOK /\ UNCHANGED vars => TypeOK'
  BY DEF TypeOK, vars, loopVars, convVars, listVars, subVars
<1>2. QED
  BY <1>1, OutsideType, LoopType, ToolCallType DEF Next, Run

\* Every reachable state of the agent conversation is well typed; in particular
\* the iteration counter never passes the configured limit.
THEOREM TypeCorrect == Spec => []TypeOK
BY InitType, StepType, PTL DEF Spec

-----------------------------------------------------------------------------
(* No request is forgotten.  The inductive invariant says where a request  *)
(* of the message list that has no result is: it is the current one or it  *)
(* waits in the queue, and both are empty when the LLM is prompted and     *)
(* after the exception of a tool or of a sub-component.                    *)

Pending(r) == r = current \/ r \in Range(queue)

Covered == \A r \in shown : Settled(r) \/ Pending(r)

NothingPending ==
    pc = "prompt" \/ error \in {"tool", "sub"} => current = NoId /\ queue = <<>>

RaisedIsIdle == error # "none" => pc = "idle"

CompleteInv == TypeOK /\ Covered /\ NothingPending /\ RaisedIsIdle

LEMMA InitComplete == Init => CompleteInv
BY InitType DEF Init, CompleteInv, Covered, NothingPending, RaisedIsIdle

\* Whatever keeps settled requests settled and pending ones pending or settled,
\* and shows no new request, keeps every request covered.
LEMMA KeepsCovered ==
    ASSUME Covered, shown' \subseteq shown,
           \A r \in shown' : Settled(r) => Settled(r)',
           \A r \in shown' : Pending(r) => Pending(r)' \/ Settled(r)'
    PROVE  Covered'
BY DEF Covered

\* The steps that leave the list of requests, the queue and the current request
\* alone, and forget no result.
LEMMA QuietSteps ==
    ASSUME CompleteInv,
           \/ Caller \/ Return \/ InterruptReturn \/ Interrupt
           \/ IterationLimit \/ StartGeneration \/ GenerateText
           \/ GenerationFails \/ Decided \/ OutputNotCopyable
           \/ AskConfirmation \/ ConfirmationMissing \/ SubYields
           \/ EndConversationRefused \/ TalkToUserFails
           \/ UNCHANGED vars
    PROVE  CompleteInv'
<1> USE DEF CompleteInv, loopVars, convVars, listVars, subVars, vars
<1>1. TypeOK'
  BY StepType DEF Next, Run, Generation, ToolCall
<1>2. shown' = shown /\ current' = current /\ queue' = queue /\ stray' = stray
  BY DEF Caller, UserMessage, SubmitToolResult, AppendToolResult, AppendLateResult,
         DecideConfirmation, Execute, Return, InterruptReturn, Interrupt,
         IterationLimit, StartGeneration, GenerateText, GenerationFails,
         Decided, OutputNotCopyable, AskConfirmation, ConfirmationMissing,
         SubYields, EndConversationRefused, TalkToUserFails
<1>3. results' = results \/ (\E S : results' = Answer(S))
      \/ \E f \in [Ids -> 0..MaxResults] : results' = Posted(f)
  <2>1. CASE AppendToolResult
    <3>1. \A r \in status.reqs :
             [submitted EXCEPT ![r] = Bump(@)] \in [Ids -> 0..MaxResults]
      BY BumpType DEF TypeOK, Statuses
    <3>2. QED
      BY <2>1, <3>1 DEF AppendToolResult
  <2>2. CASE Execute
    BY <2>2 DEF Execute, TypeOK
  <2>5. CASE AppendLateResult
    BY <2>5 DEF AppendLateResult
  <2>3. CASE ~AppendToolResult /\ ~Execute /\ ~AppendLateResult
    BY <2>3 DEF Caller, UserMessage, SubmitToolResult, DecideConfirmation,
         Return, InterruptReturn, Interrupt,
         IterationLimit, StartGeneration, GenerateText, GenerationFails,
         Decided, OutputNotCopyable, AskConfirmation, ConfirmationMissing,
         SubYields, EndConversationRefused, TalkToUserFails
  <2>4. QED
    BY <2>1, <2>2, <2>3, <2>5
<1>4. \A r \in shown' : Settled(r) => Settled(r)'
  BY <1>2, <1>3, AnswerMarks, PostedType DEF Settled, TypeOK
<1>5. \A r \in shown' : Pending(r) => Pending(r)'
  BY <1>2 DEF Pending
<1>6. Covered'
  BY <1>2, <1>4, <1>5, KeepsCovered
<1>7. /\ error' \in {"tool", "sub"} => error' = error
      /\ error' # "none" => pc' = "idle"
      /\ pc' = "prompt" => current = NoId /\ queue = <<>>
  BY DEF RaisedIsIdle, Caller, UserMessage, SubmitToolResult,
         AppendToolResult, AppendLateResult, DecideConfirmation, Execute, Return,
         InterruptReturn, Interrupt, SetStatus, IterationLimit, ReturnWith,
         StartGeneration, GenerateText, GenerationFails, Raise, Decided,
         OutputNotCopyable, AskConfirmation, ConfirmationMissing, SubYields,
         EndConversationRefused, TalkToUserFails, Processing,
         NothingPending
<1>8. QED
  BY <1>1, <1>2, <1>6, <1>7 DEF NothingPending, RaisedIsIdle

\* Posting results for the current request, or for it and the whole queue.
LEMMA AnsweredSteps ==
    ASSUME CompleteInv, pc = "loop",
           \/ Answered({current}) /\ queue' = queue
           \/ Answered({current} \cup Range(queue)) /\ queue' = <<>>,
           stray' = stray
    PROVE  Covered'
<1> USE DEF CompleteInv
<1>1. shown' = shown /\ (\E S : results' = Answer(S))
  BY DEF Answered
<1>2. \A r \in shown' : Settled(r) => Settled(r)'
  BY <1>1, AnswerMarks DEF Settled, TypeOK
<1>3. ASSUME NEW r \in shown', Pending(r) PROVE Pending(r)' \/ Settled(r)'
  <2>1. r \in Ids
    BY <1>1, <1>3 DEF TypeOK
  <2>2. CASE Answered({current}) /\ queue' = queue
    BY <1>3, <2>1, <2>2, AnswerMarks DEF Pending, Settled, Answered, TypeOK
  <2>3. CASE Answered({current} \cup Range(queue)) /\ queue' = <<>>
    <3>1. r \in {current} \cup Range(queue)
      BY <1>3 DEF Pending
    <3>2. QED
      BY <2>1, <2>3, <3>1, AnswerMarks DEF Settled, Answered, TypeOK
  <2>4. QED
    BY <2>2, <2>3
<1>4. QED
  BY <1>1, <1>2, <1>3, KeepsCovered

LEMMA AnsweringSteps ==
    ASSUME CompleteInv,
           \/ RunServerTool \/ ServerToolRaises \/ AnswerWithoutRunning
           \/ SubAnswers \/ SubRaises
    PROVE  CompleteInv'
<1> USE DEF CompleteInv, loopVars, convVars, listVars, subVars
<1>1. TypeOK'
  BY StepType DEF Next, Run, ToolCall
<1>2. pc = "loop" /\ stray' = stray
  BY DEF RunServerTool, ServerToolRaises, AnswerWithoutRunning, SubAnswers,
         SubRaises, Processing
<1>3. CASE RunServerTool /\ UNCHANGED current
  <2>1. shown' = shown /\ queue' = queue /\ results' = results
    BY <1>3, ConstantsAssumption
       DEF RunServerTool, Answered, Processing, TypeOK
  <2>2. QED
    BY <1>1, <1>2, <1>3, <2>1
       DEF RunServerTool, Processing, Answered, ReturnWith, Covered, Settled,
           Pending, NothingPending, RaisedIsIdle
<1>4. CASE ~(RunServerTool /\ UNCHANGED current)
  <2>1. \/ Answered({current}) /\ queue' = queue
        \/ Answered({current} \cup Range(queue)) /\ queue' = <<>>
    BY <1>4 DEF RunServerTool, ServerToolRaises, AnswerWithoutRunning,
                SubAnswers, SubRaises
  <2>2. Covered'
    BY <1>2, <2>1, AnsweredSteps
  <2>3. /\ error' # error => queue' = <<>> /\ current' = NoId /\ pc' = "idle"
        /\ pc' \in {"loop", "idle"}
        /\ error = "none"
    BY <1>2, <1>4, <2>1
       DEF RunServerTool, ServerToolRaises, AnswerWithoutRunning, SubAnswers,
           SubRaises, Raise, Answered, RaisedIsIdle, ReturnWith
  <2>4. QED
    BY <1>1, <2>2, <2>3 DEF NothingPending, RaisedIsIdle
<1>5. QED
  BY <1>3, <1>4

\* The built-in tools: the answer is posted or goes astray, or the request is
\* taken out of the list.
LEMMA BuiltinSteps ==
    ASSUME CompleteInv,
           \/ RunClientTool \/ SubmitOutputs \/ EndConversation
           \/ TalkToUser \/ TalkToUserMisused
    PROVE  CompleteInv'
<1> USE DEF CompleteInv, loopVars, convVars, listVars, subVars
<1>1. TypeOK'
  BY StepType DEF Next, Run, ToolCall
<1>2. /\ pc = "loop" /\ error = "none" /\ queue' = queue
      /\ shown' \subseteq shown /\ stray \subseteq stray'
  BY DEF RunClientTool, SubmitOutputs, EndConversation, TalkToUser,
         TalkToUserMisused, Processing, RaisedIsIdle, Post, RewriteLastMessage
<1>3. results' = results \/ (results' = Answer({current}) /\ shown' = shown)
  BY DEF RunClientTool, SubmitOutputs, EndConversation, TalkToUser,
         TalkToUserMisused, Post
<1>4. \A r \in shown' : Settled(r) => Settled(r)'
  <2>1. \A r \in shown' : r \in Ids
    BY <1>2 DEF TypeOK
  <2>2. QED
    BY <1>2, <1>3, <2>1, AnswerMarks DEF Settled, TypeOK
<1>5. ASSUME NEW r \in shown', r = current
      PROVE  current' = current \/ Settled(r)'
  <2>1. CASE RunClientTool
    BY <1>5, <2>1 DEF RunClientTool, Settled
  <2>2. CASE SubmitOutputs \/ EndConversation
    <3>1. Post(current, "user") \/ Post(current, "assistant")
      BY <2>2 DEF SubmitOutputs, EndConversation
    <3>2. r \in Ids
      BY <1>2, <1>5 DEF TypeOK
    <3>3. QED
      BY <1>5, <3>1, <3>2, AnswerMarks DEF Post, Settled, TypeOK
  <2>3. CASE TalkToUser \/ TalkToUserMisused
    <3>1. RewriteLastMessage
      BY <2>3 DEF TalkToUser, TalkToUserMisused
    <3>2. QED
      BY <1>2, <1>5, <3>1 DEF RewriteLastMessage, Settled
  <2>4. QED
    BY <2>1, <2>2, <2>3
<1>6. Covered'
  <2>1. \A r \in shown' : Pending(r) => Pending(r)' \/ Settled(r)'
    BY <1>2, <1>5 DEF Pending
  <2>2. QED
    BY <1>2, <1>4, <2>1, KeepsCovered
<1>7. error' \notin {"tool", "sub"} /\ pc' # "prompt"
      /\ (error' # "none" => pc' = "idle")
  BY <1>2 DEF RunClientTool, SubmitOutputs, EndConversation, TalkToUser,
         TalkToUserMisused, Raise, ReturnWith
<1>8. QED
  BY <1>1, <1>6, <1>7 DEF NothingPending, RaisedIsIdle

\* The queue changes hands: the next request becomes current, or a new batch
\* arrives when nothing is pending.
LEMMA QueueSteps ==
    ASSUME CompleteInv, TakeNextRequest \/ GenerateRequests
    PROVE  CompleteInv'
<1> USE DEF CompleteInv, loopVars, convVars, listVars, subVars
<1>1. TypeOK'
  BY StepType DEF Next, Run, Generation
<1>2. CASE TakeNextRequest
  <2>1. Range(queue) = {Head(queue)} \cup Range(Tail(queue))
    BY <1>2, RangeHeadTail DEF TakeNextRequest, TypeOK
  <2>2. \A r \in shown : Pending(r) => Pending(r)'
    BY <1>2, <2>1, ConstantsAssumption
       DEF TakeNextRequest, Pending, TypeOK
  <2>3. shown' = shown /\ (\A r : Settled(r) => Settled(r)')
    BY <1>2 DEF TakeNextRequest, Settled
  <2>4. Covered'
    BY <2>2, <2>3 DEF Covered
  <2>5. QED
    BY <1>1, <1>2, <2>4
       DEF TakeNextRequest, NothingPending, RaisedIsIdle
<1>3. CASE GenerateRequests
  <2>1. PICK b \in Batches : shown' = shown \cup Range(b) /\ queue' = b
    BY <1>3 DEF GenerateRequests
  <2>2. current = NoId /\ queue = <<>> /\ Range(queue) = {}
    BY <1>3 DEF GenerateRequests, NothingPending, Range
  <2>3. \A r \in shown : Settled(r)
    <3>1. \A r \in shown : r # NoId
      BY ConstantsAssumption DEF TypeOK
    <3>2. QED
      BY <2>2, <3>1 DEF Covered, Pending
  <2>4. Covered'
    BY <1>3, <2>1, <2>3 DEF GenerateRequests, Covered, Settled, Pending
  <2>5. QED
    BY <1>1, <1>3, <2>4
       DEF GenerateRequests, NothingPending, RaisedIsIdle
<1>4. QED
  BY <1>2, <1>3

LEMMA StepComplete == CompleteInv /\ [Next]_vars => CompleteInv'
BY QuietSteps, AnsweringSteps, BuiltinSteps, QueueSteps
   DEF Next, Run, Generation, ToolCall, Caller

LEMMA Complete == Spec => []CompleteInv
BY InitComplete, StepComplete, PTL DEF Spec

LEMMA NothingOpen ==
    ASSUME CompleteInv, pc = "prompt" \/ error \in {"tool", "sub"}
    PROVE  \A r \in shown : Settled(r)
<1>1. current = NoId /\ Range(queue) = {}
  BY DEF CompleteInv, NothingPending, Range
<1>2. \A r \in shown : r # NoId
  BY ConstantsAssumption DEF CompleteInv, TypeOK
<1>3. QED
  BY <1>1, <1>2 DEF CompleteInv, Covered, Pending

\* Whatever tools an agent has, however many requests its LLM makes, and however
\* its executions are interrupted, fail and are resumed, the LLM is never
\* prompted with a request that was neither answered nor lost to another status.
THEOREM PromptIsComplete == Spec => []PromptComplete
<1>1. CompleteInv => PromptComplete
  BY NothingOpen DEF PromptComplete
<1>2. QED
  BY <1>1, Complete, PTL

\* Nor does the exception of a tool or of a sub-component leave one behind.
THEOREM RaiseIsComplete == Spec => []RaiseLeavesNothingOpen
<1>1. CompleteInv => RaiseLeavesNothingOpen
  BY NothingOpen DEF RaiseLeavesNothingOpen
<1>2. QED
  BY <1>1, Complete, PTL

-----------------------------------------------------------------------------
(* No request is answered twice.  The caller is asked for requests that    *)
(* have no result, and keeps that right until the status is handled; a     *)
(* request the agent answers itself has no result while it is pending.     *)

OnceKinds == ServerKinds \cup Subs \cup {"unknown"}

Distinct ==
    /\ current \notin Range(queue)
    /\ \A i, j \in DOMAIN queue : queue[i] = queue[j] => i = j

Fresh == \A r \in Ids : kind[r] = "none" => /\ r \notin shown /\ ~Pending(r)
                                            /\ results[r] = 0

InList == /\ Range(queue) \subseteq shown
          /\ current # NoId /\ kind[current] \notin TalkKinds
                => current \in shown

\* A pending request was not yet answered by the executor.
Zero == \A r \in Ids :
           Pending(r) => /\ kind[r] \in OnceKinds => results[r] = 0
                         /\ kind[r] = "client" => results[r] <= given[r]

Open(rs) == \A r \in rs : /\ r \in shown /\ results[r] = 0
                          /\ kind[r] \in ClientKinds

Waiting == status.type = "tool" /\ status.owner = "self" /\ ~handled

WaitingInv == Waiting => /\ pc = "idle" /\ Open(status.reqs)
                         /\ \A r \in Ids \ status.reqs : submitted[r] = 0
                         /\ current \in status.reqs

\* The caller is asked, and gives results, for client requests only.
Asked(s) == s.type = "tool" /\ s.owner = "self"
               => \A r \in s.reqs : kind[r] \in ClientKinds
AskedInv == /\ Asked(status) /\ (pc = "return" => Asked(ret))
            /\ \A r \in Ids : submitted[r] <= given[r]

ReturnInv == pc = "return" /\ ret.type = "tool" /\ ret.owner = "self"
                => Open(ret.reqs) /\ current \in ret.reqs

OnceInv == /\ CompleteInv /\ Distinct /\ Fresh /\ InList /\ Zero
           /\ WaitingInv /\ ReturnInv /\ AskedInv /\ AnsweredOnce

LEMMA InitOnce == Init => OnceInv
<1>1. SUFFICES ASSUME Init PROVE OnceInv
  OBVIOUS
<1>2. CompleteInv /\ Range(queue) = {}
  BY <1>1, InitComplete DEF Init, Range
<1>3. Distinct /\ InList
  BY <1>1, <1>2 DEF Init, Distinct, InList
<1>4. Fresh /\ Zero /\ AnsweredOnce
  BY <1>1, <1>2, ConstantsAssumption
     DEF Init, Fresh, Zero, AnsweredOnce, Pending, NoEntries, Skips
<1>5. WaitingInv /\ ReturnInv /\ AskedInv
  BY <1>1 DEF Init, WaitingInv, Waiting, ReturnInv, Plain, AskedInv, Asked,
              NoEntries
<1>6. QED
  BY <1>2, <1>3, <1>4, <1>5 DEF OnceInv

\* Results that the caller gave to client requests.
LEMMA CallerAnswers ==
    ASSUME OnceInv, UNCHANGED <<shown, kind, queue, current>>,
           \A r \in Ids :
              \/ results'[r] = results[r] /\ given[r] <= given'[r]
              \/ /\ kind[r] \in ClientKinds
                 /\ \A n \in {0, 1} : results[r] <= given[r] + n
                                        => results'[r] <= given'[r] + n
           , given' \in [Ids -> 0..MaxResults]
    PROVE  Fresh' /\ Zero' /\ AnsweredOnce'
<1> USE DEF OnceInv, CompleteInv
<1>1. "none" \notin ClientKinds /\ ClientKinds \cap OnceKinds = {}
  BY DEF ClientKinds, BuiltinKinds, OnceKinds, ServerKinds, Subs
<1>2. \A r \in Ids : /\ given[r] \in Nat /\ given'[r] \in Nat
                     /\ results[r] \in Nat
  BY DEF TypeOK, MaxResults
<1>3. Skips \in {0, 1}
  BY DEF Skips
<1>4. Fresh'
  BY <1>1 DEF Fresh, Pending
<1>5. Zero'
  <2>1. ASSUME NEW r \in Ids, Pending(r)'
        PROVE  /\ kind[r] \in OnceKinds => results'[r] = 0
               /\ kind[r] = "client" => results'[r] <= given'[r]
    <3>1. Pending(r)
      BY <2>1 DEF Pending
    <3>2. CASE results'[r] = results[r] /\ given[r] <= given'[r]
      BY <1>2, <3>1, <3>2 DEF Zero
    <3>3. CASE /\ kind[r] \in ClientKinds
               /\ results[r] <= given[r] + 0 => results'[r] <= given'[r] + 0
      BY <1>1, <1>2, <3>1, <3>3 DEF Zero
    <3>4. QED
      BY <3>2, <3>3
  <2>2. QED
    BY <2>1 DEF Zero
<1>6. AnsweredOnce'
  <2>1. ASSUME NEW r \in Ids
        PROVE  /\ kind[r] \in OnceKinds => results'[r] <= 1
               /\ kind[r] = "client" => results'[r] <= given'[r] + Skips
    <3>1. /\ kind[r] \in OnceKinds => results[r] <= 1
          /\ kind[r] = "client" => results[r] <= given[r] + Skips
      BY DEF AnsweredOnce, OnceKinds
    <3>2. CASE results'[r] = results[r] /\ given[r] <= given'[r]
      BY <1>2, <1>3, <3>1, <3>2
    <3>3. CASE /\ kind[r] \in ClientKinds
               /\ results[r] <= given[r] + Skips
                     => results'[r] <= given'[r] + Skips
      BY <1>1, <3>1, <3>3
    <3>4. QED
      BY <1>3, <3>2, <3>3
  <2>2. Skips' = Skips
    BY DEF Skips
  <2>3. QED
    BY <2>1, <2>2 DEF AnsweredOnce, OnceKinds
<1>7. QED
  BY <1>4, <1>5, <1>6

\* Steps that change no result, no request of the list and nothing that is
\* pending.
LEMMA SameList ==
    ASSUME OnceInv, UNCHANGED <<shown, results, kind, queue, current, given>>
    PROVE  Distinct' /\ Fresh' /\ InList' /\ Zero' /\ AnsweredOnce'
BY DEF OnceInv, Distinct, Fresh, InList, Zero, AnsweredOnce, Pending, Skips

\* Statuses that ask for what was asked before.
LEMMA SameAsked ==
    ASSUME OnceInv, UNCHANGED <<kind, submitted, given>>,
           \/ status' = status
           \/ \E k \in Subs : Detach(k),
           pc' = "return" => \/ pc = "return" /\ ret' = ret
                             \/ ret'.type # "tool" \/ ret'.owner # "self"
    PROVE  AskedInv'
<1>1. Asked(status)'
  <2>1. CASE status' = status
    BY <2>1 DEF OnceInv, AskedInv, Asked
  <2>2. CASE \E k \in Subs : Detach(k)
    BY <2>2 DEF OnceInv, AskedInv, Asked, Detach, CompleteInv, TypeOK, Statuses
  <2>3. QED
    BY <2>1, <2>2
<1>2. (pc = "return" => Asked(ret))'
  BY DEF OnceInv, AskedInv, Asked
<1>3. QED
  BY <1>1, <1>2 DEF OnceInv, AskedInv

LEMMA OnceOutside ==
    ASSUME OnceInv, Caller \/ Return \/ InterruptReturn \/ Interrupt
    PROVE  OnceInv'
<1> USE DEF loopVars, convVars, listVars, subVars
<1>1. CompleteInv'
  BY StepComplete DEF OnceInv, Next, Run
<1>2. UNCHANGED <<shown, kind, queue, current>>
  BY DEF Caller, UserMessage, SubmitToolResult, AppendToolResult, AppendLateResult,
         DecideConfirmation, Execute, Return, InterruptReturn, Interrupt
<1>3. Distinct' /\ InList'
  BY <1>2 DEF OnceInv, Distinct, InList
<1>0. /\ submitted \in [Ids -> 0..MaxResults] /\ given \in [Ids -> 0..MaxResults]
      /\ results \in [Ids -> 0..MaxResults] /\ status.reqs \subseteq Ids
      /\ given' \in [Ids -> 0..MaxResults]
      /\ submitted' \in [Ids -> 0..MaxResults]
  BY <1>1 DEF OnceInv, CompleteInv, TypeOK, Statuses
<1>14. \A m, n \in 0..MaxResults :
          /\ Bump(m) \in 0..MaxResults /\ m <= Bump(m)
          /\ m <= n => Bump(m) <= Bump(n)
          /\ m <= n + 1 => Bump(m) <= Bump(n) + 1
  BY DEF Bump, MaxResults
<1>15. \A r \in Ids : submitted[r] <= given[r]
  BY DEF OnceInv, AskedInv
<1>4. CASE AppendToolResult /\ status.owner = "self"
  <2>1. Waiting /\ ~Waiting'
    BY <1>4 DEF AppendToolResult, Waiting
  <2>2. PICK r \in status.reqs :
           /\ results' = Posted([submitted EXCEPT ![r] = Bump(@)])
           /\ Give(r)
    BY <1>4 DEF AppendToolResult
  <2>3. PICK f : f = [submitted EXCEPT ![r] = Bump(@)]
    OBVIOUS
  <2>4. /\ f \in [Ids -> 0..MaxResults] /\ f[r] = Bump(submitted[r])
        /\ \A x \in Ids \ {r} : f[x] = submitted[x]
    BY <1>0, <2>3, BumpType
  <2>5. /\ given'[r] = Bump(given[r])
        /\ \A x \in Ids \ {r} : given'[x] = given[x]
    BY <1>0, <2>2, BumpType DEF Give
  <2>6. \A x \in Ids : given[x] <= given'[x] /\ f[x] <= given'[x]
    BY <1>0, <1>14, <1>15, <2>4, <2>5 DEF MaxResults
  <2>7. ASSUME NEW x \in Ids
        PROVE  \/ results'[x] = results[x]
               \/ kind[x] \in ClientKinds /\ results'[x] = f[x]
    <3>1. CASE x \in status.reqs
      BY <1>0, <2>1, <2>2, <2>3, <2>4, <3>1, PostedType
         DEF OnceInv, WaitingInv, Open
    <3>2. CASE x \notin status.reqs
      BY <1>0, <2>1, <2>2, <2>3, <2>4, <3>2, PostedType
         DEF OnceInv, WaitingInv
    <3>3. QED
      BY <3>1, <3>2
  <2>8. \A x \in Ids :
           \/ results'[x] = results[x] /\ given[x] <= given'[x]
           \/ /\ kind[x] \in ClientKinds
              /\ \A n \in {0, 1} : results[x] <= given[x] + n
                                     => results'[x] <= given'[x] + n
    <3>1. \A x \in Ids : f[x] \in Nat /\ given'[x] \in Nat
      BY <1>0, <2>4 DEF MaxResults
    <3>2. QED
      BY <2>6, <2>7, <3>1
  <2>9. Fresh' /\ Zero' /\ AnsweredOnce'
    BY <1>0, <1>2, <2>8, CallerAnswers
  <2>10. ReturnInv' /\ WaitingInv'
    BY <1>4, <2>1 DEF AppendToolResult, ReturnInv, WaitingInv
  <2>11. AskedInv'
    BY <1>0, <1>2, <1>4, <2>6 DEF AppendToolResult, AskedInv, Asked, OnceInv,
                                  NoEntries, MaxResults
  <2>12. QED
    BY <1>1, <1>3, <2>9, <2>10, <2>11 DEF OnceInv
<1>12. CASE AppendLateResult /\ status.owner = "self"
  <2>1. PICK r \in status.reqs : results' = Answer({r}) /\ Give(r)
    BY <1>12 DEF AppendLateResult
  <2>2. kind[r] \in ClientKinds /\ r \in Ids
    BY <1>0, <1>12 DEF OnceInv, AskedInv, Asked, AppendLateResult
  <2>3. /\ results'[r] = Bump(results[r])
        /\ \A x \in Ids \ {r} : results'[x] = results[x]
    BY <2>1, <2>2 DEF Answer
  <2>4. /\ given'[r] = Bump(given[r])
        /\ \A x \in Ids \ {r} : given'[x] = given[x]
    BY <1>0, <2>1, BumpType DEF Give
  <2>5. \A n \in {0, 1} : results[r] <= given[r] + n
                             => results'[r] <= given'[r] + n
    BY <1>0, <1>14, <2>2, <2>3, <2>4 DEF MaxResults
  <2>6. \A x \in Ids \ {r} : results'[x] = results[x] /\ given[x] <= given'[x]
    BY <1>0, <2>3, <2>4 DEF MaxResults
  <2>7. Fresh' /\ Zero' /\ AnsweredOnce'
    BY <1>0, <1>2, <2>2, <2>5, <2>6, CallerAnswers
  <2>8. ReturnInv' /\ WaitingInv'
    BY <1>12 DEF AppendLateResult, ReturnInv, WaitingInv, Waiting
  <2>9. \A x \in Ids : given[x] <= given'[x]
    BY <1>0, <1>14, <2>2, <2>4, <2>6
  <2>10. AskedInv'
    BY <1>0, <1>2, <1>12, <1>15, <2>9 DEF AppendLateResult, AskedInv, Asked,
                                          OnceInv, MaxResults
  <2>11. QED
    BY <1>1, <1>3, <2>7, <2>8, <2>10 DEF OnceInv
<1>13. CASE SubmitToolResult /\ status.owner = "self"
  <2>1. PICK r \in status.reqs :
           submitted' = [submitted EXCEPT ![r] = Bump(@)] /\ Give(r)
    BY <1>13 DEF SubmitToolResult, Subs
  <2>2. /\ given'[r] = Bump(given[r])
        /\ \A x \in Ids \ {r} : given'[x] = given[x]
        /\ submitted'[r] = Bump(submitted[r])
        /\ \A x \in Ids \ {r} : submitted'[x] = submitted[x]
    BY <1>0, <2>1, BumpType DEF Give
  <2>3. /\ results' = results /\ status' = status /\ pc = "idle"
        /\ pc' = "idle" /\ handled' = handled
    BY <1>13 DEF SubmitToolResult
  <2>4. \A x \in Ids : given[x] <= given'[x]
    BY <1>0, <1>14, <2>2 DEF MaxResults
  <2>5. Fresh' /\ Zero' /\ AnsweredOnce'
    BY <1>0, <1>2, <2>3, <2>4, CallerAnswers
  <2>6. ReturnInv' /\ WaitingInv'
    BY <1>0, <1>2, <2>2, <2>3 DEF OnceInv, ReturnInv, WaitingInv, Waiting, Open
  <2>7. AskedInv'
    BY <1>0, <1>2, <1>14, <1>15, <2>2, <2>3 DEF AskedInv, Asked, OnceInv
  <2>8. QED
    BY <1>1, <1>3, <2>5, <2>6, <2>7 DEF OnceInv
<1>5. CASE Execute /\ Waiting
  <2>1. results' = Posted(submitted) /\ given' = given
    BY <1>5 DEF Execute, Waiting
  <2>2. ASSUME NEW x \in Ids
        PROVE  \/ results'[x] = results[x]
               \/ kind[x] \in ClientKinds /\ results'[x] = submitted[x]
    <3>1. CASE x \in status.reqs
      BY <1>0, <1>5, <2>1, <3>1, PostedType DEF OnceInv, WaitingInv, Open
    <3>2. CASE x \notin status.reqs
      BY <1>0, <1>5, <2>1, <3>2, PostedType DEF OnceInv, WaitingInv
    <3>3. QED
      BY <3>1, <3>2
  <2>3. \A x \in Ids :
           \/ results'[x] = results[x] /\ given[x] <= given'[x]
           \/ /\ kind[x] \in ClientKinds
              /\ \A n \in {0, 1} : results[x] <= given[x] + n
                                     => results'[x] <= given'[x] + n
    <3>1. \A x \in Ids : submitted[x] \in Nat /\ given[x] \in Nat
      BY <1>0 DEF MaxResults
    <3>2. QED
      BY <1>15, <2>1, <2>2, <3>1
  <2>4. Fresh' /\ Zero' /\ AnsweredOnce'
    BY <1>0, <1>2, <2>3, CallerAnswers
  <2>5. ReturnInv' /\ WaitingInv'
    BY <1>5 DEF Execute, ReturnInv, WaitingInv, Waiting
  <2>6. AskedInv'
    BY <1>0, <1>2, <1>5 DEF Execute, AskedInv, Asked, OnceInv, NoEntries,
                            MaxResults
  <2>7. QED
    BY <1>1, <1>3, <2>4, <2>5, <2>6 DEF OnceInv
<1>6. CASE Execute /\ ~Waiting
  <2>1. /\ results' = results /\ pc' = "loop" /\ ~Waiting' /\ given' = given
        /\ submitted' = submitted /\ status' = status
    BY <1>6 DEF Execute, Waiting
  <2>2. AskedInv'
    BY <1>2, <2>1, SameAsked
  <2>3. QED
    BY <1>1, <1>2, <2>1, <2>2, SameList DEF OnceInv, ReturnInv, WaitingInv
<1>7. CASE Return
  <2>1. /\ results' = results /\ pc = "return" /\ pc' = "idle"
        /\ given' = given /\ ret' = ret
        /\ status' = ret /\ submitted' = NoEntries /\ handled' = FALSE
    BY <1>7 DEF Return, SetStatus
  <2>2. WaitingInv'
    BY <1>2, <2>1 DEF OnceInv, ReturnInv, WaitingInv, Waiting, Open, NoEntries
  <2>3. AskedInv'
    BY <1>0, <1>2, <2>1 DEF OnceInv, AskedInv, Asked, NoEntries, MaxResults
  <2>4. QED
    BY <1>1, <1>2, <2>1, <2>2, <2>3, SameList DEF OnceInv, ReturnInv
<1>8. CASE InterruptReturn \/ Interrupt
  <2>1. /\ results' = results /\ pc' = "idle" /\ ~Waiting' /\ given' = given
        /\ status'.type # "tool" /\ submitted' = NoEntries
    BY <1>8 DEF InterruptReturn, Interrupt, SetStatus, Plain, Waiting
  <2>2. AskedInv'
    BY <1>0, <2>1 DEF AskedInv, Asked, NoEntries, MaxResults
  <2>3. QED
    BY <1>1, <1>2, <2>1, <2>2, SameList DEF OnceInv, ReturnInv, WaitingInv
<1>9. CASE \/ UserMessage \/ DecideConfirmation
           \/ (SubmitToolResult \/ AppendToolResult \/ AppendLateResult)
                 /\ status.owner # "self"
  <2>1. results' = results /\ pc = "idle" /\ pc' = "idle" /\ status' = status
        /\ handled' \in {handled, TRUE} /\ submitted' = submitted
        /\ given' = given
    BY <1>9 DEF UserMessage, SubmitToolResult, DecideConfirmation,
                AppendToolResult, AppendLateResult, OnceInv, CompleteInv, TypeOK
  <2>2. WaitingInv'
    BY <1>2, <2>1 DEF OnceInv, WaitingInv, Waiting, Open
  <2>3. AskedInv'
    BY <1>2, <2>1, SameAsked
  <2>4. QED
    BY <1>1, <1>2, <2>1, <2>2, <2>3, SameList DEF OnceInv, ReturnInv
<1>10. QED
  BY <1>4, <1>5, <1>6, <1>7, <1>8, <1>9, <1>12, <1>13 DEF Caller

\* While the executor runs, nothing it does makes a status of this conversation
\* wait for results before it is returned.
LEMMA RunningWaits ==
    ASSUME OnceInv, pc # "idle", handled => handled',
           \/ status' = status
           \/ \E k \in Subs : Detach(k)
    PROVE  ~Waiting'
<1>1. ~Waiting
  BY DEF OnceInv, WaitingInv
<1>2. CASE status' = status
  BY <1>1, <1>2 DEF Waiting, OnceInv, CompleteInv, TypeOK
<1>3. CASE \E k \in Subs : Detach(k)
  BY <1>1, <1>3 DEF Detach, Waiting, OnceInv, CompleteInv, TypeOK, Statuses
<1>4. QED
  BY <1>2, <1>3

LEMMA OnceQuiet ==
    ASSUME OnceInv,
           \/ IterationLimit \/ StartGeneration \/ GenerateText
           \/ GenerationFails \/ Decided \/ OutputNotCopyable
           \/ AskConfirmation \/ ConfirmationMissing \/ SubYields
           \/ EndConversationRefused \/ TalkToUserFails
           \/ RunServerTool /\ UNCHANGED <<listVars, current>>
    PROVE  OnceInv'
<1> USE DEF loopVars, convVars, listVars, subVars
<1>1. CompleteInv'
  BY StepComplete DEF OnceInv, Next, Run, Generation, ToolCall
<1>2. UNCHANGED <<shown, results, kind, queue, current, given, submitted>>
  BY DEF IterationLimit, StartGeneration, GenerateText, GenerationFails,
         Decided, OutputNotCopyable, AskConfirmation, ConfirmationMissing,
         SubYields, EndConversationRefused, TalkToUserFails, RunServerTool
<1>3. status' = status \/ \E k \in Subs : Detach(k)
  <2>1. CASE SubYields
    BY <2>1 DEF SubYields, SubBecomes, Processing
  <2>2. CASE ~SubYields
    BY <2>2 DEF IterationLimit, StartGeneration, GenerateText,
         GenerationFails, Decided, OutputNotCopyable, AskConfirmation,
         ConfirmationMissing, EndConversationRefused, TalkToUserFails,
         RunServerTool
  <2>3. QED
    BY <2>1, <2>2
<1>4. pc # "idle"
  BY DEF IterationLimit, StartGeneration, GenerateText, GenerationFails,
         Decided, OutputNotCopyable, AskConfirmation, ConfirmationMissing,
         SubYields, EndConversationRefused, TalkToUserFails,
         RunServerTool, Processing
<1>5. handled => handled'
  <2>1. CASE Decided
    BY <2>1 DEF Decided
  <2>2. CASE ~Decided
    BY <2>2 DEF IterationLimit, StartGeneration, GenerateText,
         GenerationFails, OutputNotCopyable, AskConfirmation,
         ConfirmationMissing, SubYields, EndConversationRefused, TalkToUserFails,
         RunServerTool
  <2>3. QED
    BY <2>1, <2>2
<1>6. ~Waiting'
  BY <1>3, <1>4, <1>5, RunningWaits
<1>7. pc' = "return" => ret'.type # "tool" \/ ret'.owner # "self"
  <2>1. EndOfTurn.type # "tool"
    BY DEF EndOfTurn, Plain
  <2>2. CASE SubYields
    BY <2>2 DEF SubYields, Processing, ReturnWith, PassedOn, Subs
  <2>3. CASE IterationLimit \/ Decided
    BY <2>1, <2>3 DEF IterationLimit, Decided, ReturnWith, Plain
  <2>4. CASE ~SubYields /\ ~IterationLimit /\ ~Decided
    BY <2>4 DEF StartGeneration, GenerateText, GenerationFails,
         OutputNotCopyable, AskConfirmation, ConfirmationMissing,
         EndConversationRefused, TalkToUserFails, RunServerTool, ReturnWith,
         Raise, Plain, Asking, Processing
  <2>5. QED
    BY <2>2, <2>3, <2>4
<1>9. AskedInv'
  BY <1>2, <1>3, <1>4, <1>7, SameAsked
<1>8. QED
  BY <1>1, <1>2, <1>6, <1>7, <1>9, SameList DEF OnceInv, WaitingInv, ReturnInv

LEMMA OnceAnswering ==
    ASSUME OnceInv, stray' = stray, pc = "loop", kind' = kind,
           given' = given,
           current # NoId, kind[current] \in OnceKinds,
           \/ Answered({current}) /\ queue' = queue
           \/ /\ Answered({current} \cup Range(queue)) /\ queue' = <<>>
              /\ RaiseExceptions
    PROVE  Distinct' /\ Fresh' /\ InList' /\ Zero' /\ AnsweredOnce'
<1> USE DEF OnceInv, CompleteInv, Answered
<1>1. /\ current \in Ids /\ NoId \notin Ids /\ Range(queue) \subseteq Ids
      /\ shown \subseteq Ids
  BY ConstantsAssumption DEF TypeOK, Range
<1>2. "none" \notin OnceKinds /\ OnceKinds \cap BuiltinKinds = {}
  BY DEF OnceKinds, ServerKinds, Subs, BuiltinKinds
<1>3. /\ Range(queue') \subseteq Range(queue)
      /\ \A i, j \in DOMAIN queue' : queue'[i] = queue'[j] => i = j
  BY DEF Distinct, Range
<1>4. Distinct' /\ InList'
  BY <1>1, <1>3 DEF Distinct, InList
<1>5. \A r \in Ids : Pending(r)' => Pending(r) /\ r # current
  BY <1>1, <1>3 DEF Pending, Distinct
<1>6. \A r \in Ids : r # current /\ r \notin Range(queue)
                        => results'[r] = results[r]
  BY AnswerMarks DEF TypeOK
<1>7. \A r \in Ids : Pending(r)' => results'[r] = results[r]
  <2>1. CASE Answered({current}) /\ queue' = queue
    BY <1>5, <2>1, AnswerMarks DEF TypeOK
  <2>2. CASE queue' = <<>>
    BY <1>1, <2>2 DEF Pending, Range
  <2>3. QED
    BY <2>1, <2>2
<1>8. Fresh'
  BY <1>2, <1>5, <1>6 DEF Fresh, Pending
<1>9. Zero'
  BY <1>5, <1>7 DEF Zero
<1>10. AnsweredOnce'
  <2>1. ASSUME NEW r \in Ids
        PROVE  /\ kind[r] \in OnceKinds => results'[r] <= 1
               /\ kind[r] = "client" => results'[r] <= given[r] + Skips
    <3>0. results[r] \in 0..MaxResults /\ given[r] \in 0..MaxResults
      BY DEF TypeOK
    <3>1. CASE results'[r] = results[r]
      BY <3>1 DEF AnsweredOnce, OnceKinds
    <3>2. CASE results'[r] # results[r]
      <4>1. Pending(r) /\ results'[r] = results[r] + 1
        BY <1>6, <3>0, <3>2 DEF Pending, Answer, Bump, MaxResults
      <4>2. /\ kind[r] \in OnceKinds => results[r] = 0
            /\ kind[r] = "client" => results[r] <= given[r]
        BY <4>1 DEF Zero
      <4>3. RaiseExceptions \/ r = current
        <5>1. CASE Answered({current}) /\ queue' = queue
          BY <3>2, <5>1, AnswerMarks DEF TypeOK
        <5>2. QED
          BY <5>1
      <4>4. "client" \notin OnceKinds
        BY DEF OnceKinds, ServerKinds, Subs
      <4>5. kind[r] = "client" => Skips = 1
        BY <4>3, <4>4 DEF Skips
      <4>6. QED
        BY <3>0, <4>1, <4>2, <4>5 DEF MaxResults
    <3>3. QED
      BY <3>1, <3>2
  <2>2. Skips' = Skips
    BY DEF Skips
  <2>3. QED
    BY <2>1, <2>2 DEF AnsweredOnce, OnceKinds
<1>11. QED
  BY <1>4, <1>8, <1>9, <1>10

LEMMA OnceAnsweringSteps ==
    ASSUME OnceInv,
           \/ RunServerTool /\ ~UNCHANGED <<listVars, current>>
           \/ ServerToolRaises \/ AnswerWithoutRunning
           \/ SubAnswers \/ SubRaises
    PROVE  OnceInv'
<1> USE DEF loopVars, convVars, listVars, subVars
<1>1. CompleteInv'
  BY StepComplete DEF OnceInv, Next, Run, ToolCall
<1>2. /\ stray' = stray /\ pc = "loop" /\ kind' = kind /\ handled' = handled
      /\ current # NoId /\ kind[current] \in OnceKinds /\ pc' # "return"
      /\ given' = given /\ submitted' = submitted
  BY DEF RunServerTool, ServerToolRaises, AnswerWithoutRunning, SubAnswers,
         SubRaises, Processing, OnceKinds, ServerKinds, Raise, ReturnWith
<1>3. \/ Answered({current}) /\ queue' = queue
      \/ /\ Answered({current} \cup Range(queue)) /\ queue' = <<>>
         /\ RaiseExceptions
  BY DEF RunServerTool, ServerToolRaises, AnswerWithoutRunning, SubAnswers,
         SubRaises
<1>4. status' = status \/ \E k \in Subs : Detach(k)
  BY DEF RunServerTool, ServerToolRaises, AnswerWithoutRunning, SubAnswers,
         SubRaises, SubBecomes, Processing
<1>5. Distinct' /\ Fresh' /\ InList' /\ Zero' /\ AnsweredOnce'
  BY <1>2, <1>3, OnceAnswering
<1>6. ~Waiting'
  BY <1>2, <1>4, RunningWaits
<1>8. AskedInv'
  BY <1>2, <1>4, SameAsked
<1>7. QED
  BY <1>1, <1>2, <1>5, <1>6, <1>8 DEF OnceInv, WaitingInv, ReturnInv

LEMMA OnceClientTool ==
    ASSUME OnceInv, RunClientTool PROVE OnceInv'
<1> USE DEF loopVars, convVars, listVars, subVars
<1>1. CompleteInv'
  BY StepComplete DEF OnceInv, Next, Run, ToolCall
<1>2. /\ UNCHANGED <<shown, results, kind, queue, status, handled, given,
                      submitted>>
      /\ pc = "loop" /\ current \in Ids /\ kind[current] = "client"
  BY ConstantsAssumption
     DEF RunClientTool, Processing, OnceInv, CompleteInv, TypeOK
<1>3. ~Waiting'
  BY <1>2, RunningWaits
<1>4. CASE current' = NoId /\ pc' = "loop"
  <2>1. \A r \in Ids : Pending(r)' => Pending(r)
    BY <1>2, <1>4, ConstantsAssumption DEF Pending
  <2>2. NoId \notin Range(queue)
    BY ConstantsAssumption DEF OnceInv, CompleteInv, TypeOK, Range
  <2>3. Distinct' /\ InList'
    BY <1>2, <1>4, <2>2 DEF OnceInv, Distinct, InList
  <2>4. Fresh' /\ Zero' /\ AnsweredOnce'
    BY <1>2, <2>1 DEF OnceInv, Fresh, Zero, AnsweredOnce, Skips
  <2>6. AskedInv'
    BY <1>2, <1>4, SameAsked
  <2>5. QED
    BY <1>1, <1>3, <1>4, <2>3, <2>4, <2>6 DEF OnceInv, WaitingInv, ReturnInv
<1>5. CASE /\ results[current] = 0 /\ current' = current
           /\ ret' = Asking("tool", OpenClientRequests)
  <2>1. current \in OpenClientRequests
    <3>1. current # NoId /\ kind[current] \notin TalkKinds
      BY <1>2, ConstantsAssumption DEF TalkKinds
    <3>2. QED
      BY <1>2, <1>5, <3>1
         DEF OnceInv, InList, OpenClientRequests, ClientKinds
  <2>2. \A r \in OpenClientRequests :
           r \in shown' /\ results'[r] = 0 /\ kind'[r] \in ClientKinds
    BY <1>2 DEF OpenClientRequests
  <2>3. ReturnInv'
    BY <1>2, <1>5, <2>1, <2>2 DEF ReturnInv, Asking, Open
  <2>5. AskedInv'
    BY <1>2, <1>5, <2>2 DEF OnceInv, AskedInv, Asked, Asking
  <2>4. QED
    BY <1>1, <1>2, <1>3, <1>5, <2>3, <2>5, SameList DEF OnceInv, WaitingInv
<1>6. QED
  <2>1. results[current] \in Nat
    BY <1>2 DEF OnceInv, CompleteInv, TypeOK, MaxResults
  <2>2. QED
    BY <1>2, <1>4, <1>5, <2>1 DEF RunClientTool, ReturnWith

\* submit_result, end_conversation and talk_to_user.
LEMMA OnceBuiltin ==
    ASSUME OnceInv,
           SubmitOutputs \/ EndConversation \/ TalkToUser \/ TalkToUserMisused
    PROVE  OnceInv'
<1> USE DEF loopVars, convVars, listVars, subVars
<1>1. CompleteInv'
  BY StepComplete DEF OnceInv, Next, Run, ToolCall
<1>2. /\ UNCHANGED <<kind, queue, status, given, submitted>> /\ pc = "loop"
      /\ current \in Ids /\ kind[current] \in BuiltinKinds
      /\ current' \in {current, NoId}
  BY ConstantsAssumption
     DEF SubmitOutputs, EndConversation, TalkToUser, TalkToUserMisused,
         Processing, BuiltinKinds, TalkKinds, OnceInv, CompleteInv, TypeOK
<1>3. handled => handled'
  BY DEF SubmitOutputs, EndConversation, TalkToUser, TalkToUserMisused, Post
<1>4. ~Waiting'
  BY <1>2, <1>3, RunningWaits
<1>5. pc' = "return" => ret'.type # "tool"
  <2>1. EndOfTurn.type # "tool"
    BY DEF EndOfTurn, Plain
  <2>2. QED
    BY <1>2, <2>1
       DEF SubmitOutputs, EndConversation, TalkToUser, TalkToUserMisused,
           ReturnWith, Raise, Plain
<1>6. \A r \in Ids : r # current => results'[r] = results[r]
  <2>1. results' = results \/ results' = Answer({current})
    BY DEF SubmitOutputs, EndConversation, TalkToUser, TalkToUserMisused, Post
  <2>2. QED
    BY <2>1, AnswerMarks DEF OnceInv, CompleteInv, TypeOK
<1>7. /\ shown' \subseteq shown /\ shown \ {current} \subseteq shown'
      /\ current' = current /\ kind[current] \notin TalkKinds
            => shown' = shown
  <2>1. CASE SubmitOutputs \/ EndConversation
    BY <2>1 DEF SubmitOutputs, EndConversation, Post
  <2>2. CASE TalkToUser \/ TalkToUserMisused
    BY <2>2 DEF TalkToUser, TalkToUserMisused, RewriteLastMessage, Processing,
                TalkKinds
  <2>3. QED
    BY <2>1, <2>2
<1>8. \A r \in Ids : Pending(r)' => Pending(r)
  BY <1>2, ConstantsAssumption DEF Pending
<1>9. Distinct' /\ InList'
  <2>1. NoId \notin Range(queue)
    BY ConstantsAssumption DEF OnceInv, CompleteInv, TypeOK, Range
  <2>2. Distinct'
    BY <1>2, <2>1 DEF OnceInv, Distinct
  <2>3. InList'
    BY <1>2, <1>7 DEF OnceInv, Distinct, InList
  <2>4. QED
    BY <2>2, <2>3
<1>10. Fresh' /\ Zero' /\ AnsweredOnce'
  <2>1. "none" \notin BuiltinKinds /\ OnceKinds \cap BuiltinKinds = {}
    BY DEF OnceKinds, ServerKinds, Subs, BuiltinKinds
  <2>2. Fresh'
    BY <1>2, <1>6, <1>7, <1>8, <2>1 DEF OnceInv, Fresh
  <2>6. "client" \notin BuiltinKinds
    BY DEF BuiltinKinds
  <2>3. Zero'
    BY <1>2, <1>6, <1>8, <2>1, <2>6 DEF OnceInv, Zero
  <2>4. AnsweredOnce'
    BY <1>2, <1>6, <2>1, <2>6 DEF OnceInv, AnsweredOnce, Skips, OnceKinds
  <2>5. QED
    BY <2>2, <2>3, <2>4
<1>12. AskedInv'
  BY <1>2, <1>5, SameAsked
<1>11. QED
  BY <1>1, <1>4, <1>5, <1>9, <1>10, <1>12 DEF OnceInv, WaitingInv, ReturnInv

LEMMA OnceTakeNext ==
    ASSUME OnceInv, TakeNextRequest PROVE OnceInv'
<1> USE DEF TakeNextRequest, loopVars, convVars, listVars, subVars
<1>1. CompleteInv'
  BY StepComplete DEF OnceInv, Next, Run
<1>2. /\ queue \in Seq(Ids) /\ queue # <<>>
      /\ Range(queue) = {Head(queue)} \cup Range(Tail(queue))
  BY RangeHeadTail DEF OnceInv, CompleteInv, TypeOK
<1>3. \A r : Pending(r)' => Pending(r)
  BY <1>2 DEF Pending
<1>4. Distinct'
  <2>1. /\ Len(queue) \in Nat /\ DOMAIN queue = 1..Len(queue)
        /\ DOMAIN Tail(queue) = 1..(Len(queue) - 1)
        /\ \A i \in 1..(Len(queue) - 1) : Tail(queue)[i] = queue[i + 1]
        /\ Head(queue) = queue[1]
    BY <1>2
  <2>2. ASSUME NEW i \in DOMAIN Tail(queue)
        PROVE  i + 1 \in DOMAIN queue /\ 1 \in DOMAIN queue /\ i + 1 # 1
    BY <2>1
  <2>3. \A i \in DOMAIN Tail(queue) : Tail(queue)[i] # Head(queue)
    BY <2>1, <2>2 DEF OnceInv, Distinct
  <2>4. \A i, j \in DOMAIN Tail(queue) :
           Tail(queue)[i] = Tail(queue)[j] => i = j
    BY <2>1, <2>2 DEF OnceInv, Distinct
  <2>5. QED
    BY <2>3, <2>4 DEF Distinct, Range
<1>5. InList'
  BY <1>2 DEF OnceInv, InList
<1>6. Fresh' /\ Zero' /\ AnsweredOnce'
  BY <1>3 DEF OnceInv, Fresh, Zero, AnsweredOnce, Skips
<1>8. AskedInv'
  BY SameAsked
<1>7. QED
  BY <1>1, <1>4, <1>5, <1>6, <1>8, RunningWaits
     DEF OnceInv, WaitingInv, ReturnInv

LEMMA OnceGenerate ==
    ASSUME OnceInv, GenerateRequests PROVE OnceInv'
<1> USE DEF loopVars, convVars, listVars, subVars
<1>1. CompleteInv'
  BY StepComplete DEF OnceInv, Next, Run, Generation
<1>2. PICK b \in Batches : \E ks \in [Range(b) -> Offered] :
         /\ kind' = [r \in Ids |-> IF r \in Range(b) THEN ks[r] ELSE kind[r]]
         /\ shown' = shown \cup Range(b) /\ queue' = b
  BY DEF GenerateRequests
<1>3. PICK ks \in [Range(b) -> Offered] :
         kind' = [r \in Ids |-> IF r \in Range(b) THEN ks[r] ELSE kind[r]]
  BY <1>2
<1>4. /\ pc' = "decided" /\ current = NoId /\ queue = <<>>
      /\ UNCHANGED <<results, current, status, handled, given, submitted>>
      /\ pc = "prompt"
  BY DEF GenerateRequests, OnceInv, CompleteInv, NothingPending
<1>5. Range(b) \subseteq Unused
  <2>1. \E n \in 1..MaxBatch : b \in [1..n -> Unused]
    BY DEF Batches
  <2>2. QED
    BY <2>1 DEF Range
<1>6. \A r \in Range(b) : r \in Ids /\ results[r] = 0 /\ kind'[r] # "none"
  <2>1. \A r \in Range(b) : kind'[r] \in AllKinds
    BY <1>3, <1>5, ConstantsAssumption DEF Offered, Unused
  <2>2. "none" \notin AllKinds
    BY DEF AllKinds, ClientKinds, BuiltinKinds, ServerKinds, Subs
  <2>3. QED
    BY <1>5, <2>1, <2>2 DEF OnceInv, Fresh, Unused
<1>7. \A r \in Ids : r \notin Range(b) => kind'[r] = kind[r]
  BY <1>3
<1>8. \A r \in Ids : Pending(r)' <=> r \in Range(b)
  BY <1>2, <1>4, ConstantsAssumption DEF Pending
<1>9. Distinct' /\ InList'
  <2>1. \A i, j \in DOMAIN b : b[i] = b[j] => i = j
    BY DEF Batches
  <2>2. NoId \notin Range(b)
    BY <1>6, ConstantsAssumption
  <2>3. QED
    BY <1>2, <1>4, <2>1, <2>2 DEF Distinct, InList
<1>10. Fresh' /\ Zero' /\ AnsweredOnce'
  <2>1. Fresh'
    BY <1>2, <1>4, <1>6, <1>7, <1>8 DEF OnceInv, Fresh
  <2>2. Zero'
    <3>1. \A r \in Ids : given[r] \in Nat
      BY DEF OnceInv, CompleteInv, TypeOK, MaxResults
    <3>2. QED
      BY <1>4, <1>6, <1>8, <3>1 DEF Zero
  <2>3. AnsweredOnce'
    <3>1. \A r \in Ids : given[r] \in Nat /\ Skips \in Nat
      BY DEF OnceInv, CompleteInv, TypeOK, MaxResults, Skips
    <3>2. \A r \in Range(b) : results'[r] <= 1
                               /\ results'[r] <= given'[r] + Skips
      BY <1>4, <1>6, <3>1
    <3>3. Skips' = Skips
      BY DEF Skips
    <3>4. QED
      BY <1>4, <1>7, <3>2, <3>3 DEF OnceInv, AnsweredOnce
  <2>4. QED
    BY <2>1, <2>2, <2>3
<1>11. ~Waiting'
  BY <1>4, RunningWaits
<1>13. AskedInv'
  <2>1. "none" \notin ClientKinds
    BY DEF ClientKinds, BuiltinKinds
  <2>2. \A r \in Ids : kind[r] \in ClientKinds => kind'[r] = kind[r]
    BY <1>5, <1>7, <2>1 DEF Unused
  <2>3. status.reqs \subseteq Ids
    BY DEF OnceInv, CompleteInv, TypeOK, Statuses
  <2>4. QED
    BY <1>4, <2>2, <2>3 DEF OnceInv, AskedInv, Asked
<1>12. QED
  BY <1>1, <1>4, <1>9, <1>10, <1>11, <1>13 DEF OnceInv, WaitingInv, ReturnInv

LEMMA StepOnce == OnceInv /\ [Next]_vars => OnceInv'
<1>1. ASSUME OnceInv, UNCHANGED vars PROVE OnceInv'
  <2>1. CompleteInv'
    BY <1>1, StepComplete DEF OnceInv
  <2>2. Distinct' /\ Fresh' /\ InList' /\ Zero' /\ AnsweredOnce'
    BY <1>1, SameList DEF vars, listVars, loopVars
  <2>3. WaitingInv' /\ ReturnInv' /\ AskedInv'
    BY <1>1
       DEF vars, listVars, convVars, loopVars, OnceInv, WaitingInv, Waiting,
           ReturnInv, Open, AskedInv, Asked
  <2>4. QED
    BY <2>1, <2>2, <2>3 DEF OnceInv
<1>2. QED
  BY <1>1, OnceOutside, OnceQuiet, OnceAnsweringSteps, OnceClientTool,
     OnceBuiltin, OnceTakeNext, OnceGenerate
     DEF Next, Run, Generation, ToolCall

LEMMA Once == Spec => []OnceInv
BY InitOnce, StepOnce, PTL DEF Spec

\* A caller that is asked for results is asked for requests that have none, the
\* one the agent waits for among them, whatever happened before.
THEOREM AskedRequestsAreOpen == Spec => []AskedAreOpen
<1>1. OnceInv => AskedAreOpen
  BY DEF OnceInv, WaitingInv, Waiting, Open, AskedAreOpen
<1>2. QED
  BY <1>1, Once, PTL

\* No request for a tool, a sub-agent or a sub-flow gets two results, for any
\* configuration, number of requests and interleaving of the caller.
THEOREM AnswersAreUnique == Spec => []AnsweredOnce
<1>1. OnceInv => AnsweredOnce
  BY DEF OnceInv
<1>2. QED
  BY <1>1, Once, PTL

-----------------------------------------------------------------------------
(* Sub-conversations that wait for results of client tools.                *)

\* SubMustFail, said of the conversation: it waits and was not answered.
Waits(k) == subStatus[k] = "tool" /\ ~subAnswered[k]

\* Where the agent may be while the sub-conversation k waits: stopped at the
\* request of k, with k's status on its way to the caller or already there.
StoppedAt(k) ==
    /\ current \in Ids /\ kind[current] = k
    /\ pc \in {"idle", "loop", "return"}
    /\ pc = "return" => ret.type = "tool" /\ ret.owner = k
    /\ pc = "idle" => \/ status.type = "tool" /\ status.owner = k
                      \/ status.type = "interrupted"

VisibleInv == TypeOK /\ \A k \in Subs : Waits(k) => StoppedAt(k)

LEMMA InitVisible == Init => VisibleInv
BY InitType DEF Init, VisibleInv, Waits

\* The caller lets a sub-conversation wait or answers it: it changes neither
\* the agent's status nor the request it is stopped at.
LEMMA VisibleCaller ==
    VisibleInv /\ Caller => \A k \in Subs : Waits(k)' => StoppedAt(k)'
<1> SUFFICES ASSUME VisibleInv, Caller, NEW k \in Subs, Waits(k)'
             PROVE  StoppedAt(k)'
  OBVIOUS
<1> USE DEF loopVars, listVars, convVars, subVars
<1>1. pc = "idle" /\ current' = current /\ kind' = kind /\ status' = status
  BY DEF Caller, UserMessage, SubmitToolResult, AppendToolResult, AppendLateResult,
         DecideConfirmation, Execute
<1>2. subStatus' = subStatus /\ (subAnswered[k] => subAnswered'[k])
  BY DEF VisibleInv, TypeOK, Caller, UserMessage, SubmitToolResult,
         AppendToolResult, AppendLateResult, DecideConfirmation, Execute
<1>3. StoppedAt(k)
  BY <1>2 DEF VisibleInv, Waits
<1>4. pc' \in {"idle", "loop"}
  BY <1>1 DEF Caller, UserMessage, SubmitToolResult, AppendToolResult, AppendLateResult,
         DecideConfirmation, Execute
<1>5. QED
  BY <1>1, <1>3, <1>4 DEF StoppedAt

\* How an execution ends: with the status that was computed, or interrupted.
LEMMA VisibleEnd ==
    VisibleInv /\ (Return \/ InterruptReturn \/ Interrupt)
        => \A k \in Subs : Waits(k)' => StoppedAt(k)'
<1> SUFFICES ASSUME VisibleInv, Return \/ InterruptReturn \/ Interrupt,
                    NEW k \in Subs, Waits(k)'
             PROVE  StoppedAt(k)'
  OBVIOUS
<1> USE DEF loopVars, listVars, subVars, SetStatus
<1>1. StoppedAt(k)
  BY DEF VisibleInv, Waits, Return, InterruptReturn, Interrupt
<1>2. current' = current /\ kind' = kind /\ pc' = "idle"
  BY DEF Return, InterruptReturn, Interrupt
<1>3. CASE Return
  BY <1>1, <1>2, <1>3 DEF StoppedAt, Return
<1>4. CASE InterruptReturn \/ Interrupt
  BY <1>1, <1>2, <1>4 DEF StoppedAt, InterruptReturn, Interrupt, Plain
<1>5. QED
  BY <1>3, <1>4

\* While the agent asks the LLM, or handles a request that is not for a sub-
\* conversation, none waits.
LEMMA NobodyWaits ==
    ASSUME VisibleInv,
           \/ pc \in {"prompt", "decided"}
           \/ pc = "loop" /\ (current = NoId \/ kind[current] \notin Subs)
    PROVE  \A k \in Subs : ~Waits(k)
BY ConstantsAssumption DEF VisibleInv, StoppedAt

LEMMA VisibleQuiet ==
    VisibleInv /\ (TakeNextRequest \/ IterationLimit \/ Generation)
        => \A k \in Subs : ~Waits(k)'
<1> SUFFICES ASSUME VisibleInv,
                    TakeNextRequest \/ IterationLimit \/ Generation
             PROVE  \A k \in Subs : ~Waits(k)'
  OBVIOUS
<1>1. \/ pc \in {"prompt", "decided"}
      \/ pc = "loop" /\ current = NoId
  BY DEF TakeNextRequest, IterationLimit, Generation, StartGeneration,
         GenerateText, GenerateRequests, GenerationFails, Decided
<1>2. subStatus' = subStatus /\ subAnswered' = subAnswered
  BY DEF TakeNextRequest, IterationLimit, Generation, StartGeneration,
         GenerateText, GenerateRequests, GenerationFails, Decided, subVars
<1>3. QED
  BY <1>1, <1>2, NobodyWaits DEF Waits

OtherToolCall ==
    \/ RunServerTool \/ ServerToolRaises \/ OutputNotCopyable
    \/ AskConfirmation \/ ConfirmationMissing \/ AnswerWithoutRunning
    \/ RunClientTool \/ SubmitOutputs \/ EndConversation
    \/ EndConversationRefused \/ TalkToUserFails \/ TalkToUser \/ TalkToUserMisused

LEMMA VisibleOtherCall ==
    VisibleInv /\ OtherToolCall => \A k \in Subs : ~Waits(k)'
<1> SUFFICES ASSUME VisibleInv, OtherToolCall
             PROVE  \A k \in Subs : ~Waits(k)'
  OBVIOUS
<1>1. pc = "loop" /\ kind[current] \notin Subs
  BY DEF OtherToolCall, RunServerTool, ServerToolRaises, OutputNotCopyable,
         AskConfirmation, ConfirmationMissing, AnswerWithoutRunning,
         RunClientTool, SubmitOutputs, EndConversation,
         EndConversationRefused, TalkToUserFails, TalkToUser,
         TalkToUserMisused, Processing, Subs, ServerKinds, TalkKinds
<1>2. subStatus' = subStatus /\ subAnswered' = subAnswered
  BY DEF OtherToolCall, RunServerTool, ServerToolRaises, OutputNotCopyable,
         AskConfirmation, ConfirmationMissing, AnswerWithoutRunning,
         RunClientTool, SubmitOutputs, EndConversation,
         EndConversationRefused, TalkToUserFails, TalkToUser, TalkToUserMisused, subVars
<1>3. QED
  BY <1>1, <1>2, NobodyWaits DEF Waits

\* A sub-conversation is executed for the current request: no other one waits,
\* and when this one does, its status is what the agent returns.
LEMMA VisibleSub ==
    VisibleInv /\ (SubAnswers \/ SubRaises \/ SubYields)
        => \A k \in Subs : Waits(k)' => StoppedAt(k)'
<1> SUFFICES ASSUME VisibleInv, SubAnswers \/ SubRaises \/ SubYields,
                    NEW k \in Subs, Waits(k)'
             PROVE  StoppedAt(k)'
  OBVIOUS
<1>1. /\ Processing(Subs) /\ kind[current] \in Subs
      /\ pc = "loop" /\ current \in Ids /\ kind' = kind
  BY DEF VisibleInv, TypeOK, SubAnswers, SubRaises, SubYields, Processing
<1>2. PICK s \in SubStatuses :
        /\ SubBecomes(kind[current], s)
        /\ s = "tool" => /\ ReturnWith(PassedOn(s, kind[current]))
                         /\ current' = current
  BY DEF SubAnswers, SubRaises, SubYields, SubStatuses, StatusTypes, loopVars
<1>3. k = kind[current]
  <2>1. ASSUME k # kind[current] PROVE FALSE
    <3>1. Waits(k)
      BY <1>2, <2>1 DEF Waits, SubBecomes, VisibleInv, TypeOK
    <3>2. QED
      BY <2>1, <3>1 DEF VisibleInv, StoppedAt
  <2>2. QED
    BY <2>1
<1>4. s = "tool"
  BY <1>2, <1>3 DEF Waits, SubBecomes, VisibleInv, TypeOK
<1>5. QED
  BY <1>1, <1>2, <1>3, <1>4 DEF StoppedAt, ReturnWith, PassedOn

LEMMA StepVisible == VisibleInv /\ [Next]_vars => VisibleInv'
<1> SUFFICES ASSUME VisibleInv, [Next]_vars PROVE VisibleInv'
  OBVIOUS
<1>1. TypeOK'
  BY StepType DEF VisibleInv
<1>2. CASE UNCHANGED vars
  BY <1>1, <1>2
     DEF vars, loopVars, subVars, convVars, VisibleInv, Waits, StoppedAt
<1>3. CASE Next
  <2>1. \A k \in Subs : Waits(k)' => StoppedAt(k)'
    BY <1>3, VisibleCaller, VisibleEnd, VisibleQuiet, VisibleOtherCall,
       VisibleSub DEF Next, Run, ToolCall, OtherToolCall
  <2>2. QED
    BY <1>1, <2>1 DEF VisibleInv
<1>4. QED
  BY <1>2, <1>3

\* A sub-agent or sub-flow that waits for client results is one the caller was
\* told about, however the agent was interrupted, resumed or failed since.
THEOREM SubRequestsAreVisible == Spec => []SubRequestVisible
<1>1. VisibleInv => SubRequestVisible
  BY DEF VisibleInv, Waits, StoppedAt, SubRequestVisible
<1>2. QED
  BY <1>1, InitVisible, StepVisible, PTL DEF Spec

=============================================================================

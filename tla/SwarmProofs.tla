---------------------------- MODULE SwarmProofs ----------------------------
(***************************************************************************)
(* Proofs about Swarm: type correctness; that the answer of an agent       *)
(* always reaches the request that asked for it; that prompts are complete *)
(* and the look-ups in the message list find what is being handled.        *)
(***************************************************************************)
EXTENDS Swarm, WellFoundedInduction, TLAPS

-----------------------------------------------------------------------------
(* Type correctness.                                                       *)

\* Pending requests are handled in a thread whose status asks for tools, and a
\* result that was submitted belongs to such a thread, too.
AskedInv ==
    /\ pc = "loop" => thread[current].status = "tool"
    /\ submitted => asked # 0
    /\ asked # 0 => /\ pc \in {"idle", "loop"}
                    /\ thread[current].status = "tool"
                    /\ asked \in DOMAIN thread[current].batch

TypeInv == TypeOK /\ AskedInv

Typed(th) == th \in Thread /\ WellFormed(th)
ThreadsTyped == /\ thread \in [Threads -> Thread]
                /\ \A t \in Threads : WellFormed(thread[t])

\* The other variables.
RestTyped ==
    /\ pc \in {"idle", "loop", "agent", "prompted"}
    /\ mainAgent \in Agents /\ current \in Threads /\ stack \in Seq(Threads)
    /\ asked \in 0..MaxBatch /\ submitted \in BOOLEAN
    /\ ret \in Statuses \cup {"raised"} /\ error \in Errors
    /\ rounds \in 0..MaxRounds

LEMMA TypeParts == TypeInv <=> ThreadsTyped /\ RestTyped /\ AskedInv
BY DEF TypeInv, TypeOK, ThreadsTyped, RestTyped

LEMMA NextTypeParts == TypeInv' <=> ThreadsTyped' /\ RestTyped' /\ AskedInv'
BY DEF TypeInv, TypeOK, ThreadsTyped, RestTyped

LEMMA OldestOpen ==
    ASSUME NEW th, Typed(th), Open(th) # {}
    PROVE  /\ Oldest(th) \in Open(th) /\ Oldest(th) \in DOMAIN th.batch
           /\ \A j \in Open(th) : Oldest(th) <= j
<1>1. /\ Open(th) \subseteq 1..Len(th.batch) /\ Len(th.batch) \in Nat
      /\ DOMAIN th.batch = 1..Len(th.batch)
  BY DEF Typed, Thread, Open
<1> DEFINE Less == {ss \in Nat \X Nat : ss[1] < ss[2]}
<1>0. IsWellFoundedOn(Less, Nat)
  BY NatLessThanWellFounded DEF OpToRel
<1> HIDE DEF Less
<1>2. PICK i \in Open(th) : \A j \in Open(th) : ~ (<<j, i>> \in Less)
  BY <1>1, <1>0, WFMin
<1>3. \A j \in Open(th) : i <= j
  <2> SUFFICES ASSUME NEW j \in Open(th) PROVE i <= j
    OBVIOUS
  <2>1. i \in Nat /\ j \in Nat /\ ~ (<<j, i>> \in Less)
    BY <1>1, <1>2
  <2>2. ~ (j < i)
    BY <2>1 DEF Less
  <2>3. QED
    BY <1>1, <2>2
<1>4. Oldest(th) \in Open(th) /\ \A j \in Open(th) : Oldest(th) <= j
  BY <1>3, Zenon DEF Oldest
<1>5. QED
  BY <1>4 DEF Open

LEMMA ChangedThreads ==
    ASSUME ThreadsTyped, NEW t \in Threads, NEW th, Typed(th), Put(t, th)
    PROVE  ThreadsTyped'
BY DEF ThreadsTyped, Typed, Put

LEMMA AnsweredTyped ==
    ASSUME NEW th, Typed(th), NEW S, S \subseteq DOMAIN th.batch
    PROVE  /\ Typed(AnsweredWith(th, S))
           /\ AnsweredWith(th, S).batch = th.batch
           /\ AnsweredWith(th, S).cur = th.cur
           /\ AnsweredWith(th, S).next = th.next
           /\ AnsweredWith(th, S).status = th.status
           /\ AnsweredWith(th, S).plain = th.plain
<1>1. /\ th.batch \in Seq(Request) /\ Len(th.batch) <= MaxBatch
      /\ th.answered \subseteq DOMAIN th.batch
      /\ DOMAIN th.batch = 1..Len(th.batch)
  BY DEF Typed, Thread, WellFormed
<1>2. DOMAIN th.batch \subseteq 1..MaxBatch
  BY <1>1, SwarmAssumption
<1>3. QED
  BY <1>1, <1>2 DEF Typed, Thread, WellFormed, AnsweredWith

LEMMA Indices ==
    ASSUME NEW th, Typed(th)
    PROVE  /\ th.batch \in Seq(Request) /\ Len(th.batch) \in 0..MaxBatch
           /\ DOMAIN th.batch = 1..Len(th.batch)
           /\ th.cur \in 0..Len(th.batch) /\ th.next \in 1..(MaxBatch + 1)
           /\ th.answered \subseteq DOMAIN th.batch
           /\ Open(th) \subseteq DOMAIN th.batch
BY SwarmAssumption DEF Typed, Thread, WellFormed, Open

LEMMA CurrentTyped ==
    ASSUME ThreadsTyped, NEW t \in Threads
    PROVE  Typed(thread[t])
BY DEF ThreadsTyped, Typed

LEMMA AgentsAddressed ==
    ASSUME RestTyped
    PROVE  /\ \A t \in Threads : Recipient(t) \in Agents
           /\ \A a \in Agents : \A b \in Recipients(a) :
                 <<a, b>> \in Threads /\ <<a, b>> # Main /\ b \in Agents
BY SwarmAssumption DEF Threads, Main, Recipient, Recipients, RestTyped

LEMMA PendingTyped ==
    ASSUME TypeInv
    PROVE  /\ Typed(Pending) /\ Pending.batch = Self.batch
           /\ Pending.status = Self.status /\ Pending.plain = Self.plain
<1>1. Typed(Self) /\ (submitted => asked \in DOMAIN Self.batch)
  BY CurrentTyped, TypeParts DEF AskedInv, Self, RestTyped
<1> DEFINE shown == IF submitted THEN AnsweredWith(Self, {asked}) ELSE Self
<1>2. /\ Typed(shown) /\ shown.batch = Self.batch
      /\ shown.status = Self.status /\ shown.plain = Self.plain
  BY <1>1, AnsweredTyped
<1>3. Pending = IF shown.cur = 0 /\ shown.next <= Len(shown.batch)
                THEN [shown EXCEPT !.cur = shown.next, !.next = @ + 1]
                ELSE shown
  BY DEF Pending, Self
<1> HIDE DEF shown
<1>4. /\ Len(shown.batch) \in 0..MaxBatch /\ shown.next \in 1..(MaxBatch + 1)
  BY <1>2, Indices
<1>5. CASE shown.cur = 0 /\ shown.next <= Len(shown.batch)
  <2>1. Pending = [shown EXCEPT !.cur = shown.next, !.next = shown.next + 1]
    BY <1>3, <1>5
  <2>2. /\ shown.next \in 0..MaxBatch /\ shown.next + 1 \in 1..(MaxBatch + 1)
    BY <1>4, <1>5, SwarmAssumption
  <2>3. QED
    BY <1>2, <1>5, <2>1, <2>2 DEF Typed, Thread, WellFormed
<1>6. CASE ~(shown.cur = 0 /\ shown.next <= Len(shown.batch))
  BY <1>2, <1>3, <1>6
<1>7. QED
  BY <1>5, <1>6

\* The fields of a thread that the steps change.
LEMMA FieldsTyped ==
    ASSUME NEW th, Typed(th)
    PROVE  /\ \A c \in 0..Len(th.batch) : Typed([th EXCEPT !.cur = c])
           /\ \A st \in Statuses : Typed([th EXCEPT !.status = st])
           /\ \A n \in 1..(MaxBatch + 1) : Typed([th EXCEPT !.next = n])
           /\ \A l \in {"none", "user", "agent", "request", "result"} :
                 Typed(Extended(th, l))
<1>1. /\ th \in Thread /\ WellFormed(th)
      /\ 0..Len(th.batch) \subseteq 0..MaxBatch
  BY Indices, SwarmAssumption DEF Typed
<1>2. ASSUME NEW c \in 0..Len(th.batch) PROVE Typed([th EXCEPT !.cur = c])
  BY <1>1, <1>2 DEF Typed, Thread, WellFormed
<1>3. ASSUME NEW st \in Statuses PROVE Typed([th EXCEPT !.status = st])
  BY <1>1, <1>3 DEF Typed, Thread, WellFormed
<1>4. ASSUME NEW n \in 1..(MaxBatch + 1) PROVE Typed([th EXCEPT !.next = n])
  BY <1>1, <1>4 DEF Typed, Thread, WellFormed
<1>5. ASSUME NEW l \in {"none", "user", "agent", "request", "result"}
      PROVE  Typed(Extended(th, l))
  BY <1>1, <1>5 DEF Typed, Thread, WellFormed, Extended
<1>6. QED
  BY <1>2, <1>3, <1>4, <1>5

\* Clearing the current request.
LEMMA Cleared ==
    ASSUME NEW th, Typed(th)
    PROVE  Typed([th EXCEPT !.cur = 0])
<1>1. 0 \in 0..Len(th.batch)
  BY Indices, SwarmAssumption
<1>2. QED
  BY <1>1, FieldsTyped

LEMMA InitType == Init => TypeInv
<1> SUFFICES ASSUME Init PROVE TypeInv
  OBVIOUS
<1>1. NewThread \in Thread /\ WellFormed(NewThread)
  <2>1. <<>> \in Seq(Request) /\ Len(<<>>) = 0 /\ DOMAIN <<>> = {}
    OBVIOUS
  <2>2. QED
    BY <2>1, SwarmAssumption
       DEF NewThread, Thread, WellFormed, Statuses
<1>2. ThreadsTyped
  BY <1>1 DEF Init, ThreadsTyped
<1>3. RestTyped
  <2>1. /\ stack \in Seq(Threads) /\ current \in Threads
        /\ mainAgent \in Agents
    BY SwarmAssumption DEF Init, Threads
  <2>2. /\ ret \in Statuses \cup {"raised"} /\ error \in Errors
    BY DEF Init, Statuses, Errors
  <2>3. asked \in 0..MaxBatch /\ rounds \in 0..MaxRounds
    BY SwarmAssumption DEF Init
  <2>4. QED
    BY <2>1, <2>2, <2>3 DEF Init, RestTyped
<1>4. AskedInv
  BY DEF Init, AskedInv
<1>5. QED
  BY <1>2, <1>3, <1>4, TypeParts

LEMMA CallerType == TypeInv /\ Caller => TypeInv'
<1> SUFFICES ASSUME TypeInv, Caller PROVE TypeInv'
  OBVIOUS
<1>1. /\ ThreadsTyped /\ RestTyped /\ AskedInv
      /\ Main \in Threads /\ current \in Threads
  BY TypeParts DEF RestTyped, Threads
<1>2. CASE UserMessage
  <2>1. Typed(Extended(thread[Main], "user"))
    BY <1>1, CurrentTyped, FieldsTyped
  <2>2. ThreadsTyped'
    BY <1>1, <1>2, <2>1, ChangedThreads DEF UserMessage
  <2>3. RestTyped'
    BY <1>1, <1>2 DEF UserMessage, RestTyped, callVars, endVars
  <2>4. \A t \in Threads : /\ thread'[t].batch = thread[t].batch
                           /\ thread'[t].status = thread[t].status
    BY <1>1, <1>2
       DEF UserMessage, Put, Extended, ThreadsTyped, Thread
  <2>5. AskedInv'
    BY <1>1, <1>2, <2>4 DEF UserMessage, AskedInv, callVars
  <2>6. QED
    BY <2>2, <2>3, <2>5, NextTypeParts
<1>3. CASE SubmitToolResult
  <2>1. ThreadsTyped' /\ RestTyped' /\ AskedInv'
    BY <1>1, <1>3
       DEF SubmitToolResult, ThreadsTyped, RestTyped, AskedInv, endVars
  <2>2. QED
    BY <2>1, NextTypeParts
<1>4. CASE Execute
  <2>1. ThreadsTyped' /\ RestTyped' /\ AskedInv'
    BY <1>1, <1>4
       DEF Execute, ThreadsTyped, RestTyped, AskedInv, callVars, Round,
           Statuses, Errors
  <2>2. QED
    BY <2>1, NextTypeParts
<1>5. QED
  BY <1>2, <1>3, <1>4 DEF Caller

\* What a request that is looked up is, and the threads its handling makes.
LEMMA LookedTyped ==
    ASSUME TypeInv, pc = "loop", ~Unusable(Pending)
    PROVE  /\ Looked \in Request
           /\ Typed([AnsweredWith(Pending, {Oldest(Pending)}) EXCEPT !.cur = 0])
           /\ Typed([Pending EXCEPT !.cur = 0])
           /\ Typed(AfterHandoff) /\ Typed([AfterHandoff EXCEPT !.cur = 0])
           /\ AfterHandoff.status = Self.status
           /\ AfterHandoff.batch = Self.batch
<1>1. /\ Typed(Pending) /\ Oldest(Pending) \in DOMAIN Pending.batch
      /\ Pending.batch = Self.batch /\ Pending.status = Self.status
  BY PendingTyped, OldestOpen DEF Unusable
<1>2. Looked \in Request
  BY <1>1, Indices DEF Looked
<1>3. /\ Typed([AnsweredWith(Pending, {Oldest(Pending)}) EXCEPT !.cur = 0])
      /\ Typed([Pending EXCEPT !.cur = 0])
  <2>1. Typed(AnsweredWith(Pending, {Oldest(Pending)}))
    BY <1>1, AnsweredTyped
  <2>2. QED
    BY <1>1, <2>1, Cleared
<1> DEFINE S == {i \in DOMAIN Pending.batch : i >= Oldest(Pending)}
           th == AnsweredWith(Pending, S)
<1>4. /\ Typed(th) /\ th.batch = Self.batch /\ th.status = Self.status
  BY <1>1, AnsweredTyped
<1>5. AfterHandoff = IF Open(Pending) = {Oldest(Pending)} THEN th
                     ELSE [th EXCEPT !.next = Len(th.batch) + 1]
  BY DEF AfterHandoff
<1> HIDE DEF th
<1>6. /\ Typed(AfterHandoff) /\ AfterHandoff.batch = Self.batch
      /\ AfterHandoff.status = Self.status
  <2>1. Len(th.batch) + 1 \in 1..(MaxBatch + 1) /\ th \in Thread
    BY <1>4, Indices, SwarmAssumption DEF Typed
  <2>2. Typed([th EXCEPT !.next = Len(th.batch) + 1])
    BY <1>4, <2>1, FieldsTyped
  <2>3. QED
    BY <1>4, <1>5, <2>1, <2>2 DEF Thread
<1>7. Typed([AfterHandoff EXCEPT !.cur = 0])
  BY <1>6, Cleared
<1>8. QED
  BY <1>2, <1>3, <1>6, <1>7

\* After a step of the runner that takes the submitted result, and after a step
\* of an agent, nothing is asked.
LEMMA NothingAsked ==
    ASSUME TypeInv, Submitted \/ (Running /\ Kept),
           pc' = "loop" => thread'[current'].status = "tool"
    PROVE  /\ AskedInv'
           /\ asked' \in 0..MaxBatch /\ submitted' \in BOOLEAN
<1>1. asked' = 0 /\ submitted' = FALSE
  <2>1. CASE Submitted
    BY <2>1 DEF Submitted
  <2>2. CASE Running /\ Kept
    BY <2>2, TypeParts DEF Running, Kept, callVars, AskedInv, RestTyped
  <2>3. QED
    BY <2>1, <2>2
<1>2. AskedInv'
  BY <1>1 DEF AskedInv
<1>3. 0 \in 0..MaxBatch
  BY SwarmAssumption
<1>4. QED
  BY <1>1, <1>2, <1>3, Zenon

\* A step that changes the current thread and does not enter the loop anew.
LEMMA HereType ==
    ASSUME TypeInv, NEW th, Typed(th), Put(current, th), current' = current,
           pc' = "loop" => th.status = "tool",
           Submitted \/ (Running /\ Kept),
           pc' \in {"idle", "loop", "agent", "prompted"},
           mainAgent' \in Agents, stack' \in Seq(Threads),
           ret' \in Statuses \cup {"raised"}, error' \in Errors,
           rounds' \in 0..MaxRounds
    PROVE  TypeInv'
<1>1. ThreadsTyped /\ current \in Threads
  BY TypeParts DEF RestTyped
<1>2. ThreadsTyped' /\ thread'[current'] = th
  BY <1>1, ChangedThreads DEF Put, ThreadsTyped
<1>3. AskedInv' /\ asked' \in 0..MaxBatch /\ submitted' \in BOOLEAN
  BY <1>2, NothingAsked
<1>4. RestTyped'
  BY <1>1, <1>3 DEF RestTyped
<1>5. QED
  BY <1>2, <1>3, <1>4, NextTypeParts

\* What a look-up that raises leaves.
LEMMA LookupFailsType ==
    ASSUME TypeInv, pc = "loop", Submitted, LookupFails, rounds' = rounds
    PROVE  TypeInv'
<1>1. /\ Typed(Pending) /\ RestTyped
  BY PendingTyped, TypeParts
<1>2. /\ Put(current, Pending) /\ pc' = "idle" /\ ret' = "raised"
      /\ error' \in {"none open", "list"}
      /\ mainAgent' = mainAgent /\ current' = current /\ stack' = stack
  BY DEF LookupFails, LookupRaises, Raise
<1>3. error' \in Errors
  BY <1>2 DEF Errors, InternalErrors, LookupErrors
<1>4. QED
  BY <1>1, <1>2, <1>3, HereType DEF RestTyped

LEMMA RefuseType ==
    ASSUME TypeInv, pc = "loop", Submitted, ~Unusable(Pending), Refuse,
           rounds' = rounds
    PROVE  TypeInv'
<1> DEFINE th == [AnsweredWith(Pending, {Oldest(Pending)}) EXCEPT !.cur = 0]
<1>1. Typed(th) /\ RestTyped /\ AskedInv
  BY LookedTyped, TypeParts
<1>2. th.status = "tool"
  <2>1. Pending.status = "tool"
    BY <1>1, PendingTyped DEF AskedInv, Self
  <2>2. th.status = AnsweredWith(Pending, {Oldest(Pending)}).status
    OBVIOUS
  <2>3. QED
    BY <2>1, <2>2, PendingTyped, OldestOpen, AnsweredTyped DEF Unusable
<1>3. /\ Put(current, th)
      /\ UNCHANGED <<pc, mainAgent, current, stack, ret, error>>
  BY DEF Refuse, endVars
<1> HIDE DEF th
<1>4. QED
  BY <1>1, <1>2, <1>3, HereType DEF RestTyped

LEMMA DeliverType ==
    ASSUME TypeInv, pc = "loop", Submitted, ~Unusable(Pending), Accepted,
           Deliver, rounds' = rounds
    PROVE  TypeInv'
<1> DEFINE t == <<Recipient(current), Looked.to>>
           th == [Pending EXCEPT !.cur = 0]
<1>1. Typed(th) /\ RestTyped /\ ThreadsTyped
  BY LookedTyped, TypeParts
<1>2. t \in Threads
  BY <1>1, AgentsAddressed DEF Accepted, Known, RestTyped
<1>3. /\ thread' = [thread EXCEPT ![current] = th, ![t] = Extended(@, "user")]
      /\ current' = t /\ pc' = Round(t) /\ stack' = Append(stack, current)
      /\ UNCHANGED <<mainAgent, ret, error>>
  BY DEF Deliver, endVars
<1> HIDE DEF th, t
<1>4. ThreadsTyped'
  <2>1. \A u \in Threads : Typed(Extended(thread[u], "user"))
    BY <1>1, CurrentTyped, FieldsTyped
  <2>2. Typed(Extended(th, "user"))
    BY <1>1, FieldsTyped
  <2>3. QED
    BY <1>1, <1>2, <1>3, <2>1, <2>2 DEF ThreadsTyped, Typed, RestTyped
<1>5. pc' = "loop" => thread'[current'].status = "tool"
  <2>1. t # current => thread'[t].status = thread[t].status
    BY <1>1, <1>2, <1>3 DEF ThreadsTyped, Thread, Extended
  <2>2. t = current => thread'[t].status = thread[t].status
    <3>1. th.status = thread[current].status
      BY PendingTyped DEF Self, th, Typed, Thread
    <3>2. QED
      BY <1>1, <1>2, <1>3, <3>1 DEF ThreadsTyped, Thread, Extended, Typed
  <2>3. QED
    BY <1>3, <2>1, <2>2 DEF Round
<1>6. AskedInv' /\ asked' \in 0..MaxBatch /\ submitted' \in BOOLEAN
  BY <1>5, NothingAsked
<1>7. RestTyped'
  BY <1>1, <1>2, <1>3, <1>6 DEF RestTyped, Round
<1>8. QED
  BY <1>4, <1>6, <1>7, NextTypeParts

LEMMA SendType == TypeInv /\ SendMessage => TypeInv'
<1>1. TypeInv /\ SendMessage =>
        /\ pc = "loop" /\ Submitted /\ rounds' = rounds
        /\ IF Unusable(Pending) THEN LookupFails
           ELSE IF Accepted THEN Deliver ELSE Refuse
  BY DEF SendMessage, Handling
<1>2. QED
  BY <1>1, LookupFailsType, DeliverType, RefuseType

LEMMA HandoffType == TypeInv /\ HandoffConversation => TypeInv'
<1> SUFFICES ASSUME TypeInv, HandoffConversation PROVE TypeInv'
  OBVIOUS
<1>1. /\ pc = "loop" /\ Submitted /\ rounds' = rounds
      /\ IF Unusable(Pending) THEN LookupFails
         ELSE IF Transferable /\ current # Main THEN TransferFails
         ELSE Transfer
  BY DEF HandoffConversation, Handling
<1>2. CASE Unusable(Pending)
  BY <1>1, <1>2, LookupFailsType
<1>3. CASE ~Unusable(Pending) /\ TransferFails
  <2>1. Typed(AfterHandoff) /\ RestTyped
    BY <1>1, <1>3, LookedTyped, TypeParts
  <2>2. /\ Put(current, AfterHandoff) /\ pc' = "idle" /\ ret' = "raised"
        /\ error' \in Errors
        /\ mainAgent' = mainAgent /\ current' = current /\ stack' = stack
    BY <1>3 DEF TransferFails, Raise, Errors, InternalErrors, LookupErrors
  <2>3. QED
    BY <1>1, <2>1, <2>2, HereType DEF RestTyped
<1>4. CASE ~Unusable(Pending) /\ Transfer
  <2> DEFINE th == [AfterHandoff EXCEPT !.cur = 0]
  <2>1. Typed(th) /\ RestTyped /\ AskedInv /\ Looked \in Request
    BY <1>1, <1>4, LookedTyped, TypeParts
  <2>2. th.status = "tool"
    <3>1. th.status = AfterHandoff.status
      OBVIOUS
    <3>2. QED
      BY <1>1, <1>4, <2>1, <3>1, LookedTyped DEF AskedInv, Self
  <2>3. mainAgent' \in Agents
    BY <1>4, <2>1, AgentsAddressed
       DEF Transfer, Transferable, Known, RestTyped
  <2>4. /\ Put(current, th)
        /\ UNCHANGED <<pc, current, stack, ret, error>>
    BY <1>4 DEF Transfer, endVars
  <2> HIDE DEF th
  <2>5. QED
    BY <1>1, <2>1, <2>2, <2>3, <2>4, HereType DEF RestTyped
<1>5. QED
  BY <1>1, <1>2, <1>3, <1>4

LEMMA ResumeType == TypeInv /\ ResumeAgent => TypeInv'
<1> SUFFICES ASSUME TypeInv, ResumeAgent PROVE TypeInv'
  OBVIOUS
<1> DEFINE th == [Pending EXCEPT !.status = "none"]
<1>1. RestTyped /\ Typed(th)
  BY TypeParts, PendingTyped, FieldsTyped DEF Statuses
<1>2. /\ Put(current, th) /\ Submitted /\ pc' = "agent"
      /\ UNCHANGED <<mainAgent, current, stack, ret, error, rounds>>
  BY DEF ResumeAgent, endVars
<1> HIDE DEF th
<1>3. QED
  BY <1>1, <1>2, HereType DEF RestTyped

LEMMA AskType == TypeInv /\ AskCaller => TypeInv'
<1> SUFFICES ASSUME TypeInv, AskCaller PROVE TypeInv'
  OBVIOUS
<1> DEFINE th == [Pending EXCEPT !.cur = 0]
<1>1. RestTyped /\ ThreadsTyped /\ AskedInv /\ Typed(Pending)
  BY TypeParts, PendingTyped
<1>2. Typed(th) /\ th.batch = Self.batch /\ th.status = Self.status
  BY <1>1, Cleared, PendingTyped
<1>3. /\ Put(current, th) /\ pc = "loop" /\ Pending.cur # 0
      /\ asked' = Pending.cur /\ submitted' = FALSE
      /\ pc' = "idle" /\ ret' = "tool" /\ error' = "none"
      /\ UNCHANGED <<mainAgent, current, stack, rounds>>
  BY DEF AskCaller, Handling, Return
<1>4. asked' \in DOMAIN Self.batch /\ asked' \in 0..MaxBatch
  BY <1>1, <1>3, PendingTyped, Indices, SwarmAssumption
<1> HIDE DEF th
<1>5. ThreadsTyped' /\ thread'[current'] = th
  BY <1>1, <1>2, <1>3, ChangedThreads DEF Put, ThreadsTyped, RestTyped
<1>6. RestTyped'
  BY <1>1, <1>3, <1>4 DEF RestTyped, Statuses, Errors
<1>7. AskedInv'
  BY <1>1, <1>2, <1>3, <1>4, <1>5 DEF AskedInv, Self
<1>8. QED
  BY <1>5, <1>6, <1>7, NextTypeParts

LEMMA LoopType ==
    TypeInv /\ (ResumeAgent \/ AskCaller \/ SendMessage \/ HandoffConversation)
       => TypeInv'
BY ResumeType, AskType, SendType, HandoffType

\* A step of the agent of the current thread that stays there.
LEMMA SelfType ==
    ASSUME TypeInv, Running, Kept, NEW th, Typed(th), Put(current, th),
           pc' \in {"idle", "agent", "prompted"},
           ret' \in Statuses \cup {"raised"}, error' \in Errors,
           rounds' \in 0..MaxRounds, UNCHANGED <<current, stack>>
    PROVE  TypeInv'
<1>1. RestTyped /\ mainAgent' = mainAgent /\ current' = current
        /\ stack' = stack
  BY TypeParts DEF Kept
<1>2. QED
  BY <1>1, HereType DEF RestTyped

LEMMA ToolType ==
    TypeInv /\ (TakeRequest \/ RunServerTool \/ ServerToolRaises
                  \/ ServerToolYields \/ RequestTools) => TypeInv'
<1> SUFFICES ASSUME TypeInv,
                    TakeRequest \/ RunServerTool \/ ServerToolRaises
                      \/ ServerToolYields \/ RequestTools
             PROVE  TypeInv'
  OBVIOUS
<1>1. /\ RestTyped /\ Typed(Self)
      /\ Self.batch \in Seq(Request) /\ Len(Self.batch) \in 0..MaxBatch
      /\ DOMAIN Self.batch = 1..Len(Self.batch)
      /\ Self.cur \in 0..Len(Self.batch) /\ Self.next \in 1..(MaxBatch + 1)
  BY TypeParts, CurrentTyped, Indices DEF RestTyped, Self
<1>2. CASE TakeRequest
  <2> DEFINE th == [Self EXCEPT !.cur = Self.next, !.next = Self.next + 1]
  <2>1. /\ Running /\ Kept /\ Put(current, th) /\ Self.next <= Len(Self.batch)
        /\ UNCHANGED <<pc, current, stack, ret, error, rounds>>
    BY <1>2 DEF TakeRequest, endVars
  <2>2. Typed(th)
    <3>1. /\ Self.next \in 0..Len(Self.batch) /\ Self.next \in 0..MaxBatch
          /\ Self.next + 1 \in 1..(MaxBatch + 1)
      BY <1>1, <2>1, SwarmAssumption
    <3>2. Typed([Self EXCEPT !.next = Self.next + 1])
      BY <1>1, <3>1, FieldsTyped
    <3>3. th = [[Self EXCEPT !.next = Self.next + 1] EXCEPT !.cur = Self.next]
      BY <1>1 DEF Typed, Thread
    <3>4. [Self EXCEPT !.next = Self.next + 1].batch = Self.batch
      BY <1>1 DEF Typed, Thread
    <3>5. QED
      BY <3>1, <3>2, <3>3, <3>4, FieldsTyped
  <2> HIDE DEF th
  <2>3. QED
    BY <1>1, <2>1, <2>2, SelfType DEF RestTyped, Running
<1>3. CASE RunServerTool
  <2> DEFINE th == [AnsweredWith(Self, {Self.cur}) EXCEPT !.cur = 0]
  <2>1. /\ Running /\ Kept /\ Put(current, th) /\ Self.cur # 0
        /\ UNCHANGED <<pc, current, stack, ret, error, rounds>>
    BY <1>3 DEF RunServerTool, Processing, endVars
  <2>2. {Self.cur} \subseteq DOMAIN Self.batch
    BY <1>1, <2>1
  <2>3. Typed(th)
    BY <1>1, <2>2, AnsweredTyped, Cleared
  <2> HIDE DEF th
  <2>4. QED
    BY <1>1, <2>1, <2>3, SelfType DEF RestTyped, Running
<1>4. CASE ServerToolRaises
  <2> DEFINE an == AnsweredWith(Self, Self.cur .. Len(Self.batch))
             th == [an EXCEPT !.cur = 0, !.next = Len(Self.batch) + 1]
  <2>1. /\ Running /\ Kept /\ Put(current, th) /\ Self.cur # 0
        /\ pc' = "idle" /\ ret' = "raised" /\ error' = "tool"
        /\ UNCHANGED <<current, stack, rounds>>
    BY <1>4 DEF ServerToolRaises, Processing, Raise
  <2>2. Self.cur .. Len(Self.batch) \subseteq DOMAIN Self.batch
    BY <1>1, <2>1
  <2>3. Typed(an) /\ Len(Self.batch) + 1 \in 1..(MaxBatch + 1)
    BY <1>1, <2>2, AnsweredTyped, SwarmAssumption
  <2> HIDE DEF an
  <2>4. Typed([an EXCEPT !.next = Len(Self.batch) + 1])
    BY <2>3, FieldsTyped
  <2>5. th = [[an EXCEPT !.next = Len(Self.batch) + 1] EXCEPT !.cur = 0]
    BY <2>3 DEF Typed, Thread
  <2>6. Typed(th)
    BY <2>4, <2>5, Cleared
  <2> HIDE DEF th
  <2>7. QED
    BY <1>1, <2>1, <2>6, SelfType DEF RestTyped, Errors
<1>5. CASE ServerToolYields
  <2> DEFINE th == [Self EXCEPT !.status = "confirm"]
  <2>1. /\ Running /\ Kept /\ Put(current, th)
        /\ pc' = "idle" /\ ret' = "confirm" /\ error' = "none"
        /\ UNCHANGED <<current, stack, rounds>>
    BY <1>5 DEF ServerToolYields, Processing, Return
  <2>2. Typed(th)
    BY <1>1, FieldsTyped DEF Statuses
  <2> HIDE DEF th
  <2>3. QED
    BY <1>1, <2>1, <2>2, SelfType DEF RestTyped, Errors, Statuses
<1>6. CASE RequestTools
  <2> DEFINE th == [Self EXCEPT !.status = "tool"]
  <2>1. /\ Running /\ Kept /\ Put(current, th) /\ pc' = "loop"
        /\ UNCHANGED <<current, stack, ret, error, rounds>>
    BY <1>6 DEF RequestTools, Processing, endVars
  <2>2. Typed(th) /\ th.status = "tool"
    <3>1. "tool" \in Statuses
      BY DEF Statuses
    <3>2. Typed(th)
      BY <1>1, <3>1, FieldsTyped
    <3>3. QED
      BY <1>1, <3>2 DEF Typed, Thread
  <2> HIDE DEF th
  <2>3. mainAgent' = mainAgent
    BY <2>1 DEF Kept
  <2>4. QED
    BY <1>1, <2>1, <2>2, <2>3, HereType DEF RestTyped
<1>7. QED
  BY <1>2, <1>3, <1>4, <1>5, <1>6

LEMMA SaidTyped ==
    ASSUME Typed(Self), Self.cur = 0
    PROVE  /\ Typed(Said)
           /\ Typed([Said EXCEPT !.last = "result", !.status = "finished"])
<1>1. <<>> \in Seq(Request) /\ Len(<<>>) = 0 /\ DOMAIN <<>> = {}
  OBVIOUS
<1>2. {} \in SUBSET (1..MaxBatch) /\ 1 \in 1..(MaxBatch + 1)
  BY SwarmAssumption
<1>3. Said \in Thread
  BY <1>1, <1>2 DEF Said, Typed, Thread, Statuses
<1>4. WellFormed(Said)
  <2>1. Said.batch = <<>> /\ Said.answered = {} /\ Said.cur = 0
    BY DEF Said, Typed, Thread
  <2>2. QED
    BY <1>1, <2>1, SwarmAssumption DEF WellFormed
<1>5. Typed(Said)
  BY <1>3, <1>4 DEF Typed
<1>6. "finished" \in Statuses /\ "result" \in {"none", "user", "agent", "request", "result"}
  BY DEF Statuses
<1>7. Typed([Extended(Said, "result") EXCEPT !.status = "finished"])
  BY <1>5, <1>6, FieldsTyped
<1>8. [Said EXCEPT !.last = "result", !.status = "finished"]
        = [Extended(Said, "result") EXCEPT !.status = "finished"]
  BY DEF Said, Extended, Typed, Thread
<1>9. QED
  BY <1>5, <1>7, <1>8

LEMMA AnswerType == TypeInv /\ AnswerCaller => TypeInv'
<1> SUFFICES ASSUME TypeInv, AnswerCaller PROVE TypeInv'
  OBVIOUS
<1>1. /\ RestTyped /\ ThreadsTyped /\ Typed(Self) /\ Running /\ Kept
      /\ Self.cur = 0 /\ rounds' = rounds
      /\ IF stack = <<>> \/ Unusable(Told[Waiting])
            THEN AnswerFails
            ELSE AnswerRequest(Oldest(Told[Waiting]))
  BY TypeParts, CurrentTyped
     DEF AnswerCaller, Prompting, NothingQueued, RestTyped, Self
<1>2. Typed(Said)
  BY <1>1, SaidTyped
<1>3. stack # <<>> =>
        /\ Waiting \in Threads
        /\ SubSeq(stack, 1, Len(stack) - 1) \in Seq(Threads)
  <2>1. stack \in Seq(Threads)
    BY <1>1 DEF RestTyped
  <2>2. stack # <<>> => Len(stack) \in 1..Len(stack) /\ Len(stack) \in Nat
    BY <2>1
  <2>3. QED
    BY <2>1, <2>2 DEF Waiting
<1>4. CASE AnswerFails
  <2>1. /\ Put(current, Said) /\ pc' = "idle" /\ ret' = "raised"
        /\ error' \in Errors /\ current' = current /\ mainAgent' = mainAgent
        /\ stack' \in Seq(Threads)
    BY <1>1, <1>3, <1>4
       DEF AnswerFails, LookupRaises, Raise, Errors, InternalErrors, LookupErrors, Kept,
           RestTyped
  <2>2. QED
    BY <1>1, <1>2, <2>1, HereType DEF RestTyped
<1>5. CASE /\ stack # <<>> /\ ~Unusable(Told[Waiting])
           /\ AnswerRequest(Oldest(Told[Waiting]))
  <2> DEFINE i == Oldest(Told[Waiting])
             w == Waiting
  <2>1. /\ thread' = [Told EXCEPT ![w] = AnsweredWith(@, {i})]
        /\ stack' = SubSeq(stack, 1, Len(stack) - 1)
        /\ current' = w /\ pc' = Round(w)
        /\ UNCHANGED <<ret, error>>
    BY <1>5 DEF AnswerRequest, endVars
  <2>2. w \in Threads /\ current \in Threads /\ stack' \in Seq(Threads)
    BY <1>1, <1>3, <1>5, <2>1 DEF RestTyped
  <2> HIDE DEF w
  <2>3. /\ Told \in [Threads -> Thread]
        /\ \A t \in Threads : Typed(Told[t])
    BY <1>1, <1>2, <2>2 DEF Told, ThreadsTyped, Typed
  <2>4. w # current /\ Told[w] = thread[w]
    <3>1. Told[w].plain
      BY <1>5 DEF Unusable, w
    <3>2. ~Said.plain
      BY <1>1 DEF Said, Typed, Thread
    <3>3. QED
      BY <1>1, <2>2, <3>1, <3>2 DEF Told, ThreadsTyped
  <2>5. i \in DOMAIN Told[w].batch
    BY <1>5, <2>2, <2>3, OldestOpen DEF Unusable, w
  <2> HIDE DEF i
  <2>6. /\ Typed(AnsweredWith(Told[w], {i}))
        /\ AnsweredWith(Told[w], {i}).status = thread[w].status
    BY <2>2, <2>3, <2>4, <2>5, AnsweredTyped
  <2>7. ThreadsTyped' /\ thread'[w].status = thread[w].status
    BY <2>1, <2>2, <2>3, <2>6 DEF ThreadsTyped, Typed
  <2>8. AskedInv' /\ asked' \in 0..MaxBatch /\ submitted' \in BOOLEAN
    <3>1. pc' = "loop" => thread'[current'].status = "tool"
      BY <2>1, <2>7 DEF Round
    <3>2. QED
      BY <1>1, <3>1, NothingAsked
  <2>9. RestTyped'
    BY <1>1, <2>1, <2>2, <2>8 DEF RestTyped, Round, Kept
  <2>10. QED
    BY <2>7, <2>8, <2>9, NextTypeParts
<1>6. QED
  BY <1>1, <1>4, <1>5

LEMMA PromptType ==
    TypeInv /\ (GenerateRequests \/ AnswerUser \/ Exhausts \/ Finishes
                  \/ GenerationFails \/ Interrupt) => TypeInv'
<1> SUFFICES ASSUME TypeInv,
                    GenerateRequests \/ AnswerUser \/ Exhausts \/ Finishes
                      \/ GenerationFails \/ Interrupt
             PROVE  TypeInv'
  OBVIOUS
<1>1. /\ RestTyped /\ ThreadsTyped /\ Typed(Self)
      /\ {"raised", "user", "finished", "interrupted"}
            \subseteq Statuses \cup {"raised"}
      /\ {"user", "interrupted"} \subseteq Statuses
      /\ {"none", "generation", "answer", "interrupted"} \subseteq Errors
  BY TypeParts, CurrentTyped DEF RestTyped, Self, Statuses, Errors, InternalErrors
<1>2. CASE GenerateRequests
  <2>1. PICK b \in Batches(Offered) :
           Put(current, [Self EXCEPT !.batch = b, !.answered = {},
                                     !.plain = TRUE, !.last = "request",
                                     !.next = 1])
    BY <1>2 DEF GenerateRequests
  <2> DEFINE th == [Self EXCEPT !.batch = b, !.answered = {},
                                !.plain = TRUE, !.last = "request",
                                !.next = 1]
  <2>2. /\ Running /\ Kept /\ Self.cur = 0 /\ rounds < MaxRounds
        /\ pc' = "prompted" /\ rounds' = rounds + 1
        /\ UNCHANGED <<current, stack, ret, error>>
    BY <1>2 DEF GenerateRequests, Prompting, NothingQueued, endVars
  <2>3. b \in Seq(Request) /\ Len(b) \in 1..MaxBatch
    <3>1. Offered \subseteq Request
      BY DEF Offered, OwnTools, Request, Recipients
    <3>2. PICK n \in 1..MaxBatch : b \in [1..n -> Offered]
      BY DEF Batches
    <3>3. n \in Nat /\ b \in [1..n -> Request]
      BY <3>1, <3>2, SwarmAssumption
    <3>4. QED
      BY <3>2, <3>3
  <2>4. Typed(th)
    <3>1. {} \in SUBSET (1..MaxBatch) /\ 1 \in 1..(MaxBatch + 1)
      BY SwarmAssumption
    <3>2. th \in Thread
      BY <1>1, <2>3, <3>1 DEF Typed, Thread
    <3>3. th.batch = b /\ th.answered = {} /\ th.cur = 0
      BY <1>1, <2>2 DEF Typed, Thread
    <3>4. WellFormed(th)
      BY <2>3, <3>3, SwarmAssumption DEF WellFormed
    <3>5. QED
      BY <3>2, <3>4 DEF Typed
  <2>5. Put(current, th)
    BY <2>1
  <2> HIDE DEF th
  <2>6. rounds' \in 0..MaxRounds
    BY <1>1, <2>2, SwarmAssumption DEF RestTyped
  <2>7. QED
    BY <1>1, <2>2, <2>4, <2>5, <2>6, SelfType DEF RestTyped
<1>3. CASE AnswerUser
  <2>1. /\ Running /\ Kept /\ Self.cur = 0 /\ Put(current, Said)
        /\ pc' = "idle" /\ ret' = "user" /\ error' = "none"
        /\ UNCHANGED <<current, stack, rounds>>
    BY <1>3 DEF AnswerUser, Prompting, NothingQueued, Return
  <2>2. QED
    BY <1>1, <2>1, SaidTyped, SelfType DEF RestTyped
<1>4. CASE Exhausts
  <2> DEFINE th == [Self EXCEPT !.status = "user"]
  <2>1. /\ Running /\ Kept /\ Put(current, th)
        /\ pc' = "idle" /\ ret' \in {"user", "raised"}
        /\ error' \in {"none", "answer"}
        /\ UNCHANGED <<current, stack, rounds>>
    BY <1>4 DEF Exhausts, Prompting, Return, Raise
  <2>2. Typed(th)
    BY <1>1, FieldsTyped
  <2> HIDE DEF th
  <2>3. QED
    BY <1>1, <2>1, <2>2, SelfType DEF RestTyped
<1>5. CASE Finishes
  <2> DEFINE th == [Said EXCEPT !.last = "result", !.status = "finished"]
  <2>1. /\ Running /\ Kept /\ Self.cur = 0 /\ Put(current, th)
        /\ pc' = "idle" /\ ret' = "finished" /\ error' = "none"
        /\ UNCHANGED <<current, stack, rounds>>
    BY <1>5 DEF Finishes, Prompting, NothingQueued, Return
  <2>2. Typed(th)
    BY <1>1, <2>1, SaidTyped
  <2> HIDE DEF th
  <2>3. QED
    BY <1>1, <2>1, <2>2, SelfType DEF RestTyped
<1>6. CASE GenerationFails
  <2>1. /\ Running /\ Kept /\ thread' = thread
        /\ pc' = "idle" /\ ret' = "raised" /\ error' = "generation"
        /\ UNCHANGED <<current, stack, rounds>>
    BY <1>6 DEF GenerationFails, Prompting, Raise
  <2>2. Put(current, Self)
    BY <1>1, <2>1 DEF Put, Self, ThreadsTyped
  <2>3. QED
    BY <1>1, <2>1, <2>2, SelfType DEF RestTyped
<1>7. CASE Interrupt
  <2> DEFINE th == [Self EXCEPT !.status = "interrupted"]
  <2>1. /\ Running /\ Kept /\ Put(current, th)
        /\ pc' = "idle" /\ ret' \in {"interrupted", "raised"}
        /\ error' \in {"none", "interrupted"}
        /\ UNCHANGED <<current, stack, rounds>>
    BY <1>7 DEF Interrupt, Return, Raise
  <2>2. Typed(th)
    BY <1>1, FieldsTyped
  <2> HIDE DEF th
  <2>3. QED
    BY <1>1, <2>1, <2>2, SelfType DEF RestTyped
<1>8. QED
  BY <1>2, <1>3, <1>4, <1>5, <1>6, <1>7

LEMMA StutterType == TypeInv /\ UNCHANGED vars => TypeInv'
BY DEF vars, callVars, endVars, TypeInv, TypeOK, AskedInv, Open

\* Every variable has its type, whatever the agents, their relationships and
\* the caller do (SwarmRunner, SwarmConversation).
THEOREM TypeCorrect == Spec => []TypeOK
<1>1. TypeInv /\ [Next]_vars => TypeInv'
  BY LoopType, ToolType, PromptType, AnswerType, CallerType, StutterType
     DEF Next, Run
<1>2. TypeInv => TypeOK
  BY DEF TypeInv
<1>3. QED
  BY <1>1, <1>2, InitType, PTL DEF Spec

-----------------------------------------------------------------------------
(* The call chain.                                                         *)

\* No agent reaches itself through messages that are accepted: a message to
\* the agent that just sent one is refused, so only longer cycles count.
Deepens(depth) ==
    /\ \A r \in Relationships : depth[Main] < depth[r]
    /\ \A r, s \in Relationships :
          r[2] = s[1] /\ s[2] # r[1] => depth[r] < depth[s]

Acyclic == \E depth \in [Threads -> Nat] : Deepens(depth)

Above(i) == IF i = Len(stack) THEN current ELSE stack[i + 1]

\* The threads of the stack are different ones, the main thread at the bottom,
\* and each of them waits with a status that keeps its user away.
Chain(depth) ==
    /\ CallChain
    /\ \A i \in DOMAIN stack : /\ stack[i] = Main <=> i = 1
                               /\ thread[stack[i]].status = "tool"
                               /\ depth[stack[i]] < depth[current]
    /\ \A i, j \in DOMAIN stack : i < j => depth[stack[i]] < depth[stack[j]]

LEMMA ChainParts ==
    ASSUME NEW depth \in [Threads -> Nat], TypeInv, Chain(depth)
    PROVE  /\ stack \in Seq(Threads) /\ Len(stack) \in Nat
           /\ DOMAIN stack = 1..Len(stack)
           /\ stack = <<>> <=> current = Main
           /\ \A i \in DOMAIN stack :
                 /\ stack[i] \in Threads /\ stack[i] # current
                 /\ Above(i) \in Threads /\ WaitsFor(stack[i], Above(i))
                 /\ stack[i] = Main <=> i = 1
                 /\ thread[stack[i]].status = "tool"
<1>1. stack \in Seq(Threads) /\ current \in Threads
  BY TypeParts DEF RestTyped
<1>2. /\ Len(stack) \in Nat /\ DOMAIN stack = 1..Len(stack)
      /\ \A i \in DOMAIN stack : stack[i] \in Threads
  BY <1>1
<1>3. \A i \in DOMAIN stack : Above(i) \in Threads
  BY <1>1, <1>2 DEF Above
<1>4. \A i \in DOMAIN stack : WaitsFor(stack[i], Above(i))
  BY DEF Chain, CallChain, Above
<1>5. ASSUME NEW i \in DOMAIN stack, stack[i] = current
      PROVE  FALSE
  BY <1>1, <1>5 DEF Chain
<1>6. QED
  BY <1>1, <1>2, <1>3, <1>4, <1>5 DEF Chain, CallChain

LEMMA InitChain ==
    ASSUME NEW depth \in [Threads -> Nat], Init
    PROVE  Chain(depth)
BY DEF Init, Chain, CallChain

\* A thread that waits goes on waiting while its list and the main agent stay.
LEMMA WaitsOn ==
    ASSUME NEW t \in Threads, NEW u \in Threads, WaitsFor(t, u),
           thread'[t] = thread[t],
           mainAgent' = mainAgent \/ (t # Main /\ u # Main)
    PROVE  WaitsFor(t, u)'
BY DEF WaitsFor, Recipient, CallerOf

\* Steps that change no thread but the current one and keep the stack.
LEMMA ChainKept ==
    ASSUME NEW depth \in [Threads -> Nat], TypeInv, Chain(depth),
           UNCHANGED <<stack, current>>,
           mainAgent' = mainAgent \/ stack = <<>>,
           \A t \in Threads : t # current => thread'[t] = thread[t]
    PROVE  Chain(depth)'
<1>1. ASSUME NEW i \in DOMAIN stack
      PROVE  /\ WaitsFor(stack[i], Above(i))'
             /\ thread'[stack[i]].status = "tool"
  <2>1. /\ stack[i] \in Threads /\ Above(i) \in Threads
        /\ WaitsFor(stack[i], Above(i))
        /\ thread'[stack[i]] = thread[stack[i]]
        /\ thread[stack[i]].status = "tool"
        /\ mainAgent' = mainAgent
    BY ChainParts
  <2>2. stack' = stack /\ current' = current
    OBVIOUS
  <2>3. WaitsFor(stack[i], Above(i))'
    BY <2>1, <2>2, WaitsOn DEF WaitsFor, Recipient, CallerOf, Above
  <2>4. QED
    BY <2>1, <2>3
<1>2. CallChain'
  BY <1>1 DEF Chain, CallChain, Above
<1>3. QED
  BY <1>1, <1>2 DEF Chain

LEMMA HereChain ==
    ASSUME NEW depth \in [Threads -> Nat], TypeInv, Chain(depth),
           UNCHANGED <<stack, current>>,
           mainAgent' = mainAgent \/ stack = <<>>,
           NEW th, Put(current, th)
    PROVE  Chain(depth)'
<1>1. \A t \in Threads : t # current => thread'[t] = thread[t]
  BY TypeParts DEF Put, ThreadsTyped
<1>2. QED
  BY <1>1, ChainKept

LEMMA CallerChain ==
    ASSUME NEW depth \in [Threads -> Nat], TypeInv, Chain(depth), Caller
    PROVE  Chain(depth)'
<1>1. CASE UserMessage
  <2>1. current = Main
    <3>1. SUFFICES ASSUME current # Main PROVE FALSE
      OBVIOUS
    <3>2. 1 \in DOMAIN stack
      BY <3>1, ChainParts
    <3>3. thread[Main].status = "tool"
      BY <3>2, ChainParts
    <3>4. QED
      BY <1>1, <3>3 DEF UserMessage
  <2>2. QED
    BY <1>1, <2>1, HereChain DEF UserMessage
<1>2. CASE SubmitToolResult \/ Execute
  BY <1>2, ChainKept DEF SubmitToolResult, Execute
<1>3. QED
  BY <1>1, <1>2 DEF Caller

\* The steps that stay in the current thread.
LEMMA StayChain ==
    ASSUME NEW depth \in [Threads -> Nat], TypeInv, Chain(depth),
           \/ ResumeAgent \/ AskCaller \/ HandoffConversation
           \/ TakeRequest \/ RunServerTool \/ ServerToolRaises
           \/ ServerToolYields \/ RequestTools \/ GenerateRequests
           \/ AnswerUser \/ Exhausts \/ Finishes \/ GenerationFails
           \/ Interrupt
    PROVE  Chain(depth)'
<1>1. CASE ResumeAgent \/ AskCaller
  <2>1. /\ UNCHANGED <<stack, current>> /\ mainAgent' = mainAgent
        /\ \E th : Put(current, th)
    BY <1>1, Zenon DEF ResumeAgent, AskCaller
  <2>2. QED
    BY <2>1, HereChain
<1>2. CASE HandoffConversation
  <2>1. /\ UNCHANGED <<stack, current>> /\ \E th : Put(current, th)
    BY <1>2, Zenon
       DEF HandoffConversation, LookupFails, TransferFails, Transfer
  <2>2. mainAgent' = mainAgent \/ current = Main
    BY <1>2, Zenon
       DEF HandoffConversation, LookupFails, TransferFails, Transfer
  <2>3. mainAgent' = mainAgent \/ stack = <<>>
    BY <2>2, ChainParts
  <2>4. QED
    BY <2>1, <2>3, HereChain
<1>3. CASE \/ TakeRequest \/ RunServerTool \/ ServerToolRaises
           \/ ServerToolYields \/ RequestTools
  <2>1. /\ UNCHANGED <<stack, current>> /\ mainAgent' = mainAgent
        /\ \E th : Put(current, th)
    BY <1>3, Zenon
       DEF TakeRequest, RunServerTool, ServerToolRaises, ServerToolYields,
           RequestTools, Processing, Kept
  <2>2. QED
    BY <2>1, HereChain
<1>4. CASE \/ GenerateRequests \/ AnswerUser \/ Exhausts \/ Finishes
           \/ Interrupt
  <2>1. /\ UNCHANGED <<stack, current>> /\ mainAgent' = mainAgent
        /\ \E th : Put(current, th)
    BY <1>4, Zenon
       DEF GenerateRequests, AnswerUser, Exhausts, Finishes, Interrupt,
           Prompting, Kept
  <2>2. QED
    BY <2>1, HereChain
<1>5. CASE GenerationFails
  BY <1>5, ChainKept DEF GenerationFails, Prompting, Kept
<1>6. QED
  BY <1>1, <1>2, <1>3, <1>4, <1>5

\* A message that is accepted goes to a deeper thread.
LEMMA DeeperThread ==
    ASSUME NEW depth \in [Threads -> Nat], Deepens(depth), TypeInv, Accepted
    PROVE  LET t == <<Recipient(current), Looked.to>> IN
           /\ t \in Relationships /\ t \in Threads /\ t # Main
           /\ depth[current] < depth[t]
<1> DEFINE t == <<Recipient(current), Looked.to>>
<1>1. /\ RestTyped /\ Looked.to \in Recipients(Recipient(current))
      /\ Looked.to # CallerOf(current)
  BY TypeParts DEF Accepted, Known
<1>2. Recipient(current) \in Agents
  BY <1>1, AgentsAddressed DEF RestTyped
<1>3. t \in Threads /\ t # Main /\ t \in Relationships
  BY <1>1, <1>2, AgentsAddressed DEF Recipients
<1>4. current # Main =>
        current \in Relationships /\ Recipient(current) = current[2]
  BY <1>1 DEF RestTyped, Threads, Recipient
<1>5. depth[current] < depth[t]
  <2>1. CASE current = Main
    BY <1>3, <2>1 DEF Deepens
  <2>2. CASE current # Main
    <3>1. current[2] = t[1] /\ t[2] # current[1]
      BY <1>1, <1>4, <2>2 DEF CallerOf
    <3> HIDE DEF t
    <3>2. QED
      BY <1>3, <1>4, <2>2, <3>1 DEF Deepens
  <2>3. QED
    BY <2>1, <2>2
<1>6. QED
  BY <1>3, <1>5

LEMMA DeliverChain ==
    ASSUME NEW depth \in [Threads -> Nat], Deepens(depth), TypeInv,
           Chain(depth), pc = "loop", ~Unusable(Pending), Accepted, Deliver
    PROVE  Chain(depth)'
<1>0. PICK t, c, th, n :
         /\ t = <<Recipient(current), Looked.to>> /\ c = current
         /\ th = [Pending EXCEPT !.cur = 0] /\ n = Len(stack)
  OBVIOUS
<1>1. /\ t \in Relationships /\ t \in Threads /\ t # Main
      /\ depth[current] < depth[t]
  BY <1>0, DeeperThread
<1>2. /\ ThreadsTyped /\ RestTyped /\ AskedInv /\ Typed(Pending)
      /\ current \in Threads
  BY TypeParts, PendingTyped DEF RestTyped
<1>3. /\ thread' = [thread EXCEPT ![current] = th, ![t] = Extended(@, "user")]
      /\ current' = t /\ stack' = Append(stack, current)
      /\ mainAgent' = mainAgent
  BY <1>0 DEF Deliver
<1>4. /\ stack \in Seq(Threads) /\ n \in Nat /\ DOMAIN stack = 1..n
      /\ stack' \in Seq(Threads) /\ Len(stack') = n + 1
      /\ DOMAIN stack' = 1..(n + 1)
      /\ \A i \in 1..n : stack'[i] = stack[i]
      /\ stack'[n + 1] = current
  BY <1>0, <1>2, <1>3, ChainParts
<1>5. /\ depth[current] \in Nat /\ depth[t] \in Nat
      /\ \A i \in 1..n : depth[stack[i]] \in Nat
  BY <1>1, <1>2, <1>4
<1>6. /\ t # current
      /\ \A i \in 1..n : stack[i] # t /\ stack[i] # current
  <2>1. \A i \in 1..n : depth[stack[i]] < depth[current]
    BY <1>4 DEF Chain
  <2>2. \A i \in 1..n : depth[stack[i]] # depth[t] /\ depth[stack[i]] # depth[current]
    BY <1>1, <1>5, <2>1
  <2>3. depth[t] # depth[current]
    BY <1>1, <1>5
  <2>4. QED
    BY <2>2, <2>3
<1>7. /\ thread'[current] = th
      /\ \A i \in 1..n : thread'[stack[i]] = thread[stack[i]]
  BY <1>1, <1>2, <1>3, <1>4, <1>6 DEF ThreadsTyped
<1>8. /\ th.plain /\ Open(th) = Open(Pending) /\ th.batch = Pending.batch
      /\ th.status = "tool" /\ Oldest(th) = Oldest(Pending)
  <2>1. /\ th.plain = Pending.plain /\ th.batch = Pending.batch
        /\ th.answered = Pending.answered /\ th.status = Pending.status
    BY <1>0, <1>2 DEF Typed, Thread
  <2>2. Pending.status = "tool" /\ Pending.plain
    BY <1>2, PendingTyped DEF AskedInv, Self, Unusable
  <2>3. Open(th) = Open(Pending)
    BY <2>1 DEF Open
  <2>4. Oldest(th) = Oldest(Pending)
    BY <2>3 DEF Oldest
  <2>5. QED
    BY <2>1, <2>2, <2>3, <2>4
<1>9. WaitsFor(c, t)'
  <2>1. Looked = [kind |-> "send", to |-> Looked.to]
    BY LookedTyped DEF Accepted, Request
  <2>2. th.batch[Oldest(th)] = [kind |-> "send", to |-> t[2]]
    BY <1>0, <1>8, <2>1 DEF Looked
  <2>3. t[1] = Recipient(current) /\ Open(th) # {}
    BY <1>0, <1>8 DEF Unusable
  <2>4. QED
    BY <1>0, <1>1, <1>3, <1>7, <1>8, <2>2, <2>3
       DEF WaitsFor, Recipient, CallerOf
<1>10. ASSUME NEW i \in 1..n
       PROVE  /\ WaitsFor(stack[i], Above(i))'
              /\ thread'[stack[i]].status = "tool"
              /\ stack[i] = Main <=> i = 1
  <2>1. /\ stack[i] \in Threads /\ Above(i) \in Threads
        /\ WaitsFor(stack[i], Above(i))
        /\ thread[stack[i]].status = "tool"
        /\ stack[i] = Main <=> i = 1
    BY <1>4, ChainParts
  <2>2. thread'[stack[i]] = thread[stack[i]]
    BY <1>7
  <2>3. Above(i)' = Above(i) /\ stack'[i] = stack[i]
    BY <1>0, <1>4, <1>3 DEF Above
  <2>4. QED
    BY <1>3, <2>1, <2>2, <2>3 DEF WaitsFor, Recipient, CallerOf
<1>11. CallChain'
  <2>1. ASSUME NEW i \in DOMAIN stack'
        PROVE  WaitsFor(stack[i], Above(i))'
    <3>1. CASE i \in 1..n
      BY <1>10, <3>1, <1>4 DEF WaitsFor
    <3>2. CASE i = n + 1
      <4>1. stack'[i] = current /\ Above(i)' = t
        BY <1>0, <1>3, <1>4, <3>2 DEF Above
      <4>2. QED
        BY <1>0, <1>9, <1>3, <4>1 DEF WaitsFor, Recipient, CallerOf
    <3>3. QED
      BY <1>4, <3>1, <3>2
  <2>2. stack' # <<>> /\ current' # Main
    <3>1. n + 1 # 0 /\ Len(<<>>) = 0
      BY <1>4
    <3>2. stack' # <<>>
      BY <1>4, <3>1, Zenon
    <3>3. QED
      BY <1>1, <1>3, <3>2
  <2>3. \A i \in DOMAIN stack' : WaitsFor(stack[i], Above(i))'
    BY <2>1
  <2>4. QED
    BY <2>2, <2>3, Zenon DEF CallChain, Above
<1>12. ASSUME NEW i \in DOMAIN stack'
       PROVE  /\ stack'[i] = Main <=> i = 1
              /\ thread'[stack'[i]].status = "tool"
              /\ depth[stack'[i]] < depth[current']
  <2>1. CASE i \in 1..n
    <3>1. depth[stack[i]] < depth[current]
      BY <1>4, <2>1 DEF Chain
    <3>2. /\ stack'[i] = stack[i] /\ thread'[stack[i]].status = "tool"
          /\ stack[i] = Main <=> i = 1
      BY <1>4, <1>10, <2>1
    <3>3. depth[stack[i]] < depth[t]
      BY <1>0, <1>1, <1>5, <2>1, <3>1
    <3>4. QED
      BY <1>3, <1>0, <3>2, <3>3
  <2>2. CASE i = n + 1
    <3>1. current = Main <=> n = 0
      BY <1>0, <1>4, ChainParts
    <3>2. stack'[i] = current /\ (i = 1 <=> n = 0)
      BY <1>4, <2>2
    <3>3. thread'[current].status = "tool"
      BY <1>7, <1>8
    <3>4. QED
      BY <1>1, <1>3, <3>1, <3>2, <3>3
  <2>3. QED
    BY <1>4, <2>1, <2>2
<1>13. ASSUME NEW i \in DOMAIN stack', NEW j \in DOMAIN stack', i < j
       PROVE  depth[stack'[i]] < depth[stack'[j]]
  <2>1. i \in 1..n /\ (j \in 1..n \/ j = n + 1)
    BY <1>4, <1>13
  <2>2. QED
    BY <1>4, <1>13, <2>1 DEF Chain
<1>14. QED
  BY <1>11, <1>12, <1>13 DEF Chain

\* The answer of an agent finds its caller: no answer fails.
LEMMA AnswerFindsCaller ==
    ASSUME NEW depth \in [Threads -> Nat], TypeInv, Chain(depth),
           AnswerCaller
    PROVE  /\ stack # <<>> /\ Len(stack) \in DOMAIN stack
           /\ Waiting # current /\ Told[Waiting] = thread[Waiting]
           /\ ~Unusable(Told[Waiting])
           /\ AnswerRequest(Oldest(Told[Waiting]))
           /\ mainAgent' = mainAgent
<1>1. stack # <<>> /\ mainAgent' = mainAgent
  BY ChainParts DEF AnswerCaller, Prompting, Kept
<1>2. Len(stack) \in DOMAIN stack
  BY <1>1, ChainParts
<1>3. /\ Waiting \in Threads /\ Waiting # current
      /\ WaitsFor(Waiting, Above(Len(stack)))
  BY <1>2, ChainParts DEF Waiting
<1>4. Told[Waiting] = thread[Waiting]
  BY <1>3, TypeParts DEF Told, ThreadsTyped
<1>5. ~Unusable(Told[Waiting])
  BY <1>3, <1>4 DEF WaitsFor, Unusable
<1>6. QED
  BY <1>1, <1>2, <1>3, <1>4, <1>5 DEF AnswerCaller

LEMMA AnswerChain ==
    ASSUME NEW depth \in [Threads -> Nat], TypeInv, Chain(depth),
           AnswerCaller
    PROVE  Chain(depth)'
<1>1. PICK n, w : n = Len(stack) /\ w = Waiting
  OBVIOUS
<1>2. /\ stack # <<>> /\ n \in DOMAIN stack /\ w # current
      /\ AnswerRequest(Oldest(Told[Waiting]))
      /\ mainAgent' = mainAgent /\ w = stack[n]
  BY <1>1, AnswerFindsCaller DEF Waiting
<1>3. /\ stack \in Seq(Threads) /\ n \in Nat \ {0} /\ DOMAIN stack = 1..n
      /\ w \in Threads /\ current \in Threads
  BY <1>1, <1>2, ChainParts, TypeParts DEF RestTyped
<1>4. /\ stack' = SubSeq(stack, 1, n - 1) /\ current' = w
      /\ \A t \in Threads : t \notin {current, w} => thread'[t] = thread[t]
  <2>1. PICK th : thread' = [Told EXCEPT ![w] = th]
    BY <1>1, <1>2 DEF AnswerRequest
  <2>2. QED
    BY <1>1, <1>2, <2>1, TypeParts DEF AnswerRequest, Told, ThreadsTyped
<1>5. /\ DOMAIN stack' = 1..(n - 1) /\ Len(stack') = n - 1
      /\ \A i \in 1..(n - 1) : stack'[i] = stack[i] /\ i \in DOMAIN stack
      /\ stack' = <<>> <=> n = 1
  <2>1. n - 1 \in Nat /\ n - 1 <= n
    BY <1>3
  <2>2. /\ DOMAIN stack' = 1..(n - 1) /\ Len(stack') = n - 1
        /\ \A i \in 1..(n - 1) : stack'[i] = stack[i] /\ i \in DOMAIN stack
        /\ stack' \in Seq(Threads)
    BY <1>1, <1>3, <1>4, <2>1
  <2>3. \A s \in Seq(Threads) : s = <<>> <=> Len(s) = 0
    OBVIOUS
  <2>4. stack' = <<>> <=> n - 1 = 0
    BY <2>2, <2>3, Zenon
  <2>5. QED
    BY <1>3, <2>2, <2>4
<1>6. ASSUME NEW i \in 1..(n - 1)
      PROVE  /\ depth[stack[i]] < depth[w]
             /\ thread'[stack[i]] = thread[stack[i]]
  <2>1. i \in DOMAIN stack /\ i < n
    BY <1>3, <1>5
  <2>2. depth[stack[i]] < depth[stack[n]]
    BY <1>2, <2>1 DEF Chain
  <2>3. stack[i] \in Threads /\ stack[i] # current
    BY <2>1, ChainParts
  <2>4. stack[i] # w
    BY <1>2, <1>3, <2>2, <2>3
  <2>5. QED
    BY <1>2, <1>4, <2>2, <2>3, <2>4
<1>7. ASSUME NEW i \in DOMAIN stack'
      PROVE  /\ WaitsFor(stack[i], Above(i))'
             /\ stack'[i] = Main <=> i = 1
             /\ thread'[stack'[i]].status = "tool"
             /\ depth[stack'[i]] < depth[current']
  <2>1. i \in 1..(n - 1) /\ stack'[i] = stack[i] /\ i \in DOMAIN stack
    BY <1>5
  <2>2. /\ WaitsFor(stack[i], Above(i))
        /\ stack[i] = Main <=> i = 1
        /\ thread[stack[i]].status = "tool"
    BY <2>1, ChainParts
  <2>3. Above(i)' = Above(i)
    <3>1. Above(i) = stack[i + 1]
      BY <1>1, <1>3, <2>1 DEF Above
    <3>2. CASE i = n - 1
      BY <1>2, <1>3, <1>4, <1>5, <3>1, <3>2 DEF Above
    <3>3. CASE i # n - 1
      <4>1. i + 1 \in 1..(n - 1)
        BY <1>3, <2>1, <3>3
      <4>2. QED
        BY <1>5, <3>1, <3>3, <4>1 DEF Above
    <3>4. QED
      BY <3>2, <3>3
  <2>4. WaitsFor(stack[i], Above(i))'
    BY <1>2, <1>6, <2>1, <2>2, <2>3 DEF WaitsFor, Recipient, CallerOf
  <2>5. QED
    BY <1>4, <1>6, <2>1, <2>2, <2>4
<1>8. CallChain'
  <2>1. stack' = <<>> <=> current' = Main
    BY <1>2, <1>4, <1>5, ChainParts
  <2>2. \A i \in DOMAIN stack' : WaitsFor(stack[i], Above(i))'
    BY <1>7
  <2>3. QED
    BY <2>1, <2>2, Zenon DEF CallChain, Above
<1>9. ASSUME NEW i \in DOMAIN stack', NEW j \in DOMAIN stack', i < j
      PROVE  depth[stack'[i]] < depth[stack'[j]]
  BY <1>5, <1>9 DEF Chain
<1>10. QED
  BY <1>7, <1>8, <1>9 DEF Chain

LEMMA RunChain ==
    ASSUME NEW depth \in [Threads -> Nat], Deepens(depth), TypeInv,
           Chain(depth), Run
    PROVE  Chain(depth)'
<1>1. CASE SendMessage
  <2>1. /\ pc = "loop"
        /\ IF Unusable(Pending) THEN LookupFails
           ELSE IF Accepted THEN Deliver ELSE Refuse
    BY <1>1 DEF SendMessage, Handling
  <2>2. CASE LookupFails \/ Refuse
    <3>1. /\ UNCHANGED <<stack, current>> /\ mainAgent' = mainAgent
          /\ \E th : Put(current, th)
      BY <2>2, Zenon DEF LookupFails, Refuse
    <3>2. QED
      BY <3>1, HereChain
  <2>3. CASE ~Unusable(Pending) /\ Accepted /\ Deliver
    BY <2>1, <2>3, DeliverChain
  <2>4. QED
    BY <2>1, <2>2, <2>3
<1>2. CASE AnswerCaller
  BY <1>2, AnswerChain
<1>3. CASE ~SendMessage /\ ~AnswerCaller
  BY <1>3, StayChain DEF Run
<1>4. QED
  BY <1>1, <1>2, <1>3

LEMMA StutterChain ==
    ASSUME NEW depth \in [Threads -> Nat], TypeInv, Chain(depth),
           UNCHANGED vars
    PROVE  Chain(depth)'
BY ChainKept DEF vars

\* When no agent can reach itself through accepted messages, every thread on
\* the stack waits for the thread above it, whatever the handoff mode, the
\* events, the number of messages, and a caller that writes while a request is
\* open or leaves out a result: the answer of an agent goes to the request that
\* asked for it (_post_agent_answer_to_previous_thread).
THEOREM AnswersReachTheirRequest ==
    ASSUME Acyclic PROVE Spec => []CallChain
<1>1. PICK depth \in [Threads -> Nat] : Deepens(depth)
  BY DEF Acyclic
<1>2. Init => TypeInv /\ Chain(depth)
  BY InitType, InitChain
<1>3. TypeInv /\ [Next]_vars => TypeInv'
  BY LoopType, ToolType, PromptType, AnswerType, CallerType, StutterType
     DEF Next, Run
<1>4. TypeInv /\ Chain(depth) /\ [Next]_vars => Chain(depth)'
  BY <1>1, RunChain, CallerChain, StutterChain DEF Next
<1>5. Chain(depth) => CallChain
  BY DEF Chain
<1>6. QED
  BY <1>2, <1>3, <1>4, <1>5, PTL DEF Spec

-----------------------------------------------------------------------------
(* The queue of requests.  The requests of a thread are handled in the      *)
(* order of their message, and the one that waits for somebody, for the     *)
(* caller or for another thread, is the one taken last.                     *)

\* N requests, those in S answered, c being handled and n the next one; w if
\* the last one taken waits.  A caller who executes without the result asked for
\* leaves earlier ones open.
Ordered(N, S, c, n, w) ==
    /\ \A j \in 1..N : n <= j => j \notin S
    /\ ~Careless => \A j \in 1..N : j < n /\ j \notin S => j = c \/ (w /\ j = n - 1)
    /\ c # 0 => /\ ~w
                /\ c = n - 1 /\ c \notin S
    /\ w => n - 1 \in (1..N) \ S

\* Only a user who interjects separates open requests from their results.
Joined(th) == Interjects \/ Open(th) = {} \/ th.plain

InOrder(th, w) ==
    Ordered(Len(th.batch), th.answered, th.cur, th.next, w) /\ Joined(th)

\* A thread that nobody is in has no requests.
Blank(th) == th.batch = <<>> /\ th.answered = {} /\ th.cur = 0 /\ th.next = 1

Waits(t) == IF t = current THEN asked # 0 ELSE TRUE
Chained(t) == t = current \/ \E i \in DOMAIN stack : stack[i] = t
OrderInv == \A t \in Threads :
                IF Chained(t) THEN InOrder(thread[t], Waits(t))
                              ELSE Blank(thread[t])

\* The caller is asked for the request taken last, and brings its result.
CallerInv == /\ asked # 0 => asked = thread[current].next - 1
             /\ ~Careless /\ asked # 0 /\ pc = "loop" => submitted

Irreflexive == \A r \in Relationships : r[1] # r[2]

\* No agent is its own recipient where only the main agent may hand over.
Separate == Handoff = "OPTIONAL" => Irreflexive

\* No agent is in the chain twice.
DistinctInv == Irreflexive =>
    /\ \A i \in DOMAIN stack : Recipient(stack[i]) # Recipient(current)
    /\ \A i, j \in DOMAIN stack : Recipient(stack[i]) = Recipient(stack[j]) => i = j

\* So only the main agent is offered a handoff.
KindsInv ==
    /\ \A t \in Threads : \A i \in DOMAIN thread[t].batch :
          /\ Separate /\ thread[t].batch[i].kind = "handoff" => t = Main
          /\ thread[t].batch[i].kind = "send" => Handoff # "ALWAYS"
    /\ Handoff = "ALWAYS" => stack = <<>>

\* A failed look-up is due to a user who interjected, the other internal errors to
\* an interrupt and to an iteration limit.
KnownCause == /\ error = "interrupted" => "interrupt" \in Events
              /\ error = "answer" => "exhaust" \in Events
ErrorInv == (error \in LookupErrors => Interjects /\ error = "list") /\ KnownCause

QueueInv == OrderInv /\ CallerInv /\ DistinctInv /\ KindsInv /\ ErrorInv

\* A thread other than the main one, whose agent is the main agent, too, asked
\* for a handoff: each execution raises, and none prompts an agent.
Blocked ==
    /\ ~Separate /\ pc \in {"idle", "loop"} /\ asked = 0
    /\ current # Main /\ Self.status = "tool"
    /\ Self.cur # 0 /\ Self.batch[Self.cur].kind = "handoff" /\ Open(Self) = {}

LEMMA Settles ==
    ASSUME NEW N \in Nat, NEW S, NEW c \in 0..N, NEW n \in Nat, c # 0,
           Ordered(N, S, c, n, FALSE)
    PROVE  /\ Ordered(N, S \cup {c}, 0, n, FALSE)
           /\ Ordered(N, S, 0, n, TRUE)
           /\ ~Careless => \A j \in 1..N : j \notin S => c <= j
BY DEF Ordered

LEMMA Takes ==
    ASSUME NEW N \in Nat, NEW S, NEW n \in 1..N, Ordered(N, S, 0, n, FALSE)
    PROVE  Ordered(N, S, n, n + 1, FALSE)
BY DEF Ordered

\* The oldest open request gets its result, which is the one that waits unless
\* the caller left another one open.
LEMMA Resolves ==
    ASSUME NEW N \in Nat, NEW S, NEW c \in 0..N, NEW n \in Nat,
           NEW w \in BOOLEAN, Ordered(N, S, c, n, w), w \/ c # 0,
           NEW o \in (1..N) \ S, \A j \in (1..N) \ S : o <= j
    PROVE  Ordered(N, S \cup {o}, 0, n, FALSE)
<1>1. CASE Careless
  BY <1>1 DEF Ordered
<1>2. CASE ~Careless
  <2>1. n - 1 \in (1..N) \ S /\ o <= n - 1
    BY DEF Ordered
  <2>2. o = n - 1
    BY <1>2, <2>1 DEF Ordered
  <2> QED BY <1>2, <2>2 DEF Ordered
<1> QED BY <1>1, <1>2

\* A caller who does not bring the result leaves the request behind.
LEMMA Skips ==
    ASSUME NEW N \in Nat, NEW S, NEW c \in 0..N, NEW n \in Nat, Careless,
           NEW w, Ordered(N, S, c, n, w)
    PROVE  Ordered(N, S, c, n, FALSE)
BY DEF Ordered

LEMMA Exhausted ==
    ASSUME NEW N \in Nat, NEW S, NEW n \in Nat, n > N, ~Careless,
           Ordered(N, S, 0, n, FALSE)
    PROVE  1..N \subseteq S
BY DEF Ordered

LEMMA Cancels ==
    ASSUME NEW N \in Nat, NEW S, NEW m \in Nat, m > N,
           ~Careless => 1..N \subseteq S
    PROVE  Ordered(N, S, 0, m, FALSE)
BY DEF Ordered

\* The request that is being handled is the oldest one that is open.
LEMMA OldestLeast ==
    ASSUME NEW th, Typed(th), NEW i \in Open(th), \A j \in Open(th) : i <= j
    PROVE  Oldest(th) = i
<1>1. Open(th) \subseteq Nat
  BY DEF Typed, Thread, Open
<1>2. Oldest(th) \in Open(th) /\ \A j \in Open(th) : Oldest(th) <= j
  BY Zenon DEF Oldest
<1> QED BY <1>1, <1>2

LEMMA OrderIndices ==
    ASSUME NEW th, Typed(th)
    PROVE  /\ Len(th.batch) \in Nat /\ th.cur \in 0..Len(th.batch)
           /\ th.next \in Nat /\ th.next \in 1..(MaxBatch + 1)
           /\ Open(th) = (1..Len(th.batch)) \ th.answered
           /\ DOMAIN th.batch = 1..Len(th.batch)
BY Indices, SwarmAssumption DEF Open

LEMMA HandledIsOldest ==
    ASSUME NEW th, Typed(th), InOrder(th, FALSE), th.cur # 0
    PROVE  /\ th.cur \in Open(th) /\ th.cur \in DOMAIN th.batch
           /\ Oldest(th) \in Open(th) /\ Oldest(th) \in DOMAIN th.batch
           /\ \A j \in Open(th) : Oldest(th) <= j
           /\ ~Careless => Oldest(th) = th.cur
<1>1. Ordered(Len(th.batch), th.answered, th.cur, th.next, FALSE)
  BY DEF InOrder
<1>2. th.cur \in Open(th) /\ th.cur \in DOMAIN th.batch
  BY <1>1, OrderIndices DEF Ordered
<1>3. /\ Oldest(th) \in Open(th) /\ Oldest(th) \in DOMAIN th.batch
      /\ \A j \in Open(th) : Oldest(th) <= j
  BY <1>2, OldestOpen
<1>4. ASSUME ~Careless PROVE Oldest(th) = th.cur
  <2>1. \A j \in Open(th) : th.cur <= j
    BY <1>1, <1>4, OrderIndices, Settles
  <2> QED BY <1>2, <2>1, OldestLeast
<1> QED BY <1>2, <1>3, <1>4

LEMMA InitQueue == Init => QueueInv
<1> SUFFICES ASSUME Init PROVE QueueInv
  OBVIOUS
<1>1. /\ \A t \in Threads : thread[t] = NewThread
      /\ stack = <<>> /\ current = Main /\ asked = 0 /\ submitted = FALSE
      /\ error = "none" /\ pc = "idle"
  BY DEF Init
<1>2. /\ NewThread.batch = <<>> /\ Len(NewThread.batch) = 0 /\ DOMAIN NewThread.batch = {}
      /\ NewThread.answered = {} /\ NewThread.cur = 0 /\ NewThread.next = 1
      /\ Open(NewThread) = {}
  BY DEF NewThread, Open
<1>3. InOrder(NewThread, FALSE) /\ Blank(NewThread)
  BY <1>2 DEF InOrder, Ordered, Joined, Blank
<1>4. OrderInv
  <2> SUFFICES ASSUME NEW t \in Threads
               PROVE  IF Chained(t) THEN InOrder(thread[t], Waits(t))
                                    ELSE Blank(thread[t])
    BY DEF OrderInv
  <2>1. Chained(t) => Waits(t) = FALSE
    BY <1>1 DEF Chained, Waits
  <2> QED BY <1>1, <1>3, <2>1
<1>5. CallerInv /\ DistinctInv /\ KindsInv /\ ErrorInv
  BY <1>1, <1>2
     DEF CallerInv, DistinctInv, KindsInv, ErrorInv, KnownCause, LookupErrors
<1> QED BY <1>4, <1>5 DEF QueueInv

\* The queue of the current thread, between executions and while it runs.
LEMMA HereOrdered ==
    ASSUME TypeInv, QueueInv
    PROVE  /\ current \in Threads /\ Typed(Self) /\ InOrder(Self, asked # 0)
           /\ Running => asked = 0 /\ submitted = FALSE /\ InOrder(Self, FALSE)
<1>1. current \in Threads /\ Typed(Self)
  BY TypeParts, CurrentTyped DEF RestTyped, Self
<1>2. InOrder(Self, asked # 0)
  BY <1>1 DEF QueueInv, OrderInv, Chained, Waits, Self
<1>3. Running => asked = 0 /\ submitted = FALSE
  BY TypeParts DEF Running, AskedInv, RestTyped
<1> QED BY <1>1, <1>2, <1>3

\* And while the runner handles its requests, with the result submitted.
LEMMA PendingOrdered ==
    ASSUME TypeInv, QueueInv, pc = "loop"
    PROVE  /\ InOrder(Pending, FALSE) /\ Typed(Pending)
           /\ Pending.batch = Self.batch
           /\ Pending.cur = 0 => Pending.next > Len(Pending.batch)
<1> DEFINE shown == IF submitted THEN AnsweredWith(Self, {asked}) ELSE Self
<1>1. /\ Typed(Self) /\ InOrder(Self, asked # 0) /\ (submitted => asked # 0)
      /\ asked # 0 => asked = Self.next - 1
      /\ asked # 0 /\ ~submitted => Careless
  BY HereOrdered, TypeParts DEF QueueInv, CallerInv, AskedInv, RestTyped, Self
<1>2. /\ Len(Self.batch) \in Nat /\ Self.cur \in 0..Len(Self.batch) /\ Self.next \in Nat
      /\ Ordered(Len(Self.batch), Self.answered, Self.cur, Self.next, asked # 0)
      /\ Joined(Self) /\ DOMAIN Self.batch = 1..Len(Self.batch)
  BY <1>1, OrderIndices DEF InOrder
<1>3. /\ Typed(shown) /\ InOrder(shown, FALSE) /\ shown.batch = Self.batch
  <2>1. CASE asked = 0
    BY <1>1, <2>1
  <2>3. CASE asked # 0 /\ ~submitted
    <3>1. PICK N, S, c, m : /\ N = Len(Self.batch) /\ S = Self.answered
                            /\ c = Self.cur /\ m = Self.next
      OBVIOUS
    <3>2. N \in Nat /\ c \in 0..N /\ m \in Nat /\ Careless
      BY <1>1, <1>2, <2>3, <3>1
    <3>3. Ordered(N, S, c, m, asked # 0)
      BY <1>2, <3>1, Zenon
    <3>4. Ordered(N, S, c, m, FALSE)
      BY <3>2, <3>3, Skips
    <3>5. InOrder(Self, FALSE)
      BY <1>2, <3>1, <3>4, Zenon DEF InOrder
    <3> QED BY <1>1, <2>3, <3>5
  <2>2. CASE asked # 0 /\ submitted
    <3>1. /\ asked \in 1..Len(Self.batch) /\ Self.cur = 0
          /\ Ordered(Len(Self.batch), Self.answered \cup {asked}, 0, Self.next, FALSE)
      <4>1. (asked # 0) = TRUE
        BY <2>2
      <4>2. Ordered(Len(Self.batch), Self.answered, Self.cur, Self.next, TRUE)
        BY <1>2, <4>1, Zenon
      <4>3. /\ Len(Self.batch) \in Nat /\ Self.cur \in 0..Len(Self.batch)
            /\ Self.next \in Nat
        BY <1>2
      <4>4. /\ Self.cur = 0 /\ Self.next - 1 \in (1..Len(Self.batch)) \ Self.answered
            /\ Ordered(Len(Self.batch), Self.answered \cup {Self.next - 1}, 0, Self.next,
                       FALSE)
        <5>1. PICK N, S, c, m : /\ N = Len(Self.batch) /\ S = Self.answered
                                /\ c = Self.cur /\ m = Self.next
          OBVIOUS
        <5>2. Ordered(N, S, c, m, TRUE)
          BY <4>2, <5>1, Zenon
        <5>3. N \in Nat /\ c \in 0..N /\ m \in Nat
          BY <4>3, <5>1, Zenon
        <5>4. c = 0 /\ m - 1 \in (1..N) \ S /\ Ordered(N, S \cup {m - 1}, 0, m, FALSE)
          BY <5>2, <5>3 DEF Ordered
        <5> QED BY <5>1, <5>4, Zenon
      <4> QED BY <1>1, <2>2, <4>4
    <3>2. shown = AnsweredWith(Self, {asked}) /\ {asked} \subseteq DOMAIN Self.batch
      BY <1>1, <1>2, <2>2, <3>1
    <3>3. shown.answered = Self.answered \cup {asked}
      BY <1>1, <3>2 DEF AnsweredWith, Typed, Thread
    <3>4. /\ Typed(shown) /\ shown.batch = Self.batch /\ shown.cur = Self.cur
          /\ shown.next = Self.next /\ shown.plain = Self.plain
      BY <1>1, <3>2, AnsweredTyped
    <3>5. Joined(shown)
      BY <1>2, <3>3, <3>4 DEF Joined, Open
    <3> QED BY <3>1, <3>3, <3>4, <3>5 DEF InOrder
  <2> QED BY <2>1, <2>2, <2>3
<1>4. Pending = IF shown.cur = 0 /\ shown.next <= Len(shown.batch)
                THEN [shown EXCEPT !.cur = shown.next, !.next = @ + 1]
                ELSE shown
  BY DEF Pending, Self
<1> HIDE DEF shown
<1>5. Typed(Pending) /\ Pending.batch = Self.batch
  BY PendingTyped
<1>6. CASE shown.cur = 0 /\ shown.next <= Len(shown.batch)
  <2>1. /\ Pending.cur = shown.next /\ Pending.next = shown.next + 1
        /\ Pending.batch = shown.batch /\ Pending.answered = shown.answered
        /\ Pending.plain = shown.plain
    BY <1>3, <1>4, <1>6 DEF Typed, Thread
  <2>2. shown.next \in 1..Len(shown.batch) /\ Len(shown.batch) \in Nat
    BY <1>3, <1>6, OrderIndices
  <2>3. Ordered(Len(shown.batch), shown.answered, shown.next, shown.next + 1, FALSE)
    BY <1>3, <1>6, <2>2, Takes DEF InOrder
  <2>4. Joined(Pending)
    BY <1>3, <2>1 DEF InOrder, Joined, Open
  <2>5. InOrder(Pending, FALSE)
    BY <2>1, <2>3, <2>4, Zenon DEF InOrder
  <2>6. Pending.cur # 0
    BY <2>1, <2>2
  <2> QED BY <1>5, <2>5, <2>6
<1>7. CASE ~(shown.cur = 0 /\ shown.next <= Len(shown.batch))
  <2>1. Pending = shown
    BY <1>4, <1>7
  <2>2. shown.cur = 0 => shown.next > Len(shown.batch)
    BY <1>3, <1>7, OrderIndices
  <2> QED BY <1>3, <1>5, <2>1, <2>2
<1> QED BY <1>6, <1>7

\* A step of the current thread leaves the others where they are.
LEMMA HereOrder ==
    ASSUME TypeInv, QueueInv, UNCHANGED <<stack, current>>,
           NEW th, Put(current, th), InOrder(th, asked' # 0)
    PROVE  OrderInv'
<1>1. /\ \A t \in Threads : thread'[t] = IF t = current THEN th ELSE thread[t]
  BY TypeParts DEF Put, ThreadsTyped
<1> SUFFICES ASSUME NEW t \in Threads
             PROVE  IF Chained(t)' THEN InOrder(thread'[t], Waits(t)')
                                   ELSE Blank(thread'[t])
  BY DEF OrderInv
<1>2. Chained(t)' <=> Chained(t)
  BY DEF Chained
<1>3. CASE t = current
  BY <1>1, <1>3 DEF Chained, Waits
<1>4. CASE t # current
  BY <1>1, <1>2, <1>4 DEF QueueInv, OrderInv, Waits
<1> QED BY <1>3, <1>4

\* It is enough that its requests are those it had.
LEMMA HereQueue ==
    ASSUME TypeInv, QueueInv, UNCHANGED <<stack, current>>,
           mainAgent' = mainAgent \/ stack = <<>>,
           NEW th, Put(current, th), InOrder(th, asked' # 0),
           th.batch = Self.batch \/ th.batch = <<>>,
           CallerInv', ErrorInv'
    PROVE  QueueInv'
<1>1. \A t \in Threads : thread'[t] = IF t = current THEN th ELSE thread[t]
  BY TypeParts DEF Put, ThreadsTyped
<1>2. OrderInv'
  BY HereOrder
<1>3. DistinctInv'
  BY DEF QueueInv, DistinctInv, Recipient
<1>4. KindsInv'
  <2>1. \A t \in Threads : thread'[t].batch \in {thread[t].batch, <<>>}
    BY <1>1 DEF Self
  <2>2. DOMAIN <<>> = {}
    OBVIOUS
  <2> QED BY <2>1, <2>2 DEF QueueInv, KindsInv
<1> QED BY <1>2, <1>3, <1>4 DEF QueueInv

LEMMA CallerQueue ==
    ASSUME NEW depth \in [Threads -> Nat], TypeInv, Chain(depth),
           QueueInv, Caller
    PROVE  QueueInv'
<1>1. /\ QueueInv /\ current \in Threads /\ Typed(Self) /\ InOrder(Self, asked # 0)
      /\ CallerInv /\ ErrorInv
  BY HereOrdered DEF QueueInv
<1>2. CASE UserMessage
  <2> DEFINE th == Extended(Self, "user")
  <2>1. current = Main
    <3>1. current # Main => 1 \in DOMAIN stack
      BY ChainParts
    <3>2. current # Main => thread[Main].status = "tool"
      BY <3>1, ChainParts
    <3> QED BY <1>2, <3>2 DEF UserMessage
  <2>2. /\ Put(current, th)
        /\ Interjects \/ Open(Self) = {}
        /\ UNCHANGED <<pc, mainAgent, current, stack, asked, submitted, ret, error>>
    BY <1>2, <2>1 DEF UserMessage, Self, callVars, endVars
  <2>3. /\ th.batch = Self.batch /\ th.answered = Self.answered
        /\ th.cur = Self.cur /\ th.next = Self.next
    BY <1>1 DEF Extended, Typed, Thread
  <2>4. Joined(th)
    BY <2>2, <2>3 DEF Joined, Open
  <2>5. InOrder(th, asked # 0)
    BY <1>1, <2>3, <2>4, Zenon DEF InOrder
  <2> HIDE DEF th
  <2>6. thread'[current].next = Self.next
    BY <1>1, <2>2, <2>3, TypeParts DEF Put, ThreadsTyped
  <2>7. CallerInv' /\ ErrorInv'
    BY <1>1, <2>2, <2>6 DEF CallerInv, ErrorInv, KnownCause, Self
  <2>8. InOrder(th, asked' # 0)
    BY <2>2, <2>5
  <2> QED BY <1>1, <2>2, <2>3, <2>7, <2>8, HereQueue
<1>3. CASE SubmitToolResult \/ Execute
  <2>1. /\ UNCHANGED <<mainAgent, current, stack, thread, asked>>
        /\ error' \in {"none", error}
        /\ ~Careless /\ asked # 0 /\ pc' = "loop" => submitted'
    BY <1>3 DEF SubmitToolResult, Execute, endVars, callVars
  <2>2. OrderInv' /\ DistinctInv' /\ KindsInv'
    BY <1>1, <2>1 DEF QueueInv, OrderInv, DistinctInv, KindsInv, Chained, Waits, Recipient
  <2>3. CallerInv' /\ ErrorInv'
    BY <1>1, <2>1 DEF CallerInv, ErrorInv, KnownCause, LookupErrors
  <2> QED BY <2>2, <2>3 DEF QueueInv
<1> QED BY <1>2, <1>3 DEF Caller

\* A step of the runner that settles what was submitted.
LEMMA SettledQueue ==
    ASSUME TypeInv, QueueInv, Submitted, UNCHANGED <<stack, current>>,
           mainAgent' = mainAgent \/ stack = <<>>, ErrorInv',
           NEW th, Put(current, th), InOrder(th, FALSE), th.batch = Self.batch
    PROVE  QueueInv'
<1>1. asked' = 0
  BY DEF Submitted
<1>2. InOrder(th, asked' # 0) /\ CallerInv'
  BY <1>1 DEF CallerInv
<1> QED BY <1>2, HereQueue

LEMMA ResumeQueue == TypeInv /\ QueueInv /\ ResumeAgent => QueueInv'
<1> SUFFICES ASSUME TypeInv, QueueInv, ResumeAgent PROVE QueueInv'
  OBVIOUS
<1> DEFINE th == [Pending EXCEPT !.status = "none"]
<1>1. /\ pc = "loop" /\ Submitted /\ Put(current, th)
      /\ UNCHANGED <<mainAgent, current, stack, ret, error>>
  BY DEF ResumeAgent, endVars
<1>2. /\ InOrder(Pending, FALSE) /\ Typed(Pending) /\ Pending.batch = Self.batch
  BY <1>1, PendingOrdered
<1>3. /\ th.batch = Pending.batch /\ th.answered = Pending.answered
      /\ th.cur = Pending.cur /\ th.next = Pending.next /\ th.plain = Pending.plain
  BY <1>2 DEF Typed, Thread
<1>4. InOrder(th, FALSE)
  BY <1>2, <1>3, Zenon DEF InOrder, Joined, Open
<1> HIDE DEF th
<1>5. ErrorInv'
  BY <1>1 DEF QueueInv, ErrorInv, KnownCause
<1> QED BY <1>1, <1>2, <1>3, <1>4, <1>5, SettledQueue

LEMMA AskQueue == TypeInv /\ QueueInv /\ AskCaller => QueueInv'
<1> SUFFICES ASSUME TypeInv, QueueInv, AskCaller PROVE QueueInv'
  OBVIOUS
<1> DEFINE th == [Pending EXCEPT !.cur = 0]
<1>1. /\ pc = "loop" /\ Pending.cur # 0 /\ asked' = Pending.cur /\ Put(current, th)
      /\ pc' = "idle" /\ error' = "none" /\ UNCHANGED <<mainAgent, current, stack>>
  BY DEF AskCaller, Handling, Return
<1>2. /\ InOrder(Pending, FALSE) /\ Typed(Pending) /\ Pending.batch = Self.batch
  BY <1>1, PendingOrdered
<1>3. /\ th.batch = Pending.batch /\ th.answered = Pending.answered
      /\ th.cur = 0 /\ th.next = Pending.next /\ th.plain = Pending.plain
  BY <1>2 DEF Typed, Thread
<1> HIDE DEF th
<1>4. /\ Ordered(Len(Pending.batch), Pending.answered, 0, Pending.next, TRUE)
      /\ Pending.cur = Pending.next - 1
  BY <1>1, <1>2, OrderIndices, Settles DEF InOrder, Ordered
<1>5. InOrder(th, TRUE)
  BY <1>2, <1>3, <1>4, Zenon DEF InOrder, Joined, Open
<1>6. InOrder(th, asked' # 0)
  BY <1>1, <1>5
<1>7. thread'[current] = th
  BY <1>1, HereOrdered, TypeParts DEF Put, ThreadsTyped
<1>8. CallerInv' /\ ErrorInv'
  BY <1>1, <1>3, <1>4, <1>7
     DEF CallerInv, ErrorInv, KnownCause, LookupErrors
<1> QED BY <1>1, <1>2, <1>3, <1>6, <1>8, HereQueue

\* A look-up that fails: only a user who interjected makes it.
LEMMA LookupFailsQueue ==
    ASSUME TypeInv, QueueInv, pc = "loop", Pending.cur # 0, Unusable(Pending),
           Submitted, LookupFails
    PROVE  QueueInv'
<1>1. /\ InOrder(Pending, FALSE) /\ Typed(Pending) /\ Pending.batch = Self.batch
  BY PendingOrdered
<1>2. Put(current, Pending) /\ UNCHANGED <<mainAgent, current, stack>>
  BY DEF LookupFails
<1>3. Interjects /\ ~Pending.plain
  BY <1>1, HandledIsOldest DEF Unusable, InOrder, Joined
<1>4. error' = "list"
  BY <1>3 DEF LookupFails, LookupRaises, Raise
<1>5. ErrorInv'
  BY <1>3, <1>4 DEF ErrorInv, KnownCause
<1> QED BY <1>1, <1>2, <1>5, SettledQueue

LEMMA RefuseQueue ==
    ASSUME TypeInv, QueueInv, pc = "loop", Pending.cur # 0, Submitted, Refuse
    PROVE  QueueInv'
<1> DEFINE a == AnsweredWith(Pending, {Oldest(Pending)})
           th == [a EXCEPT !.cur = 0]
<1>1. /\ InOrder(Pending, FALSE) /\ Typed(Pending) /\ Pending.batch = Self.batch
      /\ Oldest(Pending) \in Open(Pending)
      /\ {Oldest(Pending)} \subseteq DOMAIN Pending.batch
      /\ \A j \in Open(Pending) : Oldest(Pending) <= j
  BY PendingOrdered, HandledIsOldest
<1>2. /\ Put(current, th) /\ UNCHANGED <<mainAgent, current, stack, ret, error>>
  BY DEF Refuse, endVars
<1>3. /\ Typed(a) /\ a.batch = Pending.batch /\ a.next = Pending.next
      /\ a.plain = Pending.plain /\ a.answered = Pending.answered \cup {Oldest(Pending)}
  <2>1. a.answered = Pending.answered \cup {Oldest(Pending)}
    BY <1>1 DEF AnsweredWith, Typed, Thread
  <2> QED BY <1>1, <2>1, AnsweredTyped
<1> HIDE DEF a
<1>4. /\ th.batch = Pending.batch /\ th.answered = Pending.answered \cup {Oldest(Pending)}
      /\ th.cur = 0 /\ th.next = Pending.next /\ th.plain = Pending.plain
  BY <1>3 DEF Typed, Thread
<1> HIDE DEF th
<1>5. Ordered(Len(Pending.batch), Pending.answered \cup {Oldest(Pending)}, 0,
              Pending.next, FALSE)
  <2>1. PICK N, S, c, m, o : /\ N = Len(Pending.batch) /\ S = Pending.answered
                             /\ c = Pending.cur /\ m = Pending.next
                             /\ o = Oldest(Pending)
    OBVIOUS
  <2>2. /\ N \in Nat /\ c \in 0..N /\ m \in Nat /\ c # 0
        /\ o \in (1..N) \ S /\ \A j \in (1..N) \ S : o <= j
    BY <1>1, <2>1, OrderIndices
  <2>3. Ordered(N, S, c, m, FALSE)
    BY <1>1, <2>1, Zenon DEF InOrder
  <2>4. Ordered(N, S \cup {o}, 0, m, FALSE)
    BY <2>2, <2>3, Resolves
  <2> QED BY <2>1, <2>4, Zenon
<1>6. InOrder(th, FALSE)
  <2>1. Joined(th)
    BY <1>1, <1>4 DEF InOrder, Joined, Open
  <2> QED BY <1>4, <1>5, <2>1, Zenon DEF InOrder
<1>7. ErrorInv'
  BY <1>2 DEF QueueInv, ErrorInv, KnownCause
<1> QED BY <1>1, <1>2, <1>4, <1>6, <1>7, SettledQueue

\* After a handoff no request is open.
LEMMA HandoffSettles ==
    ASSUME TypeInv, QueueInv, pc = "loop", Pending.cur # 0
    PROVE  LET th == [AfterHandoff EXCEPT !.cur = 0]
           IN  InOrder(th, FALSE) /\ th.batch = Self.batch
<1> DEFINE S == {i \in DOMAIN Pending.batch : i >= Oldest(Pending)}
           a == AnsweredWith(Pending, S)
           b == AfterHandoff
           th == [b EXCEPT !.cur = 0]
<1>1. /\ InOrder(Pending, FALSE) /\ Typed(Pending) /\ Pending.batch = Self.batch
      /\ Pending.cur \in Open(Pending) /\ Oldest(Pending) \in Open(Pending)
      /\ \A j \in Open(Pending) : Oldest(Pending) <= j
  BY PendingOrdered, HandledIsOldest
<1>2. /\ Len(Pending.batch) \in Nat /\ DOMAIN Pending.batch = 1..Len(Pending.batch)
      /\ Pending.next \in Nat
      /\ Open(Pending) = (1..Len(Pending.batch)) \ Pending.answered
      /\ Ordered(Len(Pending.batch), Pending.answered, Pending.cur, Pending.next, FALSE)
  BY <1>1, OrderIndices DEF InOrder
<1>3. /\ Typed(a) /\ a.batch = Pending.batch /\ a.next = Pending.next
      /\ a.answered = Pending.answered \cup S
  <2>1. a.answered = Pending.answered \cup S
    BY <1>1 DEF AnsweredWith, Typed, Thread
  <2> QED BY <1>1, <2>1, AnsweredTyped
<1>4. b = IF Open(Pending) = {Oldest(Pending)} THEN a
          ELSE [a EXCEPT !.next = Len(a.batch) + 1]
  BY DEF AfterHandoff
<1>5. 1..Len(Pending.batch) \subseteq a.answered
  BY <1>1, <1>2, <1>3
<1>6. Open(Pending) = {Oldest(Pending)} => Pending.next > Len(Pending.batch)
  BY <1>1, <1>2 DEF Ordered
<1> HIDE DEF a, b
<1>7. /\ b \in Thread /\ b.batch = Pending.batch /\ b.answered = a.answered
      /\ b.next = Len(Pending.batch) + 1 \/ (b.next = Pending.next
                                        /\ Open(Pending) = {Oldest(Pending)})
  <2>1. Len(a.batch) + 1 \in 1..(MaxBatch + 1)
    BY <1>3, Indices, SwarmAssumption
  <2> QED BY <1>3, <1>4, <2>1 DEF Typed, Thread
<1>8. /\ th.batch = Pending.batch /\ th.answered = a.answered
      /\ th.cur = 0 /\ th.next = b.next
  BY <1>7 DEF Thread
<1> HIDE DEF th
<1>9. Ordered(Len(Pending.batch), a.answered, 0, b.next, FALSE)
  <2>1. b.next \in Nat /\ b.next > Len(Pending.batch)
    BY <1>2, <1>6, <1>7
  <2> QED BY <1>2, <1>5, <2>1, Cancels
<1>10. Joined(th)
  <2>1. Open(th) = {}
    BY <1>2, <1>5, <1>8 DEF Open
  <2> QED BY <2>1 DEF Joined
<1>11. InOrder(th, FALSE)
  BY <1>8, <1>9, <1>10, Zenon DEF InOrder
<1> QED BY <1>1, <1>8, <1>11 DEF th, b

\* A transfer that fails leaves the thread with a request that has its result.
LEMMA TransferBlocks ==
    ASSUME TypeInv, QueueInv, pc = "loop", Pending.cur # 0, Submitted,
           Pending.batch[Pending.cur].kind = "handoff", current # Main,
           ~Separate, TransferFails
    PROVE  Blocked'
<1>1. /\ asked' = 0 /\ pc' = "idle" /\ current' = current
      /\ Put(current, AfterHandoff)
  BY DEF Submitted, TransferFails, Raise
<1>2. /\ InOrder(Pending, FALSE) /\ Typed(Pending) /\ Pending.batch = Self.batch
      /\ current \in Threads /\ Pending.status = "tool"
  BY PendingOrdered, PendingTyped, HereOrdered, TypeParts DEF AskedInv, Self
<1>3. \A j \in Open(Pending) : Oldest(Pending) <= j
  BY <1>2, HandledIsOldest
<1> DEFINE S == {i \in DOMAIN Pending.batch : i >= Oldest(Pending)}
           a == AnsweredWith(Pending, S)
           b == AfterHandoff
<1>4. /\ Typed(a) /\ a.batch = Pending.batch /\ a.cur = Pending.cur
      /\ a.status = Pending.status
  BY <1>2, AnsweredTyped
<1>5. a.answered = Pending.answered \cup S
  BY <1>2 DEF AnsweredWith, Typed, Thread
<1>6. b = a \/ b = [a EXCEPT !.next = Len(a.batch) + 1]
  BY <1>4 DEF AfterHandoff
<1>7. Open(Pending) \subseteq S
  <2>1. \A j \in Open(Pending) : j \in DOMAIN Pending.batch /\ j \in Nat
    BY <1>2, OrderIndices
  <2>2. \A j \in Open(Pending) : j >= Oldest(Pending)
    BY <1>2, <1>3, <2>1, HandledIsOldest
  <2> QED BY <2>1, <2>2
<1> HIDE DEF a, b
<1>8. /\ b.batch = Pending.batch /\ b.cur = Pending.cur /\ b.status = "tool"
      /\ b.answered = a.answered
  BY <1>2, <1>4, <1>6 DEF Typed, Thread
<1>9. Open(b) = {}
  BY <1>5, <1>7, <1>8 DEF Open
<1>10. thread'[current] = b
  BY <1>1, <1>2, TypeParts DEF Put, ThreadsTyped, b
<1> QED BY <1>1, <1>8, <1>9, <1>10 DEF Blocked, Self

\* Where agents are kept apart only the main agent transfers the conversation,
\* so no transfer fails.
LEMMA HandoffQueue ==
    ASSUME NEW depth \in [Threads -> Nat], TypeInv, Chain(depth), QueueInv,
           HandoffConversation
    PROVE  QueueInv' \/ Blocked'
<1>1. /\ pc = "loop" /\ Submitted /\ Pending.cur # 0
      /\ Pending.batch[Pending.cur].kind = "handoff"
  BY DEF HandoffConversation, Handling
<1>2. Separate => current = Main
  <2>1. /\ Pending.batch = thread[current].batch /\ current \in Threads
        /\ Pending.cur \in DOMAIN thread[current].batch
    BY <1>1, PendingOrdered, HandledIsOldest, HereOrdered DEF Self
  <2> QED BY <1>1, <2>1 DEF QueueInv, KindsInv
<1>3. CASE Unusable(Pending)
  BY <1>1, <1>3, LookupFailsQueue DEF HandoffConversation
<1>4. CASE ~Unusable(Pending) /\ Transferable /\ current # Main
  BY <1>1, <1>2, <1>4, TransferBlocks DEF HandoffConversation
<1>5. CASE ~Unusable(Pending) /\ ~(Transferable /\ current # Main)
  <2> DEFINE th == [AfterHandoff EXCEPT !.cur = 0]
  <2>1. Transfer
    BY <1>5 DEF HandoffConversation
  <2>2. Put(current, th) /\ UNCHANGED <<current, stack, ret, error>>
    BY <2>1 DEF Transfer, endVars
  <2>3. InOrder(th, FALSE) /\ th.batch = Self.batch
    BY <1>1, HandoffSettles
  <2> HIDE DEF th
  <2>4. mainAgent' = mainAgent \/ stack = <<>>
    BY <1>5, <2>1, ChainParts DEF Transfer
  <2>5. ErrorInv'
    BY <2>2 DEF QueueInv, ErrorInv, KnownCause
  <2> QED BY <1>1, <2>2, <2>3, <2>4, <2>5, SettledQueue
<1> QED BY <1>3, <1>4, <1>5

\* A message goes to an agent that is not in the chain yet.
LEMMA NewRecipient ==
    ASSUME NEW depth \in [Threads -> Nat], Deepens(depth), TypeInv,
           Chain(depth), DistinctInv, Accepted
    PROVE  LET t == <<Recipient(current), Looked.to>> IN
           /\ t \in Threads /\ ~Chained(t)
           /\ Irreflexive => Recipient(t) # Recipient(current)
           /\ Irreflexive => \A i \in DOMAIN stack : Recipient(stack[i]) # Recipient(t)
<1>0. PICK t : t = <<Recipient(current), Looked.to>>
  OBVIOUS
<1>1. /\ t \in Relationships /\ t \in Threads /\ t # Main
      /\ depth[current] < depth[t] /\ current \in Threads
      /\ t[1] = Recipient(current) /\ t[2] # CallerOf(current)
      /\ Recipient(t) = t[2]
  BY <1>0, DeeperThread, TypeParts DEF RestTyped, Accepted, Recipient
<1>2. \A i \in DOMAIN stack : depth[stack[i]] < depth[current] /\ stack[i] \in Threads
  BY ChainParts DEF Chain
<1>3. ~Chained(t)
  BY <1>1, <1>2 DEF Chained
<1>4. Irreflexive => Recipient(t) # Recipient(current)
  BY <1>1 DEF Irreflexive
<1>5. ASSUME Irreflexive, NEW i \in DOMAIN stack, Recipient(stack[i]) = Recipient(t)
      PROVE  FALSE
  <2>1. PICK u : u = Above(i)
    OBVIOUS
  <2>2. u \in Threads /\ CallerOf(u) = Recipient(stack[i]) /\ current # Main
    <3>1. u \in Threads /\ WaitsFor(stack[i], u)
      BY <1>5, <2>1, ChainParts
    <3>2. stack # <<>>
      BY <1>5
    <3> QED BY <3>1, <3>2, ChainParts DEF WaitsFor
  <2>3. CASE i = Len(stack)
    BY <1>1, <1>5, <2>1, <2>2, <2>3 DEF Above
  <2>4. CASE i # Len(stack)
    <3>1. i + 1 \in DOMAIN stack /\ u = stack[i + 1] /\ i + 1 # 1
      BY <2>1, <2>4, ChainParts DEF Above
    <3>2. u # Main /\ u \in Relationships /\ Recipient(u) = u[2]
      BY <2>2, <3>1, ChainParts DEF Threads, Recipient
    <3>3. u[2] # t[1] /\ t[2] = u[1]
      BY <1>1, <1>5, <2>2, <3>1, <3>2 DEF DistinctInv, CallerOf
    <3>4. depth[t] < depth[u]
      BY <1>1, <3>2, <3>3 DEF Deepens
    <3>5. depth[u] < depth[current] /\ depth[u] \in Nat /\ depth[t] \in Nat
          /\ depth[current] \in Nat
      BY <1>1, <1>2, <2>2, <3>1
    <3> QED BY <1>1, <3>4, <3>5
  <2> QED BY <2>3, <2>4
<1> QED BY <1>0, <1>1, <1>3, <1>4, <1>5

LEMMA DeliverQueue ==
    ASSUME NEW depth \in [Threads -> Nat], Deepens(depth), TypeInv,
           Chain(depth), QueueInv, pc = "loop", Pending.cur # 0,
           Submitted, Accepted, Deliver
    PROVE  QueueInv'
<1>0. PICK t, th, n : /\ t = <<Recipient(current), Looked.to>>
                      /\ th = [Pending EXCEPT !.cur = 0] /\ n = Len(stack)
  OBVIOUS
<1>1. /\ t \in Threads /\ ~Chained(t)
      /\ Irreflexive => Recipient(t) # Recipient(current)
      /\ Irreflexive => \A i \in DOMAIN stack : Recipient(stack[i]) # Recipient(t)
      /\ current \in Threads /\ t # current /\ t # Main
  BY <1>0, NewRecipient, DeeperThread, HereOrdered DEF QueueInv, Chained
<1>2. /\ InOrder(Pending, FALSE) /\ Typed(Pending) /\ Pending.batch = Self.batch
      /\ Oldest(Pending) \in DOMAIN Pending.batch
  BY PendingOrdered, HandledIsOldest
<1>3. /\ thread' = [thread EXCEPT ![current] = th, ![t] = Extended(@, "user")]
      /\ current' = t /\ stack' = Append(stack, current)
      /\ asked' = 0 /\ UNCHANGED <<mainAgent, ret, error>>
  BY <1>0 DEF Deliver, Submitted, endVars
<1>4. /\ n \in Nat /\ DOMAIN stack = 1..n /\ DOMAIN stack' = 1..(n + 1)
      /\ \A i \in 1..n : stack'[i] = stack[i] /\ stack[i] \in Threads
      /\ stack'[n + 1] = current
  <2>1. /\ n \in Nat /\ DOMAIN stack = 1..n /\ stack \in Seq(Threads)
        /\ \A i \in DOMAIN stack : stack[i] \in Threads
    BY <1>0, ChainParts
  <2> QED BY <1>0, <1>1, <1>3, <2>1
<1>5. /\ th.batch = Self.batch /\ th.answered = Pending.answered
      /\ th.cur = 0 /\ th.next = Pending.next /\ th.plain = Pending.plain
  BY <1>0, <1>2 DEF Typed, Thread
<1>6. InOrder(th, TRUE)
  <2>1. Ordered(Len(Pending.batch), Pending.answered, 0, Pending.next, TRUE)
    BY <1>2, OrderIndices, Settles DEF InOrder
  <2> QED BY <1>2, <1>5, <2>1, Zenon DEF InOrder, Joined, Open
<1>7. /\ Blank(thread[t]) /\ Typed(thread[t])
  BY <1>1, TypeParts, CurrentTyped DEF QueueInv, OrderInv
<1>8. PICK tt : tt = Extended(thread[t], "user")
  OBVIOUS
<1>9. Blank(tt) /\ InOrder(tt, FALSE)
  <2>1. /\ tt.batch = <<>> /\ tt.answered = {} /\ tt.cur = 0 /\ tt.next = 1
    BY <1>7, <1>8 DEF Extended, Blank, Typed, Thread
  <2>2. Len(<<>>) = 0 /\ DOMAIN <<>> = {}
    OBVIOUS
  <2> QED BY <2>1, <2>2 DEF Blank, InOrder, Ordered, Joined, Open
<1>10. \A u \in Threads : thread'[u] = IF u = t THEN tt
                                       ELSE IF u = current THEN th ELSE thread[u]
  BY <1>1, <1>3, <1>8, TypeParts DEF ThreadsTyped
<1>11. \A u : Chained(u)' <=> Chained(u) \/ u = t
  <2>1. \A u : (\E i \in 1..(n + 1) : stack'[i] = u)
                 <=> (\E i \in 1..n : stack[i] = u) \/ u = current
    <3>1. n + 1 \in 1..(n + 1) /\ \A i \in 1..(n + 1) : i \in 1..n \/ i = n + 1
      BY <1>4
    <3>2. 1..n \subseteq 1..(n + 1)
      BY <1>4
    <3> QED BY <1>4, <3>1, <3>2
  <2> QED BY <1>3, <1>4, <2>1 DEF Chained
<1>12. OrderInv'
  <2> SUFFICES ASSUME NEW u \in Threads
               PROVE  IF Chained(u)' THEN InOrder(thread'[u], Waits(u)')
                                     ELSE Blank(thread'[u])
    BY DEF OrderInv
  <2>1. CASE u = t
    <3>1. Waits(u)' = FALSE
      BY <1>3, <2>1 DEF Waits
    <3> QED BY <1>9, <1>10, <1>11, <2>1, <3>1
  <2>2. CASE u = current
    <3>1. Waits(u)' = TRUE
      BY <1>1, <1>3, <2>2 DEF Waits
    <3> QED BY <1>1, <1>6, <1>10, <1>11, <2>2, <3>1 DEF Chained
  <2>3. CASE u # t /\ u # current
    <3>1. Waits(u)' = TRUE /\ Waits(u) = TRUE
      BY <1>3, <2>3 DEF Waits
    <3> QED BY <1>10, <1>11, <2>3, <3>1 DEF QueueInv, OrderInv
  <2> QED BY <2>1, <2>2, <2>3
<1>13. DistinctInv'
  <2> SUFFICES ASSUME Irreflexive PROVE DistinctInv'
    BY DEF DistinctInv
  <2>1. /\ \A u \in Threads : Recipient(u)' = Recipient(u)
        /\ Recipient(current)' = Recipient(t)
    BY <1>3 DEF Recipient
  <2>2. \A i \in 1..n : /\ Recipient(stack[i])' = Recipient(stack[i])
                        /\ Recipient(stack[i]) # Recipient(current)
                        /\ Recipient(stack[i]) # Recipient(t)
    BY <1>1, <1>3, <1>4 DEF QueueInv, DistinctInv, Recipient
  <2>3. Recipient(stack[n + 1])' = Recipient(current)
    BY <1>3, <1>4 DEF Recipient
  <2>4. \A i \in 1..(n + 1) : i \in 1..n \/ i = n + 1
    BY <1>4
  <2>5. \A i, j \in 1..n : Recipient(stack[i]) = Recipient(stack[j]) => i = j
    BY <1>4 DEF QueueInv, DistinctInv
  <2>6. \A i, j \in 1..(n + 1) : Recipient(stack[i])' = Recipient(stack[j])' => i = j
    BY <2>2, <2>3, <2>4, <2>5
  <2>7. \A i \in 1..(n + 1) : Recipient(stack[i])' # Recipient(current)'
    BY <1>1, <2>1, <2>2, <2>3, <2>4
  <2> QED BY <1>4, <2>6, <2>7 DEF DistinctInv
<1>14. KindsInv'
  <2>1. Handoff # "ALWAYS"
    BY <1>1, <1>2 DEF QueueInv, KindsInv, Accepted, Looked, Self
  <2>2. \A u \in Threads : thread'[u].batch = thread[u].batch
    BY <1>5, <1>7, <1>9, <1>10 DEF Blank, Self
  <2> QED BY <2>1, <2>2 DEF QueueInv, KindsInv
<1>15. CallerInv' /\ ErrorInv'
  BY <1>3 DEF CallerInv, QueueInv, ErrorInv, KnownCause
<1> QED BY <1>12, <1>13, <1>14, <1>15 DEF QueueInv

LEMMA AnswerQueue ==
    ASSUME NEW depth \in [Threads -> Nat], TypeInv, Chain(depth), QueueInv,
           AnswerCaller
    PROVE  QueueInv'
<1>0. PICK n, w, a : /\ n = Len(stack) /\ w = Waiting
                     /\ a = AnsweredWith(thread[w], {Oldest(thread[w])})
  OBVIOUS
<1>1. /\ stack # <<>> /\ n \in DOMAIN stack /\ w = stack[n] /\ w # current
      /\ Told[w] = thread[w] /\ AnswerRequest(Oldest(Told[w]))
      /\ mainAgent' = mainAgent
  BY <1>0, AnswerFindsCaller DEF Waiting
<1>2. /\ n \in Nat \ {0} /\ DOMAIN stack = 1..n /\ stack \in Seq(Threads)
      /\ w \in Threads /\ current \in Threads
      /\ \A i \in 1..n : stack[i] \in Threads /\ stack[i] # current
  <2>1. /\ n \in Nat /\ DOMAIN stack = 1..n /\ stack \in Seq(Threads)
        /\ \A i \in DOMAIN stack : stack[i] \in Threads /\ stack[i] # current
    BY <1>0, ChainParts
  <2>2. n # 0 /\ w \in Threads
    BY <1>1, <2>1
  <2> QED BY <2>1, <2>2, HereOrdered
<1>3. /\ Running /\ Self.cur = 0 /\ UNCHANGED <<asked, submitted>> /\ asked = 0
      /\ Typed(Self)
  BY HereOrdered DEF AnswerCaller, Prompting, NothingQueued, Kept, callVars
<1>4. /\ thread' = [Told EXCEPT ![w] = a] /\ current' = w
      /\ stack' = SubSeq(stack, 1, n - 1) /\ error' = error
  BY <1>0, <1>1 DEF AnswerRequest, endVars
<1>5. \A u \in Threads : thread'[u] = IF u = w THEN a
                                      ELSE IF u = current THEN Said ELSE thread[u]
  BY <1>1, <1>2, <1>4, TypeParts DEF Told, ThreadsTyped
<1>6. DOMAIN stack' = 1..(n - 1) /\ \A i \in 1..(n - 1) : stack'[i] = stack[i]
  BY <1>2, <1>4
<1>7. Blank(Said)
  BY <1>3 DEF Said, Blank, Typed, Thread
<1>8. /\ Typed(thread[w]) /\ InOrder(thread[w], TRUE)
      /\ Open(thread[w]) # {}
  <2>1. Chained(w) /\ Waits(w) = TRUE
    BY <1>1 DEF Chained, Waits
  <2>2. InOrder(thread[w], TRUE)
    BY <1>2, <2>1 DEF QueueInv, OrderInv
  <2>3. Open(thread[w]) # {}
    BY <1>0, AnswerFindsCaller DEF Unusable
  <2> QED BY <1>2, <2>2, <2>3, TypeParts, CurrentTyped
<1>9. /\ InOrder(a, FALSE) /\ a.batch = thread[w].batch
  <2>1. PICK th, m : th = thread[w] /\ m = Oldest(th)
    OBVIOUS
  <2>2. /\ Len(th.batch) \in Nat /\ th.cur \in 0..Len(th.batch) /\ th.next \in Nat
        /\ Open(th) = (1..Len(th.batch)) \ th.answered
        /\ Ordered(Len(th.batch), th.answered, th.cur, th.next, TRUE)
        /\ DOMAIN th.batch = 1..Len(th.batch) /\ Typed(th)
    BY <1>8, <2>1, OrderIndices DEF InOrder
  <2>3. th.cur = 0 /\ Ordered(Len(th.batch), th.answered \cup {m}, 0, th.next, FALSE)
    <3>1. PICK N, S, c, n0 : /\ N = Len(th.batch) /\ S = th.answered
                             /\ c = th.cur /\ n0 = th.next
      OBVIOUS
    <3>2. /\ N \in Nat /\ c \in 0..N /\ n0 \in Nat /\ TRUE \in BOOLEAN
          /\ m \in (1..N) \ S /\ \A j \in (1..N) \ S : m <= j
      BY <1>8, <2>1, <2>2, <3>1, OldestOpen
    <3>3. Ordered(N, S, c, n0, TRUE)
      BY <2>2, <3>1, Zenon
    <3>4. Ordered(N, S \cup {m}, 0, n0, FALSE)
      BY <3>2, <3>3, Resolves
    <3>5. c = 0
      BY <3>3 DEF Ordered
    <3> QED BY <3>1, <3>4, <3>5, Zenon
  <2>4. {m} \subseteq DOMAIN th.batch
    BY <1>8, <2>1, <2>2, OldestOpen
  <2>5. a = AnsweredWith(th, {m})
    BY <1>0, <2>1
  <2>6. /\ a.batch = th.batch /\ a.cur = th.cur /\ a.next = th.next
        /\ a.plain = th.plain
    BY <2>2, <2>4, <2>5, AnsweredTyped
  <2>7. a.answered = th.answered \cup {m}
    BY <2>2, <2>5 DEF AnsweredWith, Typed, Thread
  <2>8. Joined(a)
    BY <1>8, <2>1, <2>6, <2>7 DEF InOrder, Joined, Open
  <2> QED BY <2>1, <2>3, <2>6, <2>7, <2>8, Zenon DEF InOrder
<1>10. \A u : Chained(u)' <=> Chained(u) /\ u # current
  <2>1. \A u : (\E i \in 1..n : stack[i] = u)
                 <=> (\E i \in 1..(n - 1) : stack'[i] = u) \/ u = w
    <3>1. n \in 1..n /\ \A i \in 1..n : i \in 1..(n - 1) \/ i = n
      BY <1>2
    <3>2. 1..(n - 1) \subseteq 1..n
      BY <1>2
    <3> QED BY <1>1, <1>6, <3>1, <3>2
  <2>2. \A i \in 1..(n - 1) : stack'[i] # current
    <3>1. 1..(n - 1) \subseteq 1..n
      BY <1>2
    <3> QED BY <1>2, <1>6, <3>1
  <2>3. \A u : Chained(u) <=> u = current \/ \E i \in 1..n : stack[i] = u
    BY <1>2 DEF Chained
  <2>4. \A u : Chained(u)' <=> u = w \/ \E i \in 1..(n - 1) : stack'[i] = u
    BY <1>4, <1>6 DEF Chained
  <2> QED BY <1>1, <2>1, <2>2, <2>3, <2>4, Zenon
<1>11. OrderInv'
  <2> SUFFICES ASSUME NEW u \in Threads
               PROVE  IF Chained(u)' THEN InOrder(thread'[u], Waits(u)')
                                     ELSE Blank(thread'[u])
    BY DEF OrderInv
  <2>1. CASE u = w
    <3>1. Waits(u)' = FALSE /\ Chained(u)'
      BY <1>3, <1>4, <2>1 DEF Waits, Chained
    <3> QED BY <1>5, <1>9, <2>1, <3>1
  <2>2. CASE u = current
    BY <1>1, <1>5, <1>7, <1>10, <2>2
  <2>3. CASE u # w /\ u # current
    <3>1. Waits(u)' = TRUE /\ Waits(u) = TRUE
      BY <1>4, <2>3 DEF Waits
    <3> QED BY <1>5, <1>10, <2>3, <3>1 DEF QueueInv, OrderInv
  <2> QED BY <2>1, <2>2, <2>3
<1>12. DistinctInv'
  <2> SUFFICES ASSUME Irreflexive PROVE DistinctInv'
    BY DEF DistinctInv
  <2>1. \A i \in 1..(n - 1) : i \in 1..n /\ i # n
    BY <1>2
  <2>2. \A i, j \in 1..n : Recipient(stack[i]) = Recipient(stack[j]) => i = j
    BY <1>2 DEF QueueInv, DistinctInv
  <2>3. /\ Recipient(current)' = Recipient(stack[n])
        /\ \A i \in 1..(n - 1) : Recipient(stack[i])' = Recipient(stack[i])
    BY <1>1, <1>4, <1>6 DEF Recipient
  <2> QED BY <1>2, <1>6, <2>1, <2>2, <2>3 DEF DistinctInv
<1>13. KindsInv'
  <2>1. \A u \in Threads : thread'[u].batch \in {thread[u].batch, <<>>}
    BY <1>5, <1>7, <1>9 DEF Blank
  <2>2. Handoff # "ALWAYS"
    BY <1>1 DEF QueueInv, KindsInv
  <2>3. DOMAIN <<>> = {}
    OBVIOUS
  <2> QED BY <2>1, <2>2, <2>3 DEF QueueInv, KindsInv
<1>14. CallerInv' /\ ErrorInv'
  BY <1>3, <1>4 DEF CallerInv, QueueInv, ErrorInv, KnownCause
<1> QED BY <1>11, <1>12, <1>13, <1>14 DEF QueueInv

\* Steps of the agent: nothing is asked.
LEMMA AgentQueue ==
    ASSUME TypeInv, QueueInv, Running, Kept, UNCHANGED <<stack, current>>,
           error' \in {error, "none", "tool", "answer", "generation", "interrupted"},
           KnownCause', NEW th, Put(current, th), InOrder(th, FALSE),
           th.batch = Self.batch \/ th.batch = <<>>
    PROVE  QueueInv'
<1>1. asked' = 0 /\ mainAgent' = mainAgent
  BY HereOrdered DEF Kept, callVars
<1>2. InOrder(th, asked' # 0) /\ CallerInv' /\ ErrorInv'
  BY <1>1 DEF CallerInv, QueueInv, ErrorInv, KnownCause, LookupErrors
<1> QED BY <1>1, <1>2, HereQueue

LEMMA ToolQueue ==
    ASSUME TypeInv, QueueInv, TakeRequest \/ RunServerTool \/ ServerToolRaises
    PROVE  QueueInv'
<1>1. /\ Typed(Self) /\ Running /\ InOrder(Self, FALSE) /\ Kept
      /\ UNCHANGED <<stack, current>> /\ error' \in {error, "tool"} /\ KnownCause'
  BY HereOrdered DEF TakeRequest, RunServerTool, ServerToolRaises, Processing, Raise,
     endVars, QueueInv, ErrorInv, KnownCause
<1>2. /\ Len(Self.batch) \in Nat /\ Self.cur \in 0..Len(Self.batch) /\ Self.next \in Nat
      /\ Self.next >= 1
      /\ Open(Self) = (1..Len(Self.batch)) \ Self.answered
      /\ DOMAIN Self.batch = 1..Len(Self.batch)
  <2>2. /\ Len(Self.batch) \in Nat /\ Self.cur \in 0..Len(Self.batch)
        /\ Self.next \in Nat /\ Self.next \in 1..(MaxBatch + 1)
        /\ Open(Self) = (1..Len(Self.batch)) \ Self.answered
        /\ DOMAIN Self.batch = 1..Len(Self.batch)
    BY <1>1, OrderIndices, Zenon
  <2>3. Self.next >= 1
    BY <2>2, SwarmAssumption
  <2> QED BY <2>2, <2>3
<1>6. /\ Ordered(Len(Self.batch), Self.answered, Self.cur, Self.next, FALSE)
      /\ Joined(Self)
  BY <1>1, Zenon DEF InOrder
<1>3. CASE TakeRequest
  <2> DEFINE th == [Self EXCEPT !.cur = Self.next, !.next = @ + 1]
  <2>1. /\ Self.cur = 0 /\ Self.next <= Len(Self.batch) /\ Put(current, th)
    BY <1>3 DEF TakeRequest
  <2>2. /\ th.batch = Self.batch /\ th.answered = Self.answered
        /\ th.cur = Self.next /\ th.next = Self.next + 1 /\ th.plain = Self.plain
    BY <1>1 DEF Typed, Thread
  <2> HIDE DEF th
  <2>3. Ordered(Len(Self.batch), Self.answered, Self.next, Self.next + 1, FALSE)
    <3>1. Self.next \in 1..Len(Self.batch)
      BY <1>2, <2>1
    <3>2. Ordered(Len(Self.batch), Self.answered, 0, Self.next, FALSE)
      BY <1>6, <2>1, Zenon
    <3> QED BY <1>2, <3>1, <3>2, Takes
  <2>4. InOrder(th, FALSE)
    BY <1>6, <2>2, <2>3, Zenon DEF InOrder, Joined, Open
  <2> QED BY <1>1, <2>1, <2>2, <2>4, AgentQueue
<1>4. CASE RunServerTool
  <2> DEFINE a == AnsweredWith(Self, {Self.cur})
             th == [a EXCEPT !.cur = 0]
  <2>1. /\ Self.cur # 0 /\ Put(current, th)
    BY <1>4 DEF RunServerTool, Processing
  <2>2. /\ a \in Thread /\ a.batch = Self.batch /\ a.next = Self.next
        /\ a.plain = Self.plain /\ a.answered = Self.answered \cup {Self.cur}
    <3>1. a.answered = Self.answered \cup {Self.cur}
      BY <1>1 DEF AnsweredWith, Typed, Thread
    <3>2. {Self.cur} \subseteq DOMAIN Self.batch
      BY <1>2, <2>1
    <3> QED BY <1>1, <3>1, <3>2, AnsweredTyped DEF Typed
  <2> HIDE DEF a
  <2>3. /\ th.batch = Self.batch /\ th.answered = Self.answered \cup {Self.cur}
        /\ th.cur = 0 /\ th.next = Self.next /\ th.plain = Self.plain
    BY <2>2 DEF Thread
  <2> HIDE DEF th
  <2>4. Ordered(Len(Self.batch), Self.answered \cup {Self.cur}, 0, Self.next, FALSE)
    BY <1>2, <1>6, <2>1, Settles
  <2>5. Joined(th)
    BY <1>6, <2>3 DEF Joined, Open
  <2>6. InOrder(th, FALSE)
    BY <2>3, <2>4, <2>5, Zenon DEF InOrder
  <2> QED BY <1>1, <2>1, <2>3, <2>6, AgentQueue
<1>5. CASE ServerToolRaises
  <2> DEFINE S == Self.cur .. Len(Self.batch)
             a == AnsweredWith(Self, S)
             th == [a EXCEPT !.cur = 0, !.next = Len(Self.batch) + 1]
  <2>1. /\ Self.cur # 0 /\ Put(current, th)
    BY <1>5 DEF ServerToolRaises, Processing
  <2>2. /\ a \in Thread /\ a.batch = Self.batch
        /\ a.plain = Self.plain /\ a.answered = Self.answered \cup S
    <3>1. a.answered = Self.answered \cup S
      BY <1>1 DEF AnsweredWith, Typed, Thread
    <3>2. S \subseteq DOMAIN Self.batch
      BY <1>2, <2>1
    <3> QED BY <1>1, <3>1, <3>2, AnsweredTyped DEF Typed
  <2> HIDE DEF a
  <2>3. /\ th.batch = Self.batch /\ th.answered = Self.answered \cup S
        /\ th.cur = 0 /\ th.next = Len(Self.batch) + 1 /\ th.plain = Self.plain
    BY <2>2 DEF Thread
  <2> HIDE DEF th
  <2>4. Ordered(Len(Self.batch), th.answered, 0, Len(Self.batch) + 1, FALSE)
    <3>1. PICK N, c, m, T : /\ N = Len(Self.batch) /\ c = Self.cur
                            /\ m = N + 1 /\ T = th.answered
      OBVIOUS
    <3>2. /\ N \in Nat /\ c \in 1..N /\ Self.next \in Nat
          /\ m \in Nat /\ m > N
      BY <1>2, <2>1, <3>1
    <3>3. \A i \in 1..N : i \in T <=> i \in Self.answered \/ c <= i
      BY <1>2, <2>3, <3>1, <3>2
    <3>4. Ordered(N, Self.answered, c, Self.next, FALSE)
      BY <1>6, <3>1, Zenon
    <3>5. ~Careless => 1..N \subseteq T
      BY <3>2, <3>3, <3>4 DEF Ordered
    <3>6. Ordered(N, T, 0, m, FALSE)
      BY <3>2, <3>5, Cancels
    <3> QED BY <3>1, <3>6, Zenon
  <2>5. Joined(th)
    BY <1>6, <2>3 DEF Joined, Open
  <2>6. InOrder(th, FALSE)
    BY <2>3, <2>4, <2>5, Zenon DEF InOrder
  <2> QED BY <1>1, <2>1, <2>3, <2>6, AgentQueue
<1> QED BY <1>3, <1>4, <1>5

\* A thread without requests has an empty queue.
LEMMA BlankOrdered ==
    ASSUME NEW th, Blank(th)
    PROVE  InOrder(th, FALSE)
<1>1. Len(<<>>) = 0 /\ DOMAIN <<>> = {}
  OBVIOUS
<1> QED BY <1>1 DEF Blank, InOrder, Ordered, Joined, Open

\* The requests that an agent generates: the main agent's alone hand over.
LEMMA OfferedKinds ==
    ASSUME NEW depth \in [Threads -> Nat], TypeInv, Chain(depth), QueueInv,
           NEW b \in Batches(Offered), NEW i \in DOMAIN b
    PROVE  /\ Separate /\ b[i].kind = "handoff" => current = Main
           /\ b[i].kind = "send" => Handoff # "ALWAYS"
<1>1. b[i] \in Offered
  <2>1. PICK n \in 1..MaxBatch : b \in [1..n -> Offered]
    BY DEF Batches
  <2> QED BY <2>1
<1>2. b[i].kind = "send" => Handoff # "ALWAYS"
  BY <1>1 DEF Offered, OwnTools
<1>3. b[i].kind = "handoff" =>
          \/ Handoff = "ALWAYS"
          \/ Handoff = "OPTIONAL" /\ Recipient(current) = mainAgent
  BY <1>1 DEF Offered, OwnTools
<1>4. Handoff = "ALWAYS" => current = Main
  BY ChainParts DEF QueueInv, KindsInv
<1>5. Irreflexive /\ Recipient(current) = mainAgent => current = Main
  <2> SUFFICES ASSUME Irreflexive, current # Main PROVE Recipient(current) # mainAgent
    OBVIOUS
  <2>1. 1 \in DOMAIN stack /\ stack[1] = Main
    BY ChainParts
  <2>2. Recipient(stack[1]) = mainAgent
    BY <2>1 DEF Recipient
  <2> QED BY <2>1, <2>2 DEF QueueInv, DistinctInv
<1> QED BY <1>2, <1>3, <1>4, <1>5 DEF Separate

LEMMA GenerateQueue ==
    ASSUME NEW depth \in [Threads -> Nat], TypeInv, Chain(depth), QueueInv,
           GenerateRequests
    PROVE  QueueInv'
<1>1. PICK b \in Batches(Offered) :
         Put(current, [Self EXCEPT !.batch = b, !.answered = {},
                                   !.plain = TRUE, !.last = "request",
                                   !.next = 1])
  BY DEF GenerateRequests
<1> DEFINE th == [Self EXCEPT !.batch = b, !.answered = {},
                              !.plain = TRUE, !.last = "request",
                              !.next = 1]
<1>2. /\ Typed(Self) /\ Self.cur = 0 /\ asked = 0
      /\ UNCHANGED <<mainAgent, current, stack, asked, submitted, error>>
  BY HereOrdered
     DEF GenerateRequests, Prompting, NothingQueued, Kept, callVars, endVars
<1>3. /\ th.batch = b /\ th.answered = {} /\ th.plain = TRUE
      /\ th.cur = 0 /\ th.next = 1
  BY <1>2 DEF Typed, Thread
<1>4. Put(current, th)
  BY <1>1
<1> HIDE DEF th
<1>5. Len(b) \in Nat
  <2>1. PICK n \in 1..MaxBatch : b \in [1..n -> Offered]
    BY DEF Batches
  <2>2. n \in Nat
    BY SwarmAssumption
  <2> QED BY <2>1, <2>2
<1>6. InOrder(th, FALSE)
  <2>1. Ordered(Len(b), {}, 0, 1, FALSE)
    BY <1>5 DEF Ordered
  <2> QED BY <1>3, <2>1, Zenon DEF InOrder, Joined
<1>7. InOrder(th, asked' # 0)
  BY <1>2, <1>6
<1>8. OrderInv'
  BY <1>2, <1>4, <1>7, HereOrder
<1>9. KindsInv'
  <2>1. \A t \in Threads : thread'[t].batch = IF t = current THEN b ELSE thread[t].batch
    BY <1>3, <1>4, TypeParts DEF Put, ThreadsTyped
  <2>2. \A i \in DOMAIN b : /\ Separate /\ b[i].kind = "handoff" => current = Main
                            /\ b[i].kind = "send" => Handoff # "ALWAYS"
    BY OfferedKinds
  <2> QED BY <1>2, <2>1, <2>2 DEF QueueInv, KindsInv
<1>10. DistinctInv' /\ CallerInv' /\ ErrorInv'
  BY <1>2 DEF QueueInv, DistinctInv, CallerInv, ErrorInv, KnownCause, Recipient
<1> QED BY <1>8, <1>9, <1>10 DEF QueueInv

LEMMA PromptQueue ==
    ASSUME TypeInv, QueueInv,
           ServerToolYields \/ RequestTools \/ AnswerUser \/ Exhausts
             \/ Finishes \/ GenerationFails \/ Interrupt
    PROVE  QueueInv'
<1>1. /\ Running /\ Kept /\ UNCHANGED <<stack, current>>
      /\ error' \in {error, "none", "tool", "answer", "generation", "interrupted"}
      /\ KnownCause'
  BY DEF ServerToolYields, RequestTools, AnswerUser, Exhausts, Finishes,
         GenerationFails, Interrupt, Processing, Prompting, Return, Raise, endVars,
         QueueInv, ErrorInv, KnownCause
<1>2. Typed(Self) /\ InOrder(Self, FALSE) /\ current \in Threads
  BY <1>1, HereOrdered
<1>3. CASE ServerToolYields \/ RequestTools \/ Exhausts \/ Interrupt
  <2>1. PICK st : Put(current, [Self EXCEPT !.status = st])
    BY <1>3, Zenon DEF ServerToolYields, RequestTools, Exhausts, Interrupt
  <2> DEFINE th == [Self EXCEPT !.status = st]
  <2>2. /\ th.batch = Self.batch /\ th.answered = Self.answered
        /\ th.cur = Self.cur /\ th.next = Self.next /\ th.plain = Self.plain
    BY <1>2 DEF Typed, Thread
  <2>3. Put(current, th)
    BY <2>1
  <2> HIDE DEF th
  <2>4. InOrder(th, FALSE)
    BY <1>2, <2>2, Zenon DEF InOrder, Joined, Open
  <2> QED BY <1>1, <2>2, <2>3, <2>4, AgentQueue
<1>4. CASE AnswerUser \/ Finishes
  <2>1. PICK l, st : Put(current, [Said EXCEPT !.last = l, !.status = st])
    <3>1. [Said EXCEPT !.last = "agent", !.status = "user"] = Said
      BY <1>2 DEF Said, Typed, Thread
    <3>2. AnswerUser => Put(current, [Said EXCEPT !.last = "agent", !.status = "user"])
      BY <3>1, Zenon DEF AnswerUser
    <3>3. Finishes => Put(current, [Said EXCEPT !.last = "result", !.status = "finished"])
      BY Zenon DEF Finishes
    <3> QED BY <1>4, <3>2, <3>3, Zenon
  <2> DEFINE th == [Said EXCEPT !.last = l, !.status = st]
  <2>2. Self.cur = 0
    BY <1>4 DEF AnswerUser, Finishes, Prompting, NothingQueued
  <2>3. Blank(th)
    BY <1>2, <2>2 DEF Blank, Said, Typed, Thread
  <2>4. Put(current, th)
    BY <2>1
  <2> HIDE DEF th
  <2>5. InOrder(th, FALSE) /\ th.batch = <<>>
    BY <2>3, BlankOrdered DEF Blank
  <2> QED BY <1>1, <2>4, <2>5, AgentQueue
<1>5. CASE GenerationFails
  <2>1. Put(current, Self)
    BY <1>2, <1>5, TypeParts DEF GenerationFails, Put, Self, ThreadsTyped
  <2> QED BY <1>1, <1>2, <2>1, AgentQueue
<1> QED BY <1>3, <1>4, <1>5

LEMMA SendQueue ==
    ASSUME NEW depth \in [Threads -> Nat], Deepens(depth), TypeInv,
           Chain(depth), QueueInv, SendMessage
    PROVE  QueueInv'
<1>1. /\ pc = "loop" /\ Pending.cur # 0 /\ Submitted
      /\ IF Unusable(Pending) THEN LookupFails
         ELSE IF Accepted THEN Deliver ELSE Refuse
  BY DEF SendMessage, Handling
<1>2. CASE Unusable(Pending)
  BY <1>1, <1>2, LookupFailsQueue
<1>3. CASE ~Unusable(Pending) /\ Accepted
  BY <1>1, <1>3, DeliverQueue
<1>4. CASE ~Unusable(Pending) /\ ~Accepted
  BY <1>1, <1>4, RefuseQueue
<1> QED BY <1>2, <1>3, <1>4

LEMMA StutterQueue == QueueInv /\ UNCHANGED vars => QueueInv'
<1> SUFFICES ASSUME QueueInv, UNCHANGED vars PROVE QueueInv'
  OBVIOUS
<1>1. UNCHANGED <<pc, mainAgent, current, stack, thread, asked, submitted, error>>
  BY DEF vars, callVars, endVars
<1>2. OrderInv'
  BY <1>1 DEF QueueInv, OrderInv, Chained, Waits
<1>3. CallerInv' /\ ErrorInv'
  BY <1>1 DEF QueueInv, CallerInv, ErrorInv, KnownCause
<1>4. DistinctInv' /\ KindsInv'
  BY <1>1 DEF QueueInv, DistinctInv, KindsInv, Recipient
<1> QED BY <1>2, <1>3, <1>4 DEF QueueInv

\* A thread that is blocked stays so.
LEMMA StepBlocked ==
    ASSUME NEW depth \in [Threads -> Nat], TypeInv, Chain(depth), Blocked,
           [Next]_vars
    PROVE  Blocked'
<1>1. /\ current # Main /\ current \in Threads /\ Typed(Self) /\ ~Running
      /\ Self.status = "tool" /\ Self.cur # 0 /\ asked = 0 /\ submitted = FALSE
      /\ Self.batch[Self.cur].kind = "handoff" /\ Open(Self) = {}
  BY TypeParts, CurrentTyped DEF Blocked, Running, AskedInv, RestTyped, Self
<1>2. Pending = Self
  BY <1>1 DEF Pending, Self
<1>3. thread[Main].status = "tool"
  <2>1. 1 \in DOMAIN stack /\ stack[1] = Main
    BY <1>1, ChainParts
  <2> QED BY <2>1, ChainParts
<1>4. CASE Caller
  <2>1. Execute
    BY <1>1, <1>3, <1>4 DEF Caller, UserMessage, SubmitToolResult
  <2>2. /\ pc' = "loop" /\ UNCHANGED <<current, thread, asked>>
    BY <1>1, <2>1 DEF Execute, Round, Self, callVars
  <2> QED BY <2>2 DEF Blocked, Self
<1>5. CASE Run
  <2>1. HandoffConversation
    BY <1>1, <1>2, <1>5
       DEF Run, ResumeAgent, AskCaller, SendMessage, Handling, TakeRequest,
           RunServerTool, ServerToolRaises, ServerToolYields, RequestTools,
           GenerateRequests, AnswerUser, AnswerCaller, Exhausts, Finishes,
           GenerationFails, Interrupt, Processing, Prompting
  <2>2. LookupFails /\ Submitted
    BY <1>1, <1>2, <2>1 DEF HandoffConversation, Unusable
  <2>3. /\ pc' = "idle" /\ asked' = 0 /\ current' = current
        /\ Put(current, Self)
    BY <1>2, <2>2 DEF LookupFails, LookupRaises, Raise, Submitted
  <2>4. thread'[current] = thread[current]
    BY <1>1, <2>3, TypeParts DEF Put, Self, ThreadsTyped
  <2> QED BY <2>3, <2>4 DEF Blocked, Self
<1>6. CASE UNCHANGED vars
  BY <1>6 DEF Blocked, Self, vars, callVars
<1> QED BY <1>4, <1>5, <1>6 DEF Next

LEMMA StepQueue ==
    ASSUME NEW depth \in [Threads -> Nat], Deepens(depth), TypeInv,
           Chain(depth), QueueInv, [Next]_vars
    PROVE  QueueInv' \/ Blocked'
<1>1. CASE Caller
  BY <1>1, CallerQueue
<1>2. CASE ResumeAgent \/ AskCaller
  BY <1>2, ResumeQueue, AskQueue
<1>3. CASE SendMessage
  BY <1>3, SendQueue
<1>4. CASE HandoffConversation
  BY <1>4, HandoffQueue
<1>5. CASE TakeRequest \/ RunServerTool \/ ServerToolRaises
  BY <1>5, ToolQueue
<1>6. CASE ServerToolYields \/ RequestTools \/ AnswerUser \/ Exhausts
             \/ Finishes \/ GenerationFails \/ Interrupt
  BY <1>6, PromptQueue
<1>7. CASE GenerateRequests
  BY <1>7, GenerateQueue
<1>8. CASE AnswerCaller
  BY <1>8, AnswerQueue
<1>9. CASE UNCHANGED vars
  BY <1>9, StutterQueue
<1> QED BY <1>1, <1>2, <1>3, <1>4, <1>5, <1>6, <1>7, <1>8, <1>9 DEF Next, Run

LEMMA QueueInvariant ==
    ASSUME Acyclic
    PROVE  Spec => [](TypeInv /\ (QueueInv \/ Blocked))
<1>1. PICK depth \in [Threads -> Nat] : Deepens(depth)
  BY DEF Acyclic
<1>2. Init => TypeInv /\ Chain(depth) /\ QueueInv
  BY InitType, InitChain, InitQueue
<1>3. TypeInv /\ [Next]_vars => TypeInv'
  BY LoopType, ToolType, PromptType, AnswerType, CallerType, StutterType
     DEF Next, Run
<1>4. TypeInv /\ Chain(depth) /\ [Next]_vars => Chain(depth)'
  BY <1>1, RunChain, CallerChain, StutterChain DEF Next
<1>5. TypeInv /\ Chain(depth) /\ QueueInv /\ [Next]_vars => QueueInv' \/ Blocked'
  BY <1>1, StepQueue
<1>6. TypeInv /\ Chain(depth) /\ Blocked /\ [Next]_vars => Blocked'
  BY StepBlocked
<1>7. QED
  BY <1>2, <1>3, <1>4, <1>5, <1>6, PTL DEF Spec

\* When no agent can reach itself through accepted messages and the caller
\* brings the results it was asked for, an agent is prompted only when every
\* request of its last request message has a result, whatever the handoff mode,
\* the events, and the length of the messages and of the conversation
\* (AgentConversationExecutor prompts once its queue is empty, and every path
\* that leaves the queue has answered or cancelled what it took).
THEOREM PromptsComplete ==
    ASSUME Acyclic, ~Careless PROVE Spec => []PromptsAreComplete
<1>1. TypeInv /\ QueueInv => PromptsAreComplete
  <2> SUFFICES ASSUME TypeInv, QueueInv, Running, NothingQueued(Self)
               PROVE  Open(Self) = {}
    BY DEF PromptsAreComplete
  <2>1. Typed(Self) /\ InOrder(Self, FALSE)
    BY HereOrdered
  <2>2. PICK N, n : N = Len(Self.batch) /\ n = Self.next
    OBVIOUS
  <2>3. /\ N \in Nat /\ n \in Nat /\ n > N
        /\ Open(Self) = (1..N) \ Self.answered
    BY <2>1, <2>2, OrderIndices DEF NothingQueued
  <2>4. Ordered(N, Self.answered, 0, n, FALSE)
    BY <2>1, <2>2, Zenon DEF InOrder, NothingQueued
  <2>5. 1..N \subseteq Self.answered
    BY <2>3, <2>4, Exhausted
  <2> QED BY <2>3, <2>5
<1>2. Blocked => PromptsAreComplete
  BY DEF Blocked, PromptsAreComplete
<1>3. QED
  BY <1>1, <1>2, QueueInvariant, PTL

\* When also no agent is its own recipient, or the handoff mode is not OPTIONAL,
\* the request that the runner or the agent handles is the oldest one without a
\* result, so that looking a communication request up in the message list finds
\* the one that is being handled (_post_agent_message_to_next_thread,
\* _handle_handoff_conversation).
THEOREM LookupsFindTheirRequest ==
    ASSUME Acyclic, ~Careless, Separate PROVE Spec => []OldestIsCurrent
<1>1. TypeInv /\ QueueInv => OldestIsCurrent
  <2> SUFFICES ASSUME TypeInv, QueueInv, pc # "idle",
                      NEW th, th = IF pc = "loop" THEN Pending ELSE Self,
                      th.cur # 0
               PROVE  Open(th) # {} /\ Oldest(th) = th.cur
    BY DEF OldestIsCurrent
  <2>1. pc = "loop" \/ Running
    BY TypeParts DEF RestTyped, Running
  <2>2. Typed(th) /\ InOrder(th, FALSE)
    BY <2>1, HereOrdered, PendingOrdered DEF Running
  <2> QED BY <2>2, HandledIsOldest
<1>2. ~Blocked
  BY DEF Blocked
<1>3. QED
  BY <1>1, <1>2, QueueInvariant, PTL

\* Whatever results the caller leaves out, a user who writes while a request of
\* the main thread is open is the only cause of an internal error besides the
\* interrupts and the iteration limits, and the only such error is the look-up
\* in a list that no longer ends with a request message: a request is open, the
\* stack of the runner is never empty and no handoff leaves the main thread.
InterjectionsBreakLookups ==
    error \in LookupErrors => Interjects /\ error = "list"

THEOREM OnlyLookupsFail ==
    ASSUME Acyclic, Separate
    PROVE  Spec => []InterjectionsBreakLookups
<1>1. QueueInv => InterjectionsBreakLookups
  BY DEF QueueInv, ErrorInv, InterjectionsBreakLookups
<1>2. ~Blocked
  BY DEF Blocked
<1>3. QED
  BY <1>1, <1>2, QueueInvariant, PTL

\* So the runner raises an internal error only for its two known causes, an
\* interrupt and an iteration limit, and none without them, when the user writes
\* only once the requests of the main thread have their results.
THEOREM InternalErrorsKnown ==
    ASSUME Acyclic, Separate, ~Interjects
    PROVE  Spec => []InternalErrorsAreKnown
<1>1. QueueInv => InternalErrorsAreKnown
  BY DEF QueueInv, ErrorInv, KnownCause, InternalErrorsAreKnown, InternalErrors
<1>2. ~Blocked
  BY DEF Blocked
<1>3. QED
  BY <1>1, <1>2, QueueInvariant, PTL
=============================================================================

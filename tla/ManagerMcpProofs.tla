--------------------------- MODULE ManagerMcpProofs ---------------------------
(***************************************************************************)
(* Who is at work, and who waits.                                          *)
(*                                                                         *)
(* The manager and its workers: one worker at a time has a question of the *)
(* manager, and the manager is prompted only when it has every answer.     *)
(* The first rests on who runs in which place of the program; the second   *)
(* on the queue: the requests that are open are those that are still       *)
(* queued and the one being handled.                                       *)
(*                                                                         *)
(* The MCP runtime: without OAuth a conversation has one session, and with *)
(* it no flow is replaced without having been woken.  The invariant says   *)
(* what the holder of a transport's lock is doing, whom each flow belongs  *)
(* to, and that a runner nobody has heard of yet has somebody who waits    *)
(* for it.                                                                 *)
(***************************************************************************)
EXTENDS ManagerWorkers, McpRuntime, TLAPS

(* The manager and its workers.                                            *)

DataInv ==
    /\ mwPc \in {"idle", "loop", "agent", "prompted", "worker"}
    /\ mwCurrent \in Workers \cup {Manager}
    /\ mwBatch \in Seq(MwRequest) /\ Len(mwBatch) <= MwMaxBatch
    /\ mwPlain \in BOOLEAN
    /\ mwLast \in {"none", "user", "agent", "request", "result"}
    /\ mwStatus \in MwStatuses
    /\ mwWorker \in [Workers -> MwStatuses]
    /\ mwSubmitted \in BOOLEAN /\ mwIrregular \in BOOLEAN
    /\ mwError \in MwErrors /\ mwRounds \in 0..MwMaxRounds

IndexInv ==
    /\ mwAnswered \subseteq DOMAIN mwBatch
    /\ mwCur \in 0..Len(mwBatch) /\ mwNext \in 1..(Len(mwBatch) + 1)
    /\ mwAsked \in 0..Len(mwBatch)

\* Who runs, and when the caller owes a result.
PcInv ==
    /\ mwPc = "worker" => mwCurrent # Manager
    /\ mwPc \in {"loop", "agent", "prompted"} => mwCurrent = Manager
    /\ mwPc = "loop" => mwStatus = "tool"
    /\ mwAsked # 0 => mwPc \in {"idle", "loop"} /\ mwStatus = "tool"
                      /\ mwCurrent = Manager
    /\ mwSubmitted => /\ mwPc \in {"idle", "loop"}
                      /\ mwCurrent = Manager => mwAsked # 0

TypeInv == DataInv /\ IndexInv /\ PcInv

\* The requests that are queued are open.
Queued == \A j \in 1..Len(mwBatch) : mwNext <= j => j \notin mwAnswered
\* The current request is the one taken from the queue last.  It is open unless
\* the manager finished the conversation with it.
Handled ==
    mwCur # 0 => /\ mwCur = mwNext - 1 /\ mwAsked = 0
                 /\ mwBatch[mwCur].kind # "server" => mwCur \notin mwAnswered
\* So is the one the caller was asked for, whose result comes with the execution.
AskedLast ==
    mwAsked # 0 => /\ mwAsked = mwNext - 1 /\ mwAsked \notin mwAnswered
                   /\ mwPc = "loop" => mwSubmitted
\* And the one that was sent to a worker.
Delivered == mwCurrent # Manager => /\ mwCur = 0 /\ mwNext > 1
                                    /\ mwNext - 1 \notin mwAnswered
\* No other one is open.
NoneLeft ==
    \A j \in 1..Len(mwBatch) :
        j < mwNext /\ j \notin mwAnswered =>
            \/ j = mwCur \/ j = mwAsked
            \/ mwCurrent # Manager /\ j = mwNext - 1
\* The user writes when none is open.
Separated == ~mwPlain => \A j \in 1..Len(mwBatch) : j \in mwAnswered

QueueInv ==
    ~mwIrregular => /\ Queued /\ Handled /\ AskedLast /\ Delivered /\ NoneLeft
                    /\ Separated /\ mwError \notin {"list", "none open"}

MwInv == TypeInv /\ OneWorkerAtWork /\ QueueInv

-----------------------------------------------------------------------------
LEMMA MwIndices ==
    ASSUME TypeInv
    PROVE  /\ DOMAIN mwBatch = 1..Len(mwBatch) /\ Len(mwBatch) \in Nat
           /\ mwCur \in 0..Len(mwBatch) /\ mwNext \in 1..(Len(mwBatch) + 1)
           /\ mwAsked \in 0..Len(mwBatch)
           /\ MwOpen = (1..Len(mwBatch)) \ mwAnswered
           /\ \A i \in 1..Len(mwBatch) : mwBatch[i] \in MwRequest
BY DEF TypeInv, DataInv, IndexInv, MwOpen

LEMMA Regular ==
    ASSUME MwInv, ~mwIrregular
    PROVE  /\ Queued /\ Handled /\ AskedLast /\ Delivered /\ NoneLeft /\ Separated
           /\ mwError \notin {"list", "none open"}
BY DEF MwInv, QueueInv

LEMMA MwStart == MwInit => MwInv
<1> SUFFICES ASSUME MwInit PROVE MwInv
  OBVIOUS
<1>1. mwBatch = <<>> /\ mwBatch \in Seq(MwRequest) /\ Len(mwBatch) = 0
  BY DEF MwInit
<1>2. DataInv
  <2>1. Len(mwBatch) <= MwMaxBatch /\ mwRounds \in 0..MwMaxRounds
    BY <1>1, MwAssumption DEF MwInit
  <2> QED BY <1>1, <2>1 DEF MwInit, DataInv, MwStatuses, MwErrors
<1>3. IndexInv /\ PcInv
  BY <1>1 DEF MwInit, IndexInv, PcInv
<1>4. OneWorkerAtWork
  BY DEF MwInit, OneWorkerAtWork
<1>5. QueueInv
  BY <1>1 DEF MwInit, QueueInv, Queued, Handled, AskedLast, Delivered, NoneLeft, Separated
<1> QED BY <1>2, <1>3, <1>4, <1>5 DEF MwInv, TypeInv

-----------------------------------------------------------------------------
(* The queue when the requests of the manager are handled: after the result *)
(* that was submitted, and the next request being taken.                    *)

LEMMA Loop ==
    ASSUME MwInv, mwPc = "loop"
    PROVE  /\ Shown \subseteq 1..Len(mwBatch) /\ Taken \in 0..Len(mwBatch)
           /\ mwStatus = "tool" /\ mwCurrent = Manager
BY MwIndices DEF MwInv, TypeInv, DataInv, IndexInv, PcInv, Shown, Taken

LEMMA RegularLoop ==
    ASSUME MwInv, ~mwIrregular, mwPc = "loop",
           NEW n, n = IF Taken = mwCur THEN mwNext ELSE mwNext + 1
    PROVE  /\ n \in 1..(Len(mwBatch) + 1)
           /\ \A j \in 1..Len(mwBatch) : n <= j => j \notin Shown
           /\ \A j \in 1..Len(mwBatch) : j < n /\ j \notin Shown => j = Taken
           /\ Taken # 0 => Taken = n - 1
           /\ Taken # 0 /\ mwBatch[Taken].kind # "server" => Taken \notin Shown
           /\ ~mwPlain => \A j \in 1..Len(mwBatch) : j \in Shown
<1>1. /\ Len(mwBatch) \in Nat /\ mwCur \in 0..Len(mwBatch) /\ mwAsked \in 0..Len(mwBatch)
      /\ mwNext \in 1..(Len(mwBatch) + 1)
  BY MwIndices DEF MwInv
<1>2. mwCurrent = Manager
  BY Loop
<1>3. /\ mwAnswered \subseteq Shown
      /\ \A j \in 1..Len(mwBatch) : j \in Shown => j \in mwAnswered \/ j = mwAsked
      /\ mwAsked # 0 => mwAsked \in Shown
      /\ mwSubmitted => mwAsked # 0
  BY <1>1, <1>2, Regular DEF Shown, AskedLast, MwInv, TypeInv, PcInv
<1>4. ASSUME NEW j \in 1..Len(mwBatch), mwNext <= j PROVE j \notin Shown
  <2>1. j \notin mwAnswered
    BY <1>4, Regular DEF Queued
  <2>2. mwAsked # 0 => mwAsked = mwNext - 1
    BY Regular DEF AskedLast
  <2>3. j # mwAsked
    BY <1>1, <1>4, <2>2
  <2> QED BY <2>1, <2>3, <1>3
<1>5. ASSUME NEW j \in 1..Len(mwBatch), j < mwNext, j \notin Shown PROVE j = mwCur
  <2>1. j \notin mwAnswered /\ (j = mwCur \/ j = mwAsked)
    BY <1>2, <1>3, <1>5, Regular DEF NoneLeft
  <2> QED BY <2>1, <1>1, <1>3, <1>5
<1>6. ~mwPlain => \A j \in 1..Len(mwBatch) : j \in Shown
  BY <1>3, Regular DEF Separated
<1>7. mwCur # 0 => /\ mwCur = mwNext - 1
                   /\ mwBatch[mwCur].kind # "server" => mwCur \notin Shown
  <2>1. mwCur # 0 => /\ mwCur = mwNext - 1 /\ mwAsked = 0
                     /\ mwBatch[mwCur].kind # "server" => mwCur \notin mwAnswered
    BY Regular DEF Handled
  <2> QED BY <2>1, <1>1, <1>3
<1>8. CASE mwCur # 0
  <2>1. Taken = mwCur /\ n = mwNext
    BY <1>8 DEF Taken
  <2> QED BY <1>1, <1>4, <1>5, <1>6, <1>7, <1>8, <2>1
<1>9. CASE mwCur = 0 /\ mwNext <= Len(mwBatch)
  <2>1. Taken = mwNext /\ n = mwNext + 1
    BY <1>1, <1>9 DEF Taken
  <2>2. ASSUME NEW j \in 1..Len(mwBatch), j < n, j \notin Shown PROVE j = Taken
    <3>1. j < mwNext => j = 0
      BY <1>5, <1>9, <2>2
    <3> QED BY <1>1, <2>1, <2>2, <3>1
  <2>3. \A j \in 1..Len(mwBatch) : n <= j => j \notin Shown
    BY <1>1, <1>4, <2>1
  <2>4. Taken \notin Shown
    BY <1>1, <1>4, <1>9, <2>1
  <2> QED BY <1>1, <1>6, <1>9, <2>1, <2>2, <2>3, <2>4
<1>10. CASE mwCur = 0 /\ ~(mwNext <= Len(mwBatch))
  <2>1. Taken = 0 /\ n = mwNext
    BY <1>10 DEF Taken
  <2> QED BY <1>1, <1>4, <1>5, <1>6, <1>10, <2>1
<1> QED BY <1>1, <1>8, <1>9, <1>10

LEMMA MwStutterStep ==
    ASSUME MwInv, UNCHANGED mwVars
    PROVE  MwInv'
<1>1. DataInv'
  BY DEF MwInv, TypeInv, DataInv, mwVars, mwListVars, mwQueueVars, mwManagerVars,
     mwCallVars
<1>2. IndexInv'
  BY MwAssumption, MwIndices DEF MwInv, TypeInv, DataInv, IndexInv, PcInv, mwVars,
     mwListVars, mwQueueVars, mwManagerVars, mwCallVars
<1>3. PcInv'
  BY MwAssumption, MwIndices DEF MwInv, TypeInv, DataInv, PcInv, mwVars, mwListVars,
     mwQueueVars, mwManagerVars, mwCallVars
<1>4. OneWorkerAtWork'
  BY MwAssumption, MwIndices DEF MwInv, TypeInv, DataInv, PcInv, OneWorkerAtWork,
     MwOpen, IsOldest, mwVars, mwListVars, mwQueueVars, mwManagerVars, mwCallVars
<1>5. QueueInv'
  BY MwIndices, Regular DEF MwInv, TypeInv, DataInv, IndexInv, PcInv, QueueInv,
     Queued, Handled, AskedLast, Delivered, NoneLeft, Separated, MwOpen, mwVars,
     mwListVars, mwQueueVars, mwManagerVars, mwCallVars
<1> QED BY <1>1, <1>2, <1>3, <1>4, <1>5 DEF MwInv, TypeInv

LEMMA UserMessageStep ==
    ASSUME MwInv, MwUserMessage
    PROVE  MwInv'
<1>1. DataInv'
  BY DEF MwInv, TypeInv, DataInv, MwUserMessage, mwQueueVars
<1>2. IndexInv'
  BY MwAssumption, MwIndices DEF MwInv, TypeInv, DataInv, IndexInv, PcInv,
     MwUserMessage, mwVars, mwListVars, mwQueueVars, mwManagerVars, mwCallVars
<1>3. PcInv'
  BY MwAssumption, MwIndices DEF MwInv, TypeInv, DataInv, PcInv, MwUserMessage,
     mwVars, mwListVars, mwQueueVars, mwManagerVars, mwCallVars
<1>4. OneWorkerAtWork'
  BY MwAssumption, MwIndices DEF MwInv, TypeInv, DataInv, PcInv, OneWorkerAtWork,
     MwOpen, IsOldest, MwUserMessage, mwVars, mwListVars, mwQueueVars,
     mwManagerVars, mwCallVars
<1>5. QueueInv'
  BY MwIndices, Regular DEF MwInv, TypeInv, DataInv, IndexInv, PcInv, QueueInv,
     Queued, Handled, AskedLast, Delivered, NoneLeft, Separated, MwOpen,
     MwUserMessage, mwVars, mwListVars, mwQueueVars, mwManagerVars, mwCallVars
<1> QED BY <1>1, <1>2, <1>3, <1>4, <1>5 DEF MwInv, TypeInv

LEMMA MwSubmitStep ==
    ASSUME MwInv, MwSubmit
    PROVE  MwInv'
<1>1. DataInv'
  BY DEF MwInv, TypeInv, DataInv, MwSubmit, mwManagerVars, mwListVars
<1>2. IndexInv'
  BY MwAssumption, MwIndices DEF MwInv, TypeInv, DataInv, IndexInv, PcInv, MwSubmit,
     AsksForResult, mwVars, mwListVars, mwQueueVars, mwManagerVars, mwCallVars
<1>3. PcInv'
  BY MwAssumption, MwIndices DEF MwInv, TypeInv, DataInv, PcInv, MwSubmit,
     AsksForResult, mwVars, mwListVars, mwQueueVars, mwManagerVars, mwCallVars
<1>4. OneWorkerAtWork'
  BY MwAssumption, MwIndices DEF MwInv, TypeInv, DataInv, PcInv, OneWorkerAtWork,
     MwOpen, IsOldest, MwSubmit, AsksForResult, mwVars, mwListVars, mwQueueVars,
     mwManagerVars, mwCallVars
<1>5. QueueInv'
  BY MwIndices, Regular DEF MwInv, TypeInv, DataInv, IndexInv, PcInv, QueueInv,
     Queued, Handled, AskedLast, Delivered, NoneLeft, Separated, MwOpen, MwSubmit,
     AsksForResult, mwVars, mwListVars, mwQueueVars, mwManagerVars, mwCallVars
<1> QED BY <1>1, <1>2, <1>3, <1>4, <1>5 DEF MwInv, TypeInv

LEMMA ExecuteStep ==
    ASSUME MwInv, MwExecute
    PROVE  MwInv'
<1>1. DataInv'
  BY MwAssumption, MwIndices DEF MwInv, TypeInv, DataInv, PcInv, MwStatuses,
     MwErrors, MwExecute, AsksForResult, MwRaise, mwVars, mwListVars, mwQueueVars,
     mwManagerVars, mwCallVars
<1>2. IndexInv'
  BY MwAssumption, MwIndices DEF MwInv, TypeInv, DataInv, IndexInv, PcInv, MwExecute,
     AsksForResult, MwRaise, mwVars, mwListVars, mwQueueVars, mwManagerVars,
     mwCallVars
<1>3. PcInv'
  BY MwAssumption, MwIndices DEF MwInv, TypeInv, DataInv, PcInv, MwExecute,
     AsksForResult, MwRaise, mwVars, mwListVars, mwQueueVars, mwManagerVars,
     mwCallVars
<1>4. OneWorkerAtWork'
  BY MwAssumption, MwIndices DEF MwInv, TypeInv, DataInv, PcInv, OneWorkerAtWork,
     MwOpen, IsOldest, MwExecute, AsksForResult, MwRaise, mwVars, mwListVars,
     mwQueueVars, mwManagerVars, mwCallVars
<1>5. QueueInv'
  BY MwIndices, Regular DEF MwInv, TypeInv, DataInv, IndexInv, PcInv, QueueInv,
     Queued, Handled, AskedLast, Delivered, NoneLeft, Separated, MwOpen, MwExecute,
     AsksForResult, MwRaise, mwVars, mwListVars, mwQueueVars, mwManagerVars,
     mwCallVars
<1> QED BY <1>1, <1>2, <1>3, <1>4, <1>5 DEF MwInv, TypeInv

LEMMA ResumeManagerStep ==
    ASSUME MwInv, MwResumeManager
    PROVE  MwInv'
<1>1. DataInv'
  BY MwAssumption, MwIndices DEF MwInv, TypeInv, DataInv, PcInv, MwStatuses,
     MwErrors, MwResumeManager, Shown, Taken, Handles, Settle, TakeNext, MwOldest,
     MwRaise, MwReturn, mwVars, mwListVars, mwQueueVars, mwManagerVars, mwCallVars
<1>2. IndexInv'
  BY MwAssumption, MwIndices DEF MwInv, TypeInv, DataInv, IndexInv, PcInv,
     MwResumeManager, Shown, Taken, Handles, Settle, TakeNext, MwOldest, MwRaise,
     MwReturn, mwVars, mwListVars, mwQueueVars, mwManagerVars, mwCallVars
<1>3. PcInv'
  BY MwAssumption, MwIndices DEF MwInv, TypeInv, DataInv, PcInv, MwResumeManager,
     Shown, Taken, Handles, Settle, TakeNext, MwOldest, MwRaise, MwReturn, mwVars,
     mwListVars, mwQueueVars, mwManagerVars, mwCallVars
<1>4. OneWorkerAtWork'
  BY MwAssumption, MwIndices DEF MwInv, TypeInv, DataInv, PcInv, OneWorkerAtWork,
     MwOpen, IsOldest, MwResumeManager, Shown, Taken, Handles, Settle, TakeNext,
     MwOldest, MwRaise, MwReturn, mwVars, mwListVars, mwQueueVars, mwManagerVars,
     mwCallVars
<1>5. QueueInv'
  <2> SUFFICES ASSUME ~mwIrregular' PROVE QueueInv'
    BY DEF QueueInv
  <2>1. /\ mwPc = "loop" /\ UNCHANGED <<mwBatch, mwPlain, mwCurrent, mwError>>
        /\ mwAnswered' = Shown /\ mwCur' = Taken /\ mwAsked' = 0
        /\ mwNext' = IF Taken = mwCur THEN mwNext ELSE mwNext + 1
        /\ Taken # 0 => mwBatch[Taken].kind \in {"server", "boxed"}
    BY DEF MwResumeManager, Handles, Settle, TakeNext, MwOldest, MwRaise, MwReturn,
       mwVars, mwListVars, mwQueueVars, mwManagerVars, mwCallVars
  <2>11. ~mwIrregular
    BY DEF MwResumeManager, Handles, Settle, TakeNext, MwOldest, MwRaise, MwReturn,
       mwVars, mwListVars, mwQueueVars, mwManagerVars, mwCallVars
  <2>12. /\ Queued /\ Handled /\ Delivered /\ NoneLeft
         /\ mwAsked # 0 => mwAsked = mwNext - 1 /\ mwAsked \notin mwAnswered
    BY <2>11, Regular DEF AskedLast
  <2>13. ~mwPlain => \A j \in 1..Len(mwBatch) : j \in mwAnswered
    BY <2>11, Regular DEF Separated
  <2>2. /\ Len(mwBatch) \in Nat /\ mwCur \in 0..Len(mwBatch)
        /\ mwAsked \in 0..Len(mwBatch) /\ mwNext \in 1..(Len(mwBatch) + 1)
    BY MwIndices DEF MwInv
  <2> DEFINE n == IF Taken = mwCur THEN mwNext ELSE mwNext + 1
  <2>3. /\ n \in 1..(Len(mwBatch) + 1)
        /\ \A j \in 1..Len(mwBatch) : n <= j => j \notin Shown
        /\ \A j \in 1..Len(mwBatch) : j < n /\ j \notin Shown => j = Taken
        /\ Taken # 0 => Taken = n - 1
        /\ Taken # 0 /\ mwBatch[Taken].kind # "server" => Taken \notin Shown
        /\ ~mwPlain => \A j \in 1..Len(mwBatch) : j \in Shown
        /\ Taken \in 0..Len(mwBatch) /\ mwCurrent = Manager
    BY <2>1, <2>11, RegularLoop, Loop
  <2>14. mwNext' = n /\ mwNext' \in 1..(Len(mwBatch) + 1)
    BY <2>1, <2>3
  <2> HIDE DEF n
  <2>4. Queued'
    BY <2>1, <2>2, <2>3, <2>14, <2>12 DEF Queued, Handled
  <2>5. Handled'
    BY <2>1, <2>2, <2>3, <2>14, <2>12 DEF Handled, Queued
  <2>6. AskedLast'
    BY <2>1, <2>2, <2>3, <2>14, <2>12 DEF AskedLast
  <2>7. Delivered'
    BY <2>1, <2>2, <2>3, <2>14, <2>12 DEF Delivered
  <2>8. NoneLeft'
    BY <2>1, <2>2, <2>3, <2>14, <2>12 DEF NoneLeft, Handled, AskedLast
  <2>9. Separated'
    BY <2>1, <2>3, <2>13 DEF Separated
  <2>10. mwError' \notin {"list", "none open"}
    BY <2>1, <2>11, Regular
  <2> QED BY <2>4, <2>5, <2>6, <2>7, <2>8, <2>9, <2>10 DEF QueueInv
<1> QED BY <1>1, <1>2, <1>3, <1>4, <1>5 DEF MwInv, TypeInv

LEMMA AskCallerStep ==
    ASSUME MwInv, MwAskCaller
    PROVE  MwInv'
<1>1. DataInv'
  BY MwAssumption, MwIndices DEF MwInv, TypeInv, DataInv, PcInv, MwStatuses,
     MwErrors, MwAskCaller, Shown, Taken, Handles, Settle, TakeNext, MwOldest,
     MwRaise, MwReturn, mwVars, mwListVars, mwQueueVars, mwManagerVars, mwCallVars
<1>2. IndexInv'
  BY MwAssumption, MwIndices DEF MwInv, TypeInv, DataInv, IndexInv, PcInv,
     MwAskCaller, Shown, Taken, Handles, Settle, TakeNext, MwOldest, MwRaise,
     MwReturn, mwVars, mwListVars, mwQueueVars, mwManagerVars, mwCallVars
<1>3. PcInv'
  BY MwAssumption, MwIndices DEF MwInv, TypeInv, DataInv, PcInv, MwAskCaller, Shown,
     Taken, Handles, Settle, TakeNext, MwOldest, MwRaise, MwReturn, mwVars,
     mwListVars, mwQueueVars, mwManagerVars, mwCallVars
<1>4. OneWorkerAtWork'
  BY MwAssumption, MwIndices DEF MwInv, TypeInv, DataInv, PcInv, OneWorkerAtWork,
     MwOpen, IsOldest, MwAskCaller, Shown, Taken, Handles, Settle, TakeNext,
     MwOldest, MwRaise, MwReturn, mwVars, mwListVars, mwQueueVars, mwManagerVars,
     mwCallVars
<1>5. QueueInv'
  <2> SUFFICES ASSUME ~mwIrregular' PROVE QueueInv'
    BY DEF QueueInv
  <2>1. /\ mwPc = "loop" /\ UNCHANGED <<mwBatch, mwPlain, mwCurrent>>
        /\ mwAnswered' = Shown /\ mwCur' = 0 /\ mwAsked' = Taken
        /\ mwNext' = IF Taken = mwCur THEN mwNext ELSE mwNext + 1
        /\ Taken # 0 /\ mwBatch[Taken].kind = "client"
        /\ mwPc' = "idle" /\ mwError' = "none"
    BY DEF MwAskCaller, Handles, Settle, TakeNext, MwOldest, MwRaise, MwReturn,
       mwVars, mwListVars, mwQueueVars, mwManagerVars, mwCallVars
  <2>11. ~mwIrregular
    BY DEF MwAskCaller, Handles, Settle, TakeNext, MwOldest, MwRaise, MwReturn,
       mwVars, mwListVars, mwQueueVars, mwManagerVars, mwCallVars
  <2>12. /\ Queued /\ Handled /\ Delivered /\ NoneLeft
         /\ mwAsked # 0 => mwAsked = mwNext - 1 /\ mwAsked \notin mwAnswered
    BY <2>11, Regular DEF AskedLast
  <2>13. ~mwPlain => \A j \in 1..Len(mwBatch) : j \in mwAnswered
    BY <2>11, Regular DEF Separated
  <2>2. /\ Len(mwBatch) \in Nat /\ mwCur \in 0..Len(mwBatch)
        /\ mwAsked \in 0..Len(mwBatch) /\ mwNext \in 1..(Len(mwBatch) + 1)
    BY MwIndices DEF MwInv
  <2> DEFINE n == IF Taken = mwCur THEN mwNext ELSE mwNext + 1
  <2>3. /\ n \in 1..(Len(mwBatch) + 1)
        /\ \A j \in 1..Len(mwBatch) : n <= j => j \notin Shown
        /\ \A j \in 1..Len(mwBatch) : j < n /\ j \notin Shown => j = Taken
        /\ Taken # 0 => Taken = n - 1
        /\ Taken # 0 /\ mwBatch[Taken].kind # "server" => Taken \notin Shown
        /\ ~mwPlain => \A j \in 1..Len(mwBatch) : j \in Shown
        /\ Taken \in 0..Len(mwBatch) /\ mwCurrent = Manager
    BY <2>1, <2>11, RegularLoop, Loop
  <2>14. mwNext' = n /\ mwNext' \in 1..(Len(mwBatch) + 1)
    BY <2>1, <2>3
  <2> HIDE DEF n
  <2>4. Queued'
    BY <2>1, <2>2, <2>3, <2>14, <2>12 DEF Queued, Handled
  <2>5. Handled'
    BY <2>1, <2>2, <2>3, <2>14, <2>12 DEF Handled, Queued
  <2>6. AskedLast'
    BY <2>1, <2>2, <2>3, <2>14, <2>12 DEF AskedLast
  <2>7. Delivered'
    BY <2>1, <2>2, <2>3, <2>14, <2>12 DEF Delivered
  <2>8. NoneLeft'
    BY <2>1, <2>2, <2>3, <2>14, <2>12 DEF NoneLeft, Handled, AskedLast
  <2>9. Separated'
    BY <2>1, <2>3, <2>13 DEF Separated
  <2>10. mwError' \notin {"list", "none open"}
    BY <2>1, <2>11, Regular
  <2> QED BY <2>4, <2>5, <2>6, <2>7, <2>8, <2>9, <2>10 DEF QueueInv
<1> QED BY <1>1, <1>2, <1>3, <1>4, <1>5 DEF MwInv, TypeInv

LEMMA LookupFailsStep ==
    ASSUME MwInv, MwLookupFails
    PROVE  MwInv'
<1>1. DataInv'
  BY MwAssumption, MwIndices DEF MwInv, TypeInv, DataInv, PcInv, MwStatuses,
     MwErrors, MwLookupFails, Shown, Taken, Handles, Settle, TakeNext, MwOldest,
     MwRaise, MwReturn, mwVars, mwListVars, mwQueueVars, mwManagerVars, mwCallVars
<1>2. IndexInv'
  <2>1. Shown \subseteq 1..Len(mwBatch) /\ Taken \in 0..Len(mwBatch)
    BY Loop DEF MwLookupFails, Handles
  <2>2. UNCHANGED mwBatch /\ mwAnswered' = Shown /\ mwCur' = Taken /\ mwAsked' = 0
        /\ mwNext' = IF Taken = mwCur THEN mwNext ELSE mwNext + 1
    BY DEF MwLookupFails, Handles, Settle, TakeNext, MwOldest, MwRaise, MwReturn,
       mwVars, mwListVars, mwQueueVars, mwManagerVars, mwCallVars
  <2>3. Len(mwBatch) \in Nat /\ mwNext \in 1..(Len(mwBatch) + 1)
        /\ DOMAIN mwBatch = 1..Len(mwBatch)
    BY MwIndices DEF MwInv
  <2>4. mwNext' \in 1..(Len(mwBatch) + 1)
    BY <2>2, <2>3 DEF Taken
  <2> QED BY <2>1, <2>2, <2>3, <2>4 DEF IndexInv
<1>3. PcInv'
  BY MwAssumption, MwIndices DEF MwInv, TypeInv, DataInv, PcInv, MwLookupFails,
     Shown, Taken, Handles, Settle, TakeNext, MwOldest, MwRaise, MwReturn, mwVars,
     mwListVars, mwQueueVars, mwManagerVars, mwCallVars
<1>4. OneWorkerAtWork'
  BY MwAssumption, MwIndices DEF MwInv, TypeInv, DataInv, PcInv, OneWorkerAtWork,
     MwOpen, IsOldest, MwLookupFails, Shown, Taken, Handles, Settle, TakeNext,
     MwOldest, MwRaise, MwReturn, mwVars, mwListVars, mwQueueVars, mwManagerVars,
     mwCallVars
<1>5. QueueInv'
  <2>1. /\ mwPc = "loop" /\ Taken # 0 /\ mwBatch[Taken].kind = "send"
        /\ ~mwPlain \/ DOMAIN mwBatch \subseteq Shown
        /\ mwIrregular' = mwIrregular
    BY DEF MwLookupFails, Unfound, Handles
  <2>2. ASSUME ~mwIrregular PROVE FALSE
    <3> DEFINE n == IF Taken = mwCur THEN mwNext ELSE mwNext + 1
    <3>1. /\ Taken # 0 /\ mwBatch[Taken].kind # "server" => Taken \notin Shown
          /\ ~mwPlain => \A j \in 1..Len(mwBatch) : j \in Shown
          /\ Taken \in 0..Len(mwBatch)
      BY <2>1, <2>2, RegularLoop, Loop
    <3>2. Taken \notin Shown
      BY <2>1, <3>1
    <3>3. Taken \in 1..Len(mwBatch) /\ DOMAIN mwBatch = 1..Len(mwBatch)
      BY <2>1, <3>1, MwIndices DEF MwInv
    <3> QED BY <2>1, <3>1, <3>2, <3>3
  <2> QED BY <2>1, <2>2 DEF QueueInv
<1> QED BY <1>1, <1>2, <1>3, <1>4, <1>5 DEF MwInv, TypeInv

LEMMA RefuseStep ==
    ASSUME MwInv, NEW i \in DOMAIN mwBatch, MwRefuse(i)
    PROVE  MwInv'
<1>1. DataInv'
  BY MwAssumption, MwIndices DEF MwInv, TypeInv, DataInv, PcInv, MwStatuses,
     MwErrors, MwRefuse, Unfound, Shown, Taken, Handles, Settle, TakeNext,
     MwOldest, MwRaise, MwReturn, mwVars, mwListVars, mwQueueVars, mwManagerVars,
     mwCallVars
<1>2. IndexInv'
  BY MwAssumption, MwIndices DEF MwInv, TypeInv, DataInv, IndexInv, PcInv, MwRefuse,
     Unfound, Shown, Taken, Handles, Settle, TakeNext, MwOldest, MwRaise, MwReturn,
     mwVars, mwListVars, mwQueueVars, mwManagerVars, mwCallVars
<1>3. PcInv'
  BY MwAssumption, MwIndices DEF MwInv, TypeInv, DataInv, PcInv, MwRefuse, Unfound,
     Shown, Taken, Handles, Settle, TakeNext, MwOldest, MwRaise, MwReturn, mwVars,
     mwListVars, mwQueueVars, mwManagerVars, mwCallVars
<1>4. OneWorkerAtWork'
  BY MwAssumption, MwIndices DEF MwInv, TypeInv, DataInv, PcInv, OneWorkerAtWork,
     MwOpen, IsOldest, MwRefuse, Unfound, Shown, Taken, Handles, Settle, TakeNext,
     MwOldest, MwRaise, MwReturn, mwVars, mwListVars, mwQueueVars, mwManagerVars,
     mwCallVars
<1>5. QueueInv'
  <2> SUFFICES ASSUME ~mwIrregular' PROVE QueueInv'
    BY DEF QueueInv
  <2>1. /\ mwPc = "loop" /\ UNCHANGED <<mwBatch, mwPlain, mwCurrent, mwError>>
        /\ mwAnswered' = Shown \cup {i} /\ mwCur' = 0 /\ mwAsked' = 0
        /\ mwNext' = IF Taken = mwCur THEN mwNext ELSE mwNext + 1
        /\ Taken # 0 /\ mwBatch[Taken].kind = "send"
        /\ i \in DOMAIN mwBatch \ Shown /\ \A j \in DOMAIN mwBatch \ Shown : i <= j
    BY DEF MwRefuse, IsOldest, Handles, Settle, TakeNext, MwOldest, MwRaise,
       MwReturn, mwVars, mwListVars, mwQueueVars, mwManagerVars, mwCallVars
  <2>11. ~mwIrregular
    BY DEF MwRefuse, IsOldest, Handles, Settle, TakeNext, MwOldest, MwRaise,
       MwReturn, mwVars, mwListVars, mwQueueVars, mwManagerVars, mwCallVars
  <2>12. /\ Queued /\ Handled /\ Delivered /\ NoneLeft
         /\ mwAsked # 0 => mwAsked = mwNext - 1 /\ mwAsked \notin mwAnswered
    BY <2>11, Regular DEF AskedLast
  <2>13. ~mwPlain => \A j \in 1..Len(mwBatch) : j \in mwAnswered
    BY <2>11, Regular DEF Separated
  <2>2. /\ Len(mwBatch) \in Nat /\ mwCur \in 0..Len(mwBatch)
        /\ mwAsked \in 0..Len(mwBatch) /\ mwNext \in 1..(Len(mwBatch) + 1)
    BY MwIndices DEF MwInv
  <2> DEFINE n == IF Taken = mwCur THEN mwNext ELSE mwNext + 1
  <2>3. /\ n \in 1..(Len(mwBatch) + 1)
        /\ \A j \in 1..Len(mwBatch) : n <= j => j \notin Shown
        /\ \A j \in 1..Len(mwBatch) : j < n /\ j \notin Shown => j = Taken
        /\ Taken # 0 => Taken = n - 1
        /\ Taken # 0 /\ mwBatch[Taken].kind # "server" => Taken \notin Shown
        /\ ~mwPlain => \A j \in 1..Len(mwBatch) : j \in Shown
        /\ Taken \in 0..Len(mwBatch) /\ mwCurrent = Manager
    BY <2>1, <2>11, RegularLoop, Loop
  <2>14. mwNext' = n /\ mwNext' \in 1..(Len(mwBatch) + 1)
    BY <2>1, <2>3
  <2> HIDE DEF n
  <2>15. i = Taken
    <3>1. DOMAIN mwBatch = 1..Len(mwBatch)
      BY MwIndices DEF MwInv
    <3>2. i \in 1..Len(mwBatch) /\ i \notin Shown /\ i <= Taken
      BY <2>1, <2>3, <3>1
    <3> QED BY <2>2, <2>3, <3>2
  <2>4. Queued'
    BY <2>1, <2>2, <2>3, <2>14, <2>12, <2>15 DEF Queued, Handled
  <2>5. Handled'
    BY <2>1, <2>2, <2>3, <2>14, <2>12, <2>15 DEF Handled, Queued
  <2>6. AskedLast'
    BY <2>1, <2>2, <2>3, <2>14, <2>12, <2>15 DEF AskedLast
  <2>7. Delivered'
    BY <2>1, <2>2, <2>3, <2>14, <2>12, <2>15 DEF Delivered
  <2>8. NoneLeft'
    BY <2>1, <2>2, <2>3, <2>14, <2>12, <2>15 DEF NoneLeft, Handled, AskedLast
  <2>9. Separated'
    BY <2>1, <2>3, <2>13 DEF Separated
  <2>10. mwError' \notin {"list", "none open"}
    BY <2>1, <2>11, Regular
  <2> QED BY <2>4, <2>5, <2>6, <2>7, <2>8, <2>9, <2>10 DEF QueueInv
<1> QED BY <1>1, <1>2, <1>3, <1>4, <1>5 DEF MwInv, TypeInv

LEMMA DeliverStep ==
    ASSUME MwInv, NEW i \in DOMAIN mwBatch, MwDeliver(i)
    PROVE  MwInv'
<1>1. DataInv'
  BY MwAssumption, MwIndices DEF MwInv, TypeInv, DataInv, PcInv, MwStatuses,
     MwErrors, MwDeliver, Unfound, Shown, Taken, Handles, Settle, TakeNext,
     MwOldest, MwRaise, MwReturn, mwVars, mwListVars, mwQueueVars, mwManagerVars,
     mwCallVars
<1>2. IndexInv'
  BY MwAssumption, MwIndices DEF MwInv, TypeInv, DataInv, IndexInv, PcInv, MwDeliver,
     Unfound, Shown, Taken, Handles, Settle, TakeNext, MwOldest, MwRaise, MwReturn,
     mwVars, mwListVars, mwQueueVars, mwManagerVars, mwCallVars
<1>3. PcInv'
  BY MwAssumption, MwIndices DEF MwInv, TypeInv, DataInv, PcInv, MwDeliver, Unfound,
     Shown, Taken, Handles, Settle, TakeNext, MwOldest, MwRaise, MwReturn, mwVars,
     mwListVars, mwQueueVars, mwManagerVars, mwCallVars
<1>4. OneWorkerAtWork'
  <2>1. Shown \subseteq 1..Len(mwBatch) /\ mwStatus = "tool" /\ mwCurrent = Manager
    BY Loop DEF MwDeliver, Handles
  <2>2. /\ mwAnswered' = Shown /\ mwPlain /\ mwCurrent' = mwBatch[i].to
        /\ mwBatch[i].kind = "send" /\ mwBatch[i].to \in Workers
        /\ UNCHANGED <<mwBatch, mwStatus, mwPlain, mwWorker>>
        /\ IsOldest(i, DOMAIN mwBatch \ Shown)
    BY DEF MwDeliver, Unfound, Handles, Settle, MwOldest
  <2>3. mwBatch[i] \in MwRequest
    BY MwIndices DEF MwInv
  <2>4. mwBatch[i] = [kind |-> "send", to |-> mwBatch[i].to]
    BY <2>2, <2>3 DEF MwRequest
  <2>5. MwOpen' = DOMAIN mwBatch \ Shown /\ i \in MwOpen'
    BY <2>2 DEF MwOpen, IsOldest
  <2>6. \A w \in Workers \ {mwCurrent'} : mwWorker'[w] \in {"none", "user"}
    BY <2>1, <2>2, MwAssumption DEF MwInv, OneWorkerAtWork
  <2> QED BY <2>1, <2>2, <2>4, <2>5, <2>6 DEF OneWorkerAtWork, IsOldest
<1>5. QueueInv'
  <2> SUFFICES ASSUME ~mwIrregular' PROVE QueueInv'
    BY DEF QueueInv
  <2>1. /\ mwPc = "loop" /\ mwPlain /\ UNCHANGED <<mwBatch, mwPlain, mwError>>
        /\ mwAnswered' = Shown /\ mwCur' = 0 /\ mwAsked' = 0
        /\ mwNext' = IF Taken = mwCur THEN mwNext ELSE mwNext + 1
        /\ Taken # 0 /\ mwBatch[Taken].kind = "send"
        /\ i \in DOMAIN mwBatch \ Shown /\ \A j \in DOMAIN mwBatch \ Shown : i <= j
        /\ mwCurrent' \in Workers
        /\ mwCurrent' # Manager
    BY MwAssumption DEF MwDeliver, Unfound, IsOldest, Handles, Settle, TakeNext,
       MwOldest, MwRaise, MwReturn, mwVars, mwListVars, mwQueueVars, mwManagerVars,
       mwCallVars
  <2>11. ~mwIrregular
    BY DEF MwDeliver, Unfound, IsOldest, Handles, Settle, TakeNext, MwOldest,
       MwRaise, MwReturn, mwVars, mwListVars, mwQueueVars, mwManagerVars,
       mwCallVars
  <2>12. /\ Queued /\ Handled /\ Delivered /\ NoneLeft
         /\ mwAsked # 0 => mwAsked = mwNext - 1 /\ mwAsked \notin mwAnswered
    BY <2>11, Regular DEF AskedLast
  <2>13. ~mwPlain => \A j \in 1..Len(mwBatch) : j \in mwAnswered
    BY <2>11, Regular DEF Separated
  <2>2. /\ Len(mwBatch) \in Nat /\ mwCur \in 0..Len(mwBatch)
        /\ mwAsked \in 0..Len(mwBatch) /\ mwNext \in 1..(Len(mwBatch) + 1)
    BY MwIndices DEF MwInv
  <2> DEFINE n == IF Taken = mwCur THEN mwNext ELSE mwNext + 1
  <2>3. /\ n \in 1..(Len(mwBatch) + 1)
        /\ \A j \in 1..Len(mwBatch) : n <= j => j \notin Shown
        /\ \A j \in 1..Len(mwBatch) : j < n /\ j \notin Shown => j = Taken
        /\ Taken # 0 => Taken = n - 1
        /\ Taken # 0 /\ mwBatch[Taken].kind # "server" => Taken \notin Shown
        /\ ~mwPlain => \A j \in 1..Len(mwBatch) : j \in Shown
        /\ Taken \in 0..Len(mwBatch) /\ mwCurrent = Manager
    BY <2>1, <2>11, RegularLoop, Loop
  <2>14. mwNext' = n /\ mwNext' \in 1..(Len(mwBatch) + 1)
    BY <2>1, <2>3
  <2> HIDE DEF n
  <2>15. i = Taken
    <3>1. DOMAIN mwBatch = 1..Len(mwBatch)
      BY MwIndices DEF MwInv
    <3>2. i \in 1..Len(mwBatch) /\ i \notin Shown /\ i <= Taken
      BY <2>1, <2>3, <3>1
    <3> QED BY <2>2, <2>3, <3>2
  <2>4. Queued'
    BY <2>1, <2>2, <2>3, <2>14, <2>12, <2>15 DEF Queued, Handled
  <2>5. Handled'
    BY <2>1, <2>2, <2>3, <2>14, <2>12, <2>15 DEF Handled, Queued
  <2>6. AskedLast'
    BY <2>1, <2>2, <2>3, <2>14, <2>12, <2>15 DEF AskedLast
  <2>7. Delivered'
    BY <2>1, <2>2, <2>3, <2>14, <2>12, <2>15 DEF Delivered
  <2>8. NoneLeft'
    BY <2>1, <2>2, <2>3, <2>14, <2>12, <2>15 DEF NoneLeft, Handled, AskedLast
  <2>9. Separated'
    BY <2>1, <2>3, <2>13 DEF Separated
  <2>10. mwError' \notin {"list", "none open"}
    BY <2>1, <2>11, Regular
  <2> QED BY <2>4, <2>5, <2>6, <2>7, <2>8, <2>9, <2>10 DEF QueueInv
<1> QED BY <1>1, <1>2, <1>3, <1>4, <1>5 DEF MwInv, TypeInv

LEMMA TakeRequestStep ==
    ASSUME MwInv, MwTakeRequest
    PROVE  MwInv'
<1>1. DataInv'
  BY DEF MwInv, TypeInv, DataInv, MwTakeRequest, ManagerRuns, mwListVars, mwCallVars
<1>2. IndexInv'
  BY MwAssumption, MwIndices DEF MwInv, TypeInv, DataInv, IndexInv, PcInv,
     MwTakeRequest, ManagerRuns, Processes, Prompts, MwRaise, MwReturn, mwVars,
     mwListVars, mwQueueVars, mwManagerVars, mwCallVars
<1>3. PcInv'
  BY MwAssumption, MwIndices DEF MwInv, TypeInv, DataInv, PcInv, MwTakeRequest,
     ManagerRuns, Processes, Prompts, MwRaise, MwReturn, mwVars, mwListVars,
     mwQueueVars, mwManagerVars, mwCallVars
<1>4. OneWorkerAtWork'
  BY MwAssumption, MwIndices DEF MwInv, TypeInv, DataInv, PcInv, OneWorkerAtWork,
     MwOpen, IsOldest, MwTakeRequest, ManagerRuns, Processes, Prompts, MwRaise,
     MwReturn, mwVars, mwListVars, mwQueueVars, mwManagerVars, mwCallVars
<1>5. QueueInv'
  <2> SUFFICES ASSUME ~mwIrregular' PROVE QueueInv'
    BY DEF QueueInv
  <2>1. /\ mwPc \in {"agent", "prompted"} /\ mwCur = 0 /\ mwNext <= Len(mwBatch)
        /\ mwCur' = mwNext /\ mwNext' = mwNext + 1
        /\ UNCHANGED <<mwPc, mwBatch, mwAnswered, mwPlain, mwAsked, mwCurrent, mwError>>
    BY DEF MwTakeRequest, ManagerRuns, Processes, Prompts, MwRaise, MwReturn,
       mwVars, mwListVars, mwQueueVars, mwManagerVars, mwCallVars
  <2>11. ~mwIrregular
    BY DEF MwTakeRequest, ManagerRuns, Processes, Prompts, MwRaise, MwReturn,
       mwVars, mwListVars, mwQueueVars, mwManagerVars, mwCallVars
  <2>12. /\ Queued /\ Handled /\ Delivered /\ NoneLeft
         /\ mwAsked # 0 => mwAsked = mwNext - 1 /\ mwAsked \notin mwAnswered
    BY <2>11, Regular DEF AskedLast
  <2>13. ~mwPlain => \A j \in 1..Len(mwBatch) : j \in mwAnswered
    BY <2>11, Regular DEF Separated
  <2>2. /\ Len(mwBatch) \in Nat /\ mwCur \in 0..Len(mwBatch)
        /\ mwAsked \in 0..Len(mwBatch) /\ mwNext \in 1..(Len(mwBatch) + 1)
    BY MwIndices DEF MwInv
  <2>3. mwAsked = 0 /\ mwCurrent = Manager
    BY <2>1 DEF MwInv, TypeInv, PcInv
  <2>4. Queued'
    BY <2>1, <2>2, <2>3, <2>12 DEF Queued, Handled
  <2>5. Handled'
    BY <2>1, <2>2, <2>3, <2>12 DEF Handled, Queued
  <2>6. AskedLast'
    BY <2>1, <2>2, <2>3, <2>12 DEF AskedLast
  <2>7. Delivered'
    BY <2>1, <2>2, <2>3, <2>12 DEF Delivered
  <2>8. NoneLeft'
    BY <2>1, <2>2, <2>3, <2>12 DEF NoneLeft, Handled, AskedLast
  <2>9. Separated'
    BY <2>1, <2>3, <2>13 DEF Separated
  <2>10. mwError' \notin {"list", "none open"}
    BY <2>1, <2>11, Regular
  <2> QED BY <2>4, <2>5, <2>6, <2>7, <2>8, <2>9, <2>10 DEF QueueInv
<1> QED BY <1>1, <1>2, <1>3, <1>4, <1>5 DEF MwInv, TypeInv

LEMMA RunServerToolStep ==
    ASSUME MwInv, MwRunServerTool
    PROVE  MwInv'
<1>1. DataInv'
  BY MwAssumption, MwIndices DEF MwInv, TypeInv, DataInv, PcInv, MwStatuses,
     MwErrors, MwRunServerTool, ManagerRuns, Processes, Prompts, MwRaise, MwReturn,
     mwVars, mwListVars, mwQueueVars, mwManagerVars, mwCallVars
<1>2. IndexInv'
  BY MwAssumption, MwIndices DEF MwInv, TypeInv, DataInv, IndexInv, PcInv,
     MwRunServerTool, ManagerRuns, Processes, Prompts, MwRaise, MwReturn, mwVars,
     mwListVars, mwQueueVars, mwManagerVars, mwCallVars
<1>3. PcInv'
  BY MwAssumption, MwIndices DEF MwInv, TypeInv, DataInv, PcInv, MwRunServerTool,
     ManagerRuns, Processes, Prompts, MwRaise, MwReturn, mwVars, mwListVars,
     mwQueueVars, mwManagerVars, mwCallVars
<1>4. OneWorkerAtWork'
  BY MwAssumption, MwIndices DEF MwInv, TypeInv, DataInv, PcInv, OneWorkerAtWork,
     MwOpen, IsOldest, MwRunServerTool, ManagerRuns, Processes, Prompts, MwRaise,
     MwReturn, mwVars, mwListVars, mwQueueVars, mwManagerVars, mwCallVars
<1>5. QueueInv'
  <2> SUFFICES ASSUME ~mwIrregular' PROVE QueueInv'
    BY DEF QueueInv
  <2>1. /\ mwPc \in {"agent", "prompted"} /\ mwCur # 0
        /\ mwAnswered' = mwAnswered \cup {mwCur} /\ mwCur' = 0
        /\ UNCHANGED <<mwPc, mwBatch, mwNext, mwPlain, mwAsked, mwCurrent, mwError>>
    BY DEF MwRunServerTool, ManagerRuns, Processes, Prompts, MwRaise, MwReturn,
       mwVars, mwListVars, mwQueueVars, mwManagerVars, mwCallVars
  <2>11. ~mwIrregular
    BY DEF MwRunServerTool, ManagerRuns, Processes, Prompts, MwRaise, MwReturn,
       mwVars, mwListVars, mwQueueVars, mwManagerVars, mwCallVars
  <2>12. /\ Queued /\ Handled /\ Delivered /\ NoneLeft
         /\ mwAsked # 0 => mwAsked = mwNext - 1 /\ mwAsked \notin mwAnswered
    BY <2>11, Regular DEF AskedLast
  <2>13. ~mwPlain => \A j \in 1..Len(mwBatch) : j \in mwAnswered
    BY <2>11, Regular DEF Separated
  <2>2. /\ Len(mwBatch) \in Nat /\ mwCur \in 0..Len(mwBatch)
        /\ mwAsked \in 0..Len(mwBatch) /\ mwNext \in 1..(Len(mwBatch) + 1)
    BY MwIndices DEF MwInv
  <2>3. mwAsked = 0 /\ mwCurrent = Manager
    BY <2>1 DEF MwInv, TypeInv, PcInv
  <2>4. Queued'
    BY <2>1, <2>2, <2>3, <2>12 DEF Queued, Handled
  <2>5. Handled'
    BY <2>1, <2>2, <2>3, <2>12 DEF Handled, Queued
  <2>6. AskedLast'
    BY <2>1, <2>2, <2>3, <2>12 DEF AskedLast
  <2>7. Delivered'
    BY <2>1, <2>2, <2>3, <2>12 DEF Delivered
  <2>8. NoneLeft'
    BY <2>1, <2>2, <2>3, <2>12 DEF NoneLeft, Handled, AskedLast
  <2>9. Separated'
    BY <2>1, <2>3, <2>13 DEF Separated
  <2>10. mwError' \notin {"list", "none open"}
    BY <2>1, <2>11, Regular
  <2> QED BY <2>4, <2>5, <2>6, <2>7, <2>8, <2>9, <2>10 DEF QueueInv
<1> QED BY <1>1, <1>2, <1>3, <1>4, <1>5 DEF MwInv, TypeInv

LEMMA ServerToolRaisesStep ==
    ASSUME MwInv, MwServerToolRaises
    PROVE  MwInv'
<1>1. DataInv'
  BY MwAssumption, MwIndices DEF MwInv, TypeInv, DataInv, PcInv, MwStatuses,
     MwErrors, MwServerToolRaises, ManagerRuns, Processes, Prompts, MwRaise,
     MwReturn, mwVars, mwListVars, mwQueueVars, mwManagerVars, mwCallVars
<1>2. IndexInv'
  BY MwAssumption, MwIndices DEF MwInv, TypeInv, DataInv, IndexInv, PcInv,
     MwServerToolRaises, ManagerRuns, Processes, Prompts, MwRaise, MwReturn,
     mwVars, mwListVars, mwQueueVars, mwManagerVars, mwCallVars
<1>3. PcInv'
  BY MwAssumption, MwIndices DEF MwInv, TypeInv, DataInv, PcInv, MwServerToolRaises,
     ManagerRuns, Processes, Prompts, MwRaise, MwReturn, mwVars, mwListVars,
     mwQueueVars, mwManagerVars, mwCallVars
<1>4. OneWorkerAtWork'
  BY MwAssumption, MwIndices DEF MwInv, TypeInv, DataInv, PcInv, OneWorkerAtWork,
     MwOpen, IsOldest, MwServerToolRaises, ManagerRuns, Processes, Prompts,
     MwRaise, MwReturn, mwVars, mwListVars, mwQueueVars, mwManagerVars, mwCallVars
<1>5. QueueInv'
  <2> SUFFICES ASSUME ~mwIrregular' PROVE QueueInv'
    BY DEF QueueInv
  <2>1. /\ mwPc \in {"agent", "prompted"} /\ mwCur # 0
        /\ mwAnswered' = mwAnswered \cup mwCur .. Len(mwBatch)
        /\ mwCur' = 0 /\ mwNext' = Len(mwBatch) + 1 /\ mwError' = "tool"
        /\ UNCHANGED <<mwBatch, mwPlain, mwAsked, mwCurrent>>
    BY DEF MwServerToolRaises, ManagerRuns, Processes, Prompts, MwRaise, MwReturn,
       mwVars, mwListVars, mwQueueVars, mwManagerVars, mwCallVars
  <2>11. ~mwIrregular
    BY DEF MwServerToolRaises, ManagerRuns, Processes, Prompts, MwRaise, MwReturn,
       mwVars, mwListVars, mwQueueVars, mwManagerVars, mwCallVars
  <2>12. /\ Queued /\ Handled /\ Delivered /\ NoneLeft
         /\ mwAsked # 0 => mwAsked = mwNext - 1 /\ mwAsked \notin mwAnswered
    BY <2>11, Regular DEF AskedLast
  <2>13. ~mwPlain => \A j \in 1..Len(mwBatch) : j \in mwAnswered
    BY <2>11, Regular DEF Separated
  <2>2. /\ Len(mwBatch) \in Nat /\ mwCur \in 0..Len(mwBatch)
        /\ mwAsked \in 0..Len(mwBatch) /\ mwNext \in 1..(Len(mwBatch) + 1)
    BY MwIndices DEF MwInv
  <2>3. mwAsked = 0 /\ mwCurrent = Manager
    BY <2>1 DEF MwInv, TypeInv, PcInv
  <2>4. Queued'
    BY <2>1, <2>2, <2>3, <2>12 DEF Queued, Handled
  <2>5. Handled'
    BY <2>1, <2>2, <2>3, <2>12 DEF Handled, Queued
  <2>6. AskedLast'
    BY <2>1, <2>2, <2>3, <2>12 DEF AskedLast
  <2>7. Delivered'
    BY <2>1, <2>2, <2>3, <2>12 DEF Delivered
  <2>8. NoneLeft'
    BY <2>1, <2>2, <2>3, <2>12 DEF NoneLeft, Handled, AskedLast
  <2>9. Separated'
    BY <2>1, <2>3, <2>13 DEF Separated
  <2>10. mwError' \notin {"list", "none open"}
    BY <2>1, <2>11, Regular
  <2> QED BY <2>4, <2>5, <2>6, <2>7, <2>8, <2>9, <2>10 DEF QueueInv
<1> QED BY <1>1, <1>2, <1>3, <1>4, <1>5 DEF MwInv, TypeInv

LEMMA ServerToolYieldsStep ==
    ASSUME MwInv, MwServerToolYields
    PROVE  MwInv'
<1>1. DataInv'
  BY MwAssumption, MwIndices DEF MwInv, TypeInv, DataInv, PcInv, MwStatuses,
     MwErrors, MwServerToolYields, ManagerRuns, Processes, Prompts, MwRaise,
     MwReturn, mwVars, mwListVars, mwQueueVars, mwManagerVars, mwCallVars
<1>2. IndexInv'
  BY MwAssumption, MwIndices DEF MwInv, TypeInv, DataInv, IndexInv, PcInv,
     MwServerToolYields, ManagerRuns, Processes, Prompts, MwRaise, MwReturn,
     mwVars, mwListVars, mwQueueVars, mwManagerVars, mwCallVars
<1>3. PcInv'
  BY MwAssumption, MwIndices DEF MwInv, TypeInv, DataInv, PcInv, MwServerToolYields,
     ManagerRuns, Processes, Prompts, MwRaise, MwReturn, mwVars, mwListVars,
     mwQueueVars, mwManagerVars, mwCallVars
<1>4. OneWorkerAtWork'
  BY MwAssumption, MwIndices DEF MwInv, TypeInv, DataInv, PcInv, OneWorkerAtWork,
     MwOpen, IsOldest, MwServerToolYields, ManagerRuns, Processes, Prompts,
     MwRaise, MwReturn, mwVars, mwListVars, mwQueueVars, mwManagerVars, mwCallVars
<1>5. QueueInv'
  BY MwIndices, Regular DEF MwInv, TypeInv, DataInv, IndexInv, PcInv, QueueInv,
     Queued, Handled, AskedLast, Delivered, NoneLeft, Separated, MwOpen,
     MwServerToolYields, ManagerRuns, Processes, Prompts, MwRaise, MwReturn,
     mwVars, mwListVars, mwQueueVars, mwManagerVars, mwCallVars
<1> QED BY <1>1, <1>2, <1>3, <1>4, <1>5 DEF MwInv, TypeInv

LEMMA FinishesStep ==
    ASSUME MwInv, MwFinishes
    PROVE  MwInv'
<1>1. DataInv'
  BY MwAssumption, MwIndices DEF MwInv, TypeInv, DataInv, PcInv, MwStatuses,
     MwErrors, MwFinishes, ManagerRuns, Processes, Prompts, MwRaise, MwReturn,
     mwVars, mwListVars, mwQueueVars, mwManagerVars, mwCallVars
<1>2. IndexInv'
  BY MwAssumption, MwIndices DEF MwInv, TypeInv, DataInv, IndexInv, PcInv,
     MwFinishes, ManagerRuns, Processes, Prompts, MwRaise, MwReturn, mwVars,
     mwListVars, mwQueueVars, mwManagerVars, mwCallVars
<1>3. PcInv'
  BY MwAssumption, MwIndices DEF MwInv, TypeInv, DataInv, PcInv, MwFinishes,
     ManagerRuns, Processes, Prompts, MwRaise, MwReturn, mwVars, mwListVars,
     mwQueueVars, mwManagerVars, mwCallVars
<1>4. OneWorkerAtWork'
  BY MwAssumption, MwIndices DEF MwInv, TypeInv, DataInv, PcInv, OneWorkerAtWork,
     MwOpen, IsOldest, MwFinishes, ManagerRuns, Processes, Prompts, MwRaise,
     MwReturn, mwVars, mwListVars, mwQueueVars, mwManagerVars, mwCallVars
<1>5. QueueInv'
  <2> SUFFICES ASSUME ~mwIrregular' PROVE QueueInv'
    BY DEF QueueInv
  <2>1. /\ mwPc \in {"agent", "prompted"} /\ mwCur # 0 /\ mwBatch[mwCur].kind = "server"
        /\ mwAnswered' = mwAnswered \cup {mwCur} /\ mwError' = "none"
        /\ UNCHANGED <<mwBatch, mwCur, mwNext, mwPlain, mwAsked, mwCurrent>>
    BY DEF MwFinishes, ManagerRuns, Processes, Prompts, MwRaise, MwReturn, mwVars,
       mwListVars, mwQueueVars, mwManagerVars, mwCallVars
  <2>11. ~mwIrregular
    BY DEF MwFinishes, ManagerRuns, Processes, Prompts, MwRaise, MwReturn, mwVars,
       mwListVars, mwQueueVars, mwManagerVars, mwCallVars
  <2>12. /\ Queued /\ Handled /\ Delivered /\ NoneLeft
         /\ mwAsked # 0 => mwAsked = mwNext - 1 /\ mwAsked \notin mwAnswered
    BY <2>11, Regular DEF AskedLast
  <2>13. ~mwPlain => \A j \in 1..Len(mwBatch) : j \in mwAnswered
    BY <2>11, Regular DEF Separated
  <2>2. /\ Len(mwBatch) \in Nat /\ mwCur \in 0..Len(mwBatch)
        /\ mwAsked \in 0..Len(mwBatch) /\ mwNext \in 1..(Len(mwBatch) + 1)
    BY MwIndices DEF MwInv
  <2>3. mwAsked = 0 /\ mwCurrent = Manager
    BY <2>1 DEF MwInv, TypeInv, PcInv
  <2>4. Queued'
    BY <2>1, <2>2, <2>3, <2>12 DEF Queued, Handled
  <2>5. Handled'
    BY <2>1, <2>2, <2>3, <2>12 DEF Handled, Queued
  <2>6. AskedLast'
    BY <2>1, <2>2, <2>3, <2>12 DEF AskedLast
  <2>7. Delivered'
    BY <2>1, <2>2, <2>3, <2>12 DEF Delivered
  <2>8. NoneLeft'
    BY <2>1, <2>2, <2>3, <2>12 DEF NoneLeft, Handled, AskedLast
  <2>9. Separated'
    BY <2>1, <2>3, <2>13 DEF Separated
  <2>10. mwError' \notin {"list", "none open"}
    BY <2>1, <2>11, Regular
  <2> QED BY <2>4, <2>5, <2>6, <2>7, <2>8, <2>9, <2>10 DEF QueueInv
<1> QED BY <1>1, <1>2, <1>3, <1>4, <1>5 DEF MwInv, TypeInv

LEMMA RequestToolsStep ==
    ASSUME MwInv, MwRequestTools
    PROVE  MwInv'
<1>1. DataInv'
  BY MwAssumption, MwIndices DEF MwInv, TypeInv, DataInv, PcInv, MwStatuses,
     MwErrors, MwRequestTools, ManagerRuns, Processes, Prompts, MwRaise, MwReturn,
     mwVars, mwListVars, mwQueueVars, mwManagerVars, mwCallVars
<1>2. IndexInv'
  BY MwAssumption, MwIndices DEF MwInv, TypeInv, DataInv, IndexInv, PcInv,
     MwRequestTools, ManagerRuns, Processes, Prompts, MwRaise, MwReturn, mwVars,
     mwListVars, mwQueueVars, mwManagerVars, mwCallVars
<1>3. PcInv'
  BY MwAssumption, MwIndices DEF MwInv, TypeInv, DataInv, PcInv, MwRequestTools,
     ManagerRuns, Processes, Prompts, MwRaise, MwReturn, mwVars, mwListVars,
     mwQueueVars, mwManagerVars, mwCallVars
<1>4. OneWorkerAtWork'
  BY MwAssumption, MwIndices DEF MwInv, TypeInv, DataInv, PcInv, OneWorkerAtWork,
     MwOpen, IsOldest, MwRequestTools, ManagerRuns, Processes, Prompts, MwRaise,
     MwReturn, mwVars, mwListVars, mwQueueVars, mwManagerVars, mwCallVars
<1>5. QueueInv'
  BY MwIndices, Regular DEF MwInv, TypeInv, DataInv, IndexInv, PcInv, QueueInv,
     Queued, Handled, AskedLast, Delivered, NoneLeft, Separated, MwOpen,
     MwRequestTools, ManagerRuns, Processes, Prompts, MwRaise, MwReturn, mwVars,
     mwListVars, mwQueueVars, mwManagerVars, mwCallVars
<1> QED BY <1>1, <1>2, <1>3, <1>4, <1>5 DEF MwInv, TypeInv

LEMMA GenerateRequestsStep ==
    ASSUME MwInv, MwGenerateRequests
    PROVE  MwInv'
<1>1. DataInv'
  <2>1. ASSUME NEW n \in 1..MwMaxBatch, mwBatch' \in [1..n -> MwRequest]
        PROVE  mwBatch' \in Seq(MwRequest) /\ Len(mwBatch') <= MwMaxBatch
    BY <2>1, MwAssumption
  <2>2. mwBatch' \in Seq(MwRequest) /\ Len(mwBatch') <= MwMaxBatch
    BY <2>1 DEF MwGenerateRequests
  <2> QED BY <2>2, MwAssumption DEF MwInv, TypeInv, DataInv, MwStatuses,
     MwGenerateRequests, ManagerRuns, Processes, Prompts, MwRaise, MwReturn,
     mwVars, mwListVars, mwQueueVars, mwManagerVars, mwCallVars
<1>2. IndexInv'
  BY MwAssumption, MwIndices DEF MwInv, TypeInv, DataInv, IndexInv, PcInv,
     MwGenerateRequests, ManagerRuns, Processes, Prompts, MwRaise, MwReturn,
     mwVars, mwListVars, mwQueueVars, mwManagerVars, mwCallVars
<1>3. PcInv'
  BY MwAssumption, MwIndices DEF MwInv, TypeInv, DataInv, PcInv, MwGenerateRequests,
     ManagerRuns, Processes, Prompts, MwRaise, MwReturn, mwVars, mwListVars,
     mwQueueVars, mwManagerVars, mwCallVars
<1>4. OneWorkerAtWork'
  BY MwAssumption, MwIndices DEF MwInv, TypeInv, DataInv, PcInv, OneWorkerAtWork,
     MwOpen, IsOldest, MwGenerateRequests, ManagerRuns, Processes, Prompts,
     MwRaise, MwReturn, mwVars, mwListVars, mwQueueVars, mwManagerVars, mwCallVars
<1>5. QueueInv'
  <2> SUFFICES ASSUME ~mwIrregular' PROVE QueueInv'
    BY DEF QueueInv
  <2>1. /\ mwPc \in {"agent", "prompted"} /\ mwCur = 0
        /\ mwAnswered' = {} /\ mwCur' = 0 /\ mwNext' = 1 /\ mwPlain' = TRUE
        /\ UNCHANGED <<mwAsked, mwCurrent, mwError>>
    BY DEF MwGenerateRequests, ManagerRuns, Processes, Prompts, MwRaise, MwReturn,
       mwVars, mwListVars, mwQueueVars, mwManagerVars, mwCallVars
  <2>11. ~mwIrregular
    BY DEF MwGenerateRequests, ManagerRuns, Processes, Prompts, MwRaise, MwReturn,
       mwVars, mwListVars, mwQueueVars, mwManagerVars, mwCallVars
  <2>12. /\ Queued /\ Handled /\ Delivered /\ NoneLeft
         /\ mwAsked # 0 => mwAsked = mwNext - 1 /\ mwAsked \notin mwAnswered
    BY <2>11, Regular DEF AskedLast
  <2>13. ~mwPlain => \A j \in 1..Len(mwBatch) : j \in mwAnswered
    BY <2>11, Regular DEF Separated
  <2>2. /\ Len(mwBatch) \in Nat /\ mwCur \in 0..Len(mwBatch)
        /\ mwAsked \in 0..Len(mwBatch) /\ mwNext \in 1..(Len(mwBatch) + 1)
    BY MwIndices DEF MwInv
  <2>3. mwAsked = 0 /\ mwCurrent = Manager
    BY <2>1 DEF MwInv, TypeInv, PcInv
  <2>4. Queued'
    BY <2>1, <2>2, <2>3, <2>12 DEF Queued, Handled
  <2>5. Handled'
    BY <2>1, <2>2, <2>3, <2>12 DEF Handled, Queued
  <2>6. AskedLast'
    BY <2>1, <2>2, <2>3, <2>12 DEF AskedLast
  <2>7. Delivered'
    BY <2>1, <2>2, <2>3, <2>12 DEF Delivered
  <2>8. NoneLeft'
    BY <2>1, <2>2, <2>3, <2>12 DEF NoneLeft, Handled, AskedLast
  <2>9. Separated'
    BY <2>1, <2>3, <2>13 DEF Separated
  <2>10. mwError' \notin {"list", "none open"}
    BY <2>1, <2>11, Regular
  <2> QED BY <2>4, <2>5, <2>6, <2>7, <2>8, <2>9, <2>10 DEF QueueInv
<1> QED BY <1>1, <1>2, <1>3, <1>4, <1>5 DEF MwInv, TypeInv

LEMMA AnswerUserStep ==
    ASSUME MwInv, MwAnswerUser
    PROVE  MwInv'
<1>1. DataInv'
  <2>1. mwBatch' = <<>>
    BY DEF MwAnswerUser
  <2>2. mwBatch' \in Seq(MwRequest) /\ Len(mwBatch') = 0
    <3>1. <<>> \in Seq(MwRequest) /\ Len(<<>>) = 0
      OBVIOUS
    <3>2. mwBatch' \in Seq(MwRequest)
      BY <2>1, <3>1, Zenon
    <3>3. Len(mwBatch') = 0
      BY <2>1, <3>1, Zenon
    <3> QED BY <3>2, <3>3
  <2>3. Len(mwBatch') <= MwMaxBatch
    BY <2>2, MwAssumption
  <2> QED BY <2>2, <2>3 DEF MwInv, TypeInv, DataInv, MwStatuses, MwErrors,
     MwAnswerUser, ManagerRuns, Processes, Prompts, MwRaise, MwReturn, mwVars,
     mwListVars, mwQueueVars, mwManagerVars, mwCallVars
<1>2. IndexInv'
  BY MwAssumption, MwIndices DEF MwInv, TypeInv, DataInv, IndexInv, PcInv,
     MwAnswerUser, ManagerRuns, Processes, Prompts, MwRaise, MwReturn, mwVars,
     mwListVars, mwQueueVars, mwManagerVars, mwCallVars
<1>3. PcInv'
  BY MwAssumption, MwIndices DEF MwInv, TypeInv, DataInv, PcInv, MwAnswerUser,
     ManagerRuns, Processes, Prompts, MwRaise, MwReturn, mwVars, mwListVars,
     mwQueueVars, mwManagerVars, mwCallVars
<1>4. OneWorkerAtWork'
  BY MwAssumption, MwIndices DEF MwInv, TypeInv, DataInv, PcInv, OneWorkerAtWork,
     MwOpen, IsOldest, MwAnswerUser, ManagerRuns, Processes, Prompts, MwRaise,
     MwReturn, mwVars, mwListVars, mwQueueVars, mwManagerVars, mwCallVars
<1>5. QueueInv'
  <2> SUFFICES ASSUME ~mwIrregular' PROVE QueueInv'
    BY DEF QueueInv
  <2>1. /\ mwPc \in {"agent", "prompted"} /\ mwCur = 0
        /\ mwBatch' = <<>> /\ Len(mwBatch') = 0 /\ mwAnswered' = {} /\ mwCur' = 0 /\ mwNext' = 1
        /\ UNCHANGED <<mwAsked, mwCurrent>> /\ mwError' = "none"
    BY DEF MwAnswerUser, ManagerRuns, Processes, Prompts, MwRaise, MwReturn,
       mwVars, mwListVars, mwQueueVars, mwManagerVars, mwCallVars
  <2>11. ~mwIrregular
    BY DEF MwAnswerUser, ManagerRuns, Processes, Prompts, MwRaise, MwReturn,
       mwVars, mwListVars, mwQueueVars, mwManagerVars, mwCallVars
  <2>12. /\ Queued /\ Handled /\ Delivered /\ NoneLeft
         /\ mwAsked # 0 => mwAsked = mwNext - 1 /\ mwAsked \notin mwAnswered
    BY <2>11, Regular DEF AskedLast
  <2>13. ~mwPlain => \A j \in 1..Len(mwBatch) : j \in mwAnswered
    BY <2>11, Regular DEF Separated
  <2>2. /\ Len(mwBatch) \in Nat /\ mwCur \in 0..Len(mwBatch)
        /\ mwAsked \in 0..Len(mwBatch) /\ mwNext \in 1..(Len(mwBatch) + 1)
    BY MwIndices DEF MwInv
  <2>3. mwAsked = 0 /\ mwCurrent = Manager
    BY <2>1 DEF MwInv, TypeInv, PcInv
  <2>4. Queued'
    BY <2>1, <2>2, <2>3, <2>12 DEF Queued, Handled
  <2>5. Handled'
    BY <2>1, <2>2, <2>3, <2>12 DEF Handled, Queued
  <2>6. AskedLast'
    BY <2>1, <2>2, <2>3, <2>12 DEF AskedLast
  <2>7. Delivered'
    BY <2>1, <2>2, <2>3, <2>12 DEF Delivered
  <2>8. NoneLeft'
    BY <2>1, <2>2, <2>3, <2>12 DEF NoneLeft, Handled, AskedLast
  <2>9. Separated'
    BY <2>1, <2>3, <2>13 DEF Separated
  <2>10. mwError' \notin {"list", "none open"}
    BY <2>1, <2>11, Regular
  <2> QED BY <2>4, <2>5, <2>6, <2>7, <2>8, <2>9, <2>10 DEF QueueInv
<1> QED BY <1>1, <1>2, <1>3, <1>4, <1>5 DEF MwInv, TypeInv

LEMMA EndsStep ==
    ASSUME MwInv, NEW s \in {"user", "finished"}, MwEnds(s)
    PROVE  MwInv'
<1>1. DataInv'
  BY MwAssumption, MwIndices DEF MwInv, TypeInv, DataInv, PcInv, MwStatuses,
     MwErrors, MwEnds, ManagerRuns, Processes, Prompts, MwRaise, MwReturn, mwVars,
     mwListVars, mwQueueVars, mwManagerVars, mwCallVars
<1>2. IndexInv'
  BY MwAssumption, MwIndices DEF MwInv, TypeInv, DataInv, IndexInv, PcInv, MwEnds,
     ManagerRuns, Processes, Prompts, MwRaise, MwReturn, mwVars, mwListVars,
     mwQueueVars, mwManagerVars, mwCallVars
<1>3. PcInv'
  BY MwAssumption, MwIndices DEF MwInv, TypeInv, DataInv, PcInv, MwEnds, ManagerRuns,
     Processes, Prompts, MwRaise, MwReturn, mwVars, mwListVars, mwQueueVars,
     mwManagerVars, mwCallVars
<1>4. OneWorkerAtWork'
  BY MwAssumption, MwIndices DEF MwInv, TypeInv, DataInv, PcInv, OneWorkerAtWork,
     MwOpen, IsOldest, MwEnds, ManagerRuns, Processes, Prompts, MwRaise, MwReturn,
     mwVars, mwListVars, mwQueueVars, mwManagerVars, mwCallVars
<1>5. QueueInv'
  BY MwIndices, Regular DEF MwInv, TypeInv, DataInv, IndexInv, PcInv, QueueInv,
     Queued, Handled, AskedLast, Delivered, NoneLeft, Separated, MwOpen, MwEnds,
     ManagerRuns, Processes, Prompts, MwRaise, MwReturn, mwVars, mwListVars,
     mwQueueVars, mwManagerVars, mwCallVars
<1> QED BY <1>1, <1>2, <1>3, <1>4, <1>5 DEF MwInv, TypeInv

LEMMA GenerationFailsStep ==
    ASSUME MwInv, MwGenerationFails
    PROVE  MwInv'
<1>1. DataInv'
  BY MwAssumption, MwIndices DEF MwInv, TypeInv, DataInv, PcInv, MwStatuses,
     MwErrors, MwGenerationFails, ManagerRuns, Processes, Prompts, MwRaise,
     MwReturn, mwVars, mwListVars, mwQueueVars, mwManagerVars, mwCallVars
<1>2. IndexInv'
  BY MwAssumption, MwIndices DEF MwInv, TypeInv, DataInv, IndexInv, PcInv,
     MwGenerationFails, ManagerRuns, Processes, Prompts, MwRaise, MwReturn, mwVars,
     mwListVars, mwQueueVars, mwManagerVars, mwCallVars
<1>3. PcInv'
  BY MwAssumption, MwIndices DEF MwInv, TypeInv, DataInv, PcInv, MwGenerationFails,
     ManagerRuns, Processes, Prompts, MwRaise, MwReturn, mwVars, mwListVars,
     mwQueueVars, mwManagerVars, mwCallVars
<1>4. OneWorkerAtWork'
  BY MwAssumption, MwIndices DEF MwInv, TypeInv, DataInv, PcInv, OneWorkerAtWork,
     MwOpen, IsOldest, MwGenerationFails, ManagerRuns, Processes, Prompts, MwRaise,
     MwReturn, mwVars, mwListVars, mwQueueVars, mwManagerVars, mwCallVars
<1>5. QueueInv'
  BY MwIndices, Regular DEF MwInv, TypeInv, DataInv, IndexInv, PcInv, QueueInv,
     Queued, Handled, AskedLast, Delivered, NoneLeft, Separated, MwOpen,
     MwGenerationFails, ManagerRuns, Processes, Prompts, MwRaise, MwReturn, mwVars,
     mwListVars, mwQueueVars, mwManagerVars, mwCallVars
<1> QED BY <1>1, <1>2, <1>3, <1>4, <1>5 DEF MwInv, TypeInv

LEMMA InterruptStep ==
    ASSUME MwInv, MwInterrupt
    PROVE  MwInv'
<1>1. DataInv'
  BY MwAssumption, MwIndices DEF MwInv, TypeInv, DataInv, PcInv, MwStatuses,
     MwErrors, MwInterrupt, ManagerRuns, Processes, Prompts, MwRaise, MwReturn,
     mwVars, mwListVars, mwQueueVars, mwManagerVars, mwCallVars
<1>2. IndexInv'
  BY MwAssumption, MwIndices DEF MwInv, TypeInv, DataInv, IndexInv, PcInv,
     MwInterrupt, ManagerRuns, Processes, Prompts, MwRaise, MwReturn, mwVars,
     mwListVars, mwQueueVars, mwManagerVars, mwCallVars
<1>3. PcInv'
  BY MwAssumption, MwIndices DEF MwInv, TypeInv, DataInv, PcInv, MwInterrupt,
     ManagerRuns, Processes, Prompts, MwRaise, MwReturn, mwVars, mwListVars,
     mwQueueVars, mwManagerVars, mwCallVars
<1>4. OneWorkerAtWork'
  BY MwAssumption, MwIndices DEF MwInv, TypeInv, DataInv, PcInv, OneWorkerAtWork,
     MwOpen, IsOldest, MwInterrupt, ManagerRuns, Processes, Prompts, MwRaise,
     MwReturn, mwVars, mwListVars, mwQueueVars, mwManagerVars, mwCallVars
<1>5. QueueInv'
  BY MwIndices, Regular DEF MwInv, TypeInv, DataInv, IndexInv, PcInv, QueueInv,
     Queued, Handled, AskedLast, Delivered, NoneLeft, Separated, MwOpen,
     MwInterrupt, ManagerRuns, Processes, Prompts, MwRaise, MwReturn, mwVars,
     mwListVars, mwQueueVars, mwManagerVars, mwCallVars
<1> QED BY <1>1, <1>2, <1>3, <1>4, <1>5 DEF MwInv, TypeInv

LEMMA WorkerAnswersStep ==
    ASSUME MwInv, NEW i \in DOMAIN mwBatch, MwWorkerAnswers(i)
    PROVE  MwInv'
<1>1. DataInv'
  BY MwAssumption, MwIndices DEF MwInv, TypeInv, DataInv, PcInv, MwStatuses,
     MwErrors, MwWorkerAnswers, WorkerRuns, ManagerWaits, MwRaise, MwReturn,
     mwVars, mwListVars, mwQueueVars, mwManagerVars, mwCallVars
<1>2. IndexInv'
  BY MwAssumption, MwIndices DEF MwInv, TypeInv, DataInv, IndexInv, PcInv,
     MwWorkerAnswers, WorkerRuns, ManagerWaits, MwRaise, MwReturn, mwVars,
     mwListVars, mwQueueVars, mwManagerVars, mwCallVars
<1>3. PcInv'
  BY MwAssumption, MwIndices DEF MwInv, TypeInv, DataInv, PcInv, MwWorkerAnswers,
     WorkerRuns, ManagerWaits, MwRaise, MwReturn, mwVars, mwListVars, mwQueueVars,
     mwManagerVars, mwCallVars
<1>4. OneWorkerAtWork'
  BY MwAssumption, MwIndices DEF MwInv, TypeInv, DataInv, PcInv, OneWorkerAtWork,
     MwOpen, IsOldest, MwWorkerAnswers, WorkerRuns, ManagerWaits, MwRaise,
     MwReturn, mwVars, mwListVars, mwQueueVars, mwManagerVars, mwCallVars
<1>5. QueueInv'
  <2> SUFFICES ASSUME ~mwIrregular' PROVE QueueInv'
    BY DEF QueueInv
  <2>1. /\ mwPc = "worker" /\ i \in MwOpen /\ \A j \in MwOpen : i <= j
        /\ mwAnswered' = mwAnswered \cup {i} /\ mwCurrent' = Manager
        /\ UNCHANGED <<mwBatch, mwCur, mwNext, mwAsked, mwPlain, mwError>>
    BY DEF MwWorkerAnswers, IsOldest, WorkerRuns, ManagerWaits, MwRaise, MwReturn,
       mwVars, mwListVars, mwQueueVars, mwManagerVars, mwCallVars
  <2>11. ~mwIrregular
    BY DEF MwWorkerAnswers, IsOldest, WorkerRuns, ManagerWaits, MwRaise, MwReturn,
       mwVars, mwListVars, mwQueueVars, mwManagerVars, mwCallVars
  <2>12. /\ Queued /\ Handled /\ Delivered /\ NoneLeft
         /\ mwAsked # 0 => mwAsked = mwNext - 1 /\ mwAsked \notin mwAnswered
    BY <2>11, Regular DEF AskedLast
  <2>13. ~mwPlain => \A j \in 1..Len(mwBatch) : j \in mwAnswered
    BY <2>11, Regular DEF Separated
  <2>2. /\ Len(mwBatch) \in Nat /\ mwCur \in 0..Len(mwBatch)
        /\ mwAsked \in 0..Len(mwBatch) /\ mwNext \in 1..(Len(mwBatch) + 1)
    BY MwIndices DEF MwInv
  <2>14. mwCurrent # Manager /\ mwAsked = 0
    BY <2>1 DEF MwInv, TypeInv, PcInv
  <2>15. /\ mwCur = 0 /\ mwNext > 1 /\ mwNext - 1 \notin mwAnswered
         /\ i \in 1..Len(mwBatch) \ mwAnswered /\ mwNext - 1 \in MwOpen
    BY <2>1, <2>2, <2>14, <2>12, MwIndices DEF Delivered, MwInv
  <2>3. /\ mwCur = 0 /\ mwAsked = 0 /\ i = mwNext - 1
    BY <2>1, <2>2, <2>14, <2>15, <2>12, MwIndices DEF NoneLeft, MwInv
  <2>4. Queued'
    BY <2>1, <2>2, <2>3, <2>12 DEF Queued, Handled
  <2>5. Handled'
    BY <2>1, <2>2, <2>3, <2>12 DEF Handled, Queued
  <2>6. AskedLast'
    BY <2>1, <2>2, <2>3, <2>12 DEF AskedLast
  <2>7. Delivered'
    BY <2>1, <2>2, <2>3, <2>12 DEF Delivered
  <2>8. NoneLeft'
    BY <2>1, <2>2, <2>3, <2>12 DEF NoneLeft, Handled, AskedLast
  <2>9. Separated'
    BY <2>1, <2>3, <2>13 DEF Separated
  <2>10. mwError' \notin {"list", "none open"}
    BY <2>1, <2>11, Regular
  <2> QED BY <2>4, <2>5, <2>6, <2>7, <2>8, <2>9, <2>10 DEF QueueInv
<1> QED BY <1>1, <1>2, <1>3, <1>4, <1>5 DEF MwInv, TypeInv

LEMMA WorkerKeepsStep ==
    ASSUME MwInv, MwWorkerExhausts \/ MwWorkerRaises
           \/ (\E s \in {"tool", "confirm", "finished", "interrupted"} : MwWorkerYields(s))
           \/ \E s \in {"finished", "interrupted"} : MwWorkerRefused(s)
    PROVE  MwInv'
<1>1. DataInv'
  <2>1. /\ UNCHANGED <<mwCurrent, mwBatch, mwPlain, mwLast, mwStatus, mwSubmitted,
                      mwIrregular, mwRounds>>
        /\ mwPc' = "idle" /\ mwError' \in MwErrors
    BY DEF MwWorkerExhausts, MwWorkerRaises, MwWorkerYields, MwWorkerRefused, WorkerRuns,
       ManagerWaits, MwRaise, MwReturn, MwErrors, mwCallVars
  <2>2. PICK s \in MwStatuses : mwWorker' = [mwWorker EXCEPT ![mwCurrent] = s]
    <3>1. mwPc = "worker" => mwWorker[mwCurrent] \in MwStatuses
      BY DEF MwInv, TypeInv, DataInv, PcInv
    <3> QED BY <3>1 DEF MwWorkerExhausts, MwWorkerRaises, MwWorkerYields,
            MwWorkerRefused, WorkerRuns, MwStatuses
  <2>3. mwWorker' \in [Workers -> MwStatuses]
    BY <2>2 DEF MwInv, TypeInv, DataInv
  <2> QED BY <2>1, <2>3 DEF MwInv, TypeInv, DataInv
<1>2. IndexInv'
  BY MwAssumption, MwIndices DEF MwInv, TypeInv, DataInv, IndexInv, PcInv,
     MwWorkerExhausts, MwWorkerRaises, MwWorkerYields, MwWorkerRefused, WorkerRuns,
     ManagerWaits, MwRaise, MwReturn, mwVars, mwListVars, mwQueueVars,
     mwManagerVars, mwCallVars
<1>3. PcInv'
  BY MwAssumption, MwIndices DEF MwInv, TypeInv, DataInv, PcInv, MwWorkerExhausts,
     MwWorkerRaises, MwWorkerYields, MwWorkerRefused, WorkerRuns, ManagerWaits,
     MwRaise, MwReturn, mwVars, mwListVars, mwQueueVars, mwManagerVars, mwCallVars
<1>4. OneWorkerAtWork'
  BY MwAssumption, MwIndices DEF MwInv, TypeInv, DataInv, PcInv, OneWorkerAtWork,
     MwOpen, IsOldest, MwWorkerExhausts, MwWorkerRaises, MwWorkerYields,
     MwWorkerRefused, WorkerRuns, ManagerWaits, MwRaise, MwReturn, mwVars,
     mwListVars, mwQueueVars, mwManagerVars, mwCallVars
<1>5. QueueInv'
  <2>1. /\ mwPc = "worker" /\ mwPc' = "idle"
        /\ UNCHANGED <<mwBatch, mwPlain, mwQueueVars, mwAsked, mwIrregular, mwCurrent, mwAnswered>>
        /\ mwError' \notin {"list", "none open"}
    BY DEF MwWorkerExhausts, MwWorkerRaises, MwWorkerYields, MwWorkerRefused,
       WorkerRuns, ManagerWaits, MwRaise, MwReturn, mwVars, mwListVars,
       mwQueueVars, mwManagerVars, mwCallVars
  <2> QED BY <2>1 DEF MwInv, QueueInv, Queued, Handled, AskedLast, Delivered,
                      NoneLeft, Separated, mwQueueVars
<1> QED BY <1>1, <1>2, <1>3, <1>4, <1>5 DEF MwInv, TypeInv

-----------------------------------------------------------------------------
LEMMA MwStep == MwInv /\ [MwNext]_mwVars => MwInv'
BY MwStutterStep, UserMessageStep, MwSubmitStep, ExecuteStep, ResumeManagerStep,
   AskCallerStep, LookupFailsStep, RefuseStep, DeliverStep, TakeRequestStep,
   RunServerToolStep, ServerToolRaisesStep, ServerToolYieldsStep, FinishesStep,
   RequestToolsStep, GenerateRequestsStep, AnswerUserStep, EndsStep,
   GenerationFailsStep, InterruptStep, WorkerAnswersStep, WorkerKeepsStep
   DEF MwNext, MwCaller, MwLoop, MwRound, MwWork

LEMMA MwInvariant == MwSpec => []MwInv
BY MwStart, MwStep, PTL DEF MwSpec

\* The manager's list, its queue and the status of each worker are always well
\* formed, for any number of workers and of requests in a message.
THEOREM MwTypeCorrect == MwSpec => []MwTypeOK
<1>1. MwInv => MwTypeOK
  BY DEF MwInv, TypeInv, DataInv, IndexInv, MwTypeOK
<1> QED BY <1>1, MwInvariant, PTL

\* The answer of a worker goes to the request it was asked with, whoever
\* interrupts it and however often the team is executed before it answers
\* (_send_message_to_worker, _send_message_to_manager).
THEOREM OneWorker == MwSpec => []OneWorkerAtWork
<1>1. MwInv => OneWorkerAtWork
  BY DEF MwInv
<1> QED BY <1>1, MwInvariant, PTL

\* A manager whose caller keeps to the protocol is prompted only with a result
\* for every request, and the runner finds every request it looks for.
THEOREM ManagerPrompted == MwSpec => []ManagerIsPrompted
<1>1. ASSUME MwInv PROVE ManagerIsPrompted
  <2> SUFFICES ASSUME ~mwIrregular
               PROVE  /\ mwPc \in {"agent", "prompted"} /\ mwCur = 0 /\ mwNext > Len(mwBatch)
                            => MwOpen = {}
                      /\ mwError \notin {"list", "none open"}
    BY DEF ManagerIsPrompted
  <2>1. mwError \notin {"list", "none open"} /\ NoneLeft
    BY <1>1, Regular
  <2>2. ASSUME mwPc \in {"agent", "prompted"}, mwCur = 0, mwNext > Len(mwBatch)
        PROVE  MwOpen = {}
    <3>1. mwAsked = 0 /\ mwCurrent = Manager
      BY <1>1, <2>2 DEF MwInv, TypeInv, PcInv
    <3>2. \A j \in 1..Len(mwBatch) : j < mwNext
      BY <1>1, <2>2, MwIndices DEF MwInv
    <3>3. ASSUME NEW j \in 1..Len(mwBatch), j \notin mwAnswered PROVE FALSE
      <4>1. j = 0
        BY <2>1, <2>2, <3>1, <3>2, <3>3 DEF NoneLeft
      <4> QED BY <1>1, <3>3, <4>1, MwIndices DEF MwInv
    <3> QED BY <1>1, <3>3, MwIndices DEF MwInv
  <2> QED BY <2>1, <2>2
<1> QED BY <1>1, MwInvariant, PTL

-----------------------------------------------------------------------------
(* The MCP runtime.                                                         *)

Holding == {"cancelling", "binding", "starting", "receiving"}

\* Who creates a session holds the lock.
LockInv == \A c \in Callers : mcpPc[c] \in Holding <=> mcpLock = c

\* Flows and handlers belong to the conversation they were created for; without
\* OAuth there are no handlers and no challenges.
FlowInv ==
    /\ \A f \in Flows : mcpRunner[f] = "new" <=> mcpOwner[f] = NoConv
    /\ \A v \in Convs : mcpHandler[v] # NoFlow =>
          mcpAuth /\ mcpHandler[v] \in Flows /\ mcpOwner[mcpHandler[v]] = v
    /\ \A f \in Flows : mcpRunner[f] \in {"challenging", "waiting", "exchanging"} => mcpAuth

Woken(f) == f \in mcpSubmitted /\ mcpResult[f] # "none"

CallerInv ==
    \A c \in Callers :
        /\ mcpPc[c] = "cancelling" =>
              /\ mcpFlow[c] = mcpHandler[ConvOf[c]] /\ mcpFlow[c] \in Flows
              /\ mcpResult[mcpFlow[c]] # "none"
        /\ mcpPc[c] = "binding" =>
              mcpHandler[ConvOf[c]] = NoFlow \/ Woken(mcpHandler[ConvOf[c]])
        /\ mcpPc[c] = "starting" => mcpRunner[mcpFlow[c]] = "bound"
        /\ mcpPc[c] \in {"starting", "receiving"} =>
              /\ mcpFlow[c] \in Flows /\ mcpOwner[mcpFlow[c]] = ConvOf[c]
              /\ mcpAuth => mcpHandler[ConvOf[c]] = mcpFlow[c]
        /\ mcpPc[c] = "challenged" => mcpHandler[ConvOf[c]] \in Flows
        /\ mcpPc[c] = "submitting" => mcpFlow[c] \in Flows

\* Of the flows that were not told to stop: one that has something to say, or
\* will have, is waited for; a session is in the table as long as threads can
\* find the portal; and there is none where one is being created.
SessionInv ==
    ~mcpAuth =>
        /\ \A f \in Flows : mcpRunner[f] = "bound" =>
              \E c \in Callers : mcpPc[c] = "starting" /\ mcpFlow[c] = f
        /\ \A f \in Flows \ mcpStopped :
              mcpRunner[f] \in {"connecting", "completed", "failing"} =>
                  \E c \in Callers : mcpPc[c] = "receiving" /\ mcpFlow[c] = f
        /\ PortalThere => \A f \in Flows \ mcpStopped :
              mcpRunner[f] \in {"completed", "serving"} => mcpTable[mcpOwner[f]] # NoFlow
        /\ mcpPhase = "down" => \A f \in Flows : mcpRunner[f] \in {"new", "bound", "dead"}
        /\ PortalThere => \A c \in Callers : mcpPc[c] = "binding" =>
              \A f \in Flows : Alive(f) => mcpOwner[f] # ConvOf[c]

McpInv ==
    /\ McpTypeOK /\ LockInv /\ FlowInv /\ CallerInv
    /\ SessionInv /\ OneSession /\ ReplacedFlowsAreWoken

-----------------------------------------------------------------------------
LEMMA Numbered == NoFlow \notin Flows /\ Flows \subseteq Nat
BY McpAssumption DEF NoFlow, Flows

LEMMA McpStart == McpInit => McpInv
<1> SUFFICES ASSUME McpInit PROVE McpInv
  OBVIOUS
<1>1. mcpLife \in 1..MaxLives
  BY McpAssumption DEF McpInit
<1>2. McpTypeOK
  BY <1>1 DEF McpInit, McpTypeOK, Runners, Results, Creating
<1>3. LockInv
  BY McpAssumption DEF McpInit, LockInv, Holding
<1>4. FlowInv /\ CallerInv
  BY DEF McpInit, FlowInv, CallerInv
<1>5. SessionInv /\ OneSession /\ ReplacedFlowsAreWoken
  BY McpAssumption DEF McpInit, SessionInv, OneSession, Alive, ReplacedFlowsAreWoken
<1> QED BY <1>2, <1>3, <1>4, <1>5 DEF McpInv

LEMMA McpStutterStep ==
    ASSUME McpInv, UNCHANGED mcpVars
    PROVE  McpInv'
<1>1. McpTypeOK'
  BY Numbered, McpAssumption DEF McpInv, McpTypeOK, FlowInv, CallerInv, Runners,
     Results, Creating, mcpVars, mcpRuntimeVars, mcpTableVars, mcpCallerVars,
     mcpEventVars
<1>2. LockInv'
  BY Numbered, McpAssumption DEF McpInv, McpTypeOK, LockInv, Holding, PortalThere,
     mcpVars, mcpRuntimeVars, mcpTableVars, mcpCallerVars, mcpEventVars
<1>3. FlowInv'
  BY Numbered, McpAssumption DEF McpInv, McpTypeOK, FlowInv, mcpVars,
     mcpRuntimeVars, mcpTableVars, mcpCallerVars, mcpEventVars
<1>4. CallerInv'
  BY Numbered, McpAssumption DEF McpInv, McpTypeOK, LockInv, Holding, FlowInv,
     CallerInv, Woken, mcpVars, mcpRuntimeVars, mcpTableVars, mcpCallerVars,
     mcpEventVars
<1>5. SessionInv'
  BY Numbered, McpAssumption DEF McpInv, McpTypeOK, LockInv, Holding, PortalThere,
     FlowInv, CallerInv, SessionInv, Alive, mcpVars, mcpRuntimeVars, mcpTableVars,
     mcpCallerVars, mcpEventVars
<1>6. OneSession'
  BY Numbered, McpAssumption DEF McpInv, McpTypeOK, LockInv, Holding, PortalThere,
     FlowInv, SessionInv, OneSession, Alive, mcpVars, mcpRuntimeVars, mcpTableVars,
     mcpCallerVars, mcpEventVars
<1>7. ReplacedFlowsAreWoken'
  BY Numbered, McpAssumption DEF McpInv, McpTypeOK, FlowInv, CallerInv, Woken,
     ReplacedFlowsAreWoken, mcpVars, mcpRuntimeVars, mcpTableVars, mcpCallerVars,
     mcpEventVars
<1> QED BY <1>1, <1>2, <1>3, <1>4, <1>5, <1>6, <1>7 DEF McpInv

LEMMA LookUpStep ==
    ASSUME McpInv, NEW c \in Callers, LookUp(c)
    PROVE  McpInv'
<1>1. McpTypeOK'
  BY Numbered, McpAssumption DEF McpInv, McpTypeOK, FlowInv, CallerInv, Runners,
     Results, Creating, LookUp, Return, mcpRuntimeVars, mcpTableVars,
     mcpCallerVars, mcpEventVars
<1>2. LockInv'
  BY Numbered, McpAssumption DEF McpInv, McpTypeOK, LockInv, Holding, PortalThere,
     LookUp, Return, mcpRuntimeVars, mcpTableVars, mcpCallerVars, mcpEventVars
<1>3. FlowInv'
  BY Numbered, McpAssumption DEF McpInv, McpTypeOK, FlowInv, LookUp, Return,
     mcpRuntimeVars, mcpTableVars, mcpCallerVars, mcpEventVars
<1>4. CallerInv'
  BY Numbered, McpAssumption DEF McpInv, McpTypeOK, LockInv, Holding, FlowInv,
     CallerInv, Woken, LookUp, Return, mcpRuntimeVars, mcpTableVars, mcpCallerVars,
     mcpEventVars
<1>5. SessionInv'
  BY Numbered, McpAssumption DEF McpInv, McpTypeOK, LockInv, Holding, PortalThere,
     FlowInv, CallerInv, SessionInv, Alive, LookUp, Return, mcpRuntimeVars,
     mcpTableVars, mcpCallerVars, mcpEventVars
<1>6. OneSession'
  BY Numbered, McpAssumption DEF McpInv, McpTypeOK, LockInv, Holding, PortalThere,
     FlowInv, SessionInv, OneSession, Alive, LookUp, Return, mcpRuntimeVars,
     mcpTableVars, mcpCallerVars, mcpEventVars
<1>7. ReplacedFlowsAreWoken'
  BY Numbered, McpAssumption DEF McpInv, McpTypeOK, FlowInv, CallerInv, Woken,
     ReplacedFlowsAreWoken, LookUp, Return, mcpRuntimeVars, mcpTableVars,
     mcpCallerVars, mcpEventVars
<1> QED BY <1>1, <1>2, <1>3, <1>4, <1>5, <1>6, <1>7 DEF McpInv

LEMMA FindLockedStep ==
    ASSUME McpInv, NEW c \in Callers, FindLocked(c)
    PROVE  McpInv'
<1>1. McpTypeOK'
  BY Numbered, McpAssumption DEF McpInv, McpTypeOK, FlowInv, CallerInv, Runners,
     Results, Creating, FindLocked, Return, mcpRuntimeVars, mcpTableVars,
     mcpCallerVars, mcpEventVars
<1>2. LockInv'
  BY Numbered, McpAssumption DEF McpInv, McpTypeOK, LockInv, Holding, PortalThere,
     FindLocked, Return, mcpRuntimeVars, mcpTableVars, mcpCallerVars, mcpEventVars
<1>3. FlowInv'
  BY Numbered, McpAssumption DEF McpInv, McpTypeOK, FlowInv, FindLocked, Return,
     mcpRuntimeVars, mcpTableVars, mcpCallerVars, mcpEventVars
<1>4. CallerInv'
  BY Numbered, McpAssumption DEF McpInv, McpTypeOK, LockInv, Holding, FlowInv,
     CallerInv, Woken, FindLocked, Return, mcpRuntimeVars, mcpTableVars,
     mcpCallerVars, mcpEventVars
<1>5. SessionInv'
  BY Numbered, McpAssumption DEF McpInv, McpTypeOK, LockInv, Holding, PortalThere,
     FlowInv, CallerInv, SessionInv, Alive, FindLocked, Return, mcpRuntimeVars,
     mcpTableVars, mcpCallerVars, mcpEventVars
<1>6. OneSession'
  BY Numbered, McpAssumption DEF McpInv, McpTypeOK, LockInv, Holding, PortalThere,
     FlowInv, SessionInv, OneSession, Alive, FindLocked, Return, mcpRuntimeVars,
     mcpTableVars, mcpCallerVars, mcpEventVars
<1>7. ReplacedFlowsAreWoken'
  BY Numbered, McpAssumption DEF McpInv, McpTypeOK, FlowInv, CallerInv, Woken,
     ReplacedFlowsAreWoken, FindLocked, Return, mcpRuntimeVars, mcpTableVars,
     mcpCallerVars, mcpEventVars
<1> QED BY <1>1, <1>2, <1>3, <1>4, <1>5, <1>6, <1>7 DEF McpInv

LEMMA LockToCreateStep ==
    ASSUME McpInv, NEW c \in Callers, LockToCreate(c)
    PROVE  McpInv'
<1>1. McpTypeOK'
  <2> DEFINE h == mcpHandler[ConvOf[c]]
             p == IF h # NoFlow THEN "cancelling" ELSE "binding"
             r == [f \in Flows |-> IF f = h THEN "cancelled" ELSE mcpResult[f]]
  <2>1. h \in Flows \cup {NoFlow} /\ p \in Creating
    BY McpAssumption DEF McpInv, McpTypeOK, Creating
  <2>2. r \in [Flows -> Results]
    BY DEF McpInv, McpTypeOK, Results
  <2>3. /\ mcpFlow' = [mcpFlow EXCEPT ![c] = h] /\ mcpPc' = [mcpPc EXCEPT ![c] = p]
        /\ mcpResult' = r /\ mcpLock' = c
        /\ UNCHANGED <<mcpAuth, mcpRuntimeVars, mcpTable, mcpHandler, mcpOwner,
                       mcpRunner, mcpSubmitted, mcpEvents, mcpStopped>>
    BY DEF LockToCreate
  <2> HIDE DEF h, p, r
  <2> QED BY <2>1, <2>2, <2>3 DEF McpInv, McpTypeOK, mcpRuntimeVars
<1>2. LockInv'
  BY Numbered, McpAssumption DEF McpInv, McpTypeOK, LockInv, Holding, PortalThere,
     LockToCreate, mcpRuntimeVars, mcpTableVars, mcpCallerVars, mcpEventVars
<1>3. FlowInv'
  BY Numbered, McpAssumption DEF McpInv, McpTypeOK, FlowInv, LockToCreate,
     mcpRuntimeVars, mcpTableVars, mcpCallerVars, mcpEventVars
<1>4. CallerInv'
  <2> DEFINE h == mcpHandler[ConvOf[c]]
  <2>1. /\ mcpFlow' = [mcpFlow EXCEPT ![c] = h]
        /\ mcpPc' = [mcpPc EXCEPT ![c] = IF h # NoFlow THEN "cancelling" ELSE "binding"]
        /\ \A g \in Flows : mcpResult'[g] = IF g = h THEN "cancelled" ELSE mcpResult[g]
        /\ UNCHANGED <<mcpHandler, mcpAuth, mcpOwner, mcpSubmitted>>
    BY DEF LockToCreate
  <2>2. ConvOf[c] \in Convs /\ (h # NoFlow => h \in Flows)
    BY McpAssumption DEF McpInv, FlowInv
  <2> HIDE DEF h
  <2>3. h = mcpHandler[ConvOf[c]]
    BY DEF h
  <2>4. mcpFlow'[c] = h /\ mcpPc'[c] = (IF h # NoFlow THEN "cancelling" ELSE "binding")
    BY <2>1 DEF McpInv, McpTypeOK
  <2>5. \A d \in Callers : d # c => /\ mcpFlow'[d] = mcpFlow[d] /\ mcpPc'[d] = mcpPc[d]
                                    /\ mcpPc'[d] \notin Holding
    BY <2>1, McpAssumption DEF McpInv, McpTypeOK, LockInv, LockToCreate
  <2> QED BY <2>1, <2>2, <2>3, <2>4, <2>5 DEF McpInv, CallerInv, Holding
<1>5. SessionInv'
  <2>1. /\ mcpLock = NoCaller /\ mcpTable[ConvOf[c]] = NoFlow
        /\ mcpPc[c] = "missed" /\ mcpPc'[c] \in {"cancelling", "binding"}
        /\ \A d \in Callers : d # c => mcpPc'[d] = mcpPc[d] /\ mcpFlow'[d] = mcpFlow[d]
        /\ UNCHANGED <<mcpAuth, mcpPhase, mcpTable, mcpOwner, mcpRunner, mcpStopped>>
    BY DEF LockToCreate, McpInv, McpTypeOK, mcpRuntimeVars
  <2>2. \A d \in Callers : mcpPc[d] \notin Holding
    BY <2>1, McpAssumption DEF McpInv, LockInv
  <2>3. ASSUME ~mcpAuth, PortalThere, NEW f \in Flows, Alive(f)
        PROVE  mcpOwner[f] # ConvOf[c]
    <3>1. mcpRunner[f] \in {"bound", "connecting", "completed", "failing", "serving"}
      BY <2>3 DEF McpInv, McpTypeOK, Runners, Alive, FlowInv
    <3>2. mcpRunner[f] = "serving" /\ f \notin mcpStopped
      BY <2>2, <2>3, <3>1 DEF McpInv, SessionInv, Holding, Alive
    <3>3. mcpTable[mcpOwner[f]] # NoFlow
      BY <2>3, <3>2 DEF McpInv, SessionInv
    <3> QED BY <2>1, <3>3
  <2> QED BY <2>1, <2>2, <2>3 DEF McpInv, SessionInv, Holding, PortalThere, Alive
<1>6. OneSession'
  BY Numbered, McpAssumption DEF McpInv, McpTypeOK, LockInv, Holding, PortalThere,
     FlowInv, SessionInv, OneSession, Alive, LockToCreate, mcpRuntimeVars,
     mcpTableVars, mcpCallerVars, mcpEventVars
<1>7. ReplacedFlowsAreWoken'
  BY Numbered, McpAssumption DEF McpInv, McpTypeOK, FlowInv, CallerInv, Woken,
     ReplacedFlowsAreWoken, LockToCreate, mcpRuntimeVars, mcpTableVars,
     mcpCallerVars, mcpEventVars
<1> QED BY <1>1, <1>2, <1>3, <1>4, <1>5, <1>6, <1>7 DEF McpInv

LEMMA CancelPreviousStep ==
    ASSUME McpInv, NEW c \in Callers, CancelPrevious(c)
    PROVE  McpInv'
<1>1. McpTypeOK'
  <2>1. mcpFlow[c] \in Flows
    BY DEF CancelPrevious, McpInv, CallerInv
  <2> QED BY <2>1 DEF McpInv, McpTypeOK, CancelPrevious, Creating, mcpRuntimeVars,
                      mcpTableVars
<1>2. LockInv'
  BY Numbered, McpAssumption DEF McpInv, McpTypeOK, LockInv, Holding, PortalThere,
     CancelPrevious, mcpRuntimeVars, mcpTableVars, mcpCallerVars, mcpEventVars
<1>3. FlowInv'
  BY Numbered, McpAssumption DEF McpInv, McpTypeOK, FlowInv, CancelPrevious,
     mcpRuntimeVars, mcpTableVars, mcpCallerVars, mcpEventVars
<1>4. CallerInv'
  BY Numbered, McpAssumption DEF McpInv, McpTypeOK, LockInv, Holding, FlowInv,
     CallerInv, Woken, CancelPrevious, mcpRuntimeVars, mcpTableVars, mcpCallerVars,
     mcpEventVars
<1>5. SessionInv'
  <2>1. mcpAuth
    BY McpAssumption, Numbered DEF CancelPrevious, McpInv, CallerInv, FlowInv
  <2> QED BY <2>1 DEF CancelPrevious, SessionInv
<1>6. OneSession'
  BY Numbered, McpAssumption DEF McpInv, McpTypeOK, LockInv, Holding, PortalThere,
     FlowInv, SessionInv, OneSession, Alive, CancelPrevious, mcpRuntimeVars,
     mcpTableVars, mcpCallerVars, mcpEventVars
<1>7. ReplacedFlowsAreWoken'
  BY Numbered, McpAssumption DEF McpInv, McpTypeOK, FlowInv, CallerInv, Woken,
     ReplacedFlowsAreWoken, CancelPrevious, mcpRuntimeVars, mcpTableVars,
     mcpCallerVars, mcpEventVars
<1> QED BY <1>1, <1>2, <1>3, <1>4, <1>5, <1>6, <1>7 DEF McpInv

LEMMA BindFlowStep ==
    ASSUME McpInv, NEW c \in Callers, NEW f \in Flows, BindFlow(c, f)
    PROVE  McpInv'
<1>1. McpTypeOK'
  <2>1. /\ mcpPc[c] = "binding" /\ mcpRunner[f] = "new"
        /\ mcpOwner' = [mcpOwner EXCEPT ![f] = ConvOf[c]]
        /\ mcpRunner' = [mcpRunner EXCEPT ![f] = "bound"]
        /\ mcpHandler' = IF mcpAuth THEN [mcpHandler EXCEPT ![ConvOf[c]] = f]
                                    ELSE mcpHandler
        /\ mcpFlow' = [mcpFlow EXCEPT ![c] = f]
        /\ mcpPc' = [mcpPc EXCEPT ![c] = "starting"]
        /\ UNCHANGED <<mcpAuth, mcpPhase, mcpLife, mcpClosed, mcpLock, mcpTable>>
        /\ UNCHANGED <<mcpResult, mcpSubmitted, mcpStopped>>
        /\ mcpEvents' = mcpEvents \cup {f}
    BY Numbered DEF BindFlow, mcpRuntimeVars, mcpEventVars
  <2>2. ConvOf[c] \in Convs /\ ConvOf[c] # NoConv /\ mcpOwner[f] = NoConv
    BY <2>1, McpAssumption DEF McpInv, FlowInv
  <2>3. mcpHandler' \in [Convs -> Flows \cup {NoFlow}]
    BY <2>1, <2>2 DEF McpInv, McpTypeOK
  <2> QED BY <2>1, <2>2, <2>3 DEF McpInv, McpTypeOK, Creating, Runners
<1>2. LockInv'
  BY Numbered, McpAssumption DEF McpInv, McpTypeOK, LockInv, Holding, PortalThere,
     BindFlow, mcpRuntimeVars, mcpTableVars, mcpCallerVars, mcpEventVars
<1>3. FlowInv'
  <2>1. /\ mcpPc[c] = "binding" /\ mcpRunner[f] = "new"
        /\ mcpOwner' = [mcpOwner EXCEPT ![f] = ConvOf[c]]
        /\ mcpRunner' = [mcpRunner EXCEPT ![f] = "bound"]
        /\ mcpHandler' = IF mcpAuth THEN [mcpHandler EXCEPT ![ConvOf[c]] = f]
                                    ELSE mcpHandler
        /\ mcpFlow' = [mcpFlow EXCEPT ![c] = f]
        /\ mcpPc' = [mcpPc EXCEPT ![c] = "starting"]
        /\ UNCHANGED <<mcpAuth, mcpPhase, mcpLife, mcpClosed, mcpLock, mcpTable>>
        /\ UNCHANGED <<mcpResult, mcpSubmitted, mcpStopped>>
        /\ mcpEvents' = mcpEvents \cup {f}
    BY Numbered DEF BindFlow, mcpRuntimeVars, mcpEventVars
  <2>2. ConvOf[c] \in Convs /\ ConvOf[c] # NoConv /\ mcpOwner[f] = NoConv
    BY <2>1, McpAssumption DEF McpInv, FlowInv
  <2>3. mcpOwner'[f] = ConvOf[c] /\ mcpRunner'[f] = "bound"
        /\ \A g \in Flows : g # f => mcpOwner'[g] = mcpOwner[g] /\ mcpRunner'[g] = mcpRunner[g]
    BY <2>1 DEF McpInv, McpTypeOK
  <2>4. \A v \in Convs : mcpHandler'[v] = IF mcpAuth /\ v = ConvOf[c] THEN f ELSE mcpHandler[v]
    BY <2>1, <2>2 DEF McpInv, McpTypeOK
  <2>5. \A g \in Flows : mcpRunner'[g] = "new" <=> mcpOwner'[g] = NoConv
    BY <2>2, <2>3 DEF McpInv, FlowInv
  <2>6. ASSUME NEW v \in Convs, mcpHandler'[v] # NoFlow
        PROVE  mcpAuth /\ mcpHandler'[v] \in Flows /\ mcpOwner'[mcpHandler'[v]] = v
    <3>1. CASE mcpAuth /\ v = ConvOf[c]
      BY <3>1, <2>3, <2>4
    <3>2. CASE ~(mcpAuth /\ v = ConvOf[c])
      <4>1. mcpHandler'[v] = mcpHandler[v]
        BY <3>2, <2>4
      <4>2. mcpAuth /\ mcpHandler[v] \in Flows /\ mcpOwner[mcpHandler[v]] = v /\ v # NoConv
        BY <4>1, <2>6, McpAssumption DEF McpInv, FlowInv
      <4>3. mcpHandler[v] # f
        BY <4>2, <2>2
      <4> QED BY <4>1, <4>2, <4>3, <2>3
    <3> QED BY <3>1, <3>2
  <2>7. \A g \in Flows : mcpRunner'[g] \in {"challenging", "waiting", "exchanging"} => mcpAuth
    BY <2>3 DEF McpInv, FlowInv
  <2> QED BY <2>1, <2>5, <2>6, <2>7 DEF FlowInv
<1>4. CallerInv'
  <2>1. /\ mcpPc[c] = "binding" /\ mcpRunner[f] = "new"
        /\ mcpOwner' = [mcpOwner EXCEPT ![f] = ConvOf[c]]
        /\ mcpRunner' = [mcpRunner EXCEPT ![f] = "bound"]
        /\ mcpHandler' = IF mcpAuth THEN [mcpHandler EXCEPT ![ConvOf[c]] = f]
                                    ELSE mcpHandler
        /\ mcpFlow' = [mcpFlow EXCEPT ![c] = f]
        /\ mcpPc' = [mcpPc EXCEPT ![c] = "starting"]
        /\ UNCHANGED <<mcpAuth, mcpPhase, mcpLife, mcpClosed, mcpLock, mcpTable>>
        /\ UNCHANGED <<mcpResult, mcpSubmitted, mcpStopped>>
        /\ mcpEvents' = mcpEvents \cup {f}
    BY Numbered DEF BindFlow, mcpRuntimeVars, mcpEventVars
  <2>2. ConvOf[c] \in Convs /\ ConvOf[c] # NoConv /\ mcpOwner[f] = NoConv
    BY <2>1, McpAssumption DEF McpInv, FlowInv
  <2>3. mcpOwner'[f] = ConvOf[c] /\ mcpRunner'[f] = "bound"
        /\ \A g \in Flows : g # f => mcpOwner'[g] = mcpOwner[g] /\ mcpRunner'[g] = mcpRunner[g]
    BY <2>1 DEF McpInv, McpTypeOK
  <2>4. \A v \in Convs : mcpHandler'[v] = IF mcpAuth /\ v = ConvOf[c] THEN f ELSE mcpHandler[v]
    BY <2>1, <2>2 DEF McpInv, McpTypeOK
  <2>5. mcpPc'[c] = "starting" /\ mcpFlow'[c] = f
        /\ \A d \in Callers : d # c => mcpPc'[d] = mcpPc[d] /\ mcpFlow'[d] = mcpFlow[d]
    BY <2>1 DEF McpInv, McpTypeOK
  <2>6. \A d \in Callers : d # c => mcpPc[d] \notin Holding
    BY <2>1 DEF McpInv, LockInv, Holding
  <2>7. \A d \in Callers : mcpPc'[d] = "challenged" => mcpHandler'[ConvOf[d]] \in Flows
    BY <2>4, <2>5, McpAssumption DEF McpInv, CallerInv
  <2>8. \A d \in Callers : mcpPc'[d] = "submitting" => mcpFlow'[d] \in Flows
    BY <2>5 DEF McpInv, CallerInv
  <2>9. \A d \in Callers : /\ mcpPc'[d] \notin {"cancelling", "binding"}
                           /\ mcpPc'[d] \in {"starting", "receiving"} => d = c
    BY <2>5, <2>6 DEF Holding
  <2>10. mcpAuth' => mcpHandler'[ConvOf[c]] = f
    BY <2>1, <2>2, <2>4
  <2>11. mcpOwner'[mcpFlow'[c]] = ConvOf[c] /\ mcpFlow'[c] \in Flows
    <3>1. mcpFlow'[c] = f
      BY <2>5
    <3>2. mcpOwner'[f] = ConvOf[c]
      BY <2>3
    <3> QED BY <3>1, <3>2
  <2>12. ASSUME NEW d \in Callers, mcpPc'[d] \in {"starting", "receiving"}
         PROVE  /\ mcpFlow'[d] \in Flows /\ mcpOwner'[mcpFlow'[d]] = ConvOf[d]
                /\ mcpAuth' => mcpHandler'[ConvOf[d]] = mcpFlow'[d]
    <3>1. d = c
      BY <2>9, <2>12
    <3>2. mcpFlow'[c] = f
      BY <2>5
    <3>3. mcpFlow'[d] \in Flows /\ mcpOwner'[mcpFlow'[d]] = ConvOf[d]
      BY <3>1, <2>11, Zenon
    <3>4. mcpAuth' => mcpHandler'[ConvOf[d]] = mcpFlow'[d]
      BY <3>1, <3>2, <2>10, Zenon
    <3> QED BY <3>3, <3>4
  <2>13. \A d \in Callers : mcpPc'[d] = "starting" => mcpRunner'[mcpFlow'[d]] = "bound"
    BY <2>3, <2>5, <2>9
  <2> QED BY <2>7, <2>8, <2>9, <2>12, <2>13 DEF CallerInv
<1>5. SessionInv'
  BY Numbered, McpAssumption DEF McpInv, McpTypeOK, LockInv, Holding, PortalThere,
     FlowInv, CallerInv, SessionInv, Alive, BindFlow, mcpRuntimeVars,
     mcpTableVars, mcpCallerVars, mcpEventVars
<1>6. OneSession'
  <2>1. /\ mcpPc[c] = "binding" /\ mcpRunner[f] = "new"
        /\ mcpOwner' = [mcpOwner EXCEPT ![f] = ConvOf[c]]
        /\ mcpRunner' = [mcpRunner EXCEPT ![f] = "bound"]
        /\ mcpHandler' = IF mcpAuth THEN [mcpHandler EXCEPT ![ConvOf[c]] = f]
                                    ELSE mcpHandler
        /\ mcpFlow' = [mcpFlow EXCEPT ![c] = f]
        /\ mcpPc' = [mcpPc EXCEPT ![c] = "starting"]
        /\ UNCHANGED <<mcpAuth, mcpPhase, mcpLife, mcpClosed, mcpLock, mcpTable>>
        /\ UNCHANGED <<mcpResult, mcpSubmitted, mcpStopped>>
        /\ mcpEvents' = mcpEvents \cup {f}
    BY Numbered DEF BindFlow, mcpRuntimeVars, mcpEventVars
  <2>2. ConvOf[c] \in Convs /\ ConvOf[c] # NoConv /\ mcpOwner[f] = NoConv
    BY <2>1, McpAssumption DEF McpInv, FlowInv
  <2>3. mcpOwner'[f] = ConvOf[c] /\ mcpRunner'[f] = "bound"
        /\ \A g \in Flows : g # f => mcpOwner'[g] = mcpOwner[g] /\ mcpRunner'[g] = mcpRunner[g]
    BY <2>1 DEF McpInv, McpTypeOK
  <2>4. \A v \in Convs : mcpHandler'[v] = IF mcpAuth /\ v = ConvOf[c] THEN f ELSE mcpHandler[v]
    BY <2>1, <2>2 DEF McpInv, McpTypeOK
  <2>5. ASSUME ~mcpAuth, NEW g \in Flows, Alive(g) PROVE mcpOwner[g] # ConvOf[c]
    BY <2>5 DEF BindFlow, McpInv, SessionInv
  <2>6. ASSUME ~mcpAuth', NEW g \in Flows, NEW h \in Flows,
               mcpRunner'[g] \notin {"new", "dead"}, mcpRunner'[h] \notin {"new", "dead"},
               g \notin mcpStopped', h \notin mcpStopped',
               mcpOwner'[g] = mcpOwner'[h]
        PROVE  g = h
    <3>1. ~mcpAuth
      BY <2>1, <2>6
    <3>2. CASE g # f /\ h # f
      BY <3>1, <3>2, <2>1, <2>3, <2>6 DEF McpInv, OneSession, Alive
    <3>3. CASE g = f /\ h # f
      BY <3>1, <3>3, <2>3, <2>1, <2>5, <2>6 DEF Alive
    <3>4. CASE h = f /\ g # f
      BY <3>1, <3>4, <2>3, <2>1, <2>5, <2>6 DEF Alive
    <3> QED BY <3>2, <3>3, <3>4
  <2> QED BY <2>6 DEF OneSession, Alive
<1>7. ReplacedFlowsAreWoken'
  <2>1. /\ mcpPc[c] = "binding" /\ mcpRunner[f] = "new"
        /\ mcpOwner' = [mcpOwner EXCEPT ![f] = ConvOf[c]]
        /\ mcpRunner' = [mcpRunner EXCEPT ![f] = "bound"]
        /\ mcpHandler' = IF mcpAuth THEN [mcpHandler EXCEPT ![ConvOf[c]] = f]
                                    ELSE mcpHandler
        /\ mcpFlow' = [mcpFlow EXCEPT ![c] = f]
        /\ mcpPc' = [mcpPc EXCEPT ![c] = "starting"]
        /\ UNCHANGED <<mcpAuth, mcpPhase, mcpLife, mcpClosed, mcpLock, mcpTable>>
        /\ UNCHANGED <<mcpResult, mcpSubmitted, mcpStopped>>
        /\ mcpEvents' = mcpEvents \cup {f}
    BY Numbered DEF BindFlow, mcpRuntimeVars, mcpEventVars
  <2>2. ConvOf[c] \in Convs /\ ConvOf[c] # NoConv /\ mcpOwner[f] = NoConv
    BY <2>1, McpAssumption DEF McpInv, FlowInv
  <2>3. mcpOwner'[f] = ConvOf[c] /\ mcpRunner'[f] = "bound"
        /\ \A g \in Flows : g # f => mcpOwner'[g] = mcpOwner[g] /\ mcpRunner'[g] = mcpRunner[g]
    BY <2>1 DEF McpInv, McpTypeOK
  <2>4. \A v \in Convs : mcpHandler'[v] = IF mcpAuth /\ v = ConvOf[c] THEN f ELSE mcpHandler[v]
    BY <2>1, <2>2 DEF McpInv, McpTypeOK
  <2>5. mcpHandler[ConvOf[c]] = NoFlow \/ Woken(mcpHandler[ConvOf[c]])
    BY <2>1 DEF McpInv, CallerInv
  <2>6. ASSUME NEW g \in Flows, mcpAuth',
               mcpRunner'[g] \in {"connecting", "challenging", "waiting"},
               mcpHandler'[mcpOwner'[g]] # g
        PROVE  g \in mcpSubmitted' /\ mcpResult'[g] # "none"
    <3>1. mcpAuth
      BY <2>1, <2>6
    <3>2. g # f
      BY <3>1, <2>2, <2>3, <2>4, <2>6
    <3>3. mcpOwner'[g] = mcpOwner[g] /\ mcpRunner'[g] = mcpRunner[g]
      BY <3>2, <2>3
    <3>4. mcpOwner[g] \in Convs
      BY <3>3, <2>6 DEF McpInv, McpTypeOK, FlowInv
    <3>5. CASE mcpHandler[mcpOwner[g]] # g
      BY <3>1, <3>3, <3>5, <2>1, <2>6 DEF McpInv, ReplacedFlowsAreWoken
    <3>6. CASE mcpHandler[mcpOwner[g]] = g
      <4>1. mcpOwner[g] = ConvOf[c]
        BY <3>3, <3>4, <3>6, <2>4, <2>6
      <4> QED BY <4>1, <3>6, <2>1, <2>5, Numbered DEF Woken
    <3> QED BY <3>5, <3>6
  <2> QED BY <2>6 DEF ReplacedFlowsAreWoken
<1> QED BY <1>1, <1>2, <1>3, <1>4, <1>5, <1>6, <1>7 DEF McpInv

LEMMA StartRunnerStep ==
    ASSUME McpInv, NEW c \in Callers, StartRunner(c)
    PROVE  McpInv'
<1>1. McpTypeOK'
  BY Numbered, McpAssumption DEF McpInv, McpTypeOK, FlowInv, CallerInv, Runners,
     Results, Creating, StartRunner, mcpRuntimeVars, mcpTableVars,
     mcpCallerVars, mcpEventVars
<1>2. LockInv'
  BY Numbered, McpAssumption DEF McpInv, McpTypeOK, LockInv, Holding, PortalThere,
     StartRunner, mcpRuntimeVars, mcpTableVars,
     mcpCallerVars, mcpEventVars
<1>3. FlowInv'
  <2>1. UNCHANGED <<mcpAuth, mcpHandler, mcpOwner>>
    BY DEF StartRunner, mcpTableVars
  <2>2. \A f \in Flows : \/ mcpRunner'[f] = mcpRunner[f]
                         \/ mcpRunner[f] = "bound" /\ mcpRunner'[f] = "connecting"
    BY DEF StartRunner, McpInv, CallerInv, McpTypeOK
  <2> QED BY <2>1, <2>2 DEF McpInv, FlowInv
<1>4. CallerInv'
  BY Numbered, McpAssumption DEF McpInv, McpTypeOK, LockInv, Holding, FlowInv,
     CallerInv, Woken, StartRunner, mcpRuntimeVars, mcpTableVars,
     mcpCallerVars, mcpEventVars
<1>5. SessionInv'
  BY Numbered, McpAssumption DEF McpInv, McpTypeOK, LockInv, Holding, PortalThere,
     FlowInv, CallerInv, SessionInv, Alive, StartRunner, mcpRuntimeVars, mcpTableVars,
     mcpCallerVars, mcpEventVars
<1>6. OneSession'
  BY Numbered, McpAssumption DEF McpInv, McpTypeOK, LockInv, Holding, PortalThere,
     FlowInv, CallerInv, SessionInv, OneSession, Alive, StartRunner,
     mcpRuntimeVars, mcpTableVars,
     mcpCallerVars, mcpEventVars
<1>7. ReplacedFlowsAreWoken'
  BY Numbered, McpAssumption DEF McpInv, McpTypeOK, FlowInv, CallerInv, Woken,
     ReplacedFlowsAreWoken, StartRunner, mcpRuntimeVars, mcpTableVars,
     mcpCallerVars, mcpEventVars
<1> QED BY <1>1, <1>2, <1>3, <1>4, <1>5, <1>6, <1>7 DEF McpInv

LEMMA PortalGoneStep ==
    ASSUME McpInv, NEW c \in Callers, PortalGone(c)
    PROVE  McpInv'
<1>1. McpTypeOK'
  BY Numbered, McpAssumption DEF McpInv, McpTypeOK, FlowInv, CallerInv, Runners,
     Results, Creating, PortalGone, Return, mcpRuntimeVars, mcpTableVars,
     mcpCallerVars, mcpEventVars
<1>2. LockInv'
  <2>1. mcpPc'[c] = "idle" /\ \A d \in Callers : d # c => mcpPc'[d] = mcpPc[d]
    BY DEF PortalGone, Return, McpInv, McpTypeOK
  <2>2. CASE mcpPc[c] \in Holding
    <3>1. mcpLock = c /\ mcpLock' = NoCaller
      BY <2>2 DEF PortalGone, McpInv, LockInv, Holding, Creating
    <3> QED BY <2>1, <3>1, McpAssumption DEF McpInv, LockInv, Holding
  <2>3. CASE mcpPc[c] \notin Holding
    <3>1. mcpPc[c] \in {"submitting", "completing"}
      BY <2>3 DEF PortalGone, Holding
    <3>2. mcpLock # c /\ mcpLock' = mcpLock
      BY <2>3, <3>1 DEF PortalGone, McpInv, LockInv, Creating
    <3> QED BY <2>1, <3>2 DEF McpInv, LockInv, Holding
  <2> QED BY <2>2, <2>3
<1>3. FlowInv'
  <2>1. UNCHANGED <<mcpAuth, mcpHandler, mcpOwner>>
    BY DEF PortalGone
  <2>2. \A f \in Flows : \/ mcpRunner'[f] = mcpRunner[f]
                         \/ mcpRunner[f] = "bound" /\ mcpRunner'[f] = "dead"
    BY DEF PortalGone, McpInv, CallerInv
  <2> QED BY <2>1, <2>2 DEF McpInv, FlowInv
<1>4. CallerInv'
  BY Numbered, McpAssumption DEF McpInv, McpTypeOK, LockInv, Holding, FlowInv,
     CallerInv, Woken, PortalGone, Return, mcpRuntimeVars, mcpTableVars,
     mcpCallerVars, mcpEventVars
<1>5. SessionInv'
  BY Numbered, McpAssumption DEF McpInv, McpTypeOK, LockInv, Holding, PortalThere,
     FlowInv, CallerInv, SessionInv, Alive, PortalGone, Return, mcpRuntimeVars, mcpTableVars,
     mcpCallerVars, mcpEventVars
<1>6. OneSession'
  BY Numbered, McpAssumption DEF McpInv, McpTypeOK, LockInv, Holding, PortalThere,
     FlowInv, CallerInv, SessionInv, OneSession, Alive, PortalGone, Return,
     mcpRuntimeVars, mcpTableVars,
     mcpCallerVars, mcpEventVars
<1>7. ReplacedFlowsAreWoken'
  BY Numbered, McpAssumption DEF McpInv, McpTypeOK, FlowInv, CallerInv, Woken,
     ReplacedFlowsAreWoken, PortalGone, Return, mcpRuntimeVars, mcpTableVars,
     mcpCallerVars, mcpEventVars
<1> QED BY <1>1, <1>2, <1>3, <1>4, <1>5, <1>6, <1>7 DEF McpInv

LEMMA ReceiveClosedStep ==
    ASSUME McpInv, NEW c \in Callers, ReceiveClosed(c)
    PROVE  McpInv'
<1>1. McpTypeOK'
  BY Numbered, McpAssumption DEF McpInv, McpTypeOK, FlowInv, CallerInv, Runners,
     Results, Creating, ReceiveClosed, Return, mcpRuntimeVars, mcpTableVars,
     mcpCallerVars, mcpEventVars
<1>2. LockInv'
  BY Numbered, McpAssumption DEF McpInv, McpTypeOK, LockInv, Holding, PortalThere,
     ReceiveClosed, Return, mcpRuntimeVars, mcpTableVars,
     mcpCallerVars, mcpEventVars
<1>3. FlowInv'
  BY Numbered, McpAssumption DEF McpInv, McpTypeOK, FlowInv, ReceiveClosed, Return, mcpRuntimeVars, mcpTableVars,
     mcpCallerVars, mcpEventVars
<1>4. CallerInv'
  BY Numbered, McpAssumption DEF McpInv, McpTypeOK, LockInv, Holding, FlowInv,
     CallerInv, Woken, ReceiveClosed, Return, mcpRuntimeVars, mcpTableVars,
     mcpCallerVars, mcpEventVars
<1>5. SessionInv'
  BY Numbered, McpAssumption DEF McpInv, McpTypeOK, LockInv, Holding, PortalThere,
     FlowInv, CallerInv, SessionInv, Alive, ReceiveClosed, Return, mcpRuntimeVars, mcpTableVars,
     mcpCallerVars, mcpEventVars
<1>6. OneSession'
  BY Numbered, McpAssumption DEF McpInv, McpTypeOK, LockInv, Holding, PortalThere,
     FlowInv, CallerInv, SessionInv, OneSession, Alive, ReceiveClosed, Return,
     mcpRuntimeVars, mcpTableVars,
     mcpCallerVars, mcpEventVars
<1>7. ReplacedFlowsAreWoken'
  BY Numbered, McpAssumption DEF McpInv, McpTypeOK, FlowInv, CallerInv, Woken,
     ReplacedFlowsAreWoken, ReceiveClosed, Return, mcpRuntimeVars, mcpTableVars,
     mcpCallerVars, mcpEventVars
<1> QED BY <1>1, <1>2, <1>3, <1>4, <1>5, <1>6, <1>7 DEF McpInv

LEMMA ReceiveSessionStep ==
    ASSUME McpInv, NEW c \in Callers, ReceiveSession(c)
    PROVE  McpInv'
<1>1. McpTypeOK'
  BY Numbered, McpAssumption DEF McpInv, McpTypeOK, FlowInv, CallerInv, Runners,
     Results, Creating, ReceiveSession, Hear, Return, mcpRuntimeVars, mcpTableVars,
     mcpCallerVars, mcpEventVars
<1>2. LockInv'
  BY Numbered, McpAssumption DEF McpInv, McpTypeOK, LockInv, Holding, PortalThere,
     ReceiveSession, Hear, Return, mcpRuntimeVars, mcpTableVars, mcpCallerVars,
     mcpEventVars
<1>3. FlowInv'
  BY Numbered, McpAssumption DEF McpInv, McpTypeOK, FlowInv, ReceiveSession, Hear,
     Return, mcpRuntimeVars, mcpTableVars, mcpCallerVars, mcpEventVars
<1>4. CallerInv'
  BY Numbered, McpAssumption DEF McpInv, McpTypeOK, LockInv, Holding, FlowInv,
     CallerInv, Woken, ReceiveSession, Hear, Return, mcpRuntimeVars, mcpTableVars,
     mcpCallerVars, mcpEventVars
<1>5. SessionInv'
  BY Numbered, McpAssumption DEF McpInv, McpTypeOK, LockInv, Holding, PortalThere,
     FlowInv, CallerInv, SessionInv, Alive, ReceiveSession, Hear, Return,
     mcpRuntimeVars, mcpTableVars, mcpCallerVars, mcpEventVars
<1>6. OneSession'
  BY Numbered, McpAssumption DEF McpInv, McpTypeOK, LockInv, Holding, PortalThere,
     FlowInv, SessionInv, OneSession, Alive, ReceiveSession, Hear, Return,
     mcpRuntimeVars, mcpTableVars, mcpCallerVars, mcpEventVars
<1>7. ReplacedFlowsAreWoken'
  BY Numbered, McpAssumption DEF McpInv, McpTypeOK, FlowInv, CallerInv, Woken,
     ReplacedFlowsAreWoken, ReceiveSession, Hear, Return, mcpRuntimeVars,
     mcpTableVars, mcpCallerVars, mcpEventVars
<1> QED BY <1>1, <1>2, <1>3, <1>4, <1>5, <1>6, <1>7 DEF McpInv

LEMMA ReceiveChallengeStep ==
    ASSUME McpInv, NEW c \in Callers, ReceiveChallenge(c)
    PROVE  McpInv'
<1>1. McpTypeOK'
  BY Numbered, McpAssumption DEF McpInv, McpTypeOK, FlowInv, CallerInv, Runners,
     Results, Creating, ReceiveChallenge, Hear, Return, mcpRuntimeVars,
     mcpTableVars, mcpCallerVars, mcpEventVars
<1>2. LockInv'
  BY Numbered, McpAssumption DEF McpInv, McpTypeOK, LockInv, Holding, PortalThere,
     ReceiveChallenge, Hear, Return, mcpRuntimeVars, mcpTableVars, mcpCallerVars,
     mcpEventVars
<1>3. FlowInv'
  BY Numbered, McpAssumption DEF McpInv, McpTypeOK, FlowInv, ReceiveChallenge,
     Hear, Return, mcpRuntimeVars, mcpTableVars, mcpCallerVars, mcpEventVars
<1>4. CallerInv'
  <2>1. mcpPc[c] = "receiving" /\ mcpRunner[mcpFlow[c]] = "challenging"
        /\ mcpPc' = [mcpPc EXCEPT ![c] = "challenged"]
        /\ mcpFlow' = [mcpFlow EXCEPT ![c] = NoFlow]
        /\ UNCHANGED <<mcpAuth, mcpHandler, mcpOwner, mcpResult, mcpSubmitted>>
    BY DEF ReceiveChallenge, Hear, Return, mcpEventVars
  <2>2. mcpHandler[ConvOf[c]] \in Flows
    <3>1. mcpFlow[c] \in Flows /\ (mcpAuth => mcpHandler[ConvOf[c]] = mcpFlow[c])
      BY <2>1 DEF McpInv, CallerInv
    <3>2. mcpAuth
      BY <2>1, <3>1 DEF McpInv, FlowInv
    <3> QED BY <3>1, <3>2
  <2>3. mcpPc'[c] = "challenged"
        /\ \A d \in Callers : d # c => mcpPc'[d] = mcpPc[d] /\ mcpFlow'[d] = mcpFlow[d]
    BY <2>1 DEF McpInv, McpTypeOK
  <2>4. \A d \in Callers : d # c => mcpPc[d] \notin Holding
    BY <2>1 DEF McpInv, LockInv, Holding
  <2> QED BY <2>1, <2>2, <2>3, <2>4 DEF McpInv, CallerInv, Woken, Holding
<1>5. SessionInv'
  BY Numbered, McpAssumption DEF McpInv, McpTypeOK, LockInv, Holding, PortalThere,
     FlowInv, CallerInv, SessionInv, Alive, ReceiveChallenge, Hear, Return,
     mcpRuntimeVars, mcpTableVars, mcpCallerVars, mcpEventVars
<1>6. OneSession'
  BY Numbered, McpAssumption DEF McpInv, McpTypeOK, LockInv, Holding, PortalThere,
     FlowInv, SessionInv, OneSession, Alive, ReceiveChallenge, Hear, Return,
     mcpRuntimeVars, mcpTableVars, mcpCallerVars, mcpEventVars
<1>7. ReplacedFlowsAreWoken'
  BY Numbered, McpAssumption DEF McpInv, McpTypeOK, FlowInv, CallerInv, Woken,
     ReplacedFlowsAreWoken, ReceiveChallenge, Hear, Return, mcpRuntimeVars,
     mcpTableVars, mcpCallerVars, mcpEventVars
<1> QED BY <1>1, <1>2, <1>3, <1>4, <1>5, <1>6, <1>7 DEF McpInv

LEMMA ReceiveErrorStep ==
    ASSUME McpInv, NEW c \in Callers, ReceiveError(c)
    PROVE  McpInv'
<1>1. McpTypeOK'
  BY Numbered, McpAssumption DEF McpInv, McpTypeOK, FlowInv, CallerInv, Runners,
     Results, Creating, ReceiveError, Hear, Return, mcpRuntimeVars, mcpTableVars,
     mcpCallerVars, mcpEventVars
<1>2. LockInv'
  BY Numbered, McpAssumption DEF McpInv, McpTypeOK, LockInv, Holding, PortalThere,
     ReceiveError, Hear, Return, mcpRuntimeVars, mcpTableVars, mcpCallerVars,
     mcpEventVars
<1>3. FlowInv'
  BY Numbered, McpAssumption DEF McpInv, McpTypeOK, FlowInv, ReceiveError, Hear,
     Return, mcpRuntimeVars, mcpTableVars, mcpCallerVars, mcpEventVars
<1>4. CallerInv'
  BY Numbered, McpAssumption DEF McpInv, McpTypeOK, LockInv, Holding, FlowInv,
     CallerInv, Woken, ReceiveError, Hear, Return, mcpRuntimeVars, mcpTableVars,
     mcpCallerVars, mcpEventVars
<1>5. SessionInv'
  BY Numbered, McpAssumption DEF McpInv, McpTypeOK, LockInv, Holding, PortalThere,
     FlowInv, CallerInv, SessionInv, Alive, ReceiveError, Hear, Return,
     mcpRuntimeVars, mcpTableVars, mcpCallerVars, mcpEventVars
<1>6. OneSession'
  BY Numbered, McpAssumption DEF McpInv, McpTypeOK, LockInv, Holding, PortalThere,
     FlowInv, SessionInv, OneSession, Alive, ReceiveError, Hear, Return,
     mcpRuntimeVars, mcpTableVars, mcpCallerVars, mcpEventVars
<1>7. ReplacedFlowsAreWoken'
  BY Numbered, McpAssumption DEF McpInv, McpTypeOK, FlowInv, CallerInv, Woken,
     ReplacedFlowsAreWoken, ReceiveError, Hear, Return, mcpRuntimeVars,
     mcpTableVars, mcpCallerVars, mcpEventVars
<1> QED BY <1>1, <1>2, <1>3, <1>4, <1>5, <1>6, <1>7 DEF McpInv

LEMMA McpSubmitStep ==
    ASSUME McpInv, NEW c \in Callers, NEW a \in {"code", "error"}, Submit(c, a)
    PROVE  McpInv'
<1>1. McpTypeOK'
  BY Numbered, McpAssumption DEF McpInv, McpTypeOK, FlowInv, CallerInv, Runners,
     Results, Creating, Submit, mcpRuntimeVars, mcpTableVars, mcpCallerVars,
     mcpEventVars
<1>2. LockInv'
  BY Numbered, McpAssumption DEF McpInv, McpTypeOK, LockInv, Holding, PortalThere,
     Submit, mcpRuntimeVars, mcpTableVars, mcpCallerVars, mcpEventVars
<1>3. FlowInv'
  BY Numbered, McpAssumption DEF McpInv, McpTypeOK, FlowInv, Submit,
     mcpRuntimeVars, mcpTableVars, mcpCallerVars, mcpEventVars
<1>4. CallerInv'
  BY Numbered, McpAssumption DEF McpInv, McpTypeOK, LockInv, Holding, FlowInv,
     CallerInv, Woken, Submit, mcpRuntimeVars, mcpTableVars, mcpCallerVars,
     mcpEventVars
<1>5. SessionInv'
  BY Numbered, McpAssumption DEF McpInv, McpTypeOK, LockInv, Holding, PortalThere,
     FlowInv, CallerInv, SessionInv, Alive, Submit, mcpRuntimeVars, mcpTableVars,
     mcpCallerVars, mcpEventVars
<1>6. OneSession'
  BY Numbered, McpAssumption DEF McpInv, McpTypeOK, LockInv, Holding, PortalThere,
     FlowInv, SessionInv, OneSession, Alive, Submit, mcpRuntimeVars, mcpTableVars,
     mcpCallerVars, mcpEventVars
<1>7. ReplacedFlowsAreWoken'
  BY Numbered, McpAssumption DEF McpInv, McpTypeOK, FlowInv, CallerInv, Woken,
     ReplacedFlowsAreWoken, Submit, mcpRuntimeVars, mcpTableVars, mcpCallerVars,
     mcpEventVars
<1> QED BY <1>1, <1>2, <1>3, <1>4, <1>5, <1>6, <1>7 DEF McpInv

LEMMA SubmitWakesStep ==
    ASSUME McpInv, NEW c \in Callers, SubmitWakes(c)
    PROVE  McpInv'
<1>1. McpTypeOK'
  <2>1. mcpFlow[c] \in Flows
    BY DEF SubmitWakes, McpInv, CallerInv
  <2> QED BY <2>1 DEF McpInv, McpTypeOK, SubmitWakes, Creating, mcpRuntimeVars,
                      mcpTableVars
<1>2. LockInv'
  BY Numbered, McpAssumption DEF McpInv, McpTypeOK, LockInv, Holding, PortalThere,
     SubmitWakes, mcpRuntimeVars, mcpTableVars, mcpCallerVars, mcpEventVars
<1>3. FlowInv'
  BY Numbered, McpAssumption DEF McpInv, McpTypeOK, FlowInv, SubmitWakes,
     mcpRuntimeVars, mcpTableVars, mcpCallerVars, mcpEventVars
<1>4. CallerInv'
  BY Numbered, McpAssumption DEF McpInv, McpTypeOK, LockInv, Holding, FlowInv,
     CallerInv, Woken, SubmitWakes, mcpRuntimeVars, mcpTableVars, mcpCallerVars,
     mcpEventVars
<1>5. SessionInv'
  BY Numbered, McpAssumption DEF McpInv, McpTypeOK, LockInv, Holding, PortalThere,
     FlowInv, CallerInv, SessionInv, Alive, SubmitWakes, mcpRuntimeVars,
     mcpTableVars, mcpCallerVars, mcpEventVars
<1>6. OneSession'
  BY Numbered, McpAssumption DEF McpInv, McpTypeOK, LockInv, Holding, PortalThere,
     FlowInv, SessionInv, OneSession, Alive, SubmitWakes, mcpRuntimeVars,
     mcpTableVars, mcpCallerVars, mcpEventVars
<1>7. ReplacedFlowsAreWoken'
  BY Numbered, McpAssumption DEF McpInv, McpTypeOK, FlowInv, CallerInv, Woken,
     ReplacedFlowsAreWoken, SubmitWakes, mcpRuntimeVars, mcpTableVars,
     mcpCallerVars, mcpEventVars
<1> QED BY <1>1, <1>2, <1>3, <1>4, <1>5, <1>6, <1>7 DEF McpInv

LEMMA SubmitReturnsStep ==
    ASSUME McpInv, NEW c \in Callers, SubmitReturns(c)
    PROVE  McpInv'
<1>1. McpTypeOK'
  BY Numbered, McpAssumption DEF McpInv, McpTypeOK, FlowInv, CallerInv, Runners,
     Results, Creating, SubmitReturns, Return, mcpRuntimeVars, mcpTableVars,
     mcpCallerVars, mcpEventVars
<1>2. LockInv'
  BY Numbered, McpAssumption DEF McpInv, McpTypeOK, LockInv, Holding, PortalThere,
     SubmitReturns, Return, mcpRuntimeVars, mcpTableVars, mcpCallerVars,
     mcpEventVars
<1>3. FlowInv'
  BY Numbered, McpAssumption DEF McpInv, McpTypeOK, FlowInv, SubmitReturns, Return,
     mcpRuntimeVars, mcpTableVars, mcpCallerVars, mcpEventVars
<1>4. CallerInv'
  BY Numbered, McpAssumption DEF McpInv, McpTypeOK, LockInv, Holding, FlowInv,
     CallerInv, Woken, SubmitReturns, Return, mcpRuntimeVars, mcpTableVars,
     mcpCallerVars, mcpEventVars
<1>5. SessionInv'
  BY Numbered, McpAssumption DEF McpInv, McpTypeOK, LockInv, Holding, PortalThere,
     FlowInv, CallerInv, SessionInv, Alive, SubmitReturns, Return, mcpRuntimeVars,
     mcpTableVars, mcpCallerVars, mcpEventVars
<1>6. OneSession'
  BY Numbered, McpAssumption DEF McpInv, McpTypeOK, LockInv, Holding, PortalThere,
     FlowInv, SessionInv, OneSession, Alive, SubmitReturns, Return, mcpRuntimeVars,
     mcpTableVars, mcpCallerVars, mcpEventVars
<1>7. ReplacedFlowsAreWoken'
  BY Numbered, McpAssumption DEF McpInv, McpTypeOK, FlowInv, CallerInv, Woken,
     ReplacedFlowsAreWoken, SubmitReturns, Return, mcpRuntimeVars, mcpTableVars,
     mcpCallerVars, mcpEventVars
<1> QED BY <1>1, <1>2, <1>3, <1>4, <1>5, <1>6, <1>7 DEF McpInv

LEMMA ConnectStep ==
    ASSUME McpInv, NEW f \in Flows, Connect(f)
    PROVE  McpInv'
<1>1. McpTypeOK'
  BY Numbered, McpAssumption DEF McpInv, McpTypeOK, FlowInv, CallerInv, Runners,
     Results, Creating, Connect, Register, Become, mcpRuntimeVars, mcpTableVars,
     mcpCallerVars, mcpEventVars
<1>2. LockInv'
  BY Numbered, McpAssumption DEF McpInv, McpTypeOK, LockInv, Holding, PortalThere,
     Connect, Register, Become, mcpRuntimeVars, mcpTableVars, mcpCallerVars,
     mcpEventVars
<1>3. FlowInv'
  BY Numbered, McpAssumption DEF McpInv, McpTypeOK, FlowInv, Connect, Register,
     Become, mcpRuntimeVars, mcpTableVars, mcpCallerVars, mcpEventVars
<1>4. CallerInv'
  BY Numbered, McpAssumption DEF McpInv, McpTypeOK, LockInv, Holding, FlowInv,
     CallerInv, Woken, Connect, Register, Become, mcpRuntimeVars, mcpTableVars,
     mcpCallerVars, mcpEventVars
<1>5. SessionInv'
  BY Numbered, McpAssumption DEF McpInv, McpTypeOK, LockInv, Holding, PortalThere,
     FlowInv, CallerInv, SessionInv, Alive, Connect, Register, Become, mcpRuntimeVars, mcpTableVars,
     mcpCallerVars, mcpEventVars
<1>6. OneSession'
  BY Numbered, McpAssumption DEF McpInv, McpTypeOK, LockInv, Holding, PortalThere,
     FlowInv, SessionInv, OneSession, Alive, Connect, Register, Become,
     mcpRuntimeVars, mcpTableVars, mcpCallerVars, mcpEventVars
<1>7. ReplacedFlowsAreWoken'
  BY Numbered, McpAssumption DEF McpInv, McpTypeOK, FlowInv, CallerInv, Woken,
     ReplacedFlowsAreWoken, Connect, Register, Become, mcpRuntimeVars,
     mcpTableVars, mcpCallerVars, mcpEventVars
<1> QED BY <1>1, <1>2, <1>3, <1>4, <1>5, <1>6, <1>7 DEF McpInv

LEMMA ConnectUnaskedStep ==
    ASSUME McpInv, NEW f \in Flows, ConnectUnasked(f)
    PROVE  McpInv'
<1>1. McpTypeOK'
  BY Numbered, McpAssumption DEF McpInv, McpTypeOK, FlowInv, CallerInv, Runners,
     Results, Creating, ConnectUnasked, Register, Become, mcpRuntimeVars,
     mcpTableVars, mcpCallerVars, mcpEventVars
<1>2. LockInv'
  BY Numbered, McpAssumption DEF McpInv, McpTypeOK, LockInv, Holding, PortalThere,
     ConnectUnasked, Register, Become, mcpRuntimeVars, mcpTableVars, mcpCallerVars,
     mcpEventVars
<1>3. FlowInv'
  BY Numbered, McpAssumption DEF McpInv, McpTypeOK, FlowInv, ConnectUnasked,
     Register, Become, mcpRuntimeVars, mcpTableVars, mcpCallerVars, mcpEventVars
<1>4. CallerInv'
  BY Numbered, McpAssumption DEF McpInv, McpTypeOK, LockInv, Holding, FlowInv,
     CallerInv, Woken, ConnectUnasked, Register, Become, mcpRuntimeVars,
     mcpTableVars, mcpCallerVars, mcpEventVars
<1>5. SessionInv'
  BY Numbered, McpAssumption DEF McpInv, McpTypeOK, LockInv, Holding, PortalThere,
     FlowInv, CallerInv, SessionInv, Alive, ConnectUnasked, Register, Become,
     mcpRuntimeVars, mcpTableVars, mcpCallerVars, mcpEventVars
<1>6. OneSession'
  BY Numbered, McpAssumption DEF McpInv, McpTypeOK, LockInv, Holding, PortalThere,
     FlowInv, SessionInv, OneSession, Alive, ConnectUnasked, Register, Become,
     mcpRuntimeVars, mcpTableVars, mcpCallerVars, mcpEventVars
<1>7. ReplacedFlowsAreWoken'
  BY Numbered, McpAssumption DEF McpInv, McpTypeOK, FlowInv, CallerInv, Woken,
     ReplacedFlowsAreWoken, ConnectUnasked, Register, Become, mcpRuntimeVars,
     mcpTableVars, mcpCallerVars, mcpEventVars
<1> QED BY <1>1, <1>2, <1>3, <1>4, <1>5, <1>6, <1>7 DEF McpInv

LEMMA ChallengeStep ==
    ASSUME McpInv, NEW f \in Flows, Challenge(f)
    PROVE  McpInv'
<1>1. McpTypeOK'
  BY Numbered, McpAssumption DEF McpInv, McpTypeOK, FlowInv, CallerInv, Runners,
     Results, Creating, Challenge, Become, mcpRuntimeVars, mcpTableVars,
     mcpCallerVars, mcpEventVars
<1>2. LockInv'
  BY Numbered, McpAssumption DEF McpInv, McpTypeOK, LockInv, Holding, PortalThere,
     Challenge, Become, mcpRuntimeVars, mcpTableVars, mcpCallerVars, mcpEventVars
<1>3. FlowInv'
  BY Numbered, McpAssumption DEF McpInv, McpTypeOK, FlowInv, Challenge, Become,
     mcpRuntimeVars, mcpTableVars, mcpCallerVars, mcpEventVars
<1>4. CallerInv'
  BY Numbered, McpAssumption DEF McpInv, McpTypeOK, LockInv, Holding, FlowInv,
     CallerInv, Woken, Challenge, Become, mcpRuntimeVars, mcpTableVars,
     mcpCallerVars, mcpEventVars
<1>5. SessionInv'
  BY Numbered, McpAssumption DEF McpInv, McpTypeOK, LockInv, Holding, PortalThere,
     FlowInv, CallerInv, SessionInv, Alive, Challenge, Become, mcpRuntimeVars,
     mcpTableVars, mcpCallerVars, mcpEventVars
<1>6. OneSession'
  BY Numbered, McpAssumption DEF McpInv, McpTypeOK, LockInv, Holding, PortalThere,
     FlowInv, SessionInv, OneSession, Alive, Challenge, Become, mcpRuntimeVars,
     mcpTableVars, mcpCallerVars, mcpEventVars
<1>7. ReplacedFlowsAreWoken'
  BY Numbered, McpAssumption DEF McpInv, McpTypeOK, FlowInv, CallerInv, Woken,
     ReplacedFlowsAreWoken, Challenge, Become, mcpRuntimeVars, mcpTableVars,
     mcpCallerVars, mcpEventVars
<1> QED BY <1>1, <1>2, <1>3, <1>4, <1>5, <1>6, <1>7 DEF McpInv

LEMMA FailStep ==
    ASSUME McpInv, NEW f \in Flows, Fail(f)
    PROVE  McpInv'
<1>1. McpTypeOK'
  BY Numbered, McpAssumption DEF McpInv, McpTypeOK, FlowInv, CallerInv, Runners,
     Results, Creating, Fail, Become, mcpRuntimeVars, mcpTableVars, mcpCallerVars,
     mcpEventVars
<1>2. LockInv'
  BY Numbered, McpAssumption DEF McpInv, McpTypeOK, LockInv, Holding, PortalThere,
     Fail, Become, mcpRuntimeVars, mcpTableVars, mcpCallerVars, mcpEventVars
<1>3. FlowInv'
  BY Numbered, McpAssumption DEF McpInv, McpTypeOK, FlowInv, Fail, Become,
     mcpRuntimeVars, mcpTableVars, mcpCallerVars, mcpEventVars
<1>4. CallerInv'
  BY Numbered, McpAssumption DEF McpInv, McpTypeOK, LockInv, Holding, FlowInv,
     CallerInv, Woken, Fail, Become, mcpRuntimeVars, mcpTableVars, mcpCallerVars,
     mcpEventVars
<1>5. SessionInv'
  BY Numbered, McpAssumption DEF McpInv, McpTypeOK, LockInv, Holding, PortalThere,
     FlowInv, CallerInv, SessionInv, Alive, Fail, Become, mcpRuntimeVars,
     mcpTableVars, mcpCallerVars, mcpEventVars
<1>6. OneSession'
  BY Numbered, McpAssumption DEF McpInv, McpTypeOK, LockInv, Holding, PortalThere,
     FlowInv, SessionInv, OneSession, Alive, Fail, Become, mcpRuntimeVars,
     mcpTableVars, mcpCallerVars, mcpEventVars
<1>7. ReplacedFlowsAreWoken'
  BY Numbered, McpAssumption DEF McpInv, McpTypeOK, FlowInv, CallerInv, Woken,
     ReplacedFlowsAreWoken, Fail, Become, mcpRuntimeVars, mcpTableVars,
     mcpCallerVars, mcpEventVars
<1> QED BY <1>1, <1>2, <1>3, <1>4, <1>5, <1>6, <1>7 DEF McpInv

LEMMA CallbackFailsStep ==
    ASSUME McpInv, NEW f \in Flows, CallbackFails(f)
    PROVE  McpInv'
<1>1. McpTypeOK'
  BY Numbered, McpAssumption DEF McpInv, McpTypeOK, FlowInv, CallerInv, Runners,
     Results, Creating, CallbackFails, Become, mcpRuntimeVars, mcpTableVars,
     mcpCallerVars, mcpEventVars
<1>2. LockInv'
  BY Numbered, McpAssumption DEF McpInv, McpTypeOK, LockInv, Holding, PortalThere,
     CallbackFails, Become, mcpRuntimeVars, mcpTableVars, mcpCallerVars,
     mcpEventVars
<1>3. FlowInv'
  BY Numbered, McpAssumption DEF McpInv, McpTypeOK, FlowInv, CallbackFails, Become,
     mcpRuntimeVars, mcpTableVars, mcpCallerVars, mcpEventVars
<1>4. CallerInv'
  BY Numbered, McpAssumption DEF McpInv, McpTypeOK, LockInv, Holding, FlowInv,
     CallerInv, Woken, CallbackFails, Become, mcpRuntimeVars, mcpTableVars,
     mcpCallerVars, mcpEventVars
<1>5. SessionInv'
  BY Numbered, McpAssumption DEF McpInv, McpTypeOK, LockInv, Holding, PortalThere,
     FlowInv, CallerInv, SessionInv, Alive, CallbackFails, Become, mcpRuntimeVars,
     mcpTableVars, mcpCallerVars, mcpEventVars
<1>6. OneSession'
  BY Numbered, McpAssumption DEF McpInv, McpTypeOK, LockInv, Holding, PortalThere,
     FlowInv, SessionInv, OneSession, Alive, CallbackFails, Become, mcpRuntimeVars,
     mcpTableVars, mcpCallerVars, mcpEventVars
<1>7. ReplacedFlowsAreWoken'
  BY Numbered, McpAssumption DEF McpInv, McpTypeOK, FlowInv, CallerInv, Woken,
     ReplacedFlowsAreWoken, CallbackFails, Become, mcpRuntimeVars, mcpTableVars,
     mcpCallerVars, mcpEventVars
<1> QED BY <1>1, <1>2, <1>3, <1>4, <1>5, <1>6, <1>7 DEF McpInv

LEMMA CallbackResumesStep ==
    ASSUME McpInv, NEW f \in Flows, CallbackResumes(f)
    PROVE  McpInv'
<1>1. McpTypeOK'
  BY Numbered, McpAssumption DEF McpInv, McpTypeOK, FlowInv, CallerInv, Runners,
     Results, Creating, CallbackResumes, Become, mcpRuntimeVars, mcpTableVars,
     mcpCallerVars, mcpEventVars
<1>2. LockInv'
  BY Numbered, McpAssumption DEF McpInv, McpTypeOK, LockInv, Holding, PortalThere,
     CallbackResumes, Become, mcpRuntimeVars, mcpTableVars, mcpCallerVars,
     mcpEventVars
<1>3. FlowInv'
  BY Numbered, McpAssumption DEF McpInv, McpTypeOK, FlowInv, CallbackResumes,
     Become, mcpRuntimeVars, mcpTableVars, mcpCallerVars, mcpEventVars
<1>4. CallerInv'
  <2>1. mcpRunner[f] = "waiting"
        /\ UNCHANGED <<mcpAuth, mcpHandler, mcpPc, mcpFlow, mcpOwner, mcpResult,
                       mcpSubmitted>>
    BY DEF CallbackResumes, mcpTableVars, mcpCallerVars, mcpEventVars
  <2>2. \A g \in Flows : g # f => mcpRunner'[g] = mcpRunner[g]
    BY DEF CallbackResumes, Become, McpInv, McpTypeOK
  <2> QED BY <2>1, <2>2 DEF McpInv, CallerInv, Woken
<1>5. SessionInv'
  BY Numbered, McpAssumption DEF McpInv, McpTypeOK, LockInv, Holding, PortalThere,
     FlowInv, CallerInv, SessionInv, Alive, CallbackResumes, Become,
     mcpRuntimeVars, mcpTableVars, mcpCallerVars, mcpEventVars
<1>6. OneSession'
  BY Numbered, McpAssumption DEF McpInv, McpTypeOK, LockInv, Holding, PortalThere,
     FlowInv, SessionInv, OneSession, Alive, CallbackResumes, Become,
     mcpRuntimeVars, mcpTableVars, mcpCallerVars, mcpEventVars
<1>7. ReplacedFlowsAreWoken'
  BY Numbered, McpAssumption DEF McpInv, McpTypeOK, FlowInv, CallerInv, Woken,
     ReplacedFlowsAreWoken, CallbackResumes, Become, mcpRuntimeVars, mcpTableVars,
     mcpCallerVars, mcpEventVars
<1> QED BY <1>1, <1>2, <1>3, <1>4, <1>5, <1>6, <1>7 DEF McpInv

LEMMA AuthorizedStep ==
    ASSUME McpInv, NEW f \in Flows, Authorized(f)
    PROVE  McpInv'
<1>1. McpTypeOK'
  BY Numbered, McpAssumption DEF McpInv, McpTypeOK, FlowInv, CallerInv, Runners,
     Results, Creating, Authorized, Register, Become, mcpRuntimeVars, mcpTableVars,
     mcpCallerVars, mcpEventVars
<1>2. LockInv'
  BY Numbered, McpAssumption DEF McpInv, McpTypeOK, LockInv, Holding, PortalThere,
     Authorized, Register, Become, mcpRuntimeVars, mcpTableVars, mcpCallerVars,
     mcpEventVars
<1>3. FlowInv'
  BY Numbered, McpAssumption DEF McpInv, McpTypeOK, FlowInv, Authorized, Register,
     Become, mcpRuntimeVars, mcpTableVars, mcpCallerVars, mcpEventVars
<1>4. CallerInv'
  BY Numbered, McpAssumption DEF McpInv, McpTypeOK, LockInv, Holding, FlowInv,
     CallerInv, Woken, Authorized, Register, Become, mcpRuntimeVars, mcpTableVars,
     mcpCallerVars, mcpEventVars
<1>5. SessionInv'
  BY Numbered, McpAssumption DEF McpInv, McpTypeOK, LockInv, Holding, PortalThere,
     FlowInv, CallerInv, SessionInv, Alive, Authorized, Register, Become,
     mcpRuntimeVars, mcpTableVars, mcpCallerVars, mcpEventVars
<1>6. OneSession'
  BY Numbered, McpAssumption DEF McpInv, McpTypeOK, LockInv, Holding, PortalThere,
     FlowInv, SessionInv, OneSession, Alive, Authorized, Register, Become,
     mcpRuntimeVars, mcpTableVars, mcpCallerVars, mcpEventVars
<1>7. ReplacedFlowsAreWoken'
  BY Numbered, McpAssumption DEF McpInv, McpTypeOK, FlowInv, CallerInv, Woken,
     ReplacedFlowsAreWoken, Authorized, Register, Become, mcpRuntimeVars,
     mcpTableVars, mcpCallerVars, mcpEventVars
<1> QED BY <1>1, <1>2, <1>3, <1>4, <1>5, <1>6, <1>7 DEF McpInv

LEMMA RunnerStopsStep ==
    ASSUME McpInv, NEW f \in Flows, RunnerStops(f)
    PROVE  McpInv'
<1>1. McpTypeOK'
  BY Numbered, McpAssumption DEF McpInv, McpTypeOK, FlowInv, CallerInv, Runners,
     Results, Creating, RunnerStops, Become, mcpRuntimeVars, mcpTableVars,
     mcpCallerVars, mcpEventVars
<1>2. LockInv'
  BY Numbered, McpAssumption DEF McpInv, McpTypeOK, LockInv, Holding, PortalThere,
     RunnerStops, Become, mcpRuntimeVars, mcpTableVars, mcpCallerVars, mcpEventVars
<1>3. FlowInv'
  BY Numbered, McpAssumption DEF McpInv, McpTypeOK, FlowInv, RunnerStops, Become,
     mcpRuntimeVars, mcpTableVars, mcpCallerVars, mcpEventVars
<1>4. CallerInv'
  BY Numbered, McpAssumption DEF McpInv, McpTypeOK, LockInv, Holding, FlowInv,
     CallerInv, Woken, RunnerStops, Become, mcpRuntimeVars, mcpTableVars,
     mcpCallerVars, mcpEventVars
<1>5. SessionInv'
  BY Numbered, McpAssumption DEF McpInv, McpTypeOK, LockInv, Holding, PortalThere,
     FlowInv, CallerInv, SessionInv, Alive, RunnerStops, Become, mcpRuntimeVars,
     mcpTableVars, mcpCallerVars, mcpEventVars
<1>6. OneSession'
  BY Numbered, McpAssumption DEF McpInv, McpTypeOK, LockInv, Holding, PortalThere,
     FlowInv, SessionInv, OneSession, Alive, RunnerStops, Become, mcpRuntimeVars,
     mcpTableVars, mcpCallerVars, mcpEventVars
<1>7. ReplacedFlowsAreWoken'
  BY Numbered, McpAssumption DEF McpInv, McpTypeOK, FlowInv, CallerInv, Woken,
     ReplacedFlowsAreWoken, RunnerStops, Become, mcpRuntimeVars, mcpTableVars,
     mcpCallerVars, mcpEventVars
<1> QED BY <1>1, <1>2, <1>3, <1>4, <1>5, <1>6, <1>7 DEF McpInv

LEMMA ConnectionLostStep ==
    ASSUME McpInv, NEW f \in Flows, ConnectionLost(f)
    PROVE  McpInv'
<1>1. McpTypeOK'
  BY Numbered, McpAssumption DEF McpInv, McpTypeOK, FlowInv, CallerInv, Runners,
     Results, Creating, ConnectionLost, Become, mcpRuntimeVars, mcpTableVars,
     mcpCallerVars, mcpEventVars
<1>2. LockInv'
  BY Numbered, McpAssumption DEF McpInv, McpTypeOK, LockInv, Holding, PortalThere,
     ConnectionLost, Become, mcpRuntimeVars, mcpTableVars, mcpCallerVars,
     mcpEventVars
<1>3. FlowInv'
  BY Numbered, McpAssumption DEF McpInv, McpTypeOK, FlowInv, ConnectionLost,
     Become, mcpRuntimeVars, mcpTableVars, mcpCallerVars, mcpEventVars
<1>4. CallerInv'
  BY Numbered, McpAssumption DEF McpInv, McpTypeOK, LockInv, Holding, FlowInv,
     CallerInv, Woken, ConnectionLost, Become, mcpRuntimeVars, mcpTableVars,
     mcpCallerVars, mcpEventVars
<1>5. SessionInv'
  BY Numbered, McpAssumption DEF McpInv, McpTypeOK, LockInv, Holding, PortalThere,
     FlowInv, CallerInv, SessionInv, Alive, ConnectionLost, Become, mcpRuntimeVars,
     mcpTableVars, mcpCallerVars, mcpEventVars
<1>6. OneSession'
  BY Numbered, McpAssumption DEF McpInv, McpTypeOK, LockInv, Holding, PortalThere,
     FlowInv, SessionInv, OneSession, Alive, ConnectionLost, Become,
     mcpRuntimeVars, mcpTableVars, mcpCallerVars, mcpEventVars
<1>7. ReplacedFlowsAreWoken'
  BY Numbered, McpAssumption DEF McpInv, McpTypeOK, FlowInv, CallerInv, Woken,
     ReplacedFlowsAreWoken, ConnectionLost, Become, mcpRuntimeVars, mcpTableVars,
     mcpCallerVars, mcpEventVars
<1> QED BY <1>1, <1>2, <1>3, <1>4, <1>5, <1>6, <1>7 DEF McpInv

LEMMA CloseStep ==
    ASSUME McpInv, Close
    PROVE  McpInv'
<1>1. McpTypeOK'
  <2>1. {mcpHandler[v] : v \in Convs} \ {NoFlow} \subseteq Flows
    BY DEF McpInv, McpTypeOK
  <2>2. mcpResult' \in [Flows -> Results] /\ mcpSubmitted' \subseteq Flows
        /\ mcpStopped' \subseteq Flows
    BY <2>1 DEF McpInv, McpTypeOK, Close, Results, mcpEventVars
  <2>3. mcpClosed' \in BOOLEAN /\ mcpPhase' = "closed" /\ mcpEvents' \subseteq Flows
    BY DEF McpInv, McpTypeOK, Close, mcpEventVars
  <2> QED BY <2>2, <2>3 DEF McpInv, McpTypeOK, Close, mcpTableVars, mcpCallerVars
<1>2. LockInv'
  BY Numbered, McpAssumption DEF McpInv, McpTypeOK, LockInv, Holding, PortalThere,
     Close, PortalThere, mcpRuntimeVars, mcpTableVars, mcpCallerVars,
     mcpEventVars
<1>3. FlowInv'
  BY Numbered, McpAssumption DEF McpInv, McpTypeOK, FlowInv, Close, PortalThere,
     mcpRuntimeVars, mcpTableVars, mcpCallerVars, mcpEventVars
<1>4. CallerInv'
  <2>1. \A f \in Flows : mcpResult'[f] \in {mcpResult[f], "cancelled"}
    BY DEF Close, mcpEventVars
  <2>2. mcpSubmitted \subseteq mcpSubmitted'
    BY DEF Close, mcpEventVars
  <2>3. UNCHANGED <<mcpAuth, mcpHandler, mcpPc, mcpFlow, mcpOwner, mcpRunner>>
    BY DEF Close, mcpTableVars, mcpCallerVars
  <2>4. \A c \in Callers : mcpHandler[ConvOf[c]] \in Flows \cup {NoFlow}
    BY McpAssumption DEF McpInv, McpTypeOK
  <2> QED BY <2>1, <2>2, <2>3, <2>4 DEF McpInv, CallerInv, Woken
<1>5. SessionInv'
  BY Numbered, McpAssumption DEF McpInv, McpTypeOK, LockInv, Holding, PortalThere,
     FlowInv, CallerInv, SessionInv, Alive, Close, PortalThere, mcpRuntimeVars,
     mcpTableVars, mcpCallerVars, mcpEventVars
<1>6. OneSession'
  BY Numbered, McpAssumption DEF McpInv, McpTypeOK, LockInv, Holding, PortalThere,
     FlowInv, SessionInv, OneSession, Alive, Close, PortalThere, mcpRuntimeVars,
     mcpTableVars, mcpCallerVars, mcpEventVars
<1>7. ReplacedFlowsAreWoken'
  <2>1. \A f \in Flows : mcpResult'[f] \in {mcpResult[f], "cancelled"}
    BY DEF Close, mcpEventVars
  <2>2. mcpSubmitted \subseteq mcpSubmitted'
    BY DEF Close, mcpEventVars
  <2>3. UNCHANGED <<mcpAuth, mcpHandler, mcpOwner, mcpRunner>>
    BY DEF Close, mcpTableVars
  <2> QED BY <2>1, <2>2, <2>3 DEF McpInv, ReplacedFlowsAreWoken
<1> QED BY <1>1, <1>2, <1>3, <1>4, <1>5, <1>6, <1>7 DEF McpInv

LEMMA ShutdownStep ==
    ASSUME McpInv, Shutdown
    PROVE  McpInv'
<1>1. McpTypeOK'
  BY Numbered, McpAssumption DEF McpInv, McpTypeOK, FlowInv, CallerInv, Runners,
     Results, Creating, Shutdown, mcpRuntimeVars, mcpTableVars,
     mcpCallerVars, mcpEventVars
<1>2. LockInv'
  BY Numbered, McpAssumption DEF McpInv, McpTypeOK, LockInv, Holding, PortalThere,
     Shutdown, mcpRuntimeVars, mcpTableVars,
     mcpCallerVars, mcpEventVars
<1>3. FlowInv'
  BY Numbered, McpAssumption DEF McpInv, McpTypeOK, FlowInv, Shutdown, mcpRuntimeVars, mcpTableVars,
     mcpCallerVars, mcpEventVars
<1>4. CallerInv'
  BY Numbered, McpAssumption DEF McpInv, McpTypeOK, LockInv, Holding, FlowInv,
     CallerInv, Woken, Shutdown, mcpRuntimeVars, mcpTableVars,
     mcpCallerVars, mcpEventVars
<1>5. SessionInv'
  BY Numbered, McpAssumption DEF McpInv, McpTypeOK, LockInv, Holding, PortalThere,
     FlowInv, CallerInv, SessionInv, Alive, Shutdown, mcpRuntimeVars, mcpTableVars,
     mcpCallerVars, mcpEventVars
<1>6. OneSession'
  BY Numbered, McpAssumption DEF McpInv, McpTypeOK, LockInv, Holding, PortalThere,
     FlowInv, CallerInv, SessionInv, OneSession, Alive, Shutdown,
     mcpRuntimeVars, mcpTableVars,
     mcpCallerVars, mcpEventVars
<1>7. ReplacedFlowsAreWoken'
  BY Numbered, McpAssumption DEF McpInv, McpTypeOK, FlowInv, CallerInv, Woken,
     ReplacedFlowsAreWoken, Shutdown, mcpRuntimeVars, mcpTableVars,
     mcpCallerVars, mcpEventVars
<1> QED BY <1>1, <1>2, <1>3, <1>4, <1>5, <1>6, <1>7 DEF McpInv

LEMMA LeavePortalStep ==
    ASSUME McpInv, LeavePortal
    PROVE  McpInv'
<1>1. McpTypeOK'
  BY Numbered, McpAssumption DEF McpInv, McpTypeOK, FlowInv, CallerInv, Runners,
     Results, Creating, LeavePortal, mcpRuntimeVars, mcpTableVars, mcpCallerVars,
     mcpEventVars
<1>2. LockInv'
  BY Numbered, McpAssumption DEF McpInv, McpTypeOK, LockInv, Holding, PortalThere,
     LeavePortal, mcpRuntimeVars, mcpTableVars, mcpCallerVars, mcpEventVars
<1>3. FlowInv'
  BY Numbered, McpAssumption DEF McpInv, McpTypeOK, FlowInv, LeavePortal,
     mcpRuntimeVars, mcpTableVars, mcpCallerVars, mcpEventVars
<1>4. CallerInv'
  BY Numbered, McpAssumption DEF McpInv, McpTypeOK, LockInv, Holding, FlowInv,
     CallerInv, Woken, LeavePortal, mcpRuntimeVars, mcpTableVars, mcpCallerVars,
     mcpEventVars
<1>5. SessionInv'
  BY Numbered, McpAssumption DEF McpInv, McpTypeOK, LockInv, Holding, PortalThere,
     FlowInv, CallerInv, SessionInv, Alive, LeavePortal, mcpRuntimeVars,
     mcpTableVars, mcpCallerVars, mcpEventVars
<1>6. OneSession'
  BY Numbered, McpAssumption DEF McpInv, McpTypeOK, LockInv, Holding, PortalThere,
     FlowInv, SessionInv, OneSession, Alive, LeavePortal, mcpRuntimeVars,
     mcpTableVars, mcpCallerVars, mcpEventVars
<1>7. ReplacedFlowsAreWoken'
  BY Numbered, McpAssumption DEF McpInv, McpTypeOK, FlowInv, CallerInv, Woken,
     ReplacedFlowsAreWoken, LeavePortal, mcpRuntimeVars, mcpTableVars,
     mcpCallerVars, mcpEventVars
<1> QED BY <1>1, <1>2, <1>3, <1>4, <1>5, <1>6, <1>7 DEF McpInv

LEMMA InitializeStep ==
    ASSUME McpInv, Initialize
    PROVE  McpInv'
<1>1. McpTypeOK'
  BY Numbered, McpAssumption DEF McpInv, McpTypeOK, FlowInv, CallerInv, Runners,
     Results, Creating, Initialize, mcpRuntimeVars, mcpTableVars, mcpCallerVars,
     mcpEventVars
<1>2. LockInv'
  BY Numbered, McpAssumption DEF McpInv, McpTypeOK, LockInv, Holding, PortalThere,
     Initialize, mcpRuntimeVars, mcpTableVars, mcpCallerVars, mcpEventVars
<1>3. FlowInv'
  BY Numbered, McpAssumption DEF McpInv, McpTypeOK, FlowInv, Initialize,
     mcpRuntimeVars, mcpTableVars, mcpCallerVars, mcpEventVars
<1>4. CallerInv'
  BY Numbered, McpAssumption DEF McpInv, McpTypeOK, LockInv, Holding, FlowInv,
     CallerInv, Woken, Initialize, mcpRuntimeVars, mcpTableVars, mcpCallerVars,
     mcpEventVars
<1>5. SessionInv'
  BY Numbered, McpAssumption DEF McpInv, McpTypeOK, LockInv, Holding, PortalThere,
     FlowInv, CallerInv, SessionInv, Alive, Initialize, mcpRuntimeVars,
     mcpTableVars, mcpCallerVars, mcpEventVars
<1>6. OneSession'
  BY Numbered, McpAssumption DEF McpInv, McpTypeOK, LockInv, Holding, PortalThere,
     FlowInv, SessionInv, OneSession, Alive, Initialize, mcpRuntimeVars,
     mcpTableVars, mcpCallerVars, mcpEventVars
<1>7. ReplacedFlowsAreWoken'
  BY Numbered, McpAssumption DEF McpInv, McpTypeOK, FlowInv, CallerInv, Woken,
     ReplacedFlowsAreWoken, Initialize, mcpRuntimeVars, mcpTableVars,
     mcpCallerVars, mcpEventVars
<1> QED BY <1>1, <1>2, <1>3, <1>4, <1>5, <1>6, <1>7 DEF McpInv

-----------------------------------------------------------------------------
LEMMA McpStep == McpInv /\ [McpNext]_mcpVars => McpInv'
BY McpStutterStep, LookUpStep, FindLockedStep, LockToCreateStep, CancelPreviousStep,
   BindFlowStep, StartRunnerStep, PortalGoneStep, ReceiveClosedStep,
   ReceiveSessionStep, ReceiveChallengeStep, ReceiveErrorStep,
   McpSubmitStep, SubmitWakesStep, SubmitReturnsStep, ConnectStep,
   ConnectUnaskedStep, ChallengeStep, FailStep, CallbackFailsStep,
   CallbackResumesStep, AuthorizedStep, RunnerStopsStep, ConnectionLostStep,
   CloseStep, ShutdownStep, LeavePortalStep, InitializeStep
   DEF McpNext, Locked, Call, Runner

LEMMA McpInvariant == McpSpec => []McpInv
BY McpStart, McpStep, PTL DEF McpSpec

\* The tables of the runtime, its flows and what its threads do are always well
\* formed, for any number of threads, conversations and flows.
THEOREM McpTypeCorrect == McpSpec => []McpTypeOK
<1>1. McpInv => McpTypeOK
  BY DEF McpInv
<1> QED BY <1>1, McpInvariant, PTL

\* Without OAuth a conversation has one session at a time besides those that were
\* told to stop, however many threads create one for it at the same time, and
\* wherever in their calls a shutdown finds them (get_or_create_session).
THEOREM SessionIsUnique == McpSpec => []OneSession
<1>1. McpInv => OneSession
  BY DEF McpInv
<1> QED BY <1>1, McpInvariant, PTL

\* A flow that waits for an answer is replaced only after its handler has been
\* given a result and its event has been set (_cancel_oauth_flow).
THEOREM NoFlowIsForgotten == McpSpec => []ReplacedFlowsAreWoken
<1>1. McpInv => ReplacedFlowsAreWoken
  BY DEF McpInv
<1> QED BY <1>1, McpInvariant, PTL

=============================================================================

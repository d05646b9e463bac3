--------------------------- MODULE ExecutionScopes ---------------------------
(***************************************************************************)
(* The scopes an execution opens and must leave again whatever happens in  *)
(* them: spans, which are announced to the processors of the trace, and    *)
(* executions of conversations, which have a span and an event listener of *)
(* their own that asks the interrupts.  While a conversation executes the  *)
(* listeners of the conversations around it are switched off.              *)
(*                                                                         *)
(* Two spans are not left like this: that of a message that is streamed,   *)
(* which is started and ended by hand, and that of a generation whose      *)
(* stream nobody reads any more, which its generator holds.                *)
(*                                                                         *)
(* The stack of spans and the registry of listeners are context variables: *)
(* a branch that runs in parallel starts with a copy of both.  The         *)
(* listeners themselves are shared by all branches.                        *)
(***************************************************************************)
EXTENDS Naturals, Sequences, SequencesExt

CONSTANTS
    ScMain,        \* the task that executes the outermost conversation
    ScBranches,    \* the tasks of a step that runs its items in parallel
    ScProcessors,  \* number of span processors of the trace
    ScMaxDepth,    \* bound: scopes a task has open
    ScMaxSpans     \* bound: spans on its stack

ASSUME ScAssumption ==
    /\ ScMain \notin ScBranches
    /\ ScProcessors \in Nat /\ ScMaxDepth \in Nat /\ ScMaxSpans \in Nat

ScTasks == {ScMain} \cup ScBranches
\* A scope, its span and, if it executes a conversation, its listener.
Scopes == ScTasks \X (1..ScMaxDepth)
StreamSpan(t) == <<t, 0>>
Spans == ScTasks \X (0..ScMaxDepth)
Processors == 1..ScProcessors
Scope == [run : BOOLEAN, silenced : SUBSET Scopes]

VARIABLES
    scOpen,       \* the with blocks of each task, innermost last
    scSpans,      \* _ACTIVE_SPAN_STACK of each task
    scListeners,  \* the interrupts listeners in its _EVENT_LISTENERS_REGISTRY
    scActive,     \* the listeners with is_active
    scOwed,       \* processors told of the start of a span, not yet of its end
    scRaised,     \* exception in flight, and whether it was recorded as an event
    scRunning,    \* branches in progress; meanwhile the main task waits
    scUnheard,    \* spans whose end the processors were not told of
    scStreaming,  \* tasks that stream a message
    scBroken      \* tasks whose stack has a span nobody will remove

scStreamVars == <<scStreaming, scBroken>>
scVars == <<scOpen, scSpans, scListeners, scActive, scOwed, scRaised, scRunning,
            scUnheard, scStreamVars>>

ScInit ==
    /\ scOpen = [t \in ScTasks |-> <<>>] /\ scSpans = [t \in ScTasks |-> <<>>]
    /\ scListeners = [t \in ScTasks |-> <<>>] /\ scActive = {}
    /\ scOwed = {} /\ scRaised = [t \in ScTasks |-> "none"]
    /\ scRunning = {} /\ scUnheard = {}
    /\ scStreaming = {} /\ scBroken = {}

\* Bound: one span whose end is not told of.
MayBeUnheard(heard) == heard \/ scUnheard = {}

Executes(t) == IF t = ScMain THEN scRunning = {} ELSE t \in scRunning
Opened(t) == [i \in 1..Len(scOpen[t]) |-> <<t, i>>]
Announced(k, s) == (1..k) \X {s}

-----------------------------------------------------------------------------
(* Opening a scope.                                                        *)

\* get_interrupts_event_listener_context_for_conversation: every listener that
\* listens belongs to another conversation.
Silenced(t, run) == IF run THEN ToSet(scListeners[t]) \cap scActive ELSE {}

\* A branch executes a conversation of its own.
MayOpen(t, run) ==
    /\ Executes(t) /\ scRaised[t] = "none" /\ Len(scOpen[t]) < ScMaxDepth
    /\ t \notin scStreaming /\ Len(scSpans[t]) < ScMaxSpans
    /\ t \in ScBranches /\ scOpen[t] = <<>> => run

\* Span.start.
ScEnter(t, run) ==
    LET s == <<t, Len(scOpen[t]) + 1>> IN
    /\ MayOpen(t, run)
    /\ scOpen' = [scOpen EXCEPT ![t] =
                     Append(@, [run |-> run, silenced |-> Silenced(t, run)])]
    /\ scSpans' = [scSpans EXCEPT ![t] = Append(@, s)]
    /\ scOwed' = scOwed \cup Announced(ScProcessors, s)
    /\ IF run
       THEN /\ scListeners' = [scListeners EXCEPT ![t] = Append(@, s)]
            /\ scActive' = (scActive \ Silenced(t, run)) \cup {s}
       ELSE UNCHANGED <<scListeners, scActive>>
    /\ UNCHANGED <<scRaised, scRunning, scUnheard, scStreamVars>>

\* Mutant: the span is removed although it was never added.
PoppedBug(stack, appended) == IF stack = <<>> THEN stack ELSE Front(stack)

\* The span leaves the stack if start had come to the point of adding it.
Popped(stack, appended) == IF appended THEN Front(stack) ELSE stack

\* Processor k + 1 raises in on_start, or a listener when the start is recorded:
\* the span is ended before the exception leaves start.  Ending it may raise
\* another one.  The block is not entered: the listener of the conversation is
\* removed, and those it had switched off are on again.
ScEnterFails(t, run, k, heard) ==
    LET s == <<t, Len(scOpen[t]) + 1>>
        appended == k = ScProcessors
        stack == IF appended THEN Append(scSpans[t], s) ELSE scSpans[t]
    IN
    /\ MayOpen(t, run) /\ MayBeUnheard(heard)
    /\ scSpans' = [scSpans EXCEPT ![t] = Popped(stack, appended)]
    /\ scOwed' = IF heard THEN scOwed ELSE scOwed \cup Announced(k, s)
    /\ scUnheard' = IF heard THEN scUnheard ELSE scUnheard \cup {s}
    /\ \E e \in IF heard THEN {"new", "recorded"} ELSE {"new"} :
          scRaised' = [scRaised EXCEPT ![t] = e]
    /\ UNCHANGED <<scOpen, scListeners, scActive, scRunning, scStreamVars>>

-----------------------------------------------------------------------------
(* Leaving a scope.                                                        *)

\* Only the listeners this scope had switched off are switched on again.
Restored(t) ==
    IF Last(scOpen[t]).run
    THEN (scActive \ {Last(scListeners[t])}) \cup Last(scOpen[t]).silenced
    ELSE scActive

\* Span.end and the end of the listener's context.  An exception is recorded
\* once; if a listener raises then, the processors are not told of the end.
\* Otherwise a processor may raise in on_end, or a listener at the end event.
ScExit(t, heard) ==
    LET s == <<t, Len(scOpen[t])>> IN
    /\ Executes(t) /\ scOpen[t] # <<>> /\ t \notin scStreaming
    /\ ~heard => scRaised[t] = "new" /\ MayBeUnheard(heard)
    /\ scOpen' = [scOpen EXCEPT ![t] = Front(@)]
    /\ scSpans' = [scSpans EXCEPT ![t] = Popped(@, TRUE)]
    /\ scActive' = Restored(t)
    /\ scListeners' = IF Last(scOpen[t]).run
                      THEN [scListeners EXCEPT ![t] = Front(@)] ELSE scListeners
    /\ scOwed' = IF heard THEN scOwed \ Announced(ScProcessors, s) ELSE scOwed
    /\ scUnheard' = IF heard THEN scUnheard ELSE scUnheard \cup {s}
    /\ \E e \in IF ~heard THEN {"new"}
               ELSE {"new", IF scRaised[t] = "none" THEN "none" ELSE "recorded"} :
          scRaised' = [scRaised EXCEPT ![t] = e]
    /\ UNCHANGED <<scRunning, scStreamVars>>

-----------------------------------------------------------------------------
(* Streamed messages.                                                      *)

\* START_CHUNK: the span is started, by hand.
ScStreamStart(t) ==
    /\ Executes(t) /\ scOpen[t] # <<>> /\ scRaised[t] = "none"
    /\ t \notin scStreaming /\ Len(scSpans[t]) < ScMaxSpans
    /\ scSpans' = [scSpans EXCEPT ![t] = Append(@, StreamSpan(t))]
    /\ scStreaming' = scStreaming \cup {t}
    /\ UNCHANGED <<scOpen, scListeners, scActive, scOwed, scRaised, scRunning,
                   scUnheard, scBroken>>

\* END_CHUNK: it is ended, and a processor may raise in on_end.
ScStreamEnd(t) ==
    /\ Executes(t) /\ t \in scStreaming
    /\ scSpans' = [scSpans EXCEPT ![t] = Popped(@, TRUE)]
    /\ scStreaming' = scStreaming \ {t}
    /\ \E e \in {"none", "new"} : scRaised' = [scRaised EXCEPT ![t] = e]
    /\ UNCHANGED <<scOpen, scListeners, scActive, scOwed, scRunning, scUnheard,
                   scBroken>>

\* The reader of a stream raises, a listener it calls or on_start of the
\* message's span: the generator is left where it is, inside of its own span.
\* What it does when it is collected, it does in another context.
ScAbandon(t) ==
    /\ Executes(t) /\ scOpen[t] # <<>> /\ scRaised[t] = "none"
    /\ ~Last(scOpen[t]).run /\ scUnheard = {}
    /\ scOpen' = [scOpen EXCEPT ![t] = Front(@)]
    /\ scUnheard' = {<<t, Len(scOpen[t])>>}
    /\ scStreaming' = scStreaming \ {t} /\ scBroken' = scBroken \cup {t}
    /\ scRaised' = [scRaised EXCEPT ![t] = "new"]
    /\ UNCHANGED <<scSpans, scListeners, scActive, scOwed, scRunning>>

-----------------------------------------------------------------------------
(* Exceptions.                                                             *)

\* A step, a model, a tool or a listener raises, or an interrupt does.  The span
\* of a message that is being streamed stays where it is.
ScFail(t) ==
    /\ Executes(t) /\ scOpen[t] # <<>> /\ scRaised[t] = "none"
    /\ scRaised' = [scRaised EXCEPT ![t] = "new"]
    /\ scStreaming' = scStreaming \ {t}
    /\ scBroken' = scBroken \cup ({t} \cap scStreaming)
    /\ UNCHANGED <<scOpen, scSpans, scListeners, scActive, scOwed, scRunning,
                   scUnheard>>

\* An executor catches an interrupt, a step or the caller any exception.
ScCatch(t) ==
    /\ Executes(t) /\ scRaised[t] # "none"
    /\ scRaised' = [scRaised EXCEPT ![t] = "none"]
    /\ UNCHANGED <<scOpen, scSpans, scListeners, scActive, scOwed, scRunning,
                   scUnheard, scStreamVars>>

-----------------------------------------------------------------------------
(* Branches.                                                               *)

\* run_async_function_in_parallel: each branch gets a copy of the context.
ScFork(branches) ==
    /\ Executes(ScMain) /\ scOpen[ScMain] # <<>> /\ scRaised[ScMain] = "none"
    /\ ScMain \notin scStreaming
    /\ branches # {} /\ scRunning' = branches
    /\ scBroken' = IF ScMain \in scBroken THEN scBroken \cup branches ELSE scBroken
    /\ scSpans' = [t \in ScTasks |-> IF t \in branches THEN scSpans[ScMain]
                                    ELSE scSpans[t]]
    /\ scListeners' = [t \in ScTasks |-> IF t \in branches
                                    THEN scListeners[ScMain] ELSE scListeners[t]]
    /\ UNCHANGED <<scOpen, scActive, scOwed, scRaised, scUnheard, scStreaming>>

\* An exception of a branch is raised in the main task, where it has not been
\* recorded.
ScJoin(b) ==
    /\ b \in scRunning /\ scOpen[b] = <<>>
    /\ scRunning' = scRunning \ {b}
    /\ scSpans' = [scSpans EXCEPT ![b] = <<>>]
    /\ scListeners' = [scListeners EXCEPT ![b] = <<>>]
    /\ scRaised' = [scRaised EXCEPT
                      ![ScMain] = IF scRaised[b] = "none" THEN @ ELSE "new",
                      ![b] = "none"]
    /\ scBroken' = scBroken \ {b}
    /\ UNCHANGED <<scOpen, scActive, scOwed, scUnheard, scStreaming>>

-----------------------------------------------------------------------------
ScNext ==
    \/ \E t \in ScTasks :
          \/ \E run \in BOOLEAN :
                \/ ScEnter(t, run)
                \/ \E k \in 0..ScProcessors, heard \in BOOLEAN :
                      ScEnterFails(t, run, k, heard)
          \/ \E heard \in BOOLEAN : ScExit(t, heard)
          \/ ScStreamStart(t) \/ ScStreamEnd(t) \/ ScAbandon(t)
          \/ ScFail(t) \/ ScCatch(t)
    \/ \E branches \in SUBSET ScBranches : ScFork(branches)
    \/ \E b \in ScBranches : ScJoin(b)

ScSpec == ScInit /\ [][ScNext]_scVars

-----------------------------------------------------------------------------
(* Properties.                                                             *)

ScTypeOK ==
    /\ scOpen \in [ScTasks -> Seq(Scope)]
    /\ scSpans \in [ScTasks -> Seq(Spans)]
    /\ scListeners \in [ScTasks -> Seq(Scopes)]
    /\ scActive \subseteq Scopes /\ scUnheard \subseteq Scopes
    /\ scOwed \subseteq Processors \X Scopes
    /\ scRaised \in [ScTasks -> {"none", "new", "recorded"}]
    /\ scRunning \subseteq ScBranches
    /\ scStreaming \subseteq ScTasks /\ scBroken \subseteq ScTasks

\* The current span of a task is the innermost one it has not left, within the
\* span in which its branch was started, and within those the message that it
\* streams.  After a stream that broke there are spans too many, never too few.
Within(t) == IF t = ScMain THEN <<>> ELSE Opened(ScMain)
Streamed(t) == IF t \in scStreaming THEN <<StreamSpan(t)>> ELSE <<>>
SpansFollow ==
    \A t \in ScTasks : Executes(t) =>
        IF t \in scBroken
        THEN Len(scSpans[t]) > Len(Within(t)) + Len(scOpen[t]) + Len(Streamed(t))
        ELSE scSpans[t] = Within(t) \o Opened(t) \o Streamed(t)

\* The interrupts of a conversation are asked while it executes, and outside of
\* parallel branches only those of the innermost one.
ListenersFollow ==
    /\ \A t \in ScTasks : Executes(t) /\ scOpen[t] # <<>> /\ scListeners[t] # <<>>
          => Last(scListeners[t]) \in scActive
    /\ scRunning = {} =>
          scActive = IF scListeners[ScMain] = <<>> THEN {}
                     ELSE {Last(scListeners[ScMain])}

\* A processor that was told of the start of a span is told of its end, unless a
\* listener raised when its exception was recorded, or it is a generation that
\* was abandoned.
StartsAreEnded ==
    \A p \in Processors, s \in Scopes \ scUnheard :
        <<p, s>> \in scOwed <=> s[2] <= Len(scOpen[s[1]])

\* Whatever is raised in a scope, when it is opened or when it is left, and
\* whatever branches do at the same time: who leaves it finds the spans and the
\* listener it had before, and has told the processors.  There are three things
\* the code does not restore, and no others: the span of a stream that broke, the
\* end of a span that could not be told, and, as long as other branches run, the
\* silence of the listeners outside (Span.start, Span.end, _stream_message and
\* get_interrupts_event_listener_context_for_conversation).
ScopesAreLeft == SpansFollow /\ ListenersFollow /\ StartsAreEnded
=============================================================================

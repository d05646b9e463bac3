------------------------- MODULE FlowExecutorProofs -------------------------
(***************************************************************************)
(* Proofs about FlowExecutor: type correctness; that what a step keeps     *)
(* between two invocations never outlives the visit to it; that sub-flows  *)
(* are started as often as they should be and no branch is missing; that   *)
(* what the caller is asked for is asked where the execution goes on; and  *)
(* that input steps take newer messages for their answers.                 *)
(***************************************************************************)
EXTENDS FlowExecutor, TLAPS

-----------------------------------------------------------------------------
(* The inductive invariant.                                                *)

FlowsTyped == /\ conv \in [Flows -> Conversations]
              /\ \A f \in Flows : conv[f].step # None => FlowOf[conv[f].step] = f
CountsTyped == /\ trials \in [Steps -> 0..MaxTrials]
               /\ since \in [Steps -> 0..MaxMessages]
               /\ started \in [Steps -> 0..(MaxTrials + 1)]
ControlTyped == /\ pc \in {"idle", "enter", "loop", "return", "raise"}
                /\ ret \in Statuses
                /\ exc \in Exceptions \cup {"none"}
                /\ pc = "raise" => exc \in Exceptions
RestTyped ==
    /\ error \in Exceptions \cup {"none"}
    /\ landed \in [Flows -> Steps \cup {None}]
    /\ reached \in [Flows -> Steps \cup {None}]
    /\ last \in {"none", "user", "agent", "request", "result"}
    /\ asker \in Steps \cup {None}
    /\ lastUser \in 0..MaxMessages /\ written \in 0..MaxMessages

\* Each flow being executed stands at the composite step whose sub-flow is the
\* next one, and is outside of every later one.
PathInv ==
    /\ path \in Seq(Flows)
    /\ pc # "idle" => path # <<>>
    /\ \A i \in 1..Len(path) : path[i] \in Above[path[i]]
    /\ \A i \in 1..(Len(path) - 1) : /\ conv[path[i]].step # None
                                     /\ Inner[conv[path[i]].step] = path[i + 1]
    /\ \A i, j \in 1..Len(path) : i < j =>
          Above[path[i]] \subseteq Above[path[j]] /\ path[j] \notin Above[path[i]]

\* Only steps that yield keep something.
NotesInv ==
    /\ note \in [Steps -> Notes]
    /\ \A s \in Steps : note[s] # "none" => Kind[s] \in YieldingKinds
    /\ NotesAreCurrent

IInv == /\ FlowsTyped /\ CountsTyped /\ ControlTyped /\ RestTyped
        /\ PathInv /\ NotesInv

LEMMA InvImplies == IInv => TypeOK /\ NotesAreCurrent
BY DEF IInv, FlowsTyped, CountsTyped, ControlTyped, RestTyped, PathInv,
       NotesInv, TypeOK

LEMMA NewTyped ==
    ASSUME NEW f \in Flows
    PROVE  /\ NewConversation(f) \in Conversations
           /\ NewConversation(f).step = Begin[f] /\ Begin[f] \in Steps
           /\ FlowOf[Begin[f]] = f
<1>1. Begin[f] \in Steps /\ FlowOf[Begin[f]] = f
  BY FlowAssumption
<1>2. NoStatus \in Statuses
  BY DEF NoStatus, Statuses, StatusTypes
<1>3. 0 \in 0..MaxMessages
  BY FlowAssumption
<1>4. QED
  BY <1>1, <1>2, <1>3 DEF NewConversation, Conversations

LEMMA StatusTyped ==
    ASSUME NEW t \in StatusTypes, NEW f \in Flows \cup {None},
           NEW s \in Steps \cup {None}
    PROVE  Status(t, f, s) \in Statuses /\ Status(t, f, s).type = t
BY DEF Status, Statuses

LEMMA OwnerChanged ==
    ASSUME NEW s \in Statuses, NEW f \in Flows \cup {None}
    PROVE  [s EXCEPT !.owner = f] \in Statuses
BY DEF Statuses

LEMMA DetachedTyped ==
    ASSUME FlowsTyped, NEW g \in Flows, NEW F
    PROVE  Detached(g, F) \in Conversations /\ Detached(g, F).step = conv[g].step
<1>1. conv[g] \in Conversations /\ conv[g].status \in Statuses
  BY DEF FlowsTyped, Conversations
<1>2. [conv[g].status EXCEPT !.owner = None] \in Statuses
  BY <1>1, OwnerChanged
<1>3. PICK d : d = [conv[g].status EXCEPT !.owner = None]
  OBVIOUS
<1>4. Detached(g, F) = IF conv[g].status.owner \in F
                       THEN [conv[g] EXCEPT !.status = d] ELSE conv[g]
  BY <1>1, <1>3 DEF Detached, Conversations
<1>5. QED
  BY <1>1, <1>2, <1>3, <1>4 DEF Conversations

LEMMA ThreeFields ==
    ASSUME NEW v \in Conversations, NEW s \in Statuses
    PROVE  LET c == [v EXCEPT !.status = s, !.handled = FALSE, !.response = 0]
           IN  c \in Conversations /\ c.step = v.step
<1>1. 0 \in 0..MaxMessages
  BY FlowAssumption
<1>2. PICK c1 \in Conversations : c1 = [v EXCEPT !.status = s]
  BY DEF Conversations
<1>3. PICK c2 \in Conversations : c2 = [c1 EXCEPT !.handled = FALSE]
  BY DEF Conversations
<1>4. PICK c3 \in Conversations : c3 = [c2 EXCEPT !.response = 0]
  BY <1>1 DEF Conversations
<1>5. c3.step = v.step
  BY <1>2, <1>3, <1>4 DEF Conversations
<1>6. c3 = [v EXCEPT !.status = s, !.handled = FALSE, !.response = 0]
  BY <1>2, <1>3, <1>4 DEF Conversations
<1>7. QED
  BY <1>5, <1>6

LEMMA SettledTyped ==
    ASSUME FlowsTyped, NEW f \in Flows, NEW s \in Statuses
    PROVE  /\ Settled(f, s) \in [Flows -> Conversations]
           /\ \A g \in Flows : Settled(f, s)[g].step = conv[g].step
<1> DEFINE c == [conv[f] EXCEPT !.status = s, !.handled = FALSE, !.response = 0]
<1>1. conv[f] \in Conversations
  BY DEF FlowsTyped
<1>2. c \in Conversations /\ c.step = conv[f].step
  BY <1>1, ThreeFields
<1>3. \A g \in Flows : Settled(f, s)[g] = IF g = f THEN c ELSE Detached(g, {f})
  BY DEF Settled
<1>4. DOMAIN Settled(f, s) = Flows /\ Settled(f, s) = [g \in Flows |-> Settled(f, s)[g]]
  BY DEF Settled
<1> HIDE DEF c
<1>5. \A g \in Flows : Settled(f, s)[g] \in Conversations
  BY <1>2, <1>3, DetachedTyped
<1>6. \A g \in Flows : Settled(f, s)[g].step = conv[g].step
  BY <1>2, <1>3, DetachedTyped
<1>7. QED
  BY <1>4, <1>5, <1>6

LEMMA WithoutTyped ==
    ASSUME FlowsTyped, NEW f \in Flows
    PROVE  /\ Without(f) \in [Flows -> Conversations]
           /\ \A g \in Flows : Without(f)[g].step # None
                                  => FlowOf[Without(f)[g].step] = g
           /\ \A g \in Flows \ Below(f) : Without(f)[g].step = conv[g].step
<1>1. \A g \in Flows : Without(f)[g] = IF g \in Below(f) THEN NewConversation(g)
                                       ELSE Detached(g, Below(f))
  BY DEF Without
<1>2. DOMAIN Without(f) = Flows /\ Without(f) = [g \in Flows |-> Without(f)[g]]
  BY DEF Without
<1>3. \A g \in Flows : Without(f)[g] \in Conversations
  BY <1>1, NewTyped, DetachedTyped
<1>4. \A g \in Flows : Without(f)[g].step # None => FlowOf[Without(f)[g].step] = g
  BY <1>1, NewTyped, DetachedTyped DEF FlowsTyped
<1>5. \A g \in Flows \ Below(f) : Without(f)[g].step = conv[g].step
  BY <1>1, DetachedTyped
<1>6. QED
  BY <1>2, <1>3, <1>4, <1>5

LEMMA DestinationTyped ==
    ASSUME NEW s \in Steps, NEW b, Connected(s, b)
    PROVE  /\ Destination(s, b) \in Steps \cup {None}
           /\ Destination(s, b) # None => FlowOf[Destination(s, b)] = FlowOf[s]
<1>1. CASE \A e \in Edges : e[1] # s
  BY <1>1 DEF Destination
<1>2. CASE ~ \A e \in Edges : e[1] # s
  <2>1. \E e \in Edges : e[1] = s /\ e[2] = b
    BY <1>2 DEF Connected
  <2>2. PICK d : d = CHOOSE e \in Edges : e[1] = s /\ e[2] = b
    OBVIOUS
  <2>3. d \in Edges /\ d[1] = s
    BY <2>1, <2>2, Zenon
  <2>4. Destination(s, b) = d[3]
    BY <1>2, <2>2, Zenon DEF Destination
  <2>5. QED
    BY <2>3, <2>4, FlowAssumption
<1>3. QED
  BY <1>1, <1>2

\* A step is left: the other flows stand where c says.
LEMMA LeaveTyped ==
    ASSUME CountsTyped, written \in 0..MaxMessages, ret \in Statuses,
           NEW s \in Steps, NEW b, NEW c \in [Flows -> Conversations],
           \A g \in Flows : c[g].step # None => FlowOf[c[g].step] = g,
           NEW D, Leave(s, b, c, D)
    PROVE  /\ FlowsTyped' /\ ControlTyped' /\ pc' # "idle"
           /\ since' \in [Steps -> 0..MaxMessages]
           /\ started' \in [Steps -> 0..(MaxTrials + 1)]
           /\ \A g \in Flows \ {FlowOf[s]} : conv'[g].step = c[g].step
<1>0. FlowOf[s] \in Flows /\ c[FlowOf[s]] \in Conversations
  BY FlowAssumption
<1>3. /\ since' \in [Steps -> 0..MaxMessages]
      /\ started' \in [Steps -> 0..(MaxTrials + 1)]
  <2>1. PICK A : /\ since' = [t \in Steps |-> IF t \in A THEN written
                                                         ELSE since[t]]
                 /\ started' = [t \in Steps |-> IF t \in A THEN 0
                                                           ELSE started[t]]
    BY DEF Leave
  <2>2. 0 \in 0..(MaxTrials + 1)
    BY FlowAssumption
  <2>3. QED
    BY <2>1, <2>2 DEF CountsTyped
<1>1. CASE Connected(s, b)
  <2>1. PICK d : d = Destination(s, b)
    OBVIOUS
  <2>2. d \in Steps \cup {None} /\ (d # None => FlowOf[d] = FlowOf[s])
    BY <1>1, <2>1, DestinationTyped
  <2>3. /\ conv' = [c EXCEPT ![FlowOf[s]].step = d]
        /\ pc' = "loop" /\ ret' = ret /\ exc' = "none"
    BY <1>1, <2>1 DEF Leave
  <2>4. PICK v : v = [c[FlowOf[s]] EXCEPT !.step = d]
    OBVIOUS
  <2>5. v \in Conversations /\ v.step = d
    BY <1>0, <2>2, <2>4 DEF Conversations
  <2>6. conv' = [c EXCEPT ![FlowOf[s]] = v]
    BY <2>3, <2>4
  <2>7. FlowsTyped'
    BY <1>0, <2>2, <2>5, <2>6 DEF FlowsTyped
  <2>8. \A g \in Flows \ {FlowOf[s]} : conv'[g].step = c[g].step
    BY <2>6
  <2>9. QED
    BY <1>3, <2>3, <2>7, <2>8 DEF ControlTyped
<1>2. CASE ~ Connected(s, b)
  <2>1. conv' = c /\ pc' = "raise" /\ exc' = "internal" /\ ret' = ret
    BY <1>2 DEF Leave, Raise
  <2>2. FlowsTyped'
    BY <2>1 DEF FlowsTyped
  <2>3. QED
    BY <1>3, <2>1, <2>2 DEF ControlTyped, Exceptions
<1>4. QED
  BY <1>1, <1>2

-----------------------------------------------------------------------------
(* The path.                                                               *)

LEMMA PathFacts ==
    ASSUME PathInv, pc # "idle"
    PROVE  /\ Len(path) \in Nat \ {0} /\ Deepest \in Flows
           /\ Deepest = path[Len(path)]
           /\ \A i \in 1..Len(path) : path[i] \in Flows
           /\ \A i \in 1..Len(path) : i # Len(path) =>
                 path[i] # Deepest /\ Deepest \notin Above[path[i]]
           /\ \A i \in 1..Len(path) : Above[path[i]] \subseteq Above[Deepest]
<1>1. path \in Seq(Flows) /\ Len(path) \in Nat \ {0}
  BY DEF PathInv
<1>2. Deepest = path[Len(path)] /\ Deepest \in Flows
  BY <1>1 DEF Deepest
<1>3. ASSUME NEW i \in 1..Len(path), i # Len(path)
      PROVE  /\ path[i] # Deepest /\ Deepest \notin Above[path[i]]
             /\ Above[path[i]] \subseteq Above[Deepest]
  <2>1. i < Len(path) /\ Len(path) \in 1..Len(path)
    BY <1>1, <1>3
  <2>2. path[i] \in Above[path[i]] /\ Deepest \notin Above[path[i]]
        /\ Above[path[i]] \subseteq Above[Deepest]
    BY <1>2, <2>1 DEF PathInv
  <2>3. QED
    BY <2>2
<1>4. QED
  BY <1>1, <1>2, <1>3

LEMMA HereFacts ==
    ASSUME IInv, pc = "loop", Here # None
    PROVE  /\ Deepest \in Flows /\ Here \in Steps /\ FlowOf[Here] = Deepest
           /\ conv[Deepest].step = Here
<1>1. Deepest \in Flows
  BY PathFacts DEF IInv
<1>2. conv[Deepest] \in Conversations /\ Here = conv[Deepest].step
  BY <1>1 DEF IInv, FlowsTyped, Here
<1>3. QED
  BY <1>1, <1>2 DEF IInv, FlowsTyped, Conversations

LEMMA CallerFacts ==
    ASSUME IInv, pc # "idle", Len(path) > 1
    PROVE  /\ Caller \in Flows /\ Composite \in Steps
           /\ FlowOf[Composite] = Caller /\ conv[Caller].step = Composite
           /\ Inner[Composite] = Deepest /\ Deepest \in Flows
           /\ Caller = path[Len(path) - 1]
           /\ Deepest \notin Above[Caller]
<1>1. Len(path) \in Nat /\ Len(path) - 1 \in 1..Len(path)
  BY PathFacts DEF IInv
<1>2. Caller = path[Len(path) - 1] /\ Caller \in Flows /\ Deepest \in Flows
      /\ Deepest \notin Above[Caller] /\ Deepest = path[Len(path)]
  BY <1>1, PathFacts DEF IInv, Caller
<1>3. Composite = conv[Caller].step /\ Composite # None
      /\ Inner[Composite] = path[(Len(path) - 1) + 1]
  BY <1>1, <1>2 DEF IInv, PathInv, Composite
<1>4. Inner[Composite] = Deepest
  BY <1>1, <1>2, <1>3
<1>5. conv[Caller] \in Conversations
  BY <1>2 DEF IInv, FlowsTyped
<1>6. QED
  BY <1>2, <1>3, <1>4, <1>5 DEF IInv, FlowsTyped, Conversations

LEMMA SamePath ==
    ASSUME PathInv, path' = path, pc' # "idle" => path # <<>>,
           \A i \in 1..(Len(path) - 1) : conv'[path[i]].step = conv[path[i]].step
    PROVE  PathInv'
BY DEF PathInv

LEMMA OuterPath ==
    ASSUME PathInv, Len(path) > 1, path' = Outer,
           \A i \in 1..(Len(path) - 2) : conv'[path[i]].step = conv[path[i]].step
    PROVE  PathInv'
<1>1. /\ path' \in Seq(Flows) /\ Len(path) \in Nat
      /\ Len(path') = Len(path) - 1
      /\ \A i \in 1..(Len(path) - 1) : path'[i] = path[i]
  BY DEF PathInv, Outer
<1>2. path' # <<>>
  BY <1>1
<1>3. \A i \in 1..Len(path') : path'[i] \in Above[path'[i]]
  BY <1>1 DEF PathInv
<1>4. ASSUME NEW i \in 1..(Len(path') - 1)
      PROVE  /\ conv'[path'[i]].step # None
             /\ Inner[conv'[path'[i]].step] = path'[i + 1]
  <2>1. i \in 1..(Len(path) - 2) /\ path'[i] = path[i] /\ path'[i + 1] = path[i + 1]
    BY <1>1, <1>4
  <2>2. i \in 1..(Len(path) - 1)
    BY <1>1, <2>1
  <2>3. conv'[path[i]].step = conv[path[i]].step
    BY <2>1
  <2>4. QED
    BY <2>1, <2>2, <2>3 DEF PathInv
<1>5. \A i, j \in 1..Len(path') : i < j =>
         Above[path'[i]] \subseteq Above[path'[j]] /\ path'[j] \notin Above[path'[i]]
  <2>1. SUFFICES ASSUME NEW i \in 1..Len(path'), NEW j \in 1..Len(path'), i < j
                 PROVE  /\ Above[path'[i]] \subseteq Above[path'[j]]
                        /\ path'[j] \notin Above[path'[i]]
    OBVIOUS
  <2>2. /\ i \in 1..Len(path) /\ j \in 1..Len(path)
        /\ path'[i] = path[i] /\ path'[j] = path[j]
    BY <1>1
  <2>3. QED
    BY <2>1, <2>2 DEF PathInv
<1>6. QED
  BY <1>1, <1>2, <1>3, <1>4, <1>5 DEF PathInv

LEMMA OuterFacts ==
    ASSUME IInv, pc # "idle", Len(path) > 1, NEW i \in 1..(Len(path) - 2)
    PROVE  path[i] \in Flows /\ path[i] # Caller /\ Deepest \notin Above[path[i]]
<1>1. /\ Len(path) \in Nat /\ i \in 1..Len(path) /\ i # Len(path)
      /\ Len(path) - 1 \in 1..Len(path) /\ i < Len(path) - 1
  BY PathFacts DEF IInv
<1>2. path[i] \in Flows /\ Deepest \notin Above[path[i]]
  BY <1>1, PathFacts DEF IInv
<1>3. path[i] \in Above[path[i]] /\ path[Len(path) - 1] \notin Above[path[i]]
  BY <1>1 DEF IInv, PathInv
<1>4. QED
  BY <1>2, <1>3 DEF Caller

-----------------------------------------------------------------------------
(* What the actions have in common.                                        *)

LEMMA SameSteps ==
    ASSUME IInv, conv' \in [Flows -> Conversations],
           \A g \in Flows : conv'[g].step = conv[g].step
    PROVE  FlowsTyped'
BY DEF IInv, FlowsTyped

LEMMA SameNotes ==
    ASSUME IInv, \A g \in Flows : conv'[g].step = conv[g].step,
           note' \in [Steps -> Notes],
           \A s \in Steps : note'[s] # "none" =>
              \/ note[s] # "none"
              \/ Kind[s] \in YieldingKinds /\ conv[FlowOf[s]].step = s
    PROVE  NotesInv'
BY FlowAssumption DEF IInv, NotesInv, NotesAreCurrent

LEMMA FieldsTyped ==
    ASSUME NEW v \in Conversations
    PROVE  /\ \A n \in 0..MaxMessages :
                 /\ [v EXCEPT !.response = n] \in Conversations
                 /\ [v EXCEPT !.response = n].step = v.step
           /\ \A h \in BOOLEAN : /\ [v EXCEPT !.handled = h] \in Conversations
                                 /\ [v EXCEPT !.handled = h].step = v.step
           /\ [v EXCEPT !.alive = TRUE] \in Conversations
           /\ [v EXCEPT !.alive = TRUE].step = v.step
BY DEF Conversations

\* One conversation changes, and stays at its step.
LEMMA ChangedTyped ==
    ASSUME IInv, NEW f \in Flows, NEW v \in Conversations,
           v.step = conv[f].step, conv' = [conv EXCEPT ![f] = v]
    PROVE  /\ FlowsTyped' /\ conv' \in [Flows -> Conversations]
           /\ \A g \in Flows : conv'[g].step = conv[g].step
BY DEF IInv, FlowsTyped

LEMMA Forgotten ==
    ASSUME IInv, NEW p \in Steps, NEW f \in Flows, Inner[p] = f,
           conv[FlowOf[p]].step = p, Forget(f),
           \A g \in Flows : f \notin Above[g] /\ g # FlowOf[p]
              => conv'[g].step = conv[g].step
    PROVE  /\ NotesInv' /\ asker' \in Steps \cup {None}
           /\ reached' \in [Flows -> Steps \cup {None}]
<1>1. note' = [s \in Steps |-> IF FlowOf[s] \in Below(f) THEN "none" ELSE note[s]]
  BY DEF Forget
<1>2. asker' \in Steps \cup {None} /\ reached' \in [Flows -> Steps \cup {None}]
  BY DEF Forget, IInv, RestTyped
<1>3. note' \in [Steps -> Notes]
  BY <1>1 DEF IInv, NotesInv, Notes
<1>4. ASSUME NEW s \in Steps, note'[s] # "none"
      PROVE  Kind[s] \in YieldingKinds /\ conv'[FlowOf[s]].step = s
  <2>1. FlowOf[s] \notin Below(f) /\ note[s] # "none" /\ FlowOf[s] \in Flows
    BY <1>1, <1>4, FlowAssumption
  <2>2. Kind[s] \in YieldingKinds /\ conv[FlowOf[s]].step = s
    BY <2>1 DEF IInv, NotesInv, NotesAreCurrent
  <2>3. f \notin Above[FlowOf[s]]
    BY <2>1 DEF Below
  <2>4. Kind[p] \in CompositeKinds
    BY FlowAssumption
  <2>5. s # p
    BY <2>2, <2>4 DEF YieldingKinds, CompositeKinds
  <2>6. FlowOf[s] # FlowOf[p]
    BY <2>2, <2>5
  <2>7. QED
    BY <2>1, <2>2, <2>3, <2>6
<1>5. NotesAreCurrent'
  BY <1>4 DEF NotesAreCurrent
<1>6. QED
  BY <1>2, <1>3, <1>4, <1>5 DEF NotesInv

\* A composite step is left and its sub-conversation dropped.
LEMMA Dropped ==
    ASSUME IInv, NEW p \in Steps, NEW f \in Flows, Inner[p] = f,
           conv[FlowOf[p]].step = p, NEW b,
           Leave(p, b, Without(f), Below(f)), Forget(f)
    PROVE  /\ FlowsTyped' /\ ControlTyped' /\ NotesInv' /\ pc' # "idle"
           /\ asker' \in Steps \cup {None}
           /\ reached' \in [Flows -> Steps \cup {None}]
           /\ since' \in [Steps -> 0..MaxMessages]
           /\ started' \in [Steps -> 0..(MaxTrials + 1)]
           /\ \A g \in Flows : f \notin Above[g] /\ g # FlowOf[p]
                 => conv'[g].step = conv[g].step
<1>1. /\ Without(f) \in [Flows -> Conversations]
      /\ \A g \in Flows : Without(f)[g].step # None
                             => FlowOf[Without(f)[g].step] = g
      /\ \A g \in Flows \ Below(f) : Without(f)[g].step = conv[g].step
  BY WithoutTyped DEF IInv
<1>2. PICK c, D : c = Without(f) /\ D = Below(f)
  OBVIOUS
<1>3. Leave(p, b, c, D)
  BY <1>2
<1>4. /\ FlowsTyped' /\ ControlTyped' /\ pc' # "idle"
      /\ since' \in [Steps -> 0..MaxMessages]
      /\ started' \in [Steps -> 0..(MaxTrials + 1)]
      /\ \A g \in Flows \ {FlowOf[p]} : conv'[g].step = c[g].step
  BY <1>1, <1>2, <1>3, LeaveTyped DEF IInv, RestTyped, ControlTyped
<1>5. \A g \in Flows : f \notin Above[g] /\ g # FlowOf[p]
         => conv'[g].step = conv[g].step
  BY <1>1, <1>2, <1>4 DEF Below
<1>6. QED
  BY <1>4, <1>5, Forgotten

LEMMA TrialsTyped ==
    ASSUME CountsTyped, NEW f, NEW p \in Steps, NEW n \in 0..MaxTrials
    PROVE  /\ TrialsWithout(f) \in [Steps -> 0..MaxTrials]
           /\ [TrialsWithout(f) EXCEPT ![p] = n] \in [Steps -> 0..MaxTrials]
<1>1. 0 \in 0..MaxTrials
  BY FlowAssumption
<1>2. TrialsWithout(f) \in [Steps -> 0..MaxTrials]
  BY <1>1 DEF TrialsWithout, CountsTyped
<1>3. QED
  BY <1>2

LEMMA FirstTrial == 0 \in 0..MaxTrials
BY FlowAssumption

-----------------------------------------------------------------------------
(* Each action preserves the invariant.                                    *)

LEMMA InitInv == Init => IInv
<1> SUFFICES ASSUME Init PROVE IInv
  OBVIOUS
<1>1. FlowsTyped
  <2>1. ASSUME NEW f \in Flows
        PROVE  /\ [NewConversation(f) EXCEPT !.alive = (f = Top)] \in Conversations
               /\ [NewConversation(f) EXCEPT !.alive = (f = Top)].step = Begin[f]
    <3>1. PICK v, h : v = NewConversation(f) /\ h = (f = Top)
      OBVIOUS
    <3>2. v \in Conversations /\ v.step = Begin[f] /\ h \in BOOLEAN
      BY <3>1, NewTyped
    <3>3. [v EXCEPT !.alive = h] \in Conversations /\ [v EXCEPT !.alive = h].step = Begin[f]
      BY <3>2 DEF Conversations
    <3>4. QED
      BY <3>1, <3>3
  <2>2. QED
    BY <2>1, NewTyped DEF Init, FlowsTyped
<1>2. CountsTyped /\ ControlTyped /\ RestTyped
  BY FlowAssumption, StatusTyped DEF Init, CountsTyped, ControlTyped, RestTyped,
     NoStatus, Statuses, StatusTypes
<1>3. PathInv
  BY DEF Init, PathInv
<1>4. NotesInv
  BY DEF Init, NotesInv, NotesAreCurrent, Notes
<1>5. QED
  BY <1>1, <1>2, <1>3, <1>4 DEF IInv

LEMMA StutterInv == IInv /\ UNCHANGED vars => IInv'
<1> SUFFICES ASSUME IInv, UNCHANGED vars PROVE IInv'
  OBVIOUS
<1>1. FlowsTyped' /\ CountsTyped' /\ NotesInv'
  BY DEF vars, history, IInv, FlowsTyped, CountsTyped, NotesInv, NotesAreCurrent
<1>2. ControlTyped' /\ RestTyped' /\ PathInv'
  BY DEF vars, history, listVars, IInv, ControlTyped, RestTyped, PathInv
<1>3. QED
  BY <1>1, <1>2 DEF IInv

LEMMA UserMessageInv == IInv /\ UserMessage => IInv'
<1> SUFFICES ASSUME IInv, UserMessage PROVE IInv'
  OBVIOUS
<1>1. written' \in 0..MaxMessages /\ pc' = pc /\ pc = "idle"
  <2>1. written' = written + 1 /\ written < MaxMessages /\ pc' = pc /\ pc = "idle"
    BY DEF UserMessage
  <2>2. written \in 0..MaxMessages /\ MaxMessages \in Nat
    BY FlowAssumption DEF IInv, RestTyped
  <2>3. QED
    BY <2>1, <2>2
<1>2. PICK w, b, o : /\ w = written'
                     /\ o = conv[Top].status.owner
                     /\ b = (conv[Top].status.type = "user"
                             /\ conv[Top].status.owner # Top)
  OBVIOUS
<1>3. conv' = [f \in Flows |->
         IF b /\ f = o THEN [conv[f] EXCEPT !.response = w]
         ELSE IF f = Top /\ conv[Top].status.type = "user"
         THEN [conv[f] EXCEPT !.handled = TRUE] ELSE conv[f]]
  BY <1>2 DEF UserMessage
<1>4. ASSUME NEW f \in Flows
      PROVE  conv'[f] \in Conversations /\ conv'[f].step = conv[f].step
  <2>1. conv[f] \in Conversations
    BY DEF IInv, FlowsTyped
  <2>2. PICK v1, v2 : /\ v1 = [conv[f] EXCEPT !.response = w]
                      /\ v2 = [conv[f] EXCEPT !.handled = TRUE]
    OBVIOUS
  <2>3. /\ [conv[f] EXCEPT !.response = w] \in Conversations
        /\ [conv[f] EXCEPT !.response = w].step = conv[f].step
        /\ [conv[f] EXCEPT !.handled = TRUE] \in Conversations
        /\ [conv[f] EXCEPT !.handled = TRUE].step = conv[f].step
    <3>1. w \in 0..MaxMessages /\ TRUE \in BOOLEAN
      BY <1>1, <1>2
    <3>2. QED
      BY <2>1, <3>1, FieldsTyped
  <2>4. conv'[f] = v1 \/ conv'[f] = v2 \/ conv'[f] = conv[f]
    BY <1>3, <2>2
  <2>5. QED
    BY <2>1, <2>2, <2>3, <2>4
<1>5. conv' \in [Flows -> Conversations] /\ FlowsTyped'
  <2>1. conv' \in [Flows -> Conversations]
    <3>1. conv' = [f \in Flows |-> conv'[f]]
      BY <1>3
    <3>2. QED
      BY <1>4, <3>1
  <2>2. QED
    BY <1>4, <2>1, SameSteps
<1>6. note' = note /\ path' = path
  BY DEF UserMessage
<1>7. NotesInv' /\ PathInv'
  <2>1. NotesInv'
    BY <1>4, <1>6, SameNotes DEF IInv, NotesInv
  <2>2. \A i \in 1..(Len(path) - 1) : path[i] \in Flows
    BY DEF IInv, PathInv
  <2>3. QED
    BY <1>1, <1>4, <1>6, <2>1, <2>2, SamePath DEF IInv
<1>8. CountsTyped' /\ ControlTyped'
  BY DEF UserMessage, IInv, CountsTyped, ControlTyped, history
<1>9. RestTyped'
  BY <1>1 DEF UserMessage, IInv, RestTyped, listVars, history
<1>10. QED
  BY <1>5, <1>7, <1>8, <1>9 DEF IInv

\* The steps of the conversations and the path stay.
LEMMA SameStepsPath ==
    ASSUME IInv, path' = path, pc' # "idle" => path # <<>>,
           \A g \in Flows : conv'[g].step = conv[g].step
    PROVE  PathInv'
<1>1. \A i \in 1..(Len(path) - 1) : path[i] \in Flows
  BY DEF IInv, PathInv
<1>2. QED
  BY <1>1, SamePath DEF IInv

LEMMA SubmitToolResultInv == IInv /\ SubmitToolResult => IInv'
<1> SUFFICES ASSUME IInv, SubmitToolResult PROVE IInv'
  OBVIOUS
<1>1. PICK f : f = conv[Top].status.owner
  OBVIOUS
<1>2. f \in Flows /\ conv' = [conv EXCEPT ![f].response = 1]
  <2>1. conv[Top] \in Conversations
    BY FlowAssumption DEF IInv, FlowsTyped
  <2>2. f \in Flows \cup {None}
    BY <1>1, <2>1 DEF Conversations, Statuses
  <2>3. QED
    BY <1>1, <2>2 DEF SubmitToolResult
<1>3. PICK v : v = [conv[f] EXCEPT !.response = 1]
  OBVIOUS
<1>4. v \in Conversations /\ v.step = conv[f].step
  <2>1. 1 \in 0..MaxMessages /\ conv[f] \in Conversations
    BY <1>2, FlowAssumption DEF IInv, FlowsTyped
  <2>2. QED
    BY <1>3, <2>1, FieldsTyped
<1>5. conv' = [conv EXCEPT ![f] = v]
  BY <1>2, <1>3
<1>6. FlowsTyped' /\ \A g \in Flows : conv'[g].step = conv[g].step
  BY <1>2, <1>4, <1>5, ChangedTyped
<1>7. CountsTyped' /\ ControlTyped' /\ pc' = pc /\ path' = path /\ note' = note
  BY DEF SubmitToolResult, IInv, CountsTyped, ControlTyped, history
<1>8. RestTyped'
  BY DEF SubmitToolResult, IInv, RestTyped, listVars, history
<1>9. NotesInv'
  BY <1>6, <1>7, SameNotes DEF IInv, NotesInv
<1>10. PathInv'
  BY <1>6, <1>7, SameStepsPath DEF IInv, PathInv
<1>11. QED
  BY <1>6, <1>7, <1>8, <1>9, <1>10 DEF IInv

LEMMA DecideConfirmationInv == IInv /\ DecideConfirmation => IInv'
<1> SUFFICES ASSUME IInv, DecideConfirmation PROVE IInv'
  OBVIOUS
<1>1. PICK s, d : /\ note[s] # "none" /\ d \in {"confirmed", "rejected"}
                  /\ note' = [note EXCEPT ![s] = d]
  BY DEF DecideConfirmation
<1>2. note' \in [Steps -> Notes] /\ \A t \in Steps : note'[t] # "none" => note[t] # "none"
  BY <1>1 DEF IInv, NotesInv, Notes
<1>3. conv' = conv /\ path' = path /\ pc' = pc
  BY DEF DecideConfirmation
<1>4. NotesInv' /\ PathInv' /\ FlowsTyped'
  BY <1>2, <1>3, SameNotes, SameStepsPath, SameSteps DEF IInv, PathInv, FlowsTyped
<1>5. CountsTyped' /\ ControlTyped'
  BY DEF DecideConfirmation, IInv, CountsTyped, ControlTyped, history
<1>6. RestTyped'
  BY DEF DecideConfirmation, IInv, RestTyped, listVars, history
<1>7. QED
  BY <1>4, <1>5, <1>6 DEF IInv

LEMMA ExecuteInv == IInv /\ Execute => IInv'
<1> SUFFICES ASSUME IInv, Execute PROVE IInv'
  OBVIOUS
<1>1. FlowsTyped' /\ NotesInv'
  BY DEF Execute, IInv, FlowsTyped, NotesInv, NotesAreCurrent
<1>2. CountsTyped' /\ ControlTyped'
  BY DEF Execute, IInv, CountsTyped, ControlTyped, history
<1>3. RestTyped'
  BY DEF Execute, IInv, RestTyped, listVars, history
<1>4. PathInv'
  <2>1. path' = <<Top>> /\ Top \in Flows /\ Top \in Above[Top]
    BY FlowAssumption DEF Execute
  <2>2. /\ path' \in Seq(Flows) /\ Len(path') = 1 /\ path'[1] = Top
        /\ path' # <<>>
    BY <2>1
  <2>3. QED
    BY <2>1, <2>2 DEF PathInv
<1>5. QED
  BY <1>1, <1>2, <1>3, <1>4 DEF IInv

LEMMA PassInv ==
    ASSUME IInv, pc = "loop", Here # None, NEW b, Pass(b), path' = path
    PROVE  /\ FlowsTyped' /\ ControlTyped' /\ NotesInv' /\ PathInv'
           /\ pc' # "idle"
           /\ since' \in [Steps -> 0..MaxMessages]
           /\ started' \in [Steps -> 0..(MaxTrials + 1)]
<1>1. /\ Deepest \in Flows /\ Here \in Steps /\ FlowOf[Here] = Deepest
      /\ conv[Deepest].step = Here
  BY HereFacts
<1>2. PICK c, h, D : c = conv /\ h = Here /\ D = {}
  OBVIOUS
<1>3. Leave(h, b, c, D)
  BY <1>2 DEF Pass
<1>4. /\ FlowsTyped' /\ ControlTyped' /\ pc' # "idle"
      /\ since' \in [Steps -> 0..MaxMessages]
      /\ started' \in [Steps -> 0..(MaxTrials + 1)]
      /\ \A g \in Flows \ {FlowOf[h]} : conv'[g].step = c[g].step
  BY <1>1, <1>2, <1>3, LeaveTyped DEF IInv, RestTyped, ControlTyped, FlowsTyped
<1>5. note' = [note EXCEPT ![Here] = "none"]
  BY DEF Pass
<1>6. NotesInv'
  <2>1. note' \in [Steps -> Notes]
    BY <1>1, <1>5 DEF IInv, NotesInv, Notes
  <2>2. ASSUME NEW s \in Steps, note'[s] # "none"
        PROVE  Kind[s] \in YieldingKinds /\ conv'[FlowOf[s]].step = s
    <3>1. s # Here /\ note[s] # "none" /\ FlowOf[s] \in Flows
      BY <1>1, <1>5, <2>2, FlowAssumption DEF IInv, NotesInv
    <3>2. Kind[s] \in YieldingKinds /\ conv[FlowOf[s]].step = s
      BY <3>1 DEF IInv, NotesInv, NotesAreCurrent
    <3>3. FlowOf[s] # Deepest
      BY <1>1, <3>1, <3>2
    <3>4. QED
      BY <1>1, <1>2, <1>4, <3>1, <3>2, <3>3
  <2>3. QED
    BY <2>1, <2>2 DEF NotesInv, NotesAreCurrent
<1>7. PathInv'
  <2>1. \A i \in 1..(Len(path) - 1) : path[i] \in Flows /\ path[i] # Deepest
    BY PathFacts DEF IInv
  <2>2. \A i \in 1..(Len(path) - 1) : conv'[path[i]].step = conv[path[i]].step
    BY <1>1, <1>2, <1>4, <2>1
  <2>3. path # <<>>
    BY DEF IInv, PathInv
  <2>4. QED
    BY <2>2, <2>3, SamePath DEF IInv
<1>8. QED
  BY <1>4, <1>6, <1>7

\* An action that leaves the conversations and the path alone.
LEMMA SameConversations ==
    ASSUME IInv, conv' = conv, path' = path, pc' # "idle" => pc # "idle"
    PROVE  FlowsTyped' /\ PathInv' /\ (note' = note => NotesInv')
BY DEF IInv, FlowsTyped, PathInv, NotesInv, NotesAreCurrent

LEMMA ReturnTyped ==
    ASSUME IInv, NEW s \in Statuses, ReturnWith(s)
    PROVE  ControlTyped' /\ pc' # "idle"
BY DEF ReturnWith, IInv, ControlTyped

LEMMA RaiseTyped ==
    ASSUME IInv, NEW e \in Exceptions, Raise(e)
    PROVE  ControlTyped' /\ pc' # "idle"
BY DEF Raise, IInv, ControlTyped

LEMMA FinishInv == IInv /\ (Finish \/ Interrupt) => IInv'
<1> SUFFICES ASSUME IInv, Finish \/ Interrupt PROVE IInv'
  OBVIOUS
<1>1. /\ pc = "loop" /\ conv' = conv /\ path' = path /\ note' = note
      /\ ReturnWith(Status("finished", Deepest, None))
         \/ ReturnWith(Status("interrupted", Deepest, None))
  BY DEF Finish, Interrupt
<1>2. PICK s : s \in Statuses /\ ReturnWith(s)
  <2>1. Deepest \in Flows
    BY <1>1, PathFacts DEF IInv
  <2>2. Status("finished", Deepest, None) \in Statuses
    BY <2>1, StatusTyped DEF StatusTypes
  <2>3. Status("interrupted", Deepest, None) \in Statuses
    BY <2>1, StatusTyped DEF StatusTypes
  <2>4. QED
    BY <1>1, <2>2, <2>3
<1>3. ControlTyped' /\ FlowsTyped' /\ PathInv' /\ NotesInv'
  BY <1>1, <1>2, ReturnTyped, SameConversations
<1>4. CountsTyped' /\ RestTyped'
  <2>1. UNCHANGED <<trials, landed, error, listVars, written, history>>
    BY DEF Finish, Interrupt
  <2>2. QED
    BY <2>1 DEF IInv, CountsTyped, RestTyped, listVars, history
<1>5. QED
  BY <1>3, <1>4 DEF IInv

LEMMA RaiseToCallerInv == IInv /\ RaiseToCaller => IInv'
<1> SUFFICES ASSUME IInv, RaiseToCaller PROVE IInv'
  OBVIOUS
<1>1. FlowsTyped' /\ NotesInv'
  BY DEF RaiseToCaller, IInv, FlowsTyped, NotesInv, NotesAreCurrent
<1>2. CountsTyped' /\ ControlTyped'
  BY DEF RaiseToCaller, IInv, CountsTyped, ControlTyped, history
<1>3. RestTyped'
  BY DEF RaiseToCaller, IInv, RestTyped, ControlTyped, listVars, history
<1>4. PathInv'
  BY DEF RaiseToCaller, PathInv
<1>5. QED
  BY <1>1, <1>2, <1>3, <1>4 DEF IInv

LEMMA ReturnToCallerInv == IInv /\ ReturnToCaller => IInv'
<1> SUFFICES ASSUME IInv, ReturnToCaller PROVE IInv'
  OBVIOUS
<1>1. /\ conv' = Settled(Top, ret) /\ pc' = "idle" /\ path' = <<>>
      /\ UNCHANGED <<note, trials, landed, ret, exc, error, listVars, written,
                     history>>
  BY DEF ReturnToCaller
<1>2. /\ conv' \in [Flows -> Conversations]
      /\ \A g \in Flows : conv'[g].step = conv[g].step
  BY <1>1, SettledTyped, FlowAssumption DEF IInv, ControlTyped
<1>3. FlowsTyped' /\ NotesInv'
  BY <1>1, <1>2, SameSteps, SameNotes DEF IInv, NotesInv
<1>4. CountsTyped' /\ ControlTyped'
  BY <1>1 DEF IInv, CountsTyped, ControlTyped, history
<1>5. RestTyped'
  BY <1>1 DEF IInv, RestTyped, listVars, history
<1>6. PathInv'
  BY <1>1 DEF PathInv
<1>7. QED
  BY <1>3, <1>4, <1>5, <1>6 DEF IInv

LEMMA StepYieldsInv == IInv /\ StepYields => IInv'
<1> SUFFICES ASSUME IInv, StepYields PROVE IInv'
  OBVIOUS
<1>1. pc = "return" /\ Len(path) > 1 /\ path' = Outer
  BY DEF StepYields
<1>2. Caller \in Flows /\ Deepest \in Flows
  BY <1>1, CallerFacts
<1>3. PICK s : /\ s = [ret EXCEPT !.owner = IF ret.type = "confirm" THEN Caller
                                                                   ELSE @]
               /\ conv' = Settled(Deepest, s)
               /\ Raise("internal") \/ ReturnWith(s)
  BY DEF StepYields
<1>4. s \in Statuses
  <2>1. ret \in Statuses
    BY DEF IInv, ControlTyped
  <2>2. PICK o : o = IF ret.type = "confirm" THEN Caller ELSE ret.owner
    OBVIOUS
  <2>3. o \in Flows \cup {None}
    BY <1>2, <2>1, <2>2 DEF Statuses
  <2>4. s = [ret EXCEPT !.owner = o]
    BY <1>3, <2>2
  <2>5. QED
    BY <2>1, <2>3, <2>4, OwnerChanged
<1>5. /\ conv' \in [Flows -> Conversations]
      /\ \A g \in Flows : conv'[g].step = conv[g].step
  BY <1>2, <1>3, <1>4, SettledTyped DEF IInv
<1>6. ControlTyped' /\ pc' # "idle"
  <2>1. "internal" \in Exceptions
    BY DEF Exceptions
  <2>2. QED
    BY <1>3, <1>4, <2>1, ReturnTyped, RaiseTyped
<1>7. FlowsTyped' /\ NotesInv'
  <2>1. note' = note
    BY DEF StepYields
  <2>2. QED
    BY <1>5, <2>1, SameSteps, SameNotes DEF IInv, NotesInv
<1>8. PathInv'
  <2>1. \A i \in 1..(Len(path) - 2) : path[i] \in Flows
    BY <1>1, OuterFacts
  <2>2. QED
    BY <1>1, <1>5, <2>1, OuterPath DEF IInv
<1>9. CountsTyped' /\ RestTyped'
  <2>1. UNCHANGED <<trials, landed, error, listVars, written, since, started,
                    reached>>
    BY DEF StepYields
  <2>2. QED
    BY <2>1 DEF IInv, CountsTyped, RestTyped, listVars
<1>10. QED
  BY <1>6, <1>7, <1>8, <1>9 DEF IInv

LEMMA AskUserInv == IInv /\ AskUser => IInv'
<1> SUFFICES ASSUME IInv, AskUser PROVE IInv'
  OBVIOUS
<1>1. /\ pc = "loop" /\ Here # None /\ Kind[Here] \in YieldingKinds
      /\ note' = [note EXCEPT ![Here] = "asked"]
      /\ since' = [since EXCEPT ![Here] = written]
      /\ UNCHANGED <<path, conv, trials, landed, error, written, started, reached>>
  BY DEF AskUser, At, YieldingKinds
<1>2. /\ Deepest \in Flows /\ Here \in Steps /\ FlowOf[Here] = Deepest
      /\ conv[Deepest].step = Here
  BY <1>1, HereFacts
<1>3. /\ last' \in {"none", "user", "agent", "request", "result"}
      /\ asker' \in Steps \cup {None} /\ lastUser' \in 0..MaxMessages
  BY DEF AskUser, listVars, IInv, RestTyped
<1>4. ControlTyped' /\ pc' # "idle"
  <2>1. PICK a : a = asker'
    OBVIOUS
  <2>2. /\ Status("tool", Deepest, a) \in Statuses
        /\ Status("user", Deepest, None) \in Statuses
    BY <1>2, <1>3, <2>1, StatusTyped DEF StatusTypes
  <2>3. PICK y : y = YieldStatus /\ ReturnWith(y)
    BY DEF AskUser
  <2>4. y \in Statuses
    BY <2>1, <2>2, <2>3 DEF YieldStatus
  <2>5. QED
    BY <2>3, <2>4, ReturnTyped
<1>5. FlowsTyped' /\ PathInv'
  BY <1>1, <1>4, SameConversations
<1>6. NotesInv'
  <2>1. /\ note' \in [Steps -> Notes]
        /\ \A s \in Steps : note'[s] # "none" => note[s] # "none" \/ s = Here
    BY <1>1, <1>2 DEF IInv, NotesInv, Notes
  <2>2. QED
    BY <1>1, <1>2, <2>1, SameNotes
<1>7. CountsTyped' /\ RestTyped'
  BY <1>1, <1>2, <1>3 DEF IInv, CountsTyped, RestTyped
<1>8. QED
  BY <1>4, <1>5, <1>6, <1>7 DEF IInv

LEMMA TakeAnswerInv == IInv /\ TakeAnswer => IInv'
<1> SUFFICES ASSUME IInv, TakeAnswer PROVE IInv'
  OBVIOUS
<1>1. /\ pc = "loop" /\ Here # None
      /\ UNCHANGED <<path, trials, landed, error, listVars, written, reached>>
  BY DEF TakeAnswer, At
<1>2. RestTyped'
  BY <1>1 DEF IInv, RestTyped, listVars
<1>3. CASE last = "user"
  <2>1. Pass("next")
    BY <1>3 DEF TakeAnswer
  <2>2. QED
    BY <1>1, <1>2, <2>1, PassInv DEF IInv, CountsTyped
<1>4. CASE last # "user"
  <2>1. Raise("value") /\ UNCHANGED <<conv, since, started, note>>
    BY <1>4 DEF TakeAnswer, Unasked
  <2>2. ControlTyped' /\ FlowsTyped' /\ PathInv' /\ NotesInv'
    BY <1>1, <2>1, RaiseTyped, SameConversations DEF Exceptions
  <2>3. QED
    BY <1>1, <1>2, <2>1, <2>2 DEF IInv, CountsTyped
<1>5. QED
  BY <1>3, <1>4

LEMMA RunClientToolInv == IInv /\ RunClientTool => IInv'
<1> SUFFICES ASSUME IInv, RunClientTool PROVE IInv'
  OBVIOUS
<1>1. /\ pc = "loop" /\ Here # None /\ Kind[Here] \in YieldingKinds
      /\ UNCHANGED <<path, trials, landed, error, written, reached>>
  BY DEF RunClientTool, At, YieldingKinds
<1>2. /\ Deepest \in Flows /\ Here \in Steps /\ FlowOf[Here] = Deepest
      /\ conv[Deepest].step = Here
  BY <1>1, HereFacts
<1>3. CASE note[Here] = "none"
  <2>1. /\ note' = [note EXCEPT ![Here] = "open"]
        /\ last' = "request" /\ asker' = Here /\ UNCHANGED lastUser
        /\ ReturnWith(YieldStatus) /\ UNCHANGED <<conv, since, started>>
    BY <1>3 DEF RunClientTool, Unasked
  <2>2. ControlTyped' /\ pc' # "idle"
    <3>1. PICK y, a : y = YieldStatus /\ ReturnWith(y) /\ a = asker'
      BY <2>1
    <3>2. Status("tool", Deepest, a) \in Statuses
      BY <1>2, <2>1, <3>1, StatusTyped DEF StatusTypes
    <3>3. y = Status("tool", Deepest, a)
      BY <2>1, <3>1 DEF YieldStatus
    <3>4. QED
      BY <3>1, <3>2, <3>3, ReturnTyped
  <2>3. NotesInv'
    <3>1. /\ note' \in [Steps -> Notes]
          /\ \A s \in Steps : note'[s] # "none" => note[s] # "none" \/ s = Here
      BY <1>2, <2>1 DEF IInv, NotesInv, Notes
    <3>2. QED
      BY <1>1, <1>2, <2>1, <3>1, SameNotes
  <2>4. FlowsTyped' /\ PathInv'
    BY <1>1, <2>1, <2>2, SameConversations
  <2>5. RestTyped' /\ CountsTyped'
    BY <1>1, <1>2, <2>1 DEF IInv, RestTyped, CountsTyped
  <2>6. QED
    BY <2>2, <2>3, <2>4, <2>5 DEF IInv
<1>4. CASE note[Here] = "open"
  <2>1. Raise("value") /\ UNCHANGED <<conv, since, started, note, listVars>>
    BY <1>4 DEF RunClientTool, Unasked
  <2>2. ControlTyped' /\ FlowsTyped' /\ PathInv' /\ NotesInv'
    BY <1>1, <2>1, RaiseTyped, SameConversations DEF Exceptions
  <2>3. QED
    BY <1>1, <2>1, <2>2 DEF IInv, CountsTyped, RestTyped, listVars
<1>5. CASE note[Here] # "none" /\ note[Here] # "open"
  <2>1. Pass("next") /\ UNCHANGED listVars
    BY <1>5 DEF RunClientTool
  <2>2. RestTyped'
    BY <1>1, <2>1 DEF IInv, RestTyped, listVars
  <2>3. QED
    BY <1>1, <2>1, <2>2, PassInv DEF IInv, CountsTyped
<1>6. QED
  BY <1>3, <1>4, <1>5

LEMMA RunToolInv == IInv /\ RunTool => IInv'
<1> SUFFICES ASSUME IInv, RunTool PROVE IInv'
  OBVIOUS
<1>1. /\ pc = "loop" /\ Here # None
      /\ UNCHANGED <<path, trials, landed, error, listVars, written, reached>>
  BY DEF RunTool, At
<1>2. RestTyped'
  BY <1>1 DEF IInv, RestTyped, listVars
<1>3. CASE Pass("next")
  BY <1>1, <1>2, <1>3, PassInv DEF IInv, CountsTyped
<1>4. ASSUME NEW e \in {"value", "tool"}, Raise(e),
             UNCHANGED <<conv, since, started, note>>
      PROVE  IInv'
  <2>1. ControlTyped' /\ FlowsTyped' /\ PathInv' /\ NotesInv'
    BY <1>1, <1>4, RaiseTyped, SameConversations DEF Exceptions
  <2>2. QED
    BY <1>1, <1>2, <1>4, <2>1 DEF IInv, CountsTyped
<1>5. QED
  BY <1>3, <1>4 DEF RunTool, Unasked

LEMMA AskConfirmationInv == IInv /\ AskConfirmation => IInv'
<1> SUFFICES ASSUME IInv, AskConfirmation PROVE IInv'
  OBVIOUS
<1>1. /\ pc = "loop" /\ Here # None /\ Kind[Here] \in YieldingKinds
      /\ UNCHANGED <<conv, since, started>>
      /\ UNCHANGED <<path, trials, landed, error, listVars, written, reached>>
  BY DEF AskConfirmation, At, Unasked, YieldingKinds
<1>2. /\ Deepest \in Flows /\ Here \in Steps /\ FlowOf[Here] = Deepest
      /\ conv[Deepest].step = Here
  BY <1>1, HereFacts
<1>3. CountsTyped' /\ RestTyped'
  BY <1>1 DEF IInv, CountsTyped, RestTyped, listVars
<1>4. ControlTyped' /\ pc' # "idle"
  <2>1. PICK y : /\ y = Status("confirm", Deepest, Here)
                 /\ ReturnWith(y) \/ Raise("value")
    BY DEF AskConfirmation
  <2>2. y \in Statuses /\ "value" \in Exceptions
    BY <1>2, <2>1, StatusTyped DEF StatusTypes, Exceptions
  <2>3. QED
    BY <2>1, <2>2, ReturnTyped, RaiseTyped
<1>5. FlowsTyped' /\ PathInv'
  BY <1>1, <1>4, SameConversations
<1>6. NotesInv'
  <2>1. note' = [note EXCEPT ![Here] = "asked"] \/ note' = note
    BY DEF AskConfirmation
  <2>2. /\ note' \in [Steps -> Notes]
        /\ \A s \in Steps : note'[s] # "none" => note[s] # "none" \/ s = Here
    BY <1>2, <2>1 DEF IInv, NotesInv, Notes
  <2>3. QED
    BY <1>1, <1>2, <2>2, SameNotes
<1>7. QED
  BY <1>3, <1>4, <1>5, <1>6 DEF IInv

LEMMA ChooseBranchInv == IInv /\ ChooseBranch => IInv'
<1> SUFFICES ASSUME IInv, ChooseBranch PROVE IInv'
  OBVIOUS
<1>1. /\ pc = "loop" /\ Here # None
      /\ UNCHANGED <<path, trials, landed, error, listVars, written, reached>>
  BY DEF ChooseBranch, At
<1>2. PICK b : Pass(b)
  BY DEF ChooseBranch
<1>3. RestTyped'
  BY <1>1 DEF IInv, RestTyped, listVars
<1>4. QED
  BY <1>1, <1>2, <1>3, PassInv DEF IInv, CountsTyped

LEMMA CompleteInv == IInv /\ Complete => IInv'
<1> SUFFICES ASSUME IInv, Complete PROVE IInv'
  OBVIOUS
<1>1. /\ pc = "loop" /\ Here # None /\ Pass("next")
      /\ landed' = [landed EXCEPT ![Deepest] = Here]
      /\ reached' = [reached EXCEPT ![Deepest] = Here]
      /\ UNCHANGED <<path, trials, error, listVars, written>>
  BY DEF Complete, At
<1>2. Deepest \in Flows /\ Here \in Steps
  BY <1>1, HereFacts
<1>3. RestTyped'
  BY <1>1, <1>2 DEF IInv, RestTyped, listVars
<1>4. QED
  BY <1>1, <1>3, PassInv DEF IInv, CountsTyped

LEMMA EnterInv == IInv /\ Enter => IInv'
<1> SUFFICES ASSUME IInv, Enter PROVE IInv'
  OBVIOUS
<1>1. pc = "enter" /\ UNCHANGED <<path, trials, error, written, history>>
  BY DEF Enter
<1>2. PICK f, own, type, given :
         /\ f = Deepest
         /\ own = (conv[f].status.owner = f /\ ~conv[f].handled)
         /\ type = (IF own THEN conv[f].status.type ELSE "none")
         /\ given = conv[f].response
  OBVIOUS
<1>3. f \in Flows /\ conv[f] \in Conversations /\ given \in 0..MaxMessages
  <2>1. f \in Flows
    BY <1>1, <1>2, PathFacts DEF IInv
  <2>2. QED
    BY <1>2, <2>1 DEF IInv, FlowsTyped, Conversations
<1>4. CASE type = "tool" /\ given = 0
  <2>1. Raise("value") /\ UNCHANGED <<conv, note, landed, listVars>>
    BY <1>2, <1>4 DEF Enter
  <2>2. ControlTyped' /\ FlowsTyped' /\ PathInv' /\ NotesInv'
    BY <1>1, <2>1, RaiseTyped, SameConversations DEF Exceptions
  <2>3. QED
    BY <1>1, <2>1, <2>2 DEF IInv, CountsTyped, RestTyped, listVars, history
<1>5. CASE ~(type = "tool" /\ given = 0)
  <2>1. /\ pc' = "loop" /\ UNCHANGED <<ret, exc>>
        /\ landed' = [landed EXCEPT ![f] = None]
    BY <1>2, <1>5 DEF Enter
  <2>2. PICK h, n : /\ h = (conv[f].handled \/ own)
                    /\ n = (IF type = "tool" THEN 0 ELSE given)
    OBVIOUS
  <2>3. h \in BOOLEAN /\ n \in 0..MaxMessages
    BY <1>3, <2>2, FlowAssumption DEF Conversations
  <2>4. PICK v, w : v = [conv[f] EXCEPT !.handled = h] /\ w = [v EXCEPT !.response = n]
    OBVIOUS
  <2>5. w \in Conversations /\ w.step = conv[f].step
    <3>1. v \in Conversations /\ v.step = conv[f].step
      BY <1>3, <2>3, <2>4, FieldsTyped
    <3>2. w \in Conversations /\ w.step = v.step
      BY <2>3, <2>4, <3>1, FieldsTyped
    <3>3. QED
      BY <3>1, <3>2
  <2>6. conv' = [conv EXCEPT ![f] = w]
    <3>1. conv' = [conv EXCEPT ![f].handled = @ \/ own,
                               ![f].response = IF type = "tool" THEN 0 ELSE @]
      BY <1>2, <1>5 DEF Enter
    <3>2. DOMAIN conv = Flows /\ conv = [g \in Flows |-> conv[g]]
      BY DEF IInv, FlowsTyped
    <3>3. v.response = given
      BY <1>2, <1>3, <2>4 DEF Conversations
    <3>4. PICK x : x = [conv EXCEPT ![f].handled = @ \/ own]
      OBVIOUS
    <3>5. x = [conv EXCEPT ![f] = v]
      BY <2>2, <2>4, <3>4
    <3>6. conv' = [x EXCEPT ![f].response = IF type = "tool" THEN 0 ELSE @]
      BY <3>1, <3>4
    <3>7. x[f] = v
      BY <1>3, <3>2, <3>5
    <3>8. conv' = [x EXCEPT ![f] = w]
      BY <2>2, <2>4, <3>3, <3>6, <3>7
    <3>9. QED
      BY <3>2, <3>5, <3>8
  <2>7. FlowsTyped' /\ \A g \in Flows : conv'[g].step = conv[g].step
    BY <1>3, <2>5, <2>6, ChangedTyped
  <2>8. PathInv'
    BY <1>1, <2>7, SameStepsPath DEF IInv, PathInv
  <2>9. /\ note' \in [Steps -> Notes]
        /\ \A s \in Steps : note'[s] # "none" => note[s] # "none"
    <3>1. \/ note' = note
          \/ note' = [s \in Steps |->
                IF s = conv[f].status.req /\ note[s] = "open" THEN "answered"
                                                             ELSE note[s]]
      BY <1>2, <1>5 DEF Enter
    <3>2. QED
      BY <3>1 DEF IInv, NotesInv, Notes
  <2>10. NotesInv'
    BY <2>7, <2>9, SameNotes
  <2>11. /\ last' \in {"none", "user", "agent", "request", "result"}
         /\ asker' \in Steps \cup {None} /\ lastUser' \in 0..MaxMessages
    <3>1. \/ last' = "user" /\ lastUser' = given /\ asker' = None
          \/ last' = "result" /\ asker' = None /\ UNCHANGED lastUser
          \/ UNCHANGED listVars
      BY <1>2, <1>5 DEF Enter
    <3>2. QED
      BY <1>3, <3>1 DEF IInv, RestTyped, listVars
  <2>12. CountsTyped' /\ ControlTyped' /\ RestTyped'
    BY <1>1, <1>3, <2>1, <2>11 DEF IInv, CountsTyped, ControlTyped, RestTyped, history
  <2>13. QED
    BY <2>7, <2>8, <2>10, <2>12 DEF IInv
<1>6. QED
  BY <1>4, <1>5

LEMMA EnterSubInv == IInv /\ EnterSub => IInv'
<1> SUFFICES ASSUME IInv, EnterSub PROVE IInv'
  OBVIOUS
<1>1. /\ pc = "loop" /\ Here # None /\ Kind[Here] \in CompositeKinds
      /\ UNCHANGED <<note, trials, landed, ret, exc, error, listVars, written,
                     since, reached>>
  BY DEF EnterSub, At
<1>2. /\ Deepest \in Flows /\ Here \in Steps /\ FlowOf[Here] = Deepest
      /\ conv[Deepest].step = Here
  BY <1>1, HereFacts
<1>3. PICK f : f = Inner[Here]
  OBVIOUS
<1>4. /\ path' = Append(path, f) /\ pc' = "enter"
      /\ conv' = [conv EXCEPT ![f].alive = TRUE]
      /\ started' = [started EXCEPT ![Here] =
                        IF conv[f].alive \/ @ > MaxTrials THEN @ ELSE @ + 1]
  BY <1>3 DEF EnterSub
<1>5. /\ f \in Flows /\ Above[f] = {f} \cup Above[Deepest]
      /\ f \notin Above[Deepest]
  BY <1>1, <1>2, <1>3, FlowAssumption
<1>6. PICK v : v = [conv[f] EXCEPT !.alive = TRUE]
  OBVIOUS
<1>7. v \in Conversations /\ v.step = conv[f].step
  <2>1. conv[f] \in Conversations
    BY <1>5 DEF IInv, FlowsTyped
  <2>2. QED
    BY <1>6, <2>1, FieldsTyped
<1>8. FlowsTyped' /\ \A g \in Flows : conv'[g].step = conv[g].step
  BY <1>4, <1>5, <1>6, <1>7, ChangedTyped
<1>9. NotesInv'
  BY <1>1, <1>8, SameNotes DEF IInv, NotesInv
<1>10. CountsTyped'
  <2>1. started[Here] \in 0..(MaxTrials + 1) /\ MaxTrials \in Nat
    BY <1>2, FlowAssumption DEF IInv, CountsTyped
  <2>2. PICK n : n = IF conv[f].alive \/ started[Here] > MaxTrials
                     THEN started[Here] ELSE started[Here] + 1
    OBVIOUS
  <2>3. n \in 0..(MaxTrials + 1)
    BY <2>1, <2>2
  <2>4. started' = [started EXCEPT ![Here] = n]
    BY <1>4, <2>2
  <2>5. QED
    BY <1>1, <2>3, <2>4 DEF IInv, CountsTyped
<1>11. ControlTyped' /\ RestTyped'
  BY <1>1, <1>4 DEF IInv, ControlTyped, RestTyped, listVars
<1>12. PathInv'
  <2>1. /\ path \in Seq(Flows) /\ Len(path) \in Nat \ {0}
        /\ Deepest = path[Len(path)]
        /\ \A i \in 1..Len(path) : path[i] \in Flows
        /\ \A i \in 1..Len(path) : Above[path[i]] \subseteq Above[Deepest]
    BY <1>1, PathFacts DEF IInv, PathInv
  <2>2. /\ path' \in Seq(Flows) /\ Len(path') = Len(path) + 1
        /\ \A i \in 1..Len(path) : path'[i] = path[i]
        /\ path'[Len(path) + 1] = f
    BY <1>4, <1>5, <2>1
  <2>3. path' # <<>>
    BY <2>1, <2>2
  <2>4. ASSUME NEW i \in 1..Len(path')
        PROVE  path'[i] \in Above[path'[i]]
    <3>1. i = Len(path) + 1 \/ i \in 1..Len(path)
      BY <2>1, <2>2, <2>4
    <3>2. QED
      BY <1>5, <2>2, <3>1 DEF IInv, PathInv
  <2>5. ASSUME NEW i \in 1..(Len(path') - 1)
        PROVE  /\ conv'[path'[i]].step # None
               /\ Inner[conv'[path'[i]].step] = path'[i + 1]
    <3>1. i \in 1..Len(path)
      BY <2>1, <2>2, <2>5
    <3>2. path'[i] = path[i] /\ conv'[path[i]].step = conv[path[i]].step
      BY <1>8, <2>1, <2>2, <3>1
    <3>3. CASE i = Len(path)
      BY <1>1, <1>2, <1>3, <2>1, <2>2, <3>2, <3>3
    <3>4. CASE i # Len(path)
      <4>1. i \in 1..(Len(path) - 1) /\ i + 1 \in 1..Len(path)
        BY <2>1, <3>1, <3>4
      <4>2. path'[i + 1] = path[i + 1]
        BY <2>2, <4>1
      <4>3. QED
        BY <3>2, <4>1, <4>2 DEF IInv, PathInv
    <3>5. QED
      BY <3>3, <3>4
  <2>6. ASSUME NEW i \in 1..Len(path'), NEW j \in 1..Len(path'), i < j
        PROVE  /\ Above[path'[i]] \subseteq Above[path'[j]]
               /\ path'[j] \notin Above[path'[i]]
    <3>1. i \in 1..Len(path) /\ path'[i] = path[i]
      BY <2>1, <2>2, <2>6
    <3>2. CASE j = Len(path) + 1
      BY <1>5, <2>1, <2>2, <3>1, <3>2
    <3>3. CASE j # Len(path) + 1
      <4>1. j \in 1..Len(path) /\ path'[j] = path[j]
        BY <2>1, <2>2, <3>3
      <4>2. QED
        BY <2>6, <3>1, <4>1 DEF IInv, PathInv
    <3>4. QED
      BY <3>2, <3>3
  <2>7. QED
    BY <2>2, <2>3, <2>4, <2>5, <2>6 DEF PathInv
<1>13. QED
  BY <1>8, <1>9, <1>10, <1>11, <1>12 DEF IInv

\* A composite step is left when its sub-flow ended or raised.
LEMMA SubLeft ==
    ASSUME IInv, pc # "idle", Len(path) > 1, path' = Outer, NEW b,
           Leave(Composite, b, Without(Deepest), Below(Deepest)),
           Forget(Deepest), trials' \in [Steps -> 0..MaxTrials],
           UNCHANGED <<landed, error, last, lastUser, written>>
    PROVE  IInv'
<1>1. PICK p, f : p = Composite /\ f = Deepest
  OBVIOUS
<1>2. /\ Caller \in Flows /\ p \in Steps /\ f \in Flows /\ FlowOf[p] = Caller
      /\ conv[FlowOf[p]].step = p /\ Inner[p] = f
  BY <1>1, CallerFacts
<1>3. Leave(p, b, Without(f), Below(f)) /\ Forget(f)
  BY <1>1
<1>4. /\ FlowsTyped' /\ ControlTyped' /\ NotesInv' /\ pc' # "idle"
      /\ asker' \in Steps \cup {None}
      /\ reached' \in [Flows -> Steps \cup {None}]
      /\ since' \in [Steps -> 0..MaxMessages]
      /\ started' \in [Steps -> 0..(MaxTrials + 1)]
      /\ \A g \in Flows : f \notin Above[g] /\ g # FlowOf[p]
            => conv'[g].step = conv[g].step
  BY <1>2, <1>3, Dropped
<1>5. PathInv'
  <2>1. \A i \in 1..(Len(path) - 2) : conv'[path[i]].step = conv[path[i]].step
    BY <1>1, <1>2, <1>4, OuterFacts
  <2>2. QED
    BY <2>1, OuterPath DEF IInv
<1>6. CountsTyped' /\ RestTyped'
  BY <1>4 DEF IInv, CountsTyped, RestTyped
<1>7. QED
  BY <1>4, <1>5, <1>6 DEF IInv

LEMMA SubFlowEndsInv == IInv /\ SubFlowEnds => IInv'
<1> SUFFICES ASSUME IInv, SubFlowEnds PROVE IInv'
  OBVIOUS
<1>1. /\ pc # "idle" /\ Len(path) > 1 /\ path' = Outer
      /\ UNCHANGED <<landed, error, last, lastUser, written>>
      /\ trials' = TrialsWithout(Deepest) /\ Forget(Deepest)
  BY DEF SubFlowEnds, Ended
<1>2. PICK b : Leave(Composite, b, Without(Deepest), Below(Deepest))
  BY DEF SubFlowEnds
<1>3. Composite \in Steps
  BY <1>1, CallerFacts
<1>4. trials' \in [Steps -> 0..MaxTrials]
  BY <1>1, <1>3, FirstTrial, TrialsTyped DEF IInv
<1>5. QED
  BY <1>1, <1>2, <1>4, SubLeft

LEMMA TrialSucceedsInv == IInv /\ TrialSucceeds => IInv'
<1> SUFFICES ASSUME IInv, TrialSucceeds PROVE IInv'
  OBVIOUS
<1>1. /\ pc # "idle" /\ Len(path) > 1 /\ path' = Outer
      /\ UNCHANGED <<landed, error, last, lastUser, written>>
      /\ trials' = [TrialsWithout(Deepest) EXCEPT ![Composite] = 0]
      /\ Forget(Deepest)
  BY DEF TrialSucceeds, Ended
<1>2. PICK b : Leave(Composite, b, Without(Deepest), Below(Deepest))
  BY DEF TrialSucceeds
<1>3. Composite \in Steps
  BY <1>1, CallerFacts
<1>4. trials' \in [Steps -> 0..MaxTrials]
  BY <1>1, <1>3, FirstTrial, TrialsTyped DEF IInv
<1>5. QED
  BY <1>1, <1>2, <1>4, SubLeft

LEMMA TrialFailsInv == IInv /\ TrialFails => IInv'
<1> SUFFICES ASSUME IInv, TrialFails PROVE IInv'
  OBVIOUS
<1>1. PICK p, f : p = Composite /\ f = Deepest
  OBVIOUS
<1>2. /\ pc # "idle" /\ Len(path) > 1 /\ path' = Outer /\ Forget(f)
      /\ UNCHANGED <<landed, error, last, lastUser, written>>
  BY <1>1 DEF TrialFails, Ended
<1>3. /\ Caller \in Flows /\ p \in Steps /\ f \in Flows /\ FlowOf[p] = Caller
      /\ conv[FlowOf[p]].step = p /\ Inner[p] = f
  BY <1>1, <1>2, CallerFacts
<1>4. CASE trials[p] + 1 < MaxTrials
  <2>1. TryAgain(f, p, trials[p] + 1)
    BY <1>1, <1>4 DEF TrialFails
  <2>2. /\ Without(f) \in [Flows -> Conversations]
        /\ \A g \in Flows : Without(f)[g].step # None
                               => FlowOf[Without(f)[g].step] = g
        /\ \A g \in Flows \ Below(f) : Without(f)[g].step = conv[g].step
    BY <1>3, WithoutTyped DEF IInv
  <2>3. conv' = Without(f) /\ pc' = "loop" /\ UNCHANGED <<ret, exc>>
    BY <2>1 DEF TryAgain
  <2>4. FlowsTyped'
    BY <2>2, <2>3 DEF FlowsTyped
  <2>5. ControlTyped'
    BY <2>3 DEF IInv, ControlTyped
  <2>6. \A g \in Flows : f \notin Above[g] => conv'[g].step = conv[g].step
    BY <2>2, <2>3 DEF Below
  <2>7. /\ NotesInv' /\ asker' \in Steps \cup {None}
        /\ reached' \in [Flows -> Steps \cup {None}]
    BY <1>2, <1>3, <2>6, Forgotten
  <2>8. PathInv'
    <3>1. \A i \in 1..(Len(path) - 2) : conv'[path[i]].step = conv[path[i]].step
      BY <1>1, <1>2, <2>6, OuterFacts
    <3>2. QED
      BY <1>2, <3>1, OuterPath DEF IInv
  <2>9. CountsTyped'
    <3>1. trials[p] + 1 \in 0..MaxTrials /\ 0 \in 0..(MaxTrials + 1)
      BY <1>3, <1>4, FlowAssumption DEF IInv, CountsTyped
    <3>2. PICK n : n = trials[p] + 1
      OBVIOUS
    <3>3. trials' = [TrialsWithout(f) EXCEPT ![p] = n]
      BY <2>1, <3>2 DEF TryAgain
    <3>4. trials' \in [Steps -> 0..MaxTrials]
      BY <1>3, <3>1, <3>2, <3>3, TrialsTyped DEF IInv
    <3>5. /\ since' \in [Steps -> 0..MaxMessages]
          /\ started' \in [Steps -> 0..(MaxTrials + 1)]
      BY <2>1, <3>1 DEF TryAgain, IInv, CountsTyped, RestTyped
    <3>6. QED
      BY <3>4, <3>5 DEF CountsTyped
  <2>10. RestTyped'
    BY <1>2, <2>7 DEF IInv, RestTyped
  <2>11. QED
    BY <2>4, <2>5, <2>7, <2>8, <2>9, <2>10 DEF IInv
<1>5. CASE ~(trials[p] + 1 < MaxTrials)
  <2>1. GiveUp(f, p)
    BY <1>1, <1>5 DEF TrialFails
  <2>2. /\ Leave(p, "failure", Without(f), Below(f))
        /\ trials' = [TrialsWithout(f) EXCEPT ![p] = 0]
    BY <2>1 DEF GiveUp
  <2>3. trials' \in [Steps -> 0..MaxTrials]
    BY <1>3, <2>2, FirstTrial, TrialsTyped DEF IInv
  <2>4. QED
    BY <1>1, <1>2, <2>2, <2>3, SubLeft
<1>6. QED
  BY <1>4, <1>5

LEMMA PropagateInv == IInv /\ Propagate => IInv'
<1> SUFFICES ASSUME IInv, Propagate PROVE IInv'
  OBVIOUS
<1>1. /\ pc = "raise" /\ Len(path) > 1 /\ path' = Outer
      /\ UNCHANGED <<landed, error, last, lastUser, written>>
  BY DEF Propagate
<1>2. Composite \in Steps
  BY <1>1, CallerFacts
<1>3. CASE Kind[Composite] = "catch" /\ exc \in Catches[Composite]
  <2>1. /\ Leave(Composite, "error", Without(Deepest), Below(Deepest))
        /\ Forget(Deepest) /\ trials' = TrialsWithout(Deepest)
    BY <1>3 DEF Propagate
  <2>2. trials' \in [Steps -> 0..MaxTrials]
    BY <1>2, <2>1, FirstTrial, TrialsTyped DEF IInv
  <2>3. QED
    BY <1>1, <2>1, <2>2, SubLeft
<1>4. CASE ~(Kind[Composite] = "catch" /\ exc \in Catches[Composite])
  <2>1. UNCHANGED <<pc, conv, note, trials, ret, exc, asker, history>>
    BY <1>4 DEF Propagate
  <2>2. FlowsTyped' /\ NotesInv' /\ CountsTyped' /\ ControlTyped'
    BY <1>1, <2>1 DEF IInv, FlowsTyped, NotesInv, NotesAreCurrent, CountsTyped,
       ControlTyped, history
  <2>3. PathInv'
    BY <1>1, <2>1, OuterPath DEF IInv
  <2>4. RestTyped'
    BY <1>1, <2>1 DEF IInv, RestTyped, history
  <2>5. QED
    BY <2>2, <2>3, <2>4 DEF IInv
<1>5. QED
  BY <1>3, <1>4

LEMMA CatchInterruptInv == IInv /\ CatchInterrupt => IInv'
<1> SUFFICES ASSUME IInv, CatchInterrupt PROVE IInv'
  OBVIOUS
<1>1. /\ pc = "loop" /\ Here # None /\ Kind[Here] = "catch"
      /\ UNCHANGED <<path, landed, error, last, lastUser, written>>
  BY DEF CatchInterrupt, At
<1>2. PICK p, f : p = Here /\ f = Inner[Here]
  OBVIOUS
<1>3. /\ Deepest \in Flows /\ p \in Steps /\ FlowOf[p] = Deepest
      /\ conv[FlowOf[p]].step = p
  BY <1>1, <1>2, HereFacts
<1>4. f \in Flows /\ f \notin Above[Deepest] /\ Inner[p] = f
  BY <1>1, <1>2, <1>3, FlowAssumption DEF CompositeKinds
<1>5. /\ Leave(p, "error", Without(f), Below(f)) /\ Forget(f)
      /\ trials' = TrialsWithout(f)
  BY <1>2 DEF CatchInterrupt
<1>6. /\ FlowsTyped' /\ ControlTyped' /\ NotesInv' /\ pc' # "idle"
      /\ asker' \in Steps \cup {None}
      /\ reached' \in [Flows -> Steps \cup {None}]
      /\ since' \in [Steps -> 0..MaxMessages]
      /\ started' \in [Steps -> 0..(MaxTrials + 1)]
      /\ \A g \in Flows : f \notin Above[g] /\ g # FlowOf[p]
            => conv'[g].step = conv[g].step
  BY <1>3, <1>4, <1>5, Dropped
<1>7. PathInv'
  <2>1. ASSUME NEW i \in 1..(Len(path) - 1)
        PROVE  conv'[path[i]].step = conv[path[i]].step
    <3>1. i \in 1..Len(path) /\ i # Len(path)
      BY <1>1, PathFacts DEF IInv
    <3>2. /\ path[i] \in Flows /\ path[i] # Deepest
          /\ Above[path[i]] \subseteq Above[Deepest]
      BY <1>1, <3>1, PathFacts DEF IInv
    <3>3. QED
      BY <1>3, <1>4, <1>6, <3>2
  <2>2. path # <<>>
    BY <1>1 DEF IInv, PathInv
  <2>3. QED
    BY <1>1, <2>1, <2>2, SamePath DEF IInv
<1>8. CountsTyped' /\ RestTyped'
  <2>1. trials' \in [Steps -> 0..MaxTrials]
    BY <1>3, <1>5, FirstTrial, TrialsTyped DEF IInv
  <2>2. QED
    BY <1>1, <1>6, <2>1 DEF IInv, CountsTyped, RestTyped
<1>9. QED
  BY <1>6, <1>7, <1>8 DEF IInv

-----------------------------------------------------------------------------
(* Theorems.                                                               *)

LEMMA NextInv == IInv /\ [Next]_vars => IInv'
<1> SUFFICES ASSUME IInv, [Next]_vars PROVE IInv'
  OBVIOUS
<1>1. CASE Outside
  BY <1>1, UserMessageInv, SubmitToolResultInv, DecideConfirmationInv, ExecuteInv
     DEF Outside
<1>2. CASE Run
  <2>1. CASE Enter \/ Finish \/ Interrupt \/ AskUser \/ TakeAnswer
             \/ RunClientTool \/ RunTool \/ AskConfirmation
    BY <2>1, EnterInv, FinishInv, AskUserInv, TakeAnswerInv, RunClientToolInv,
       RunToolInv, AskConfirmationInv
  <2>2. CASE ChooseBranch \/ Complete \/ EnterSub \/ ReturnToCaller \/ StepYields
             \/ SubFlowEnds \/ TrialSucceeds
    BY <2>2, ChooseBranchInv, CompleteInv, EnterSubInv, ReturnToCallerInv,
       StepYieldsInv, SubFlowEndsInv, TrialSucceedsInv
  <2>3. CASE TrialFails \/ Propagate \/ RaiseToCaller \/ CatchInterrupt
    BY <2>3, TrialFailsInv, PropagateInv, RaiseToCallerInv, CatchInterruptInv
  <2>4. QED
    BY <1>2, <2>1, <2>2, <2>3 DEF Run
<1>3. CASE UNCHANGED vars
  BY <1>3, StutterInv
<1>4. QED
  BY <1>1, <1>2, <1>3 DEF Next

\* Every reachable state of an execution is well typed, and every conversation
\* stands at a step of its own flow, however flows are nested, yield, are
\* interrupted or raise (FlowConversationExecutionState).
THEOREM TypeCorrect == Spec => []TypeOK
<1>1. Spec => []IInv
  BY InitInv, NextInv, PTL DEF Spec
<1>2. QED
  BY <1>1, InvImplies, PTL

\* What a step keeps between two invocations (asked_user, TOOL_REQUEST) exists
\* only while its flow stands at that step: a yield, an interrupt, an exception
\* that is caught levels above, a retry and a finished sub-flow leave nothing
\* for the next visit.
THEOREM NothingIsLeftBehind == Spec => []NotesAreCurrent
<1>1. Spec => []IInv
  BY InitInv, NextInv, PTL DEF Spec
<1>2. QED
  BY <1>1, InvImplies, PTL

-----------------------------------------------------------------------------
(* The flows around the innermost one.                                     *)

\* The path goes from Top through every flow around the innermost one.
Tree == /\ IF pc = "idle" THEN path = <<>> ELSE path[1] = Top
        /\ \A i \in 1..Len(path) : Above[path[i]] = {path[j] : j \in 1..i}

LEMMA PathMoves ==
    ASSUME IInv, [Next]_vars
    PROVE  \/ path' = path /\ (pc' = "idle" <=> pc = "idle")
           \/ path' = <<>> /\ pc' = "idle"
           \/ pc = "idle" /\ path' = <<Top>> /\ pc' = "enter"
           \/ EnterSub
           \/ pc # "idle" /\ pc' # "idle" /\ Len(path) > 1 /\ path' = Outer
<1>1. CASE Outside \/ UNCHANGED vars
  BY <1>1 DEF Outside, UserMessage, SubmitToolResult, DecideConfirmation, Execute,
     vars
<1>2. CASE Enter \/ Finish \/ Interrupt \/ AskUser \/ AskConfirmation
  BY <1>2 DEF Enter, Finish, Interrupt, AskUser, AskConfirmation, At, ReturnWith,
     Raise
<1>3. CASE TakeAnswer \/ RunClientTool \/ RunTool \/ ChooseBranch \/ Complete
  BY <1>3 DEF TakeAnswer, RunClientTool, RunTool, ChooseBranch, Complete, At,
     ReturnWith, Raise, Pass, Leave
<1>4. CASE ReturnToCaller \/ StepYields \/ RaiseToCaller \/ EnterSub
  BY <1>4 DEF ReturnToCaller, StepYields, RaiseToCaller, ReturnWith, Raise
<1>5. CASE SubFlowEnds \/ TrialSucceeds \/ TrialFails
  BY <1>5 DEF SubFlowEnds, TrialSucceeds, TrialFails, TryAgain, GiveUp, Ended,
     Leave, Raise
<1>6. CASE Propagate \/ CatchInterrupt
  BY <1>6 DEF Propagate, CatchInterrupt, At, Leave, Raise
<1> QED BY <1>1, <1>2, <1>3, <1>4, <1>5, <1>6 DEF Next, Run

LEMMA TreeNext == IInv /\ Tree /\ [Next]_vars => Tree'
<1> SUFFICES ASSUME IInv, Tree, [Next]_vars PROVE Tree'
  OBVIOUS
<1>1. CASE path' = path /\ (pc' = "idle" <=> pc = "idle")
  BY <1>1 DEF Tree
<1>2. CASE path' = <<>> /\ pc' = "idle"
  <2>1. Len(path') = 0
    BY <1>2
  <2> QED BY <1>2, <2>1 DEF Tree
<1>3. CASE path' = <<Top>> /\ pc' = "enter"
  <2>1. Len(path') = 1 /\ path'[1] = Top
    BY <1>3
  <2>2. {path'[j] : j \in 1..1} = {Top}
    BY <2>1
  <2>3. Above[Top] = {Top}
    BY FlowAssumption
  <2> QED BY <1>3, <2>1, <2>2, <2>3 DEF Tree
<1>4. CASE EnterSub
  <2>1. /\ pc = "loop" /\ pc' = "enter" /\ Here # None
        /\ Kind[Here] \in CompositeKinds
    BY <1>4 DEF EnterSub, At
  <2>2. PICK f : f = Inner[Here]
    OBVIOUS
  <2>3. Here \in Steps /\ FlowOf[Here] = Deepest
    BY <2>1, HereFacts
  <2>4. f \in Flows /\ Above[f] = {f} \cup Above[Deepest]
    BY <2>1, <2>2, <2>3, FlowAssumption
  <2>5. /\ path \in Seq(Flows) /\ Len(path) \in Nat \ {0}
        /\ Deepest = path[Len(path)]
    BY <2>1, PathFacts DEF IInv, PathInv
  <2>6. path' = Append(path, f)
    BY <1>4, <2>2 DEF EnterSub
  <2>7. /\ Len(path') = Len(path) + 1 /\ path'[Len(path) + 1] = f
        /\ \A i \in 1..Len(path) : path'[i] = path[i]
    BY <2>4, <2>5, <2>6
  <2>8. Above[Deepest] = {path[j] : j \in 1..Len(path)}
    BY <2>5 DEF Tree
  <2>9. {path'[j] : j \in 1..(Len(path) + 1)} = {f} \cup {path[j] : j \in 1..Len(path)}
    BY <2>5, <2>7
  <2>10. ASSUME NEW i \in 1..Len(path')
         PROVE  Above[path'[i]] = {path'[j] : j \in 1..i}
    <3>1. CASE i = Len(path) + 1
      BY <2>4, <2>7, <2>8, <2>9, <3>1
    <3>2. CASE i # Len(path) + 1
      <4>1. i \in 1..Len(path) /\ \A j \in 1..i : j \in 1..Len(path)
        BY <2>5, <2>7, <3>2
      <4>2. \A j \in 1..i : path'[j] = path[j]
        BY <2>7, <4>1
      <4>3. {path'[j] : j \in 1..i} = {path[j] : j \in 1..i}
        BY <4>2
      <4>4. Above[path[i]] = {path[j] : j \in 1..i} /\ path'[i] = path[i]
        BY <2>7, <4>1 DEF Tree
      <4> QED BY <4>3, <4>4
    <3> QED BY <3>1, <3>2
  <2>11. path'[1] = Top
    BY <2>1, <2>5, <2>7 DEF Tree
  <2> QED BY <2>1, <2>10, <2>11 DEF Tree
<1>5. CASE pc # "idle" /\ pc' # "idle" /\ Len(path) > 1 /\ path' = Outer
  <2>1. /\ Len(path) \in Nat /\ Len(path') = Len(path) - 1
        /\ \A i \in 1..(Len(path) - 1) : path'[i] = path[i]
    BY <1>5 DEF IInv, PathInv, Outer
  <2>2. ASSUME NEW i \in 1..Len(path')
        PROVE  Above[path'[i]] = {path'[j] : j \in 1..i}
    <3>1. i \in 1..Len(path) /\ \A j \in 1..i : j \in 1..(Len(path) - 1)
      BY <2>1
    <3>2. \A j \in 1..i : path'[j] = path[j]
      BY <2>1, <3>1
    <3>3. {path'[j] : j \in 1..i} = {path[j] : j \in 1..i}
      BY <3>2
    <3>4. Above[path[i]] = {path[j] : j \in 1..i} /\ path'[i] = path[i]
      BY <2>1, <3>1 DEF Tree
    <3> QED BY <3>3, <3>4
  <2>3. path'[1] = Top
    BY <1>5, <2>1 DEF Tree
  <2> QED BY <1>5, <2>2, <2>3 DEF Tree
<1> QED BY <1>1, <1>2, <1>3, <1>4, <1>5, PathMoves

-----------------------------------------------------------------------------
(* Flows whose branches are all connected.                                 *)

\* A flow ends at a step without an edge, or by an edge to None.
CanEnd(s) == \/ \A e \in Edges : e[1] # s
             \/ \E e \in Edges : e[1] = s /\ e[3] = None
FallsOut(f) == \E s \in Steps : FlowOf[s] = f /\ Kind[s] # "complete" /\ CanEnd(s)
Landings(f) == {s \in Steps : FlowOf[s] = f /\ Kind[s] = "complete"}

\* The branches by which a step may be left (get_branches), those of a
\* BranchingStep aside, which takes one of its edges.
Exits(s) ==
    IF Kind[s] \notin CompositeKinds THEN {"next"}
    ELSE (IF Kind[s] = "retry" THEN Landings(Inner[s]) \cup {"failure"}
                               ELSE {Branch[t] : t \in Landings(Inner[s])})
         \cup (IF Kind[s] = "catch" THEN {"error"} ELSE {})
         \cup (IF FallsOut(Inner[s]) THEN {"next"} ELSE {})

\* A flow warns of a branch without an edge when it is built.  A RetryStep
\* around a sub-flow that cannot yield must not be interrupted, and no interrupt
\* comes after the last step.
Wired ==
    /\ \A s \in Steps : Kind[s] # "branching" =>
          \A b \in Exits(s) : Connected(s, b)
    /\ Interrupts => \A s \in Steps : Kind[s] = "retry" => MightYield(Inner[s])
    /\ ~Late

\* A sub-flow without a step is the innermost flow, and its end is known: it
\* landed on a complete step in this execution, or has another way out.
LandedInv == \A f \in Flows : landed[f] # None => landed[f] \in Landings(f)
EndInv == \A f \in Flows \ {Top} : conv[f].step = None =>
             /\ pc \in {"loop", "return"} /\ f = Deepest
             /\ pc = "return" => ret.type = "finished"
             /\ landed[f] = None => FallsOut(f)
OutcomeInv == /\ exc # "internal" /\ error # "internal"
              /\ ret.type = "interrupted" => Interrupts
              /\ pc = "return" /\ ret.type = "finished" => Here = None

\* A step starts its sub-flow once in each trial, of which there are fewer than
\* MaxTrials.
Trial(s) == IF Kind[s] = "retry" THEN trials[s] ELSE 0
Live(s) == IF conv[Inner[s]].alive THEN 1 ELSE 0
StartsInv == \A s \in Steps :
    /\ Inner[s] = None => started[s] = 0
    /\ Kind[s] = "retry" => trials[s] < MaxTrials
    /\ started[s] <= IF Kind[s] = "retry" THEN MaxTrials ELSE 1
    /\ Inner[s] # None /\ conv[FlowOf[s]].step = s
          => started[s] <= Trial(s) + Live(s)

WiredInv == IInv /\ Tree /\ LandedInv /\ EndInv /\ OutcomeInv /\ StartsInv

\* Only the innermost flow may be without a step, and only at its end.
LEMMA StepsLeft ==
    ASSUME IInv, Tree, EndInv,
           \/ pc \notin {"loop", "return"}
           \/ pc = "loop" /\ Here # None
           \/ pc = "return" /\ (ret.type # "finished" \/ Len(path) = 1)
    PROVE  \A f \in Flows \ {Top} : conv[f].step # None
<1> SUFFICES ASSUME NEW f \in Flows \ {Top}, conv[f].step = None PROVE FALSE
  OBVIOUS
<1>1. /\ pc \in {"loop", "return"} /\ f = Deepest
      /\ pc = "return" => ret.type = "finished"
  BY DEF EndInv
<1>2. pc # "loop"
  BY <1>1 DEF Here
<1>3. Len(path) # 1
  BY <1>1 DEF Tree, Deepest
<1> QED BY <1>1, <1>2, <1>3

\* The steps stay and no sub-flow is without one.
LEMMA QuietEnd ==
    ASSUME \A f \in Flows \ {Top} : conv[f].step # None,
           \A f \in Flows : conv'[f].step = conv[f].step
    PROVE  EndInv'
BY DEF EndInv

LEMMA InitWired == Init => WiredInv
<1> SUFFICES ASSUME Init PROVE WiredInv
  OBVIOUS
<1>1. IInv
  BY InitInv
<1>2. Tree /\ LandedInv
  BY DEF Init, Tree, LandedInv
<1>3. EndInv
  <2>1. \A f \in Flows : conv[f].step = Begin[f] /\ Begin[f] # None
    BY FlowAssumption DEF Init, NewConversation
  <2> QED BY <2>1 DEF EndInv
<1>4. OutcomeInv
  BY DEF Init, OutcomeInv, NoStatus
<1>5. StartsInv
  <2>1. \A s \in Steps : started[s] = 0 /\ trials[s] = 0
    BY DEF Init
  <2>2. \A s \in Steps : Live(s) \in {0, 1} /\ Trial(s) = 0
    BY <2>1 DEF Live, Trial
  <2> QED BY <2>1, <2>2, FlowAssumption DEF StartsInv
<1> QED BY <1>1, <1>2, <1>3, <1>4, <1>5 DEF WiredInv

\* The counts of the steps depend on the sub-conversations.
LEMMA SameStarts ==
    ASSUME StartsInv, UNCHANGED <<started, trials>>,
           \A f \in Flows : conv'[f].step = conv[f].step,
           \A f \in Flows : conv'[f].alive = conv[f].alive
    PROVE  StartsInv'
<1>1. \A s \in Steps : FlowOf[s] \in Flows /\ (Inner[s] # None => Inner[s] \in Flows)
  BY FlowAssumption
<1>2. \A s \in Steps : Trial(s)' = Trial(s) /\ (Inner[s] # None => Live(s)' = Live(s))
  BY <1>1 DEF Trial, Live
<1> QED BY <1>1, <1>2 DEF StartsInv

\* The innermost flow returns or raises, or goes on, and nothing else moves.
LEMMA QuietWired ==
    ASSUME WiredInv, IInv', Tree', pc' = "return" => ret'.type # "finished",
           \A f \in Flows \ {Top} : conv[f].step # None,
           \A f \in Flows : conv'[f].step = conv[f].step,
           \A f \in Flows : conv'[f].alive = conv[f].alive,
           \A f \in Flows : landed'[f] \in {landed[f], None},
           UNCHANGED <<started, trials>>,
           exc' # "internal", error' # "internal",
           ret'.type = "interrupted" => Interrupts
    PROVE  WiredInv'
<1>2. LandedInv' /\ OutcomeInv'
  BY DEF WiredInv, LandedInv, OutcomeInv
<1>3. EndInv' /\ StartsInv'
  BY QuietEnd, SameStarts DEF WiredInv
<1> QED BY <1>2, <1>3 DEF WiredInv

LEMMA DetachedFlags ==
    ASSUME FlowsTyped, NEW g \in Flows, NEW F
    PROVE  /\ Detached(g, F).alive = conv[g].alive
           /\ Detached(g, F).handled = conv[g].handled
           /\ Detached(g, F).status.type = conv[g].status.type
           /\ Detached(g, F).status.owner = IF conv[g].status.owner \in F THEN None
                                            ELSE conv[g].status.owner
<1>1. conv[g] \in Conversations /\ conv[g].status \in Statuses
  BY DEF FlowsTyped, Conversations
<1>2. PICK d : d = [conv[g].status EXCEPT !.owner = None]
  OBVIOUS
<1>3. d.type = conv[g].status.type /\ d.owner = None
  BY <1>1, <1>2 DEF Statuses
<1>4. Detached(g, F) = IF conv[g].status.owner \in F
                       THEN [conv[g] EXCEPT !.status = d] ELSE conv[g]
  BY <1>1, <1>2 DEF Detached, Conversations
<1> QED BY <1>1, <1>3, <1>4 DEF Conversations

LEMMA SettledFlags ==
    ASSUME FlowsTyped, NEW f \in Flows, NEW s \in Statuses
    PROVE  /\ \A g \in Flows : Settled(f, s)[g].alive = conv[g].alive
           /\ \A g \in Flows : Settled(f, s)[g].step = conv[g].step
           /\ Settled(f, s)[f].status = s /\ Settled(f, s)[f].handled = FALSE
           /\ \A g \in Flows \ {f} : Settled(f, s)[g] = Detached(g, {f})
<1> DEFINE c == [conv[f] EXCEPT !.status = s, !.handled = FALSE, !.response = 0]
<1>1. c.alive = conv[f].alive /\ c.status = s /\ c.handled = FALSE
  BY DEF FlowsTyped, Conversations
<1>2. \A g \in Flows : Settled(f, s)[g] = IF g = f THEN c ELSE Detached(g, {f})
  BY DEF Settled
<1> HIDE DEF c
<1>3. /\ Settled(f, s)[f] = c
      /\ \A g \in Flows \ {f} : Settled(f, s)[g] = Detached(g, {f})
  BY <1>2
<1>4. \A g \in Flows : Settled(f, s)[g].alive = conv[g].alive
  BY <1>1, <1>3, DetachedFlags
<1>5. \A g \in Flows : Settled(f, s)[g].step = conv[g].step
  BY SettledTyped
<1> QED BY <1>1, <1>3, <1>4, <1>5

LEMMA SettledSame ==
    ASSUME FlowsTyped, NEW f \in Flows, NEW s \in Statuses, NEW g \in Flows
    PROVE  /\ Settled(f, s)[g].alive = conv[g].alive
           /\ Settled(f, s)[g].step = conv[g].step
<1>1. \A h \in Flows : Settled(f, s)[h].alive = conv[h].alive
  BY SettledFlags, Zenon
<1> QED BY <1>1, SettledTyped

LEMMA OutsideWired == WiredInv /\ IInv' /\ Tree' /\ Outside => WiredInv'
<1> SUFFICES ASSUME WiredInv, IInv', Tree', Outside PROVE WiredInv'
  OBVIOUS
<1>1. /\ pc = "idle" /\ conv \in [Flows -> Conversations]
      /\ \A f \in Flows \ {Top} : conv[f].step # None
  <2>1. pc = "idle"
    BY DEF Outside, UserMessage, SubmitToolResult, DecideConfirmation, Execute
  <2> QED BY <2>1, StepsLeft DEF WiredInv, IInv, FlowsTyped
<1>2. \A f \in Flows : conv'[f].step = conv[f].step /\ conv'[f].alive = conv[f].alive
  <2>1. CASE UserMessage
    <3>1. PICK o, b, w : /\ w = written' /\ o = conv[Top].status.owner
                         /\ b = (conv[Top].status.type = "user"
                                   /\ conv[Top].status.owner # Top)
      OBVIOUS
    <3>2. conv' = [f \in Flows |->
             IF b /\ f = o THEN [conv[f] EXCEPT !.response = w]
             ELSE IF f = Top /\ conv[Top].status.type = "user"
             THEN [conv[f] EXCEPT !.handled = TRUE] ELSE conv[f]]
      BY <2>1, <3>1 DEF UserMessage
    <3>3. \A f \in Flows : conv'[f] \in {conv[f], [conv[f] EXCEPT !.response = w],
                                        [conv[f] EXCEPT !.handled = TRUE]}
      BY <3>2
    <3> QED BY <1>1, <3>3 DEF Conversations
  <2>2. CASE SubmitToolResult
    <3>1. PICK o : conv' = [conv EXCEPT ![o].response = 1]
      BY <2>2 DEF SubmitToolResult
    <3> QED BY <1>1, <3>1 DEF Conversations
  <2>3. CASE DecideConfirmation \/ Execute
    BY <2>3 DEF DecideConfirmation, Execute
  <2> QED BY <2>1, <2>2, <2>3 DEF Outside
<1>3. /\ UNCHANGED <<landed, started, trials, exc, ret>> /\ error' \in {error, "none"}
  BY DEF Outside, UserMessage, SubmitToolResult, DecideConfirmation, Execute, history
<1>4. pc' \in {"idle", "enter"}
  BY DEF Outside, UserMessage, SubmitToolResult, DecideConfirmation, Execute
<1> QED BY <1>1, <1>2, <1>3, <1>4, QuietWired DEF WiredInv, OutcomeInv

LEMMA EnterFlags ==
    ASSUME IInv, Enter
    PROVE  /\ \A g \in Flows : /\ conv'[g].step = conv[g].step
                               /\ conv'[g].alive = conv[g].alive
           /\ \A g \in Flows : landed'[g] \in {landed[g], None}
<1>1. conv \in [Flows -> Conversations] /\ landed \in [Flows -> Steps \cup {None}]
  BY DEF IInv, FlowsTyped, RestTyped
<1>2. PICK f : f = Deepest
  OBVIOUS
<1>3. f \in Flows
  BY <1>2, PathFacts DEF IInv, Enter
<1>4. PICK own, type, given :
         /\ own = (conv[f].status.owner = f /\ ~conv[f].handled)
         /\ type = (IF own THEN conv[f].status.type ELSE "none")
         /\ given = conv[f].response
  OBVIOUS
<1>5. CASE type = "tool" /\ given = 0
  <2>1. UNCHANGED <<conv, landed>>
    BY <1>2, <1>4, <1>5 DEF Enter
  <2> QED BY <2>1
<1>6. CASE ~(type = "tool" /\ given = 0)
  <2>1. /\ conv' = [conv EXCEPT ![f].handled = @ \/ own,
                               ![f].response = IF type = "tool" THEN 0 ELSE @]
        /\ landed' = [landed EXCEPT ![f] = None]
    BY <1>2, <1>4, <1>6 DEF Enter
  <2>2. PICK x : x = [conv EXCEPT ![f].handled = @ \/ own]
    OBVIOUS
  <2>3. conv' = [x EXCEPT ![f].response = IF type = "tool" THEN 0 ELSE @]
    BY <2>1, <2>2
  <2>4. PICK n : conv' = [x EXCEPT ![f].response = n]
    BY <2>3
  <2>5. /\ DOMAIN x = Flows /\ \A g \in Flows \ {f} : x[g] = conv[g]
        /\ x[f] = [conv[f] EXCEPT !.handled = @ \/ own]
    BY <1>1, <1>3, <2>2
  <2>6. /\ \A g \in Flows \ {f} : conv'[g] = conv[g]
        /\ conv'[f] = [x[f] EXCEPT !.response = n]
    BY <1>3, <2>4, <2>5
  <2>7. conv[f] \in Conversations
    BY <1>1, <1>3
  <2>8. conv'[f].step = conv[f].step /\ conv'[f].alive = conv[f].alive
    BY <2>5, <2>6, <2>7 DEF Conversations
  <2> QED BY <1>1, <1>3, <2>1, <2>6, <2>8
<1> QED BY <1>5, <1>6

LEMMA EnterWired == WiredInv /\ IInv' /\ Tree' /\ Enter => WiredInv'
<1> SUFFICES ASSUME WiredInv, IInv', Tree', Enter PROVE WiredInv'
  OBVIOUS
<1>1. /\ pc = "enter" /\ UNCHANGED <<trials, error, history>>
      /\ \A f \in Flows \ {Top} : conv[f].step # None
  <2>1. pc = "enter" /\ UNCHANGED <<trials, error, history>>
    BY DEF Enter
  <2> QED BY <2>1, StepsLeft DEF WiredInv
<1>2. pc' # "return" /\ exc' \in {exc, "value"} /\ ret' = ret
  BY DEF Enter, Raise
<1>3. /\ \A g \in Flows : conv'[g].step = conv[g].step /\ conv'[g].alive = conv[g].alive
      /\ \A g \in Flows : landed'[g] \in {landed[g], None}
  BY EnterFlags DEF WiredInv
<1> QED BY <1>1, <1>2, <1>3, QuietWired DEF WiredInv, OutcomeInv, history

\* The innermost flow returns or raises, and its conversation stays as it is.
LEMMA SameConvWired ==
    ASSUME WiredInv, IInv', Tree', pc = "loop", Here # None,
           pc' = "return" => ret'.type # "finished",
           UNCHANGED <<conv, landed, started, trials, error>>,
           exc' # "internal", ret'.type = "interrupted" => Interrupts
    PROVE  WiredInv'
<1>1. \A f \in Flows \ {Top} : conv[f].step # None
  BY StepsLeft DEF WiredInv
<1> QED BY <1>1, QuietWired DEF WiredInv, OutcomeInv

LEMMA FinishWired == WiredInv /\ IInv' /\ Tree' /\ Finish => WiredInv'
<1> SUFFICES ASSUME WiredInv, IInv', Tree', Finish PROVE WiredInv'
  OBVIOUS
<1>1. /\ pc = "loop" /\ Here = None /\ pc' = "return" /\ exc' = exc
      /\ ret' = Status("finished", Deepest, None)
      /\ UNCHANGED <<path, conv, trials, landed, error, history>>
  BY DEF Finish, ReturnWith
<1>2. ret'.type = "finished"
  BY <1>1 DEF Status
<1>3. LandedInv' /\ OutcomeInv'
  BY <1>1, <1>2 DEF WiredInv, LandedInv, OutcomeInv, Here, Deepest
<1>4. EndInv'
  BY <1>1, <1>2 DEF WiredInv, EndInv, Deepest
<1>5. StartsInv'
  BY <1>1, SameStarts DEF WiredInv, history
<1> QED BY <1>3, <1>4, <1>5 DEF WiredInv

LEMMA YieldTypes ==
    ASSUME ReturnWith(YieldStatus)
    PROVE  ret'.type \in {"tool", "user"} /\ exc' = exc /\ pc' = "return"
BY DEF ReturnWith, YieldStatus, Status

LEMMA InterruptWired ==
    Wired /\ WiredInv /\ IInv' /\ Tree' /\ Interrupt => WiredInv'
<1> SUFFICES ASSUME Wired, WiredInv, IInv', Tree', Interrupt PROVE WiredInv'
  OBVIOUS
<1>1. /\ pc = "loop" /\ Here # None /\ Interrupts /\ exc' = exc
      /\ ret' = Status("interrupted", Deepest, None)
      /\ UNCHANGED <<conv, trials, landed, error, history>>
  BY DEF Interrupt, ReturnWith, Wired
<1>2. ret'.type = "interrupted"
  BY <1>1 DEF Status
<1> QED BY <1>1, <1>2, SameConvWired DEF WiredInv, OutcomeInv, history

LEMMA AskWired ==
    WiredInv /\ IInv' /\ Tree' /\ (AskUser \/ AskConfirmation) => WiredInv'
<1> SUFFICES ASSUME WiredInv, IInv', Tree', AskUser \/ AskConfirmation
             PROVE WiredInv'
  OBVIOUS
<1>1. exc # "internal" /\ (ret.type = "interrupted" => Interrupts)
  BY DEF WiredInv, OutcomeInv
<1>2. CASE AskUser
  <2>1. /\ pc = "loop" /\ Here # None /\ ReturnWith(YieldStatus)
        /\ UNCHANGED <<conv, trials, landed, error, started>>
    BY <1>2 DEF AskUser, At
  <2> QED BY <1>1, <2>1, YieldTypes, SameConvWired
<1>3. CASE AskConfirmation
  <2>1. /\ pc = "loop" /\ Here # None
        /\ UNCHANGED <<conv, trials, landed, error, started>>
        /\ \/ ReturnWith(Status("confirm", Deepest, Here))
           \/ Raise("value")
    BY <1>3 DEF AskConfirmation, At, Unasked
  <2>2. \/ pc' = "return" /\ exc' = exc /\ ret'.type = "confirm"
        \/ pc' = "raise" /\ exc' = "value" /\ ret' = ret
    BY <2>1 DEF ReturnWith, Raise, Status
  <2> QED BY <1>1, <2>1, <2>2, SameConvWired
<1> QED BY <1>2, <1>3

LEMMA ReturnedWired ==
    WiredInv /\ IInv' /\ Tree' /\ (ReturnToCaller \/ RaiseToCaller) => WiredInv'
<1> SUFFICES ASSUME WiredInv, IInv', Tree', ReturnToCaller \/ RaiseToCaller
             PROVE WiredInv'
  OBVIOUS
<1>1. /\ pc' = "idle" /\ UNCHANGED <<trials, landed, ret, started>>
      /\ exc' \in {exc, "none"} /\ error' \in {error, exc}
      /\ pc = "raise" \/ (pc = "return" /\ Len(path) = 1)
  BY DEF ReturnToCaller, RaiseToCaller, history
<1>2. \A f \in Flows \ {Top} : conv[f].step # None
  BY <1>1, StepsLeft DEF WiredInv
<1>3. \A g \in Flows : conv'[g].step = conv[g].step /\ conv'[g].alive = conv[g].alive
  <2>1. CASE ReturnToCaller
    <3>1. conv' = Settled(Top, ret) /\ Top \in Flows /\ ret \in Statuses
      BY <2>1, FlowAssumption DEF ReturnToCaller, WiredInv, IInv, ControlTyped
    <3>2. PICK s : s = ret
      OBVIOUS
    <3>3. FlowsTyped /\ s \in Statuses /\ conv' = Settled(Top, s) /\ Top \in Flows
      BY <3>1, <3>2 DEF WiredInv, IInv
    <3> QED BY <3>3, SettledSame
  <2>2. CASE RaiseToCaller
    BY <2>2 DEF RaiseToCaller
  <2> QED BY <2>1, <2>2
<1> QED BY <1>1, <1>2, <1>3, QuietWired DEF WiredInv, OutcomeInv

\* What a step does when it is left by a branch that is connected.
LEMMA LeaveEffect ==
    ASSUME NEW s \in Steps, NEW b, NEW c \in [Flows -> Conversations], NEW D,
           Connected(s, b), Leave(s, b, c, D)
    PROVE  /\ pc' = "loop" /\ ret' = ret /\ exc' = "none"
           /\ \A g \in Flows : conv'[g].alive = c[g].alive
           /\ \A g \in Flows \ {FlowOf[s]} : conv'[g].step = c[g].step
           /\ conv'[FlowOf[s]].step = Destination(s, b)
           /\ \A t \in Steps : started'[t] =
                 IF FlowOf[t] \in D \/ t = Destination(s, b) THEN 0 ELSE started[t]
           /\ Destination(s, b) = None => CanEnd(s)
<1>1. /\ conv' = [c EXCEPT ![FlowOf[s]].step = Destination(s, b)]
      /\ pc' = "loop" /\ ret' = ret /\ exc' = "none"
  BY DEF Leave
<1>2. \A t \in Steps : started'[t] =
         IF FlowOf[t] \in D \/ t = Destination(s, b) THEN 0 ELSE started[t]
  BY DEF Leave
<1>3. FlowOf[s] \in Flows
  BY FlowAssumption
<1>4. PICK v : v = [c[FlowOf[s]] EXCEPT !.step = Destination(s, b)]
  OBVIOUS
<1>5. v.alive = c[FlowOf[s]].alive /\ v.step = Destination(s, b)
  BY <1>3, <1>4 DEF Conversations
<1>6. conv' = [c EXCEPT ![FlowOf[s]] = v]
  BY <1>1, <1>4
<1>7. /\ \A g \in Flows : conv'[g].alive = c[g].alive
      /\ \A g \in Flows \ {FlowOf[s]} : conv'[g].step = c[g].step
      /\ conv'[FlowOf[s]].step = Destination(s, b)
  BY <1>3, <1>5, <1>6
<1>8. ASSUME Destination(s, b) = None PROVE CanEnd(s)
  <2>1. CASE \A e \in Edges : e[1] # s
    BY <2>1 DEF CanEnd
  <2>2. CASE ~ \A e \in Edges : e[1] # s
    <3>1. \E e \in Edges : e[1] = s /\ e[2] = b
      BY <2>2 DEF Connected
    <3>2. PICK d : d = CHOOSE e \in Edges : e[1] = s /\ e[2] = b
      OBVIOUS
    <3>3. d \in Edges /\ d[1] = s
      BY <3>1, <3>2, Zenon
    <3>4. Destination(s, b) = d[3]
      BY <2>2, <3>2, Zenon DEF Destination
    <3> QED BY <1>8, <3>3, <3>4 DEF CanEnd
  <2> QED BY <2>1, <2>2
<1> QED BY <1>1, <1>2, <1>7, <1>8

\* A step of the innermost flow is left.
LEMMA PassWired ==
    ASSUME Wired, WiredInv, IInv', Tree', pc = "loop", Here # None,
           Kind[Here] \notin CompositeKinds, NEW b, Pass(b), Connected(Here, b),
           UNCHANGED <<path, trials, error>>,
           \A g \in Flows \ {Deepest} : landed'[g] = landed[g],
           landed'[Deepest] = IF Kind[Here] = "complete" THEN Here
                                                         ELSE landed[Deepest]
    PROVE  WiredInv'
<1>1. /\ Deepest \in Flows /\ Here \in Steps /\ FlowOf[Here] = Deepest
      /\ conv[Deepest].step = Here
  BY HereFacts DEF WiredInv
<1>2. PICK c, h, D, f : c = conv /\ h = Here /\ D = {} /\ f = Deepest
  OBVIOUS
<1>3. h \in Steps /\ c \in [Flows -> Conversations] /\ Connected(h, b)
      /\ Leave(h, b, c, D)
  BY <1>1, <1>2 DEF Pass, WiredInv, IInv, FlowsTyped
<1>4. /\ pc' = "loop" /\ ret' = ret /\ exc' = "none"
      /\ \A g \in Flows : conv'[g].alive = c[g].alive
      /\ \A g \in Flows \ {FlowOf[h]} : conv'[g].step = c[g].step
      /\ conv'[FlowOf[h]].step = Destination(h, b)
      /\ \A t \in Steps : started'[t] =
            IF FlowOf[t] \in D \/ t = Destination(h, b) THEN 0 ELSE started[t]
      /\ Destination(h, b) = None => CanEnd(h)
  BY <1>3, LeaveEffect
<1>5. \A g \in Flows \ {Top} : conv[g].step # None
  BY StepsLeft DEF WiredInv
<1>6. LandedInv' /\ OutcomeInv'
  BY <1>1, <1>4 DEF WiredInv, LandedInv, OutcomeInv, Landings
<1>7. EndInv'
  <2>1. SUFFICES ASSUME NEW g \in Flows \ {Top}, conv'[g].step = None
                 PROVE  g = Deepest' /\ (landed'[g] = None => FallsOut(g))
    BY <1>4 DEF EndInv
  <2>2. g = f /\ Destination(h, b) = None
    BY <1>1, <1>2, <1>4, <1>5, <2>1
  <2>3. Deepest' = Deepest
    BY DEF Deepest
  <2>4. landed'[g] = None => Kind[h] # "complete"
    BY <1>1, <1>2, <2>2, FlowAssumption
  <2> QED BY <1>1, <1>2, <1>4, <2>2, <2>3, <2>4 DEF FallsOut
<1>8. StartsInv'
  <2>1. \A t \in Steps : started'[t] \in {0, started[t]}
    BY <1>4
  <2>2. \A t \in Steps : Trial(t)' = Trial(t)
                         /\ (Inner[t] # None => Live(t)' = Live(t))
    BY <1>2, <1>4, FlowAssumption DEF Trial, Live
  <2>3. \A t \in Steps : Trial(t) \in Nat /\ Live(t) \in {0, 1}
    BY FlowAssumption DEF Trial, Live, WiredInv, IInv, CountsTyped
  <2>4. ASSUME NEW t \in Steps, Inner[t] # None, conv'[FlowOf[t]].step = t
        PROVE  started'[t] <= Trial(t)' + Live(t)'
    <3>1. CASE FlowOf[t] = f
      BY <1>1, <1>2, <1>4, <2>2, <2>3, <2>4, <3>1
    <3>2. CASE FlowOf[t] # f
      <4>1. conv[FlowOf[t]].step = t
        BY <1>1, <1>2, <1>4, <2>4, <3>2, FlowAssumption
      <4>2. started[t] <= Trial(t) + Live(t)
        BY <2>4, <4>1 DEF WiredInv, StartsInv
      <4> QED BY <2>1, <2>2, <2>3, <2>4, <4>2
    <3> QED BY <3>1, <3>2
  <2>5. \A t \in Steps : Kind[t] = "retry" => trials'[t] < MaxTrials
    BY DEF WiredInv, StartsInv
  <2>6. ASSUME NEW t \in Steps
        PROVE  /\ Inner[t] = None => started'[t] = 0
               /\ started'[t] <= IF Kind[t] = "retry" THEN MaxTrials ELSE 1
    <3>1. /\ Inner[t] = None => started[t] = 0
          /\ started[t] <= IF Kind[t] = "retry" THEN MaxTrials ELSE 1
      BY DEF WiredInv, StartsInv
    <3> QED BY <2>1, <3>1, FlowAssumption
  <2> QED BY <2>4, <2>5, <2>6 DEF StartsInv
<1> QED BY <1>6, <1>7, <1>8 DEF WiredInv

LEMMA ConnectedExit ==
    ASSUME Wired, NEW s \in Steps, NEW b \in Exits(s), Kind[s] # "branching"
    PROVE  Connected(s, b)
BY DEF Wired

LEMMA StepsWired ==
    /\ Wired /\ WiredInv /\ IInv' /\ Tree'
    /\ TakeAnswer \/ RunClientTool \/ RunTool \/ ChooseBranch \/ Complete
    => WiredInv'
<1> SUFFICES ASSUME Wired, WiredInv, IInv', Tree',
                    TakeAnswer \/ RunClientTool \/ RunTool \/ ChooseBranch \/ Complete
             PROVE WiredInv'
  OBVIOUS
<1>1. /\ pc = "loop" /\ Here # None /\ UNCHANGED <<path, trials, error>>
      /\ Kind[Here] \in {"input", "client", "tool", "guarded", "branching", "complete"}
  BY DEF TakeAnswer, RunClientTool, RunTool, ChooseBranch, Complete, At
<1>2. Here \in Steps /\ FlowOf[Here] = Deepest
  BY <1>1, HereFacts DEF WiredInv
<1>3. Kind[Here] \notin CompositeKinds
  BY <1>1 DEF CompositeKinds
<1>4. Kind[Here] # "branching" => Connected(Here, "next")
  BY <1>2, <1>3, ConnectedExit DEF Exits
<1>5. exc # "internal" /\ (ret.type = "interrupted" => Interrupts)
  BY DEF WiredInv, OutcomeInv
<1>6. CASE Complete
  <2>1. /\ Kind[Here] = "complete" /\ Pass("next")
        /\ landed' = [landed EXCEPT ![Deepest] = Here]
    BY <1>6 DEF Complete, At
  <2>2. Deepest \in Flows /\ landed \in [Flows -> Steps \cup {None}]
    BY <1>2, FlowAssumption DEF WiredInv, IInv, RestTyped
  <2>3. landed'[Deepest] = Here /\ \A g \in Flows \ {Deepest} : landed'[g] = landed[g]
    BY <2>1, <2>2
  <2> QED BY <1>1, <1>3, <1>4, <2>1, <2>3, PassWired
<1>7. CASE ~Complete
  <2>1. UNCHANGED landed /\ Kind[Here] # "complete"
    BY <1>7 DEF TakeAnswer, RunClientTool, RunTool, ChooseBranch, Complete, At
  <2>2. \/ \E b : Pass(b) /\ Connected(Here, b)
        \/ ReturnWith(YieldStatus) /\ Unasked
        \/ (Raise("value") \/ Raise("tool")) /\ Unasked
    <3>1. CASE ChooseBranch
      <4>1. PICK e \in Edges : e[1] = Here /\ Pass(e[2])
        BY <3>1 DEF ChooseBranch
      <4>2. Connected(Here, e[2])
        BY <4>1 DEF Connected
      <4> QED BY <4>1, <4>2
    <3>2. CASE ~ChooseBranch
      <4>1. Kind[Here] # "branching"
        BY <1>7, <3>2 DEF TakeAnswer, RunClientTool, RunTool, At
      <4> QED BY <1>4, <1>7, <3>2, <4>1 DEF TakeAnswer, RunClientTool, RunTool
    <3> QED BY <3>1, <3>2
  <2>3. CASE \E b : Pass(b) /\ Connected(Here, b)
    <3>1. PICK b : Pass(b) /\ Connected(Here, b)
      BY <2>3
    <3> QED BY <1>1, <1>3, <2>1, <3>1, PassWired
  <2>4. CASE ReturnWith(YieldStatus) /\ Unasked
    BY <1>1, <1>5, <2>1, <2>4, YieldTypes, SameConvWired DEF Unasked
  <2>5. CASE (Raise("value") \/ Raise("tool")) /\ Unasked
    <3>1. pc' = "raise" /\ exc' \in {"value", "tool"} /\ ret' = ret
      BY <2>5 DEF Raise
    <3> QED BY <1>1, <1>5, <2>1, <2>5, <3>1, SameConvWired DEF Unasked
  <2> QED BY <2>2, <2>3, <2>4, <2>5
<1> QED BY <1>6, <1>7

LEMMA EnterSubWired == WiredInv /\ IInv' /\ Tree' /\ EnterSub => WiredInv'
<1> SUFFICES ASSUME WiredInv, IInv', Tree', EnterSub PROVE WiredInv'
  OBVIOUS
<1>1. /\ pc = "loop" /\ Here # None /\ Kind[Here] \in CompositeKinds
      /\ UNCHANGED <<note, trials, landed, ret, exc, error, listVars, written,
                     since, reached>>
  BY DEF EnterSub, At
<1>2. /\ Deepest \in Flows /\ Here \in Steps /\ FlowOf[Here] = Deepest
      /\ conv[Deepest].step = Here
  BY <1>1, HereFacts DEF WiredInv
<1>3. PICK f, h : f = Inner[Here] /\ h = Here
  OBVIOUS
<1>4. /\ pc' = "enter" /\ conv' = [conv EXCEPT ![f].alive = TRUE]
      /\ started' = [started EXCEPT ![h] =
                        IF conv[f].alive \/ @ > MaxTrials THEN @ ELSE @ + 1]
  BY <1>3 DEF EnterSub
<1>5. /\ f \in Flows /\ h \in Steps /\ Inner[h] = f /\ f # None
      /\ conv[FlowOf[h]].step = h
      /\ conv \in [Flows -> Conversations]
      /\ started \in [Steps -> 0..(MaxTrials + 1)]
      /\ trials \in [Steps -> 0..MaxTrials] /\ MaxTrials \in Nat
  BY <1>1, <1>2, <1>3, FlowAssumption DEF WiredInv, IInv, FlowsTyped, CountsTyped
<1>6. /\ conv'[f].alive = TRUE /\ \A g \in Flows \ {f} : conv'[g].alive = conv[g].alive
      /\ \A g \in Flows : conv'[g].step = conv[g].step
  BY <1>4, <1>5 DEF Conversations
<1>7. /\ \A t \in Steps \ {h} : started'[t] = started[t]
      /\ conv[f].alive => started'[h] = started[h]
      /\ started'[h] \in {started[h], started[h] + 1}
  BY <1>4, <1>5
<1>8. EndInv'
  BY <1>1, <1>6, StepsLeft, QuietEnd DEF WiredInv
<1>9. LandedInv' /\ OutcomeInv'
  BY <1>1, <1>4 DEF WiredInv, LandedInv, OutcomeInv
<1>10. \A t \in Steps : Trial(t)' = Trial(t) /\ Trial(t) \in Nat
  BY <1>1, <1>5 DEF Trial
<1>11. /\ Live(h)' = 1 /\ Live(h) \in {0, 1} /\ (Live(h) = 1 => conv[f].alive)
       /\ \A t \in Steps \ {h} : Inner[t] # None => Live(t)' = Live(t)
  <2>1. \A t \in Steps \ {h} : Inner[t] # None => Inner[t] \in Flows \ {f}
    BY <1>5, FlowAssumption
  <2> QED BY <1>5, <1>6, <2>1 DEF Live
<1>12. started[h] <= Trial(h) + Live(h)
  BY <1>5 DEF WiredInv, StartsInv
<1>13. started'[h] <= Trial(h) + 1
  BY <1>5, <1>7, <1>10, <1>11, <1>12
<1>14. Trial(h) + 1 <= IF Kind[h] = "retry" THEN MaxTrials ELSE 1
  BY <1>5 DEF Trial, WiredInv, StartsInv
<1>15. StartsInv'
  <2>1. ASSUME NEW t \in Steps
        PROVE  /\ Inner[t] = None => started'[t] = 0
               /\ Kind[t] = "retry" => trials'[t] < MaxTrials
               /\ started'[t] <= IF Kind[t] = "retry" THEN MaxTrials ELSE 1
               /\ Inner[t] # None /\ conv'[FlowOf[t]].step = t
                     => started'[t] <= Trial(t)' + Live(t)'
    <3>1. /\ Inner[t] = None => started[t] = 0
          /\ Kind[t] = "retry" => trials[t] < MaxTrials
          /\ started[t] <= IF Kind[t] = "retry" THEN MaxTrials ELSE 1
          /\ Inner[t] # None /\ conv[FlowOf[t]].step = t
                => started[t] <= Trial(t) + Live(t)
      BY DEF WiredInv, StartsInv
    <3>2. conv'[FlowOf[t]].step = conv[FlowOf[t]].step /\ trials'[t] = trials[t]
      BY <1>1, <1>6, FlowAssumption
    <3>3. CASE t = h
      <4>1. started'[t] <= IF Kind[t] = "retry" THEN MaxTrials ELSE 1
        BY <1>5, <1>7, <1>10, <1>13, <1>14, <3>3
      <4> QED BY <1>5, <1>10, <1>11, <1>13, <3>1, <3>2, <3>3, <4>1
    <3>4. CASE t # h
      BY <1>7, <1>10, <1>11, <3>1, <3>2, <3>4
    <3> QED BY <3>3, <3>4
  <2> QED BY <2>1 DEF StartsInv
<1> QED BY <1>8, <1>9, <1>15 DEF WiredInv

LEMMA StepYieldsWired ==
    Wired /\ WiredInv /\ IInv' /\ Tree' /\ StepYields => WiredInv'
<1> SUFFICES ASSUME Wired, WiredInv, IInv', Tree', StepYields PROVE WiredInv'
  OBVIOUS
<1>1. /\ pc = "return" /\ Len(path) > 1 /\ ret.type # "finished"
      /\ UNCHANGED <<trials, landed, error, started>>
  BY DEF StepYields
<1>2. PICK passed : passed = [ret EXCEPT !.owner =
                                 IF ret.type = "confirm" THEN Caller ELSE @]
  OBVIOUS
<1>3. /\ conv' = Settled(Deepest, passed)
      /\ IF ret.type = "interrupted" /\ Kind[Composite] = "retry"
            /\ ~MightYield(Deepest)
         THEN Raise("internal") ELSE ReturnWith(passed)
  BY <1>1, <1>2 DEF StepYields
<1>4. /\ Caller \in Flows /\ Composite \in Steps /\ Inner[Composite] = Deepest
      /\ Deepest \in Flows
  BY <1>1, CallerFacts DEF WiredInv
<1>5. passed \in Statuses /\ passed.type = ret.type
  BY <1>2, <1>4 DEF WiredInv, IInv, ControlTyped, Statuses
<1>6. \A g \in Flows : conv'[g].step = conv[g].step /\ conv'[g].alive = conv[g].alive
  <2>1. PICK f : f = Deepest
    OBVIOUS
  <2>2. FlowsTyped /\ f \in Flows /\ conv' = Settled(f, passed)
    BY <1>3, <1>4, <2>1 DEF WiredInv, IInv
  <2> QED BY <1>5, <2>2, SettledSame
<1>7. \A g \in Flows \ {Top} : conv[g].step # None
  BY <1>1, StepsLeft DEF WiredInv
<1>8. ReturnWith(passed)
  <2>1. ret.type = "interrupted" /\ Kind[Composite] = "retry" => MightYield(Deepest)
    BY <1>4 DEF Wired, WiredInv, OutcomeInv
  <2> QED BY <1>3, <2>1
<1> QED BY <1>1, <1>5, <1>6, <1>7, <1>8, QuietWired
        DEF WiredInv, OutcomeInv, ReturnWith

\* What is left of the other conversations when a sub-conversation is dropped.
LEMMA WithoutFlags ==
    ASSUME FlowsTyped, NEW f \in Flows, NEW g \in Flows
    PROVE  /\ g \in Below(f) => /\ Without(f)[g].step # None
                                /\ Without(f)[g].step = Begin[g]
           /\ g \notin Below(f) => /\ Without(f)[g].step = conv[g].step
                                   /\ Without(f)[g].alive = conv[g].alive
                                   /\ Without(f)[g].status.type = conv[g].status.type
<1>1. Without(f)[g] = IF g \in Below(f) THEN NewConversation(g)
                                        ELSE Detached(g, Below(f))
  BY DEF Without
<1>2. ASSUME g \in Below(f)
      PROVE  Without(f)[g].step # None /\ Without(f)[g].step = Begin[g]
  <2>1. Begin[g] # None
    BY FlowAssumption
  <2> QED BY <1>1, <1>2, <2>1, NewTyped
<1>3. ASSUME g \notin Below(f)
      PROVE  /\ Without(f)[g].step = conv[g].step
             /\ Without(f)[g].alive = conv[g].alive
             /\ Without(f)[g].status.type = conv[g].status.type
  <2>1. Without(f)[g] = Detached(g, Below(f))
    BY <1>1, <1>3
  <2> QED BY <2>1, DetachedFlags, DetachedTyped
<1> QED BY <1>2, <1>3

\* Sub-flow f of step p is below p's flow, and only p is between them.
LEMMA BelowFacts ==
    ASSUME NEW p \in Steps, NEW f \in Flows, Inner[p] = f
    PROVE  /\ f \in Below(f) /\ FlowOf[p] \notin Below(f) /\ FlowOf[p] \in Flows
           /\ \A t \in Steps : /\ Inner[t] # None /\ t # p
                               /\ FlowOf[t] \notin Below(f)
                               => Inner[t] \in Flows \ Below(f)
<1>1. /\ Above[f] = {f} \cup Above[FlowOf[p]] /\ f \notin Above[FlowOf[p]]
      /\ FlowOf[p] \in Flows /\ f # None
  BY FlowAssumption
<1>2. f \in Below(f) /\ FlowOf[p] \notin Below(f)
  BY <1>1 DEF Below
<1>4. ASSUME NEW t \in Steps, Inner[t] # None, t # p, FlowOf[t] \notin Below(f)
      PROVE  Inner[t] \in Flows \ Below(f)
  <2>1. /\ Above[Inner[t]] = {Inner[t]} \cup Above[FlowOf[t]]
        /\ Inner[t] \in Flows /\ FlowOf[t] \in Flows /\ Inner[t] # f
    BY <1>1, <1>4, FlowAssumption
  <2>2. f \notin Above[FlowOf[t]]
    BY <1>4, <2>1 DEF Below
  <2> QED BY <2>1, <2>2 DEF Below
<1> QED BY <1>1, <1>2, <1>4

\* The counts of the steps when a sub-conversation is dropped.
LEMMA DroppedStarts ==
    ASSUME WiredInv, NEW p \in Steps, NEW f \in Flows, Inner[p] = f,
           conv[FlowOf[p]].step = p,
           \A t \in Steps : FlowOf[t] \in Below(f) => started'[t] = 0,
           \A t \in Steps : started'[t] \in {0, started[t]},
           trials'[p] \in {0, trials[p], trials[p] + 1},
           Kind[p] = "retry" => trials'[p] < MaxTrials,
           \A t \in Steps \ {p} : trials'[t] \in {0, trials[t]},
           \A t \in Steps \ {p} : FlowOf[t] \notin Below(f) => trials'[t] = trials[t],
           \A g \in Flows : g \notin Below(f) => conv'[g].alive = conv[g].alive,
           \A g \in Flows : g \notin Below(f) /\ g # FlowOf[p]
              => conv'[g].step = conv[g].step,
           \A t \in Steps : conv'[FlowOf[p]].step = t
              => \/ started'[t] = 0
                 \/ t = p /\ Kind[p] = "retry" /\ started'[p] <= trials'[p]
    PROVE  StartsInv'
<1>1. /\ f \in Below(f) /\ FlowOf[p] \notin Below(f) /\ FlowOf[p] \in Flows
      /\ \A t \in Steps : /\ Inner[t] # None /\ t # p
                          /\ FlowOf[t] \notin Below(f)
                          => Inner[t] \in Flows \ Below(f)
  BY BelowFacts
<1>2. \A t \in Steps : /\ trials[t] \in Nat /\ started[t] \in Nat /\ MaxTrials \in Nat
                       /\ MaxTrials # 0
  BY FlowAssumption DEF WiredInv, IInv, CountsTyped
<1>3. \A t \in Steps : /\ trials'[t] \in Nat /\ started'[t] \in Nat
                       /\ Trial(t)' \in Nat /\ Live(t)' \in {0, 1}
  BY <1>2 DEF Trial, Live
<1>4. SUFFICES ASSUME NEW t \in Steps
      PROVE  /\ Inner[t] = None => started'[t] = 0
             /\ Kind[t] = "retry" => trials'[t] < MaxTrials
             /\ started'[t] <= IF Kind[t] = "retry" THEN MaxTrials ELSE 1
             /\ Inner[t] # None /\ conv'[FlowOf[t]].step = t
                   => started'[t] <= Trial(t)' + Live(t)'
  BY DEF StartsInv
<1>5. /\ Inner[t] = None => started[t] = 0
      /\ Kind[t] = "retry" => trials[t] < MaxTrials
      /\ started[t] <= IF Kind[t] = "retry" THEN MaxTrials ELSE 1
      /\ Inner[t] # None /\ conv[FlowOf[t]].step = t
            => started[t] <= Trial(t) + Live(t)
  BY DEF WiredInv, StartsInv
<1>6. /\ Inner[t] = None => started'[t] = 0
      /\ Kind[t] = "retry" => trials'[t] < MaxTrials
      /\ started'[t] <= IF Kind[t] = "retry" THEN MaxTrials ELSE 1
  <2>1. Kind[t] = "retry" => trials'[t] < MaxTrials
    <3>1. CASE t = p
      BY <3>1
    <3>2. CASE t # p
      BY <1>2, <1>5, <3>2
    <3> QED BY <3>1, <3>2
  <2> QED BY <1>2, <1>5, <2>1
<1>7. ASSUME Inner[t] # None, conv'[FlowOf[t]].step = t
      PROVE  started'[t] <= Trial(t)' + Live(t)'
  <2>1. CASE started'[t] = 0
    BY <1>3, <2>1
  <2>2. CASE started'[t] # 0 /\ t = p
    <3>1. started'[p] <= trials'[p] /\ Kind[p] = "retry"
      BY <1>7, <2>2
    <3>2. Trial(p)' = trials'[p]
      BY <3>1 DEF Trial
    <3> QED BY <1>3, <2>2, <3>1, <3>2
  <2>3. CASE started'[t] # 0 /\ t # p
    <3>1. FlowOf[t] \notin Below(f) /\ FlowOf[t] \in Flows /\ FlowOf[t] # FlowOf[p]
      BY <1>3, <1>7, <2>3, FlowAssumption
    <3>2. conv[FlowOf[t]].step = t /\ trials'[t] = trials[t]
      BY <1>7, <2>3, <3>1
    <3>3. Inner[t] \in Flows \ Below(f)
      BY <1>1, <1>7, <2>3, <3>1
    <3>4. Trial(t)' = Trial(t) /\ Live(t)' = Live(t)
      BY <3>2, <3>3 DEF Trial, Live
    <3>5. started[t] <= Trial(t) + Live(t)
      BY <1>5, <1>7, <3>2
    <3>6. started'[t] = started[t]
      BY <2>3
    <3> QED BY <3>4, <3>5, <3>6
  <2> QED BY <2>1, <2>2, <2>3
<1> QED BY <1>6, <1>7

\* A composite step is left by a branch that is connected.
LEMMA LeftWired ==
    ASSUME WiredInv, IInv', Tree', NEW p \in Steps, NEW f \in Flows,
           Inner[p] = f, conv[FlowOf[p]].step = p, Deepest' = FlowOf[p],
           NEW b, Connected(p, b), Leave(p, b, Without(f), Below(f)),
           \A g \in Flows \ {Top} : conv[g].step = None => g = f,
           \A t \in Steps : trials'[t] \in {0, trials[t]},
           \A t \in Steps \ {p} : FlowOf[t] \notin Below(f) => trials'[t] = trials[t],
           UNCHANGED <<landed, error>>
    PROVE  WiredInv'
<1>1. /\ f \in Below(f) /\ FlowOf[p] \notin Below(f) /\ FlowOf[p] \in Flows
  BY BelowFacts
<1>2. PICK c, D : c = Without(f) /\ D = Below(f)
  OBVIOUS
<1>3. c \in [Flows -> Conversations] /\ Leave(p, b, c, D)
  BY <1>2, WithoutTyped DEF WiredInv, IInv
<1>4. /\ pc' = "loop" /\ ret' = ret /\ exc' = "none"
      /\ \A g \in Flows : conv'[g].alive = c[g].alive
      /\ \A g \in Flows \ {FlowOf[p]} : conv'[g].step = c[g].step
      /\ conv'[FlowOf[p]].step = Destination(p, b)
      /\ \A t \in Steps : started'[t] =
            IF FlowOf[t] \in D \/ t = Destination(p, b) THEN 0 ELSE started[t]
      /\ Destination(p, b) = None => CanEnd(p)
  BY <1>3, LeaveEffect
<1>5. \A g \in Flows : /\ g \in Below(f) => c[g].step # None
                       /\ g \notin Below(f) => /\ c[g].step = conv[g].step
                                               /\ c[g].alive = conv[g].alive
  BY <1>2, WithoutFlags DEF WiredInv, IInv
<1>6. LandedInv' /\ OutcomeInv'
  BY <1>4 DEF WiredInv, LandedInv, OutcomeInv
<1>7. EndInv'
  <2>1. SUFFICES ASSUME NEW g \in Flows \ {Top}, conv'[g].step = None
                 PROVE  g = Deepest' /\ FallsOut(g)
    BY <1>4 DEF EndInv
  <2>2. g = FlowOf[p]
    <3>1. SUFFICES ASSUME g # FlowOf[p] PROVE FALSE
      OBVIOUS
    <3>2. c[g].step = None
      BY <1>4, <2>1, <3>1
    <3>3. g \notin Below(f) /\ conv[g].step = None
      BY <1>5, <3>2
    <3> QED BY <1>1, <3>3
  <2>3. CanEnd(p)
    BY <1>4, <2>1, <2>2
  <2>4. Kind[p] # "complete"
    <3>1. Kind[p] \in CompositeKinds
      BY FlowAssumption
    <3> QED BY <3>1 DEF CompositeKinds
  <2> QED BY <2>2, <2>3, <2>4 DEF FallsOut
<1>8. StartsInv'
  <2>1. \A g \in Flows : g \notin Below(f) => conv'[g].alive = conv[g].alive
    BY <1>4, <1>5
  <2>2. \A g \in Flows : g \notin Below(f) /\ g # FlowOf[p]
           => conv'[g].step = conv[g].step
    BY <1>4, <1>5
  <2>3. /\ \A t \in Steps : FlowOf[t] \in Below(f) => started'[t] = 0
        /\ \A t \in Steps : started'[t] \in {0, started[t]}
        /\ \A t \in Steps : conv'[FlowOf[p]].step = t => started'[t] = 0
    BY <1>2, <1>4
  <2>4. trials'[p] \in {0, trials[p], trials[p] + 1}
    OBVIOUS
  <2>5. Kind[p] = "retry" => trials'[p] < MaxTrials
    BY FlowAssumption DEF WiredInv, StartsInv
  <2> QED BY <2>1, <2>2, <2>3, <2>4, <2>5, DroppedStarts
<1> QED BY <1>6, <1>7, <1>8 DEF WiredInv

\* The composite step around the innermost flow, when that has ended or raised.
LEMMA SubFacts ==
    ASSUME IInv, Tree, pc # "idle", Len(path) > 1
    PROVE  /\ Deepest # Top
           /\ path' = Outer => Deepest' = FlowOf[Composite]
<1>1. /\ Len(path) \in Nat /\ 1 \in 1..Len(path) /\ path \in Seq(Flows)
  BY PathFacts DEF IInv, PathInv
<1>2. Deepest # Top
  <2>1. path[1] # Deepest
    BY <1>1, PathFacts DEF IInv
  <2> QED BY <2>1 DEF Tree
<1>3. ASSUME path' = Outer PROVE Deepest' = FlowOf[Composite]
  <2>1. Len(path') = Len(path) - 1 /\ path'[Len(path) - 1] = path[Len(path) - 1]
    BY <1>1, <1>3 DEF Outer
  <2>2. Caller = path[Len(path) - 1] /\ FlowOf[Composite] = Caller
    BY CallerFacts
  <2> QED BY <2>1, <2>2 DEF Deepest
<1> QED BY <1>2, <1>3

\* How the sub-flow of a composite step ended.
LEMMA EndedExit ==
    ASSUME WiredInv, pc = "return", ret.type = "finished", Len(path) > 1
    PROVE  /\ Composite \in Steps /\ Inner[Composite] = Deepest
           /\ Kind[Composite] \in CompositeKinds
           /\ landed[Deepest] # None => landed[Deepest] \in Landings(Inner[Composite])
           /\ landed[Deepest] = None => FallsOut(Inner[Composite])
           /\ \A g \in Flows \ {Top} : conv[g].step = None => g = Deepest
<1>1. /\ Composite \in Steps /\ Inner[Composite] = Deepest /\ Deepest \in Flows
      /\ Deepest # Top
  BY CallerFacts, SubFacts DEF WiredInv
<1>2. Kind[Composite] \in CompositeKinds
  BY <1>1, FlowAssumption
<1>3. conv[Deepest].step = None
  BY DEF WiredInv, OutcomeInv, Here
<1> QED BY <1>1, <1>2, <1>3 DEF WiredInv, LandedInv, EndInv

LEMMA EndedWired ==
    Wired /\ WiredInv /\ IInv' /\ Tree' /\ (SubFlowEnds \/ TrialSucceeds)
    => WiredInv'
<1> SUFFICES ASSUME Wired, WiredInv, IInv', Tree', SubFlowEnds \/ TrialSucceeds
             PROVE WiredInv'
  OBVIOUS
<1>1. /\ pc = "return" /\ Len(path) > 1 /\ ret.type = "finished"
      /\ path' = Outer /\ UNCHANGED <<landed, error>>
  BY DEF SubFlowEnds, TrialSucceeds, Ended
<1>2. PICK p, f : p = Composite /\ f = Deepest
  OBVIOUS
<1>3. /\ p \in Steps /\ f \in Flows /\ Inner[p] = f /\ conv[FlowOf[p]].step = p
      /\ Deepest' = FlowOf[p]
  BY <1>1, <1>2, CallerFacts, SubFacts DEF WiredInv
<1>4. /\ Kind[p] \in CompositeKinds
      /\ landed[f] # None => landed[f] \in Landings(Inner[p])
      /\ landed[f] = None => FallsOut(Inner[p])
      /\ \A g \in Flows \ {Top} : conv[g].step = None => g = f
  BY <1>1, <1>2, EndedExit
<1>5. PICK b \in Exits(p) : Leave(p, b, Without(f), Below(f))
  <2>1. CASE SubFlowEnds
    <3>1. Kind[p] \in {"flow", "catch"}
      BY <1>2, <2>1 DEF SubFlowEnds, Ended
    <3>2. PICK b : /\ b = (IF landed[f] = None THEN "next" ELSE Branch[landed[f]])
                   /\ Leave(p, b, Without(f), Below(f))
      BY <1>2, <2>1 DEF SubFlowEnds
    <3>3. b \in Exits(p)
      BY <1>4, <3>1, <3>2 DEF Exits
    <3> QED BY <3>2, <3>3
  <2>2. CASE TrialSucceeds
    <3>1. Kind[p] = "retry"
      BY <1>2, <2>2 DEF TrialSucceeds, Ended
    <3>2. PICK b : /\ b = (IF landed[f] = None THEN "next" ELSE landed[f])
                   /\ Leave(p, b, Without(f), Below(f))
      BY <1>2, <2>2 DEF TrialSucceeds
    <3>3. b \in Exits(p)
      BY <1>4, <3>1, <3>2 DEF Exits
    <3> QED BY <3>2, <3>3
  <2> QED BY <2>1, <2>2
<1>6. Connected(p, b)
  BY <1>3, <1>4, ConnectedExit DEF CompositeKinds
<1>7. /\ \A t \in Steps : trials'[t] \in {0, trials[t]}
      /\ \A t \in Steps \ {p} : FlowOf[t] \notin Below(f) => trials'[t] = trials[t]
  <2>1. \/ trials' = TrialsWithout(f)
        \/ trials' = [TrialsWithout(f) EXCEPT ![p] = 0]
    BY <1>2 DEF SubFlowEnds, TrialSucceeds
  <2> QED BY <1>3, <2>1 DEF TrialsWithout
<1> QED BY <1>1, <1>3, <1>4, <1>5, <1>6, <1>7, LeftWired

LEMMA TrialFailsWired ==
    Wired /\ WiredInv /\ IInv' /\ Tree' /\ TrialFails => WiredInv'
<1> SUFFICES ASSUME Wired, WiredInv, IInv', Tree', TrialFails PROVE WiredInv'
  OBVIOUS
<1>1. /\ pc = "return" /\ Len(path) > 1 /\ ret.type = "finished"
      /\ path' = Outer /\ UNCHANGED <<landed, error>>
  BY DEF TrialFails, Ended
<1>2. PICK p, f : p = Composite /\ f = Deepest
  OBVIOUS
<1>3. /\ p \in Steps /\ f \in Flows /\ Inner[p] = f /\ conv[FlowOf[p]].step = p
      /\ Deepest' = FlowOf[p] /\ Kind[p] = "retry"
  BY <1>1, <1>2, CallerFacts, SubFacts DEF WiredInv, TrialFails, Ended
<1>4. \A g \in Flows \ {Top} : conv[g].step = None => g = f
  BY <1>1, <1>2, EndedExit
<1>5. /\ f \in Below(f) /\ FlowOf[p] \notin Below(f) /\ FlowOf[p] \in Flows
  BY <1>3, BelowFacts
<1>6. CASE ~(trials[p] + 1 < MaxTrials)
  <2>1. GiveUp(f, p)
    BY <1>2, <1>6 DEF TrialFails
  <2>2. /\ Leave(p, "failure", Without(f), Below(f))
        /\ trials' = [TrialsWithout(f) EXCEPT ![p] = 0]
    BY <2>1 DEF GiveUp
  <2>3. Connected(p, "failure")
    <3>1. "failure" \in Exits(p)
      BY <1>3 DEF Exits, CompositeKinds
    <3> QED BY <1>3, <3>1, ConnectedExit
  <2>4. /\ \A t \in Steps : trials'[t] \in {0, trials[t]}
        /\ \A t \in Steps \ {p} : FlowOf[t] \notin Below(f) => trials'[t] = trials[t]
    BY <1>3, <2>2 DEF TrialsWithout
  <2> QED BY <1>1, <1>3, <1>4, <2>2, <2>3, <2>4, LeftWired
<1>7. CASE trials[p] + 1 < MaxTrials
  <2>1. /\ conv' = Without(f) /\ pc' = "loop" /\ UNCHANGED <<ret, exc>>
        /\ trials' = [TrialsWithout(f) EXCEPT ![p] = trials[p] + 1]
        /\ started' = [s \in Steps |-> IF FlowOf[s] \in Below(f) THEN 0
                                                                 ELSE started[s]]
    BY <1>2, <1>7 DEF TrialFails, TryAgain
  <2>2. \A g \in Flows : /\ g \in Below(f) => conv'[g].step # None
                         /\ g \notin Below(f) => /\ conv'[g].step = conv[g].step
                                                 /\ conv'[g].alive = conv[g].alive
    <3>1. \A g \in Flows :
             /\ g \in Below(f) => Without(f)[g].step # None
             /\ g \notin Below(f) => /\ Without(f)[g].step = conv[g].step
                                     /\ Without(f)[g].alive = conv[g].alive
      BY <1>3, WithoutFlags DEF WiredInv, IInv
    <3> QED BY <2>1, <3>1
  <2>3. LandedInv' /\ OutcomeInv'
    BY <1>1, <2>1 DEF WiredInv, LandedInv, OutcomeInv
  <2>4. EndInv'
    BY <1>4, <1>5, <2>2 DEF EndInv
  <2>5. /\ trials'[p] = trials[p] + 1
        /\ \A t \in Steps \ {p} : /\ trials'[t] \in {0, trials[t]}
                                  /\ FlowOf[t] \notin Below(f) => trials'[t] = trials[t]
    BY <1>3, <2>1 DEF TrialsWithout
  <2>6. /\ \A t \in Steps : FlowOf[t] \in Below(f) => started'[t] = 0
        /\ \A t \in Steps : started'[t] \in {0, started[t]}
        /\ started'[p] = started[p]
    BY <1>3, <1>5, <2>1
  <2>7. started'[p] <= trials'[p]
    <3>1. started[p] <= Trial(p) + Live(p)
      BY <1>3, FlowAssumption DEF WiredInv, StartsInv
    <3>2. Trial(p) = trials[p] /\ Live(p) \in {0, 1} /\ trials[p] \in Nat
          /\ started[p] \in Nat
      BY <1>3, FlowAssumption DEF Trial, Live, WiredInv, IInv, CountsTyped
    <3> QED BY <2>5, <2>6, <3>1, <3>2
  <2>8. conv'[FlowOf[p]].step = p
    BY <1>3, <1>5, <2>2
  <2>9. StartsInv'
    <3>1. \A t \in Steps : conv'[FlowOf[p]].step = t
             => \/ started'[t] = 0
                \/ t = p /\ Kind[p] = "retry" /\ started'[p] <= trials'[p]
      BY <1>3, <2>7, <2>8
    <3>2. trials'[p] < MaxTrials
      BY <1>7, <2>5
    <3> QED BY <1>3, <2>2, <2>5, <2>6, <3>1, <3>2, DroppedStarts
  <2> QED BY <2>3, <2>4, <2>9 DEF WiredInv
<1> QED BY <1>6, <1>7

LEMMA PropagateWired ==
    Wired /\ WiredInv /\ IInv' /\ Tree' /\ Propagate => WiredInv'
<1> SUFFICES ASSUME Wired, WiredInv, IInv', Tree', Propagate PROVE WiredInv'
  OBVIOUS
<1>1. /\ pc = "raise" /\ Len(path) > 1 /\ path' = Outer /\ UNCHANGED <<landed, error>>
  BY DEF Propagate
<1>2. PICK p, f : p = Composite /\ f = Deepest
  OBVIOUS
<1>3. /\ p \in Steps /\ f \in Flows /\ Inner[p] = f /\ conv[FlowOf[p]].step = p
      /\ Deepest' = FlowOf[p]
  BY <1>1, <1>2, CallerFacts, SubFacts DEF WiredInv
<1>4. \A g \in Flows \ {Top} : conv[g].step # None
  BY <1>1, StepsLeft DEF WiredInv
<1>5. CASE Kind[p] = "catch" /\ exc \in Catches[p]
  <2>1. /\ Leave(p, "error", Without(f), Below(f)) /\ trials' = TrialsWithout(f)
    BY <1>2, <1>5 DEF Propagate
  <2>2. Connected(p, "error")
    <3>1. "error" \in Exits(p)
      BY <1>5 DEF Exits, CompositeKinds
    <3> QED BY <1>3, <1>5, <3>1, ConnectedExit
  <2>3. /\ \A t \in Steps : trials'[t] \in {0, trials[t]}
        /\ \A t \in Steps \ {p} : FlowOf[t] \notin Below(f) => trials'[t] = trials[t]
    BY <2>1 DEF TrialsWithout
  <2> QED BY <1>1, <1>3, <1>4, <2>1, <2>2, <2>3, LeftWired
<1>6. CASE ~(Kind[p] = "catch" /\ exc \in Catches[p])
  <2>1. UNCHANGED <<pc, conv, trials, ret, exc, started>>
    BY <1>2, <1>6 DEF Propagate, history
  <2> QED BY <1>1, <1>4, <2>1, QuietWired DEF WiredInv, OutcomeInv
<1> QED BY <1>5, <1>6

LEMMA CatchInterruptWired ==
    Wired /\ WiredInv /\ IInv' /\ Tree' /\ CatchInterrupt => WiredInv'
<1> SUFFICES ASSUME Wired, WiredInv, IInv', Tree', CatchInterrupt PROVE WiredInv'
  OBVIOUS
<1>1. /\ pc = "loop" /\ Here # None /\ Kind[Here] = "catch"
      /\ UNCHANGED <<path, landed, error>>
  BY DEF CatchInterrupt, At
<1>2. PICK p, f : p = Here /\ f = Inner[Here]
  OBVIOUS
<1>3. /\ p \in Steps /\ f \in Flows /\ Inner[p] = f /\ conv[FlowOf[p]].step = p
      /\ Deepest' = FlowOf[p] /\ Kind[p] = "catch"
  BY <1>1, <1>2, HereFacts, FlowAssumption DEF WiredInv, Deepest, CompositeKinds
<1>4. \A g \in Flows \ {Top} : conv[g].step # None
  BY <1>1, StepsLeft DEF WiredInv
<1>5. Leave(p, "error", Without(f), Below(f)) /\ trials' = TrialsWithout(f)
  BY <1>2 DEF CatchInterrupt
<1>6. Connected(p, "error")
  <2>1. "error" \in Exits(p)
    BY <1>3 DEF Exits, CompositeKinds
  <2> QED BY <1>3, <2>1, ConnectedExit
<1>7. /\ \A t \in Steps : trials'[t] \in {0, trials[t]}
      /\ \A t \in Steps \ {p} : FlowOf[t] \notin Below(f) => trials'[t] = trials[t]
  BY <1>5 DEF TrialsWithout
<1> QED BY <1>1, <1>3, <1>4, <1>5, <1>6, <1>7, LeftWired

LEMMA NextWired == Wired /\ WiredInv /\ [Next]_vars => WiredInv'
<1> SUFFICES ASSUME Wired, WiredInv, [Next]_vars PROVE WiredInv'
  OBVIOUS
<1>1. IInv' /\ Tree'
  BY NextInv, TreeNext DEF WiredInv
<1>2. CASE Outside
  BY <1>1, <1>2, OutsideWired
<1>3. CASE Run
  <2>1. CASE Enter \/ Finish \/ Interrupt \/ AskUser \/ AskConfirmation
             \/ ReturnToCaller \/ RaiseToCaller
    BY <1>1, <2>1, EnterWired, FinishWired, InterruptWired, AskWired, ReturnedWired
  <2>2. CASE TakeAnswer \/ RunClientTool \/ RunTool \/ ChooseBranch \/ Complete
             \/ EnterSub \/ StepYields
    BY <1>1, <2>2, StepsWired, EnterSubWired, StepYieldsWired
  <2>3. CASE SubFlowEnds \/ TrialSucceeds \/ TrialFails \/ Propagate
             \/ CatchInterrupt
    BY <1>1, <2>3, EndedWired, TrialFailsWired, PropagateWired, CatchInterruptWired
  <2> QED BY <1>3, <2>1, <2>2, <2>3 DEF Run
<1>4. CASE UNCHANGED vars
  <2>1. LandedInv' /\ OutcomeInv' /\ EndInv'
    BY <1>4 DEF vars, WiredInv, LandedInv, OutcomeInv, EndInv, Here, Deepest
  <2>2. StartsInv'
    BY <1>4, SameStarts DEF vars, history, WiredInv
  <2> QED BY <1>1, <2>1, <2>2 DEF WiredInv
<1> QED BY <1>2, <1>3, <1>4 DEF Next

\* A step starts its sub-flow once, and a RetryStep at most max_num_trials
\* times, for each time it is reached, whatever yields, is interrupted, is caught
\* or is retried below it or around it (RetryStep._invoke_step_async,
\* FlowExecutionStep, cleanup_sub_conversation), in every flow all of whose
\* branches have an edge.
THEOREM SubFlowsStartOnce ==
    ASSUME Wired
    PROVE  Spec => []StartsAreBounded
<1>1. Init => WiredInv
  BY InitWired
<1>2. WiredInv /\ [Next]_vars => WiredInv'
  BY NextWired
<1>3. WiredInv => StartsAreBounded
  BY DEF WiredInv, StartsInv, StartsAreBounded
<1> QED BY <1>1, <1>2, <1>3, PTL DEF Spec

\* The executor never raises one of its own errors: a branch taken at run time has
\* an edge whenever every branch a step declares (get_branches) has one, which is
\* what a flow warns about when it is built, and a step that cannot yield never
\* does.
THEOREM BranchesAreConnected ==
    ASSUME Wired
    PROVE  Spec => []NoInternalError
<1>1. Init => WiredInv
  BY InitWired
<1>2. WiredInv /\ [Next]_vars => WiredInv'
  BY NextWired
<1>3. WiredInv => NoInternalError
  BY DEF WiredInv, OutcomeInv, NoInternalError
<1> QED BY <1>1, <1>2, <1>3, PTL DEF Spec

-----------------------------------------------------------------------------
(* What the caller is asked for.                                           *)

\* The flows being executed have a conversation.
Alive == conv[Top].alive /\ \A i \in 1..Len(path) : conv[path[i]].alive

Asking == {"user", "tool", "confirm"}
Asks(type) == CASE type = "user" -> "input"
                [] type = "tool" -> "client"
                [] OTHER -> "guarded"

\* The steps that ask for type.  An input step without a message template takes
\* a tool request that was left behind for its own.
MayAsk(s, type) == \/ Kind[s] = Asks(type)
                   \/ type = "tool" /\ s \in Silent /\ Kind[s] = "input"

\* The status being returned is the one of step s, which asks; the execution goes
\* on at it, and the flows between it and the innermost one hold the status already.
AskedBy(s) ==
    /\ note[s] # "none" /\ MayAsk(s, ret.type)
    /\ Above[Deepest] \subseteq Above[FlowOf[s]]
    /\ \A g \in Above[FlowOf[s]] : conv[g].alive /\ LeadsTo(g, s)
    /\ \A g \in Above[FlowOf[s]] \ Above[Deepest] :
          /\ conv[g].status.type = ret.type
          /\ ret.type # "confirm" => conv[g].status.owner = FlowOf[s]
    /\ ret.type # "confirm" => /\ ret.owner = FlowOf[s]
                               /\ FlowOf[s] # Deepest => ~conv[FlowOf[s]].handled
AskInv == pc = "return" /\ ret.type \in Asking => \E s \in Steps : AskedBy(s)

\* What the caller is asked for while it has the control.
AskedAt(s) ==
    /\ note[s] # "none" /\ MayAsk(s, conv[Top].status.type)
    /\ \A g \in Above[FlowOf[s]] : /\ conv[g].alive /\ LeadsTo(g, s)
                                   /\ conv[g].status.type = conv[Top].status.type
    /\ conv[Top].status.type # "confirm" =>
          /\ \A g \in Above[FlowOf[s]] : conv[g].status.owner = FlowOf[s]
          /\ FlowOf[s] # Top => ~conv[FlowOf[s]].handled
AskerIsCurrent == pc = "idle" /\ error = "none" /\ conv[Top].status.type \in Asking
                  => \E s \in Steps : AskedAt(s)

AskedInv == IInv /\ Tree /\ Alive /\ AskInv /\ AskerIsCurrent

LEMMA InitAsked == Init => AskedInv
<1> SUFFICES ASSUME Init PROVE AskedInv
  OBVIOUS
<1>1. IInv /\ Tree
  BY InitInv, InitWired DEF WiredInv
<1>2. conv[Top].alive
  <2>1. PICK h : h = (Top = Top)
    OBVIOUS
  <2>2. conv[Top] = [NewConversation(Top) EXCEPT !.alive = (Top = Top)]
    BY FlowAssumption DEF Init
  <2>3. conv[Top] = [NewConversation(Top) EXCEPT !.alive = h]
    BY <2>1, <2>2
  <2> QED BY <2>1, <2>3 DEF NewConversation
<1>3. Alive
  BY <1>2 DEF Init, Alive
<1>4. AskInv
  BY DEF Init, AskInv
<1>5. AskerIsCurrent
  <2>1. conv[Top].status.type = "none"
    <3>1. conv[Top] = [NewConversation(Top) EXCEPT !.alive = (Top = Top)]
      BY FlowAssumption DEF Init
    <3>2. PICK h : conv[Top] = [NewConversation(Top) EXCEPT !.alive = h]
      BY <3>1
    <3> QED BY <3>2 DEF NewConversation, NoStatus
  <2> QED BY <2>1 DEF AskerIsCurrent, Asking
<1> QED BY <1>1, <1>3, <1>4, <1>5 DEF AskedInv

\* The flows around the innermost one are those being executed.
LEMMA AroundDeepest ==
    ASSUME IInv, Tree, pc # "idle"
    PROVE  /\ Above[Deepest] = {path[j] : j \in 1..Len(path)}
           /\ Deepest \in Above[Deepest]
<1>1. Len(path) \in 1..Len(path) /\ Deepest = path[Len(path)]
  BY PathFacts DEF IInv
<1> QED BY <1>1 DEF Tree

\* A step of the innermost flow that asks is where the execution goes on.
LEMMA AskHere ==
    ASSUME AskedInv, pc = "loop", Here # None, UNCHANGED <<path, conv>>,
           ret'.type \in Asking, note'[Here] # "none",
           MayAsk(Here, ret'.type),
           ret'.type # "confirm" => ret'.owner = Deepest
    PROVE  AskInv'
<1>1. /\ Deepest \in Flows /\ Here \in Steps /\ FlowOf[Here] = Deepest
      /\ conv[Deepest].step = Here
  BY HereFacts DEF AskedInv
<1>2. PICK s : s = Here
  OBVIOUS
<1>3. Deepest' = Deepest
  BY DEF Deepest
<1>4. Above[Deepest] = {path[j] : j \in 1..Len(path)}
  BY AroundDeepest DEF AskedInv
<1>5. ASSUME NEW g \in Above[Deepest] PROVE conv[g].alive /\ LeadsTo(g, s)
  <2>1. PICK i \in 1..Len(path) : g = path[i]
    BY <1>4
  <2>2. conv[g].alive
    BY <2>1 DEF AskedInv, Alive
  <2>3. Len(path) \in Nat \ {0} /\ Deepest = path[Len(path)]
        /\ Above[path[i]] \subseteq Above[Deepest]
        /\ \A j \in 1..Len(path) : path[j] \in Above[Deepest]
    BY <1>4, PathFacts DEF AskedInv, IInv
  <2>4. LeadsTo(g, s)
    <3>1. CASE i = Len(path)
      BY <1>1, <1>2, <2>1, <2>3, <3>1 DEF LeadsTo
    <3>2. CASE i # Len(path)
      <4>1. i \in 1..(Len(path) - 1) /\ i + 1 \in 1..Len(path)
        BY <2>3, <3>2
      <4>2. conv[path[i]].step # None /\ Inner[conv[path[i]].step] = path[i + 1]
        BY <4>1 DEF AskedInv, IInv, PathInv
      <4>3. path[i] # Deepest
        BY <3>2, PathFacts DEF AskedInv, IInv
      <4> QED BY <1>1, <1>2, <2>1, <2>3, <4>1, <4>2, <4>3 DEF LeadsTo
    <3> QED BY <3>1, <3>2
  <2> QED BY <2>2, <2>4
<1>6. \A g : LeadsTo(g, s)' = LeadsTo(g, s)
  BY DEF LeadsTo
<1>7. AskedBy(s)'
  <2>1. /\ note'[s] # "none" /\ MayAsk(s, ret'.type)
        /\ conv' = conv /\ FlowOf[s] = Deepest
    BY <1>1, <1>2
  <2>2. \A g \in Above[FlowOf[s]] : conv'[g].alive /\ LeadsTo(g, s)'
    BY <1>5, <1>6, <2>1, Zenon
  <2> QED BY <1>3, <2>1, <2>2 DEF AskedBy, MayAsk
<1> QED BY <1>1, <1>2, <1>7 DEF AskInv

\* Leaving a step neither makes nor drops a conversation.
LEMMA LeaveAlive ==
    ASSUME NEW s \in Steps, NEW b, NEW c \in [Flows -> Conversations], NEW D,
           Leave(s, b, c, D)
    PROVE  /\ \A g \in Flows : conv'[g].alive = c[g].alive
           /\ pc' \in {"loop", "raise"}
<1>1. CASE Connected(s, b)
  BY <1>1, LeaveEffect
<1>2. CASE ~Connected(s, b)
  BY <1>2 DEF Leave, Raise
<1> QED BY <1>1, <1>2

\* Dropping the sub-conversation of step p leaves the flows that are not below it.
LEMMA SubAlive ==
    ASSUME IInv, NEW p \in Steps, NEW f \in Flows,
           \/ conv' = Without(f)
           \/ \E b : Leave(p, b, Without(f), Below(f))
    PROVE  \A g \in Flows : f \notin Above[g] => conv'[g].alive = conv[g].alive
<1>1. PICK c, D : c = Without(f) /\ D = Below(f)
  OBVIOUS
<1>2. c \in [Flows -> Conversations]
  BY <1>1, WithoutTyped DEF IInv
<1>3. \A g \in Flows : conv'[g].alive = c[g].alive
  <2>1. CASE conv' = Without(f)
    BY <1>1, <2>1
  <2>2. CASE \E b : Leave(p, b, Without(f), Below(f))
    <3>1. PICK b : Leave(p, b, c, D)
      BY <1>1, <2>2
    <3> QED BY <1>2, <3>1, LeaveAlive
  <2> QED BY <2>1, <2>2
<1>4. \A g \in Flows : f \notin Above[g] => c[g].alive = conv[g].alive
  BY <1>1, WithoutFlags DEF IInv, Below
<1> QED BY <1>3, <1>4

\* A step that is not left, or is left without a sub-conversation.
LEMMA SameAlive ==
    ASSUME IInv, [Next]_vars,
           ~(SubFlowEnds \/ TrialSucceeds \/ TrialFails \/ Propagate),
           ~(EnterSub \/ CatchInterrupt)
    PROVE  \A g \in Flows : conv'[g].alive = conv[g].alive
<1>0. conv \in [Flows -> Conversations]
  BY DEF IInv, FlowsTyped
<1>1. CASE UserMessage
  <2>1. PICK o, b, w : /\ w = written' /\ o = conv[Top].status.owner
                       /\ b = (conv[Top].status.type = "user"
                                 /\ conv[Top].status.owner # Top)
    OBVIOUS
  <2>2. conv' = [f \in Flows |->
           IF b /\ f = o THEN [conv[f] EXCEPT !.response = w]
           ELSE IF f = Top /\ conv[Top].status.type = "user"
           THEN [conv[f] EXCEPT !.handled = TRUE] ELSE conv[f]]
    BY <1>1, <2>1 DEF UserMessage
  <2>3. \A f \in Flows : conv'[f] \in {conv[f], [conv[f] EXCEPT !.response = w],
                                      [conv[f] EXCEPT !.handled = TRUE]}
    BY <2>2
  <2> QED BY <1>0, <2>3 DEF Conversations
<1>2. CASE SubmitToolResult
  <2>1. PICK o : conv' = [conv EXCEPT ![o].response = 1]
    BY <1>2 DEF SubmitToolResult
  <2> QED BY <1>0, <2>1 DEF Conversations
<1>3. CASE Enter
  BY <1>3, EnterFlags
<1>4. CASE TakeAnswer \/ RunClientTool \/ RunTool \/ ChooseBranch \/ Complete
  <2>1. /\ pc = "loop" /\ Here # None
        /\ conv' = conv \/ \E b : Leave(Here, b, conv, {})
    BY <1>4 DEF TakeAnswer, RunClientTool, RunTool, ChooseBranch, Complete, At,
       Pass, Unasked
  <2>2. Here \in Steps
    BY <2>1, HereFacts
  <2>3. CASE \E b : Leave(Here, b, conv, {})
    <3>1. PICK h, c, D, b : c = conv /\ h \in Steps /\ Leave(h, b, c, D)
      BY <2>2, <2>3
    <3> QED BY <1>0, <3>1, LeaveAlive
  <2> QED BY <2>1, <2>3
<1>5. CASE ReturnToCaller
  <2>1. PICK s : s = ret
    OBVIOUS
  <2>2. FlowsTyped /\ s \in Statuses /\ conv' = Settled(Top, s) /\ Top \in Flows
    BY <1>5, <2>1, FlowAssumption DEF ReturnToCaller, IInv, ControlTyped
  <2> QED BY <2>2, SettledSame
<1>6. CASE StepYields
  <2>1. Caller \in Flows /\ Deepest \in Flows
    BY <1>6, CallerFacts DEF StepYields
  <2>2. PICK f, s : /\ f = Deepest
                    /\ s = [ret EXCEPT !.owner =
                               IF ret.type = "confirm" THEN Caller ELSE @]
    OBVIOUS
  <2>3. FlowsTyped /\ s \in Statuses /\ f \in Flows
    BY <2>1, <2>2 DEF IInv, ControlTyped, Statuses
  <2>4. conv' = Settled(f, s)
    BY <1>6, <2>2 DEF StepYields
  <2> QED BY <2>3, <2>4, SettledSame
<1>7. CASE DecideConfirmation \/ Execute \/ Finish \/ Interrupt \/ AskUser
           \/ AskConfirmation \/ RaiseToCaller \/ UNCHANGED vars
  BY <1>7 DEF DecideConfirmation, Execute, Finish, Interrupt, AskUser,
     AskConfirmation, Unasked, RaiseToCaller, vars
<1> QED BY <1>1, <1>2, <1>3, <1>4, <1>5, <1>6, <1>7 DEF Next, Outside, Run

LEMMA AliveNext == IInv /\ Tree /\ Alive /\ [Next]_vars => Alive'
<1> SUFFICES ASSUME IInv, Tree, Alive, [Next]_vars PROVE Alive'
  OBVIOUS
<1>1. path \in Seq(Flows) /\ Top \in Flows
  BY FlowAssumption DEF IInv, PathInv
<1>2. CASE ~(SubFlowEnds \/ TrialSucceeds \/ TrialFails \/ Propagate)
           /\ ~(EnterSub \/ CatchInterrupt)
  <2>1. \A g \in Flows : conv'[g].alive = conv[g].alive
    BY <1>2, SameAlive
  <2>2. conv'[Top].alive
    BY <1>1, <2>1 DEF Alive
  <2>3. ASSUME NEW i \in 1..Len(path')
        PROVE  path'[i] = Top \/ (i \in 1..Len(path) /\ path'[i] = path[i])
    <3>1. CASE path' = path
      BY <2>3, <3>1
    <3>2. CASE path' = <<>>
      <4>1. Len(path') = 0
        BY <3>2
      <4> QED BY <2>3, <4>1
    <3>3. CASE path' = <<Top>>
      <4>1. Len(path') = 1 /\ path'[1] = Top
        BY <3>3
      <4> QED BY <2>3, <4>1
    <3>4. CASE Len(path) > 1 /\ path' = Outer
      <4>1. /\ Len(path) \in Nat /\ Len(path') = Len(path) - 1
            /\ \A j \in 1..(Len(path) - 1) : path'[j] = path[j]
        BY <1>1, <3>4 DEF Outer
      <4> QED BY <2>3, <4>1
    <3> QED BY <1>2, <3>1, <3>2, <3>3, <3>4, PathMoves
  <2>4. \A i \in 1..Len(path) : conv'[path[i]].alive
    BY <1>1, <2>1 DEF Alive
  <2> QED BY <2>2, <2>3, <2>4 DEF Alive
<1>3. CASE EnterSub
  <2>1. /\ pc = "loop" /\ Here # None /\ Kind[Here] \in CompositeKinds
    BY <1>3 DEF EnterSub, At
  <2>2. PICK f : f = Inner[Here]
    OBVIOUS
  <2>3. /\ path' = Append(path, f) /\ conv' = [conv EXCEPT ![f].alive = TRUE]
    BY <1>3, <2>2 DEF EnterSub
  <2>4. f \in Flows
    BY <2>1, <2>2, HereFacts, FlowAssumption
  <2>5. /\ conv'[f].alive /\ \A g \in Flows \ {f} : conv'[g] = conv[g]
    BY <2>3, <2>4 DEF IInv, FlowsTyped, Conversations
  <2>6. /\ Len(path) \in Nat /\ Len(path') = Len(path) + 1
        /\ \A i \in 1..Len(path') : path'[i] = f \/ (i \in 1..Len(path) /\ path'[i] = path[i])
        /\ \A i \in 1..Len(path) : path[i] \in Flows
    BY <1>1, <2>3, <2>4
  <2>7. conv'[Top].alive
    BY <1>1, <2>5 DEF Alive
  <2>8. \A i \in 1..Len(path) : conv'[path[i]].alive
    BY <2>5, <2>6 DEF Alive
  <2> QED BY <2>5, <2>6, <2>7, <2>8 DEF Alive
<1>4. CASE SubFlowEnds \/ TrialSucceeds \/ TrialFails \/ Propagate
  <2>1. pc # "idle" /\ Len(path) > 1 /\ path' = Outer
    BY <1>4 DEF SubFlowEnds, TrialSucceeds, TrialFails, Propagate, Ended
  <2>2. PICK p, f : p = Composite /\ f = Deepest
    OBVIOUS
  <2>3. p \in Steps /\ f \in Flows
    BY <2>1, <2>2, CallerFacts
  <2>4. \/ conv' = Without(f)
        \/ \E b : Leave(p, b, Without(f), Below(f))
        \/ conv' = conv
    BY <1>4, <2>2 DEF SubFlowEnds, TrialSucceeds, TrialFails, TryAgain, GiveUp,
       Propagate
  <2>5. \A g \in Flows : f \notin Above[g] => conv'[g].alive = conv[g].alive
    BY <2>3, <2>4, SubAlive
  <2>6. /\ Len(path) \in Nat /\ Len(path') = Len(path) - 1
        /\ \A i \in 1..(Len(path) - 1) : path'[i] = path[i]
    BY <1>1, <2>1 DEF Outer
  <2>7. ASSUME NEW i \in 1..(Len(path) - 1) PROVE conv'[path[i]].alive
    <3>1. i \in 1..Len(path) /\ i # Len(path)
      BY <2>6
    <3>2. path[i] \in Flows /\ f \notin Above[path[i]]
      BY <2>1, <2>2, <3>1, PathFacts DEF IInv
    <3>3. conv[path[i]].alive
      BY <3>1 DEF Alive
    <3> QED BY <2>5, <3>2, <3>3
  <2>8. path[1] = Top
    BY <2>1 DEF Tree
  <2>9. conv'[Top].alive
    BY <2>1, <2>6, <2>7, <2>8
  <2> QED BY <2>6, <2>7, <2>9 DEF Alive
<1>5. CASE CatchInterrupt
  <2>1. /\ pc = "loop" /\ Here # None /\ Kind[Here] = "catch" /\ path' = path
    BY <1>5 DEF CatchInterrupt, At
  <2>2. PICK p, f : p = Here /\ f = Inner[Here]
    OBVIOUS
  <2>3. p \in Steps /\ f \in Flows /\ f \notin Above[Deepest]
    BY <2>1, <2>2, HereFacts, FlowAssumption DEF CompositeKinds
  <2>4. \E b : Leave(p, b, Without(f), Below(f))
    BY <1>5, <2>2 DEF CatchInterrupt
  <2>5. \A g \in Flows : f \notin Above[g] => conv'[g].alive = conv[g].alive
    BY <2>3, <2>4, SubAlive
  <2>6. ASSUME NEW i \in 1..Len(path) PROVE conv'[path[i]].alive
    <3>1. path[i] \in Flows /\ f \notin Above[path[i]]
      BY <2>1, <2>3, PathFacts DEF IInv
    <3>2. conv[path[i]].alive
      BY DEF Alive
    <3> QED BY <2>5, <3>1, <3>2
  <2>7. Len(path) \in Nat \ {0} /\ path[1] = Top
    BY <2>1, PathFacts DEF IInv, Tree
  <2>8. conv'[Top].alive
    BY <2>6, <2>7
  <2> QED BY <2>1, <2>6, <2>8 DEF Alive
<1> QED BY <1>2, <1>3, <1>4, <1>5

\* An action that returns no request.
LEMMA NotAsking ==
    ASSUME pc' \notin {"idle", "return"} \/ (pc' = "return" /\ ret'.type \notin Asking)
    PROVE  AskInv' /\ AskerIsCurrent'
BY DEF AskInv, AskerIsCurrent

LEMMA AskedAtRest ==
    ASSUME Silent = {} PROVE AskerIsCurrent => AskedStepIsCurrent
BY DEF AskerIsCurrent, AskedStepIsCurrent, AskedAt, MayAsk, Asks, Asking

\* While the caller has the control, the request stays.
LEMMA OutsideAsked ==
    ASSUME AskedInv, pc = "idle", pc' = "idle", error' = error,
           \A g \in Flows : /\ conv'[g].step = conv[g].step
                            /\ conv'[g].alive = conv[g].alive
                            /\ conv'[g].status = conv[g].status,
           \A g \in Flows \ {Top} : ~conv[g].handled => ~conv'[g].handled,
           \A s \in Steps : note[s] # "none" => note'[s] # "none"
    PROVE  AskInv' /\ AskerIsCurrent'
<1>1. AskInv'
  BY DEF AskInv
<1>2. \A s \in Steps : FlowOf[s] \in Flows /\ Above[FlowOf[s]] \subseteq Flows
  BY FlowAssumption
<1>3. Top \in Flows
  BY FlowAssumption
<1>4. ASSUME NEW s \in Steps, AskedAt(s) PROVE AskedAt(s)'
  <2>1. conv'[Top].status = conv[Top].status /\ note'[s] # "none"
    BY <1>3, <1>4 DEF AskedAt
  <2>2. \A g \in Above[FlowOf[s]] : LeadsTo(g, s)' = LeadsTo(g, s)
    BY <1>2 DEF LeadsTo
  <2>3. \A g \in Above[FlowOf[s]] : LeadsTo(g, s)
    BY <1>4 DEF AskedAt
  <2>4. \A g \in Above[FlowOf[s]] : LeadsTo(g, s)'
    BY <2>2, <2>3, Zenon
  <2>5. \A g \in Above[FlowOf[s]] : /\ conv'[g].alive
                                    /\ conv'[g].status = conv[g].status
    BY <1>2, <1>4 DEF AskedAt
  <2>6. FlowOf[s] # Top /\ ~conv[FlowOf[s]].handled => ~conv'[FlowOf[s]].handled
    BY <1>2
  <2> QED BY <1>4, <2>1, <2>4, <2>5, <2>6 DEF AskedAt, MayAsk
<1>5. error' = error /\ conv'[Top].status.type = conv[Top].status.type
  BY <1>3
<1>6. AskerIsCurrent => AskerIsCurrent'
  BY <1>4, <1>5 DEF AskerIsCurrent
<1> QED BY <1>1, <1>6 DEF AskedInv

LEMMA CallerAsked ==
    AskedInv /\ (UserMessage \/ SubmitToolResult \/ DecideConfirmation)
    => AskInv' /\ AskerIsCurrent'
<1> SUFFICES ASSUME AskedInv, UserMessage \/ SubmitToolResult \/ DecideConfirmation
             PROVE AskInv' /\ AskerIsCurrent'
  OBVIOUS
<1>1. /\ pc = "idle" /\ pc' = "idle" /\ error' = error
      /\ conv \in [Flows -> Conversations]
  BY DEF UserMessage, SubmitToolResult, DecideConfirmation, AskedInv, IInv, FlowsTyped
<1>2. \A s \in Steps : note[s] # "none" => note'[s] # "none"
  <2>1. \/ note' = note
        \/ \E s, d : d \in {"confirmed", "rejected"} /\ note' = [note EXCEPT ![s] = d]
    BY DEF UserMessage, SubmitToolResult, DecideConfirmation
  <2> QED BY <2>1 DEF AskedInv, IInv, NotesInv
<1>3. /\ \A g \in Flows : /\ conv'[g].step = conv[g].step
                          /\ conv'[g].alive = conv[g].alive
                          /\ conv'[g].status = conv[g].status
      /\ \A g \in Flows \ {Top} : conv'[g].handled = conv[g].handled
  <2>1. CASE UserMessage
    <3>1. PICK o, b, w : /\ w = written' /\ o = conv[Top].status.owner
                         /\ b = (conv[Top].status.type = "user"
                                   /\ conv[Top].status.owner # Top)
      OBVIOUS
    <3>2. conv' = [f \in Flows |->
             IF b /\ f = o THEN [conv[f] EXCEPT !.response = w]
             ELSE IF f = Top /\ conv[Top].status.type = "user"
             THEN [conv[f] EXCEPT !.handled = TRUE] ELSE conv[f]]
      BY <2>1, <3>1 DEF UserMessage
    <3>3. /\ \A f \in Flows \ {Top} : conv'[f] \in {conv[f], [conv[f] EXCEPT !.response = w]}
          /\ \A f \in Flows : conv'[f] \in {conv[f], [conv[f] EXCEPT !.response = w],
                                           [conv[f] EXCEPT !.handled = TRUE]}
      BY <3>2
    <3> QED BY <1>1, <3>3 DEF Conversations
  <2>2. CASE SubmitToolResult
    <3>1. PICK o : conv' = [conv EXCEPT ![o].response = 1]
      BY <2>2 DEF SubmitToolResult
    <3> QED BY <1>1, <3>1 DEF Conversations
  <2>3. CASE DecideConfirmation
    BY <2>3 DEF DecideConfirmation
  <2> QED BY <2>1, <2>2, <2>3
<1>4. \A g \in Flows \ {Top} : ~conv[g].handled => ~conv'[g].handled
  BY <1>3, Zenon
<1> QED BY <1>1, <1>2, <1>3, <1>4, OutsideAsked

\* Steps that yield.
LEMMA StepAsked ==
    ASSUME AskedInv, AskUser \/ RunClientTool \/ AskConfirmation
    PROVE  AskInv' /\ AskerIsCurrent'
<1>1. /\ pc = "loop" /\ Here # None /\ pc' # "idle"
  BY DEF AskUser, RunClientTool, AskConfirmation, At, ReturnWith, Raise, Pass, Leave
<1>2. Here \in Steps /\ Deepest \in Flows /\ note \in [Steps -> Notes]
  BY <1>1, HereFacts DEF AskedInv, IInv, NotesInv
<1>3. AskerIsCurrent'
  BY <1>1 DEF AskerIsCurrent
<1>4. CASE AskUser
  <2>1. /\ Kind[Here] = "input" /\ note' = [note EXCEPT ![Here] = "asked"]
        /\ UNCHANGED <<path, conv>> /\ ReturnWith(YieldStatus)
        /\ last' = "request" => Here \in Silent
    BY <1>4 DEF AskUser, At
  <2>2. \/ ret' = Status("user", Deepest, None)
        \/ ret' = Status("tool", Deepest, asker') /\ Here \in Silent
    BY <2>1 DEF ReturnWith, YieldStatus
  <2>3. /\ ret'.type \in {"user", "tool"} /\ ret'.owner = Deepest
        /\ ret'.type = "tool" => Here \in Silent
        /\ note'[Here] # "none"
    BY <1>2, <2>1, <2>2 DEF Status
  <2>4. MayAsk(Here, ret'.type) /\ ret'.type \in Asking
    BY <2>1, <2>3 DEF MayAsk, Asks, Asking
  <2> QED BY <1>1, <1>3, <2>1, <2>3, <2>4, AskHere
<1>5. CASE RunClientTool
  <2>1. CASE note[Here] = "none"
    <3>1. /\ Kind[Here] = "client" /\ note' = [note EXCEPT ![Here] = "open"]
          /\ last' = "request" /\ UNCHANGED <<path, conv>> /\ ReturnWith(YieldStatus)
      BY <1>5, <2>1 DEF RunClientTool, At, Unasked
    <3>2. ret' = Status("tool", Deepest, asker')
      BY <3>1 DEF ReturnWith, YieldStatus
    <3>3. ret'.type = "tool" /\ ret'.owner = Deepest /\ note'[Here] # "none"
      BY <1>2, <3>1, <3>2 DEF Status
    <3> QED BY <1>1, <1>3, <3>1, <3>3, AskHere DEF Asking, Asks, MayAsk
  <2>2. CASE note[Here] # "none"
    <3>1. Raise("value") \/ Pass("next")
      BY <1>5, <2>2 DEF RunClientTool
    <3>2. pc' \notin {"idle", "return"}
      BY <3>1 DEF Raise, Pass, Leave
    <3> QED BY <3>2, NotAsking
  <2> QED BY <2>1, <2>2
<1>6. CASE AskConfirmation
  <2>1. CASE note[Here] = "none"
    <3>1. /\ Kind[Here] = "guarded" /\ note' = [note EXCEPT ![Here] = "asked"]
          /\ UNCHANGED <<path, conv>>
          /\ ReturnWith(Status("confirm", Deepest, Here))
      BY <1>6, <2>1 DEF AskConfirmation, At, Unasked
    <3>2. ret'.type = "confirm" /\ note'[Here] # "none"
      BY <1>2, <3>1 DEF ReturnWith, Status
    <3> QED BY <1>1, <1>3, <3>1, <3>2, AskHere DEF Asking, Asks, MayAsk
  <2>2. CASE note[Here] # "none"
    <3>1. Raise("value")
      BY <1>6, <2>2 DEF AskConfirmation
    <3>2. pc' \notin {"idle", "return"}
      BY <3>1 DEF Raise
    <3> QED BY <3>2, NotAsking
  <2> QED BY <2>1, <2>2
<1> QED BY <1>4, <1>5, <1>6

\* The caller gets the status that the flows below Top already hold.
LEMMA CallerGets ==
    ASSUME AskedInv, ReturnToCaller
    PROVE  AskInv' /\ AskerIsCurrent'
<1>1. /\ pc = "return" /\ Len(path) = 1 /\ pc' = "idle" /\ note' = note
      /\ conv' = Settled(Top, ret)
  BY DEF ReturnToCaller
<1>2. AskInv'
  BY <1>1 DEF AskInv
<1>3. Deepest = Top /\ Above[Top] = {Top} /\ Top \in Flows
  BY <1>1, FlowAssumption DEF AskedInv, Tree, Deepest
<1>4. PICK r : r = ret
  OBVIOUS
<1>5. FlowsTyped /\ r \in Statuses
  BY <1>4 DEF AskedInv, IInv, ControlTyped
<1>6. /\ conv'[Top].status = r
      /\ \A g \in Flows \ {Top} : conv'[g] = Detached(g, {Top})
  <2>1. /\ Settled(Top, r)[Top].status = r
        /\ \A g \in Flows \ {Top} : Settled(Top, r)[g] = Detached(g, {Top})
    BY <1>3, <1>5, SettledFlags
  <2> QED BY <1>1, <1>4, <2>1
<1>7. \A g \in Flows : conv'[g].alive = conv[g].alive /\ conv'[g].step = conv[g].step
  BY <1>1, <1>3, <1>4, <1>5, SettledSame
<1>8. CASE r.type \notin Asking
  BY <1>2, <1>6, <1>8 DEF AskerIsCurrent, Asking
<1>9. CASE r.type \in Asking
  <2>1. PICK s \in Steps : AskedBy(s)
    BY <1>1, <1>4, <1>9 DEF AskedInv, AskInv
  <2>2. FlowOf[s] \in Flows /\ Above[FlowOf[s]] \subseteq Flows /\ Top \in Above[FlowOf[s]]
    BY <1>3, <2>1, FlowAssumption DEF AskedBy
  <2>3. /\ note'[s] # "none" /\ MayAsk(s, r.type)
        /\ \A g \in Above[FlowOf[s]] : conv[g].alive /\ LeadsTo(g, s)
        /\ \A g \in Above[FlowOf[s]] \ {Top} :
              /\ conv[g].status.type = r.type
              /\ r.type # "confirm" => conv[g].status.owner = FlowOf[s]
        /\ r.type # "confirm" => /\ r.owner = FlowOf[s]
                                 /\ FlowOf[s] # Top => ~conv[FlowOf[s]].handled
    BY <1>1, <1>3, <1>4, <2>1 DEF AskedBy
  <2>4. \A g \in Above[FlowOf[s]] : conv'[g].alive /\ LeadsTo(g, s)'
    <3>1. \A g \in Above[FlowOf[s]] : conv'[g].alive
      BY <1>7, <2>2, <2>3
    <3>2. \A g \in Above[FlowOf[s]] : LeadsTo(g, s)' = LeadsTo(g, s)
      BY <1>7, <2>2 DEF LeadsTo
    <3>3. \A g \in Above[FlowOf[s]] : LeadsTo(g, s)
      BY <2>3
    <3> QED BY <3>1, <3>2, <3>3, Zenon
  <2>5. ASSUME NEW g \in Above[FlowOf[s]]
        PROVE  /\ conv'[g].status.type = r.type
               /\ r.type # "confirm" => conv'[g].status.owner = FlowOf[s]
    <3>1. CASE g = Top
      BY <1>6, <2>3, <3>1
    <3>2. CASE g # Top
      <4>1. /\ conv'[g].status.type = conv[g].status.type
            /\ conv'[g].status.owner = IF conv[g].status.owner = Top THEN None
                                       ELSE conv[g].status.owner
        BY <1>5, <1>6, <2>2, <3>2, DetachedFlags
      <4>2. FlowOf[s] # Top
        BY <1>3, <2>5, <3>2
      <4> QED BY <2>3, <3>2, <4>1, <4>2
    <3> QED BY <3>1, <3>2
  <2>6. ASSUME r.type # "confirm", FlowOf[s] # Top
        PROVE  ~conv'[FlowOf[s]].handled
    <3>1. conv'[FlowOf[s]].handled = conv[FlowOf[s]].handled
      <4>1. conv'[FlowOf[s]] = Detached(FlowOf[s], {Top})
        BY <1>6, <2>2, <2>6
      <4>2. Detached(FlowOf[s], {Top}).handled = conv[FlowOf[s]].handled
        BY <1>5, <2>2, DetachedFlags
      <4> QED BY <4>1, <4>2
    <3>2. ~conv[FlowOf[s]].handled
      BY <2>3, <2>6
    <3> QED BY <3>1, <3>2, Zenon
  <2>8. conv'[Top].status.type = r.type
    BY <1>6
  <2>9. AskerIsCurrent'
    BY <2>3, <2>4, <2>5, <2>6, <2>8 DEF AskerIsCurrent, AskedAt
  <2> QED BY <1>2, <2>9
<1> QED BY <1>8, <1>9

\* A composite step passes the status on, and its flow is the innermost one.
LEMMA YieldsAsked ==
    ASSUME AskedInv, StepYields
    PROVE  AskInv' /\ AskerIsCurrent'
<1>1. /\ pc = "return" /\ Len(path) > 1 /\ path' = Outer /\ note' = note
      /\ pc' \in {"return", "raise"} /\ (pc' = "raise" => ret' = ret)
  BY DEF StepYields, ReturnWith, Raise
<1>2. PICK f, r : /\ f = Deepest
                  /\ r = [ret EXCEPT !.owner = IF ret.type = "confirm" THEN Caller
                                                                       ELSE @]
  OBVIOUS
<1>3. conv' = Settled(f, r) /\ (pc' = "return" => ret' = r)
  BY <1>2 DEF StepYields, ReturnWith, Raise
<1>4. /\ Caller \in Flows /\ Composite \in Steps /\ Inner[Composite] = f
      /\ f \in Flows /\ FlowOf[Composite] = Caller /\ f \notin Above[Caller]
      /\ Deepest' = Caller
  BY <1>1, <1>2, CallerFacts, SubFacts DEF AskedInv
<1>5. Above[f] = {f} \cup Above[Caller]
  BY <1>4, FlowAssumption
<1>6. /\ FlowsTyped /\ r \in Statuses /\ r.type = ret.type
      /\ r.type # "confirm" => r.owner = ret.owner
  BY <1>2, <1>4 DEF AskedInv, IInv, ControlTyped, Statuses
<1>7. /\ conv'[f].status = r
      /\ \A g \in Flows \ {f} : conv'[g] = Detached(g, {f})
  <2>1. /\ Settled(f, r)[f].status = r
        /\ \A g \in Flows \ {f} : Settled(f, r)[g] = Detached(g, {f})
    BY <1>4, <1>6, SettledFlags
  <2> QED BY <1>3, <2>1
<1>8. \A g \in Flows : conv'[g].alive = conv[g].alive /\ conv'[g].step = conv[g].step
  BY <1>3, <1>4, <1>6, SettledSame
<1>9. CASE pc' = "raise" \/ r.type \notin Asking
  BY <1>1, <1>3, <1>9, NotAsking
<1>10. CASE pc' = "return" /\ r.type \in Asking
  <2>1. PICK s \in Steps : AskedBy(s)
    BY <1>1, <1>6, <1>10 DEF AskedInv, AskInv
  <2>2. /\ FlowOf[s] \in Flows /\ Above[FlowOf[s]] \subseteq Flows
        /\ Above[Caller] \subseteq Above[FlowOf[s]] /\ f \in Above[FlowOf[s]]
    BY <1>2, <1>5, <2>1, FlowAssumption DEF AskedBy
  <2>3. ret' = r /\ note'[s] # "none" /\ MayAsk(s, r.type)
    BY <1>1, <1>3, <1>6, <1>10, <2>1 DEF AskedBy
  <2>4. \A g \in Above[FlowOf[s]] : conv'[g].alive /\ LeadsTo(g, s)'
    <3>1. \A g \in Above[FlowOf[s]] : conv'[g].alive
      BY <1>8, <2>1, <2>2 DEF AskedBy
    <3>2. \A g \in Above[FlowOf[s]] : LeadsTo(g, s)' = LeadsTo(g, s)
      BY <1>8, <2>2 DEF LeadsTo
    <3>3. \A g \in Above[FlowOf[s]] : LeadsTo(g, s)
      BY <2>1 DEF AskedBy
    <3> QED BY <3>1, <3>2, <3>3, Zenon
  <2>5. r.type # "confirm" => r.owner = FlowOf[s]
    BY <1>6, <2>1 DEF AskedBy
  <2>6. ASSUME NEW g \in Above[FlowOf[s]] \ Above[Caller]
        PROVE  /\ conv'[g].status.type = r.type
               /\ r.type # "confirm" => conv'[g].status.owner = FlowOf[s]
    <3>1. CASE g = f
      BY <1>7, <2>5, <3>1
    <3>2. CASE g # f
      <4>1. g \in Above[FlowOf[s]] \ Above[f]
        BY <1>5, <2>6, <3>2
      <4>2. /\ conv[g].status.type = r.type
            /\ r.type # "confirm" => conv[g].status.owner = FlowOf[s]
        BY <1>2, <1>6, <2>1, <4>1 DEF AskedBy
      <4>3. /\ conv'[g].status.type = conv[g].status.type
            /\ conv'[g].status.owner = IF conv[g].status.owner = f THEN None
                                       ELSE conv[g].status.owner
        BY <1>6, <1>7, <2>2, <3>2, <4>1, DetachedFlags
      <4>4. FlowOf[s] # f
        BY <4>1
      <4> QED BY <4>2, <4>3, <4>4
    <3> QED BY <3>1, <3>2
  <2>7. ASSUME r.type # "confirm" PROVE ~conv'[FlowOf[s]].handled
    <3>1. CASE FlowOf[s] = f
      <4>1. Settled(f, r)[f].handled = FALSE
        BY <1>4, <1>6, SettledFlags, Zenon
      <4>2. conv'[f].handled = FALSE
        BY <1>3, <4>1, Zenon
      <4> QED BY <3>1, <4>2, Zenon
    <3>2. CASE FlowOf[s] # f
      <4>1. conv'[FlowOf[s]] = Detached(FlowOf[s], {f})
        BY <1>7, <2>2, <3>2
      <4>2. Detached(FlowOf[s], {f}).handled = conv[FlowOf[s]].handled
        BY <1>6, <2>2, DetachedFlags
      <4>3. ~conv[FlowOf[s]].handled
        BY <1>2, <1>6, <2>1, <2>7, <3>2 DEF AskedBy
      <4> QED BY <4>1, <4>2, <4>3, Zenon
    <3> QED BY <3>1, <3>2
  <2>8. AskedBy(s)'
    BY <1>4, <2>2, <2>3, <2>4, <2>5, <2>6, <2>7 DEF AskedBy, MayAsk
  <2>9. AskInv'
    BY <2>8 DEF AskInv
  <2>10. AskerIsCurrent'
    BY <1>10 DEF AskerIsCurrent
  <2> QED BY <2>9, <2>10
<1> QED BY <1>1, <1>9, <1>10

LEMMA NextAsked == AskedInv /\ [Next]_vars => AskedInv'
<1> SUFFICES ASSUME AskedInv, [Next]_vars PROVE AskedInv'
  OBVIOUS
<1>1. IInv' /\ Tree' /\ Alive'
  BY NextInv, TreeNext, AliveNext DEF AskedInv
<1>2. CASE UserMessage \/ SubmitToolResult \/ DecideConfirmation
  BY <1>1, <1>2, CallerAsked DEF AskedInv
<1>3. CASE AskUser \/ RunClientTool \/ AskConfirmation
  BY <1>1, <1>3, StepAsked DEF AskedInv
<1>4. CASE ReturnToCaller \/ StepYields
  BY <1>1, <1>4, CallerGets, YieldsAsked DEF AskedInv
<1>5. CASE Execute \/ Enter \/ Finish \/ Interrupt \/ EnterSub
  <2>1. \/ pc' \in {"enter", "loop", "raise"}
        \/ pc' = "return" /\ ret'.type \in {"finished", "interrupted"}
    BY <1>5 DEF Execute, Enter, Finish, Interrupt, EnterSub, ReturnWith, Raise, Status
  <2> QED BY <1>1, <2>1, NotAsking DEF AskedInv, Asking
<1>6. CASE \/ TakeAnswer \/ RunTool \/ ChooseBranch \/ Complete
           \/ SubFlowEnds \/ TrialSucceeds \/ TrialFails \/ CatchInterrupt
  <2>1. pc' \in {"loop", "raise"}
    BY <1>6 DEF TakeAnswer, RunTool, ChooseBranch, Complete, SubFlowEnds,
       TrialSucceeds, TrialFails, TryAgain, GiveUp, CatchInterrupt, Pass, Leave, Raise
  <2> QED BY <1>1, <2>1, NotAsking DEF AskedInv
<1>7. CASE Propagate
  <2>1. pc' \in {"loop", "raise"}
    BY <1>7 DEF Propagate, Leave, Raise
  <2> QED BY <1>1, <2>1, NotAsking DEF AskedInv
<1>8. CASE RaiseToCaller
  <2>1. pc' = "idle" /\ error' # "none"
    BY <1>8 DEF RaiseToCaller, AskedInv, IInv, ControlTyped, Exceptions
  <2>2. AskInv'
    BY <2>1 DEF AskInv
  <2>3. AskerIsCurrent'
    BY <2>1 DEF AskerIsCurrent
  <2> QED BY <1>1, <2>2, <2>3 DEF AskedInv
<1>9. CASE UNCHANGED vars
  <2>1. AskInv' /\ AskerIsCurrent'
    BY <1>9 DEF vars, AskedInv, AskInv, AskedBy, AskerIsCurrent, AskedAt, LeadsTo,
       Deepest, MayAsk
  <2> QED BY <1>1, <2>1 DEF AskedInv
<1> QED BY <1>2, <1>3, <1>4, <1>5, <1>6, <1>7, <1>8, <1>9 DEF Next, Outside, Run

\* Whatever the caller is asked for, at any depth of nesting, is asked by the step
\* at which the execution goes on, through every flow around it; all of them hold
\* the same status, and the answer reaches that step, which has not handled it yet
\* (UserMessageRequestStatus, ToolRequestStatus and the confirmation of a tool,
\* passed on by _execute_sub_flow).  A tool request may be the one an input step
\* without a message template found in the list.
THEOREM AskerGoesOn == Spec => []AskerIsCurrent
<1>1. Init => AskedInv
  BY InitAsked
<1>2. AskedInv /\ [Next]_vars => AskedInv'
  BY NextAsked
<1>3. AskedInv => AskerIsCurrent
  BY DEF AskedInv
<1> QED BY <1>1, <1>2, <1>3, PTL DEF Spec

\* So a request to the user comes from an input step, a tool request from the step
\* of a client tool and one for a confirmation from the step of a guarded tool,
\* when every input step has a message template.
THEOREM AskedStepGoesOn ==
    ASSUME Silent = {}
    PROVE  Spec => []AskedStepIsCurrent
<1>1. AskerIsCurrent => AskedStepIsCurrent
  BY AskedAtRest
<1> QED BY <1>1, AskerGoesOn, PTL
-----------------------------------------------------------------------------
(* What an input step takes for its answer.                                *)

\* The conversation of g waits for the response to a question of its own.
Questioned(g) == /\ conv[g].status.type = "user" /\ conv[g].status.owner = g
                 /\ ~conv[g].handled

\* The execution gets back to a sub-flow that waits: the flows around it stand at
\* the steps that lead there, and none of them runs anything else before.
OnTheWay(g) ==
    /\ Top \in Above[g]
    /\ \A a \in Above[g] \ {g} : /\ conv[a].step # None
                                 /\ Inner[conv[a].step] \in Above[g]
    /\ pc # "idle" => /\ Above[Deepest] \subseteq Above[g]
                      /\ Deepest = g => pc = "enter"
QuestionInv == \A g \in Flows \ {Top} : Questioned(g) => OnTheWay(g)

\* A status that was passed on is the one its owner has itself.
Shared(type, f) == type \in {"user", "tool"} /\ f \in Flows
                   => conv[f].status.owner = f /\ conv[f].status.type = type
OwnerInv ==
    /\ \A g \in Flows : Shared(conv[g].status.type, conv[g].status.owner)
    /\ pc = "return" /\ ret.owner # Deepest => Shared(ret.type, ret.owner)

\* The input steps that have asked, by a message.
Asked(s) == Kind[s] = "input" /\ s \notin Silent /\ note[s] = "asked"

\* What is, or may become, the last message of the user is newer than any question.
ResponseInv ==
    /\ Questioned(Top) => conv[Top].response = 0
    /\ \A g \in Flows \ {Top} : Questioned(g) /\ conv[g].response # 0
          => \A s \in Steps : Asked(s) => conv[g].response > since[s]
    /\ last = "user" => \A s \in Steps : Asked(s) => lastUser > since[s]
    /\ \A s \in Steps : since[s] <= written

AnswerInv == IInv /\ Tree /\ QuestionInv /\ OwnerInv /\ ResponseInv

\* What a conversation waits for.
SameWait(g) == /\ conv'[g].status = conv[g].status
               /\ conv'[g].handled = conv[g].handled
               /\ conv'[g].response = conv[g].response

LEMMA LeaveWait ==
    ASSUME NEW s \in Steps, NEW b, NEW c \in [Flows -> Conversations], NEW D,
           Leave(s, b, c, D), NEW g \in Flows
    PROVE  /\ conv'[g].status = c[g].status
           /\ conv'[g].handled = c[g].handled
           /\ conv'[g].response = c[g].response
<1>1. CASE conv' = c
  BY <1>1
<1>2. CASE conv' # c
  <2>1. PICK f, d : conv' = [c EXCEPT ![f].step = d]
    BY <1>2 DEF Leave
  <2> QED BY <2>1 DEF Conversations
<1> QED BY <1>1, <1>2

LEMMA DetachedWait ==
    ASSUME FlowsTyped, NEW g \in Flows, NEW F
    PROVE  /\ Detached(g, F).status.type = conv[g].status.type
           /\ Detached(g, F).status.owner = IF conv[g].status.owner \in F THEN None
                                            ELSE conv[g].status.owner
           /\ Detached(g, F).handled = conv[g].handled
           /\ Detached(g, F).response = conv[g].response
<1>1. Detached(g, F).response = conv[g].response
  <2>1. PICK d : d = [conv[g].status EXCEPT !.owner = None]
    OBVIOUS
  <2>2. Detached(g, F) = IF conv[g].status.owner \in F
                         THEN [conv[g] EXCEPT !.status = d] ELSE conv[g]
    BY <2>1 DEF Detached, FlowsTyped, Conversations
  <2> QED BY <2>2 DEF FlowsTyped, Conversations
<1> QED BY <1>1, DetachedFlags

LEMMA WithoutWait ==
    ASSUME FlowsTyped, NEW f \in Flows, NEW g \in Flows
    PROVE  /\ g \in Below(f) => Without(f)[g].status = NoStatus
           /\ g \notin Below(f) => Without(f)[g] = Detached(g, Below(f))
BY DEF Without, NewConversation

\* Apart from its step, g becomes what is left without the status objects of F.
DetachedFrom(g, F) == /\ conv'[g].status = Detached(g, F).status
                      /\ conv'[g].handled = Detached(g, F).handled
                      /\ conv'[g].response = Detached(g, F).response

\* A question is only of a conversation that holds its own status.
LEMMA DetachedQuestion ==
    ASSUME FlowsTyped, NEW g \in Flows, NEW F, g \notin F,
           DetachedFrom(g, F)
    PROVE  /\ Questioned(g)' => Questioned(g)
           /\ conv'[g].response = conv[g].response
<1>1. /\ conv'[g].status.type = conv[g].status.type
      /\ conv'[g].status.owner = IF conv[g].status.owner \in F THEN None
                                 ELSE conv[g].status.owner
      /\ conv'[g].handled = conv[g].handled
      /\ conv'[g].response = conv[g].response
  BY DetachedWait DEF DetachedFrom
<1>2. g # None
  BY FlowAssumption
<1> QED BY <1>1, <1>2 DEF Questioned

\* Dropping or replacing the status objects of the flows in F leaves no other
\* conversation with one of them.
LEMMA DetachedOwners ==
    ASSUME FlowsTyped, OwnerInv, NEW F,
           \A g \in Flows : g \notin F => DetachedFrom(g, F),
           \A g \in Flows : g \in F =>
              Shared(conv[g].status.type, conv[g].status.owner)'
    PROVE  \A g \in Flows : Shared(conv[g].status.type, conv[g].status.owner)'
<1> SUFFICES ASSUME NEW g \in Flows, g \notin F, NEW o \in Flows,
                    o = conv'[g].status.owner,
                    conv'[g].status.type \in {"user", "tool"}
             PROVE  /\ conv'[o].status.owner = o
                    /\ conv'[o].status.type = conv'[g].status.type
  BY DEF Shared
<1>1. /\ conv'[g].status.type = conv[g].status.type
      /\ conv'[g].status.owner = IF conv[g].status.owner \in F THEN None
                                 ELSE conv[g].status.owner
  BY DetachedWait DEF DetachedFrom
<1>2. conv[g].status.owner = o /\ o \notin F
  BY <1>1, FlowAssumption
<1>3. conv[o].status.owner = o /\ conv[o].status.type = conv[g].status.type
  BY <1>1, <1>2 DEF OwnerInv, Shared
<1>4. /\ conv'[o].status.type = conv[o].status.type
      /\ conv'[o].status.owner = IF conv[o].status.owner \in F THEN None
                                 ELSE conv[o].status.owner
  BY <1>2, DetachedWait DEF DetachedFrom
<1> QED BY <1>1, <1>2, <1>3, <1>4

\* Nobody asks or is answered: what waited waits for the same.
LEMMA SameOwners ==
    ASSUME OwnerInv, \A g \in Flows : conv'[g].status = conv[g].status,
           \/ pc' # "return"
           \/ ret'.owner = Deepest'
           \/ ret'.type \notin {"user", "tool"}
    PROVE  OwnerInv'
BY DEF OwnerInv, Shared

LEMMA SameResponses ==
    ASSUME ResponseInv, UNCHANGED <<since, written>>,
           \A s \in Steps : Asked(s)' => Asked(s),
           last' = "user" => last = "user" /\ lastUser' = lastUser,
           \A g \in Flows : Questioned(g)' =>
              \/ conv'[g].response = 0
              \/ Questioned(g) /\ conv'[g].response = conv[g].response
    PROVE  ResponseInv'
<1>1. Top \in Flows
  BY FlowAssumption
<1>2. Questioned(Top)' => conv'[Top].response = 0
  BY <1>1 DEF ResponseInv
<1>3. ASSUME NEW g \in Flows \ {Top}, Questioned(g)', conv'[g].response # 0,
             NEW s \in Steps, Asked(s)'
      PROVE  conv'[g].response > since'[s]
  BY <1>3 DEF ResponseInv
<1>4. ASSUME last' = "user", NEW s \in Steps, Asked(s)'
      PROVE  lastUser' > since'[s]
  BY <1>4 DEF ResponseInv
<1>5. \A s \in Steps : since'[s] <= written'
  BY DEF ResponseInv
<1> QED BY <1>2, <1>3, <1>4, <1>5 DEF ResponseInv

\* A step is left while no sub-flow waits.
LEMMA LeftResponses ==
    ASSUME IInv, ResponseInv, UNCHANGED <<written, last, lastUser>>,
           \A g \in Flows \ {Top} : ~Questioned(g)',
           Questioned(Top)' => conv'[Top].response = 0,
           \A s \in Steps : Asked(s)' => Asked(s) /\ since'[s] = since[s],
           \A s \in Steps : since'[s] \in {since[s], written}
    PROVE  ResponseInv'
<1>1. ASSUME last' = "user", NEW s \in Steps, Asked(s)'
      PROVE  lastUser' > since'[s]
  BY <1>1 DEF ResponseInv
<1>2. written \in Nat
  BY FlowAssumption DEF IInv, RestTyped
<1>3. \A s \in Steps : since'[s] <= written'
  BY <1>2 DEF ResponseInv
<1> QED BY <1>1, <1>3 DEF ResponseInv

LEMMA LeaveSince ==
    ASSUME IInv, NEW s \in Steps, conv[FlowOf[s]].step = s, NEW b, NEW c, NEW D,
           Leave(s, b, c, D),
           \A t \in Steps : Asked(t)' => Asked(t) /\ t # s /\ FlowOf[t] \notin D
    PROVE  /\ \A t \in Steps : Asked(t)' => Asked(t) /\ since'[t] = since[t]
           /\ \A t \in Steps : since'[t] \in {since[t], written}
<1>1. \A t \in Steps : since'[t] =
         IF FlowOf[t] \in D \/ (Connected(s, b) /\ t = Destination(s, b))
         THEN written ELSE since[t]
  BY DEF Leave
<1>2. ASSUME NEW t \in Steps, Asked(t)', Connected(s, b), t = Destination(s, b)
      PROVE  FALSE
  <2>1. FlowOf[t] = FlowOf[s]
    BY <1>2, DestinationTyped, FlowAssumption
  <2>2. conv[FlowOf[t]].step = t
    BY <1>2 DEF Asked, IInv, NotesInv, NotesAreCurrent
  <2> QED BY <1>2, <2>1, <2>2
<1> QED BY <1>1, <1>2

-----------------------------------------------------------------------------
LEMMA InitAnswer == Init => AnswerInv
<1> SUFFICES ASSUME Init PROVE AnswerInv
  OBVIOUS
<1>1. IInv /\ Tree
  BY InitInv, InitWired DEF WiredInv
<1>2. ASSUME NEW g \in Flows
      PROVE  conv[g].status.type = "none"
  <2>1. conv[g] = [NewConversation(g) EXCEPT !.alive = (g = Top)]
    BY DEF Init
  <2>2. PICK a : conv[g] = [NewConversation(g) EXCEPT !.alive = a]
    BY <2>1
  <2> QED BY <2>2 DEF NewConversation, NoStatus
<1>3. QuestionInv
  BY <1>2 DEF QuestionInv, Questioned
<1>4. OwnerInv
  BY <1>2 DEF OwnerInv, Shared, Init
<1>5. ResponseInv
  <2>1. \A g \in Flows : ~Questioned(g)
    BY <1>2 DEF Questioned
  <2>2. last = "none" /\ \A s \in Steps : since[s] <= written
    BY DEF Init
  <2> QED BY <2>1, <2>2, FlowAssumption DEF ResponseInv
<1> QED BY <1>1, <1>3, <1>4, <1>5 DEF AnswerInv

\* While the caller has the control, it may only give a response to the question
\* that it was asked.
LEMMA CallerAnswer ==
    AnswerInv /\ Outside => QuestionInv' /\ OwnerInv' /\ ResponseInv'
<1> SUFFICES ASSUME AnswerInv, Outside
             PROVE  QuestionInv' /\ OwnerInv' /\ ResponseInv'
  OBVIOUS
<1>1. /\ pc = "idle" /\ pc' \in {"idle", "enter"} /\ since' = since
      /\ conv \in [Flows -> Conversations] /\ Top \in Flows
  BY FlowAssumption DEF Outside, UserMessage, SubmitToolResult,
     DecideConfirmation, Execute, history, AnswerInv, IInv, FlowsTyped
<1>2. /\ \A g \in Flows : /\ conv'[g].status = conv[g].status
                          /\ conv'[g].step = conv[g].step
      /\ \A g \in Flows \ {Top} : conv'[g].handled = conv[g].handled
      /\ Questioned(Top)' => Questioned(Top)
  <2>1. CASE UserMessage
    <3>1. PICK o, b, w : /\ w = written' /\ o = conv[Top].status.owner
                         /\ b = (conv[Top].status.type = "user"
                                   /\ conv[Top].status.owner # Top)
      OBVIOUS
    <3>2. conv' = [f \in Flows |->
             IF b /\ f = o THEN [conv[f] EXCEPT !.response = w]
             ELSE IF f = Top /\ conv[Top].status.type = "user"
             THEN [conv[f] EXCEPT !.handled = TRUE] ELSE conv[f]]
      BY <2>1, <3>1 DEF UserMessage
    <3>3. /\ \A f \in Flows \ {Top} : conv'[f] \in {conv[f], [conv[f] EXCEPT !.response = w]}
          /\ \A f \in Flows : conv'[f] \in {conv[f], [conv[f] EXCEPT !.response = w],
                                           [conv[f] EXCEPT !.handled = TRUE]}
      BY <3>2
    <3>4. /\ \A g \in Flows : /\ conv'[g].status = conv[g].status
                              /\ conv'[g].step = conv[g].step
          /\ \A g \in Flows \ {Top} : conv'[g].handled = conv[g].handled
      BY <1>1, <3>3 DEF Conversations
    <3>5. conv'[Top].handled = conv[Top].handled \/ conv'[Top].handled = TRUE
      BY <1>1, <3>3 DEF Conversations
    <3> QED BY <1>1, <3>4, <3>5 DEF Questioned
  <2>2. CASE SubmitToolResult
    <3>1. PICK o : conv' = [conv EXCEPT ![o].response = 1]
      BY <2>2 DEF SubmitToolResult
    <3>2. \A g \in Flows : /\ conv'[g].status = conv[g].status
                           /\ conv'[g].step = conv[g].step
                           /\ conv'[g].handled = conv[g].handled
      BY <1>1, <3>1 DEF Conversations
    <3> QED BY <1>1, <3>2 DEF Questioned
  <2>3. CASE DecideConfirmation \/ Execute
    BY <2>3 DEF DecideConfirmation, Execute, Questioned
  <2> QED BY <2>1, <2>2, <2>3 DEF Outside
<1>3. \A g \in Flows : Questioned(g)' => Questioned(g)
  BY <1>2 DEF Questioned
<1>4. QuestionInv'
  <2> SUFFICES ASSUME NEW g \in Flows \ {Top}, Questioned(g)
               PROVE  OnTheWay(g)'
    BY <1>3 DEF QuestionInv
  <2>1. OnTheWay(g)
    BY DEF AnswerInv, QuestionInv
  <2>2. Above[g] \subseteq Flows
    BY FlowAssumption
  <2>3. pc' = "enter" => Deepest' = Top
    <3> SUFFICES ASSUME pc' = "enter" PROVE Deepest' = Top
      OBVIOUS
    <3>1. path' = <<Top>>
      BY <1>1 DEF Outside, UserMessage, SubmitToolResult, DecideConfirmation,
         Execute
    <3>2. Len(path') = 1 /\ path'[1] = Top
      BY <3>1
    <3> QED BY <3>2 DEF Deepest
  <2>4. Above[Top] = {Top}
    BY FlowAssumption
  <2>5. pc' # "idle" => /\ Above[Deepest'] \subseteq Above[g]
                        /\ Deepest' # g
    BY <1>1, <2>1, <2>3, <2>4 DEF OnTheWay
  <2> QED BY <1>2, <2>1, <2>2, <2>5 DEF OnTheWay
<1>5. OwnerInv'
  BY <1>1, <1>2, SameOwners DEF AnswerInv
<1>6. ResponseInv'
  <2>1. CASE UserMessage
    <3>1. /\ written' = written + 1 /\ note' = note
          /\ written \in Nat /\ since \in [Steps -> 0..MaxMessages]
      BY <2>1, FlowAssumption DEF UserMessage, AnswerInv, IInv, RestTyped,
         CountsTyped
    <3>2. \A s \in Steps : since'[s] < written'
      <4> SUFFICES ASSUME NEW s \in Steps PROVE since[s] < written + 1
        BY <1>1, <3>1
      <4>1. since[s] \in Nat /\ since[s] <= written
        BY <3>1, FlowAssumption DEF AnswerInv, ResponseInv
      <4> QED BY <3>1, <4>1
    <3>3. PICK o, b, w : /\ w = written' /\ o = conv[Top].status.owner
                         /\ b = (conv[Top].status.type = "user"
                                   /\ conv[Top].status.owner # Top)
      OBVIOUS
    <3>4. conv' = [f \in Flows |->
             IF b /\ f = o THEN [conv[f] EXCEPT !.response = w]
             ELSE IF f = Top /\ conv[Top].status.type = "user"
             THEN [conv[f] EXCEPT !.handled = TRUE] ELSE conv[f]]
      BY <2>1, <3>3 DEF UserMessage
    <3>5. /\ \A f \in Flows \ {Top} : conv'[f] \in {conv[f], [conv[f] EXCEPT !.response = w]}
          /\ ~b \/ Top # o => conv'[Top] \in {conv[Top], [conv[Top] EXCEPT !.handled = TRUE]}
      BY <1>1, <3>4
    <3>6. \A f \in Flows \ {Top} : conv'[f].response \in {conv[f].response, w}
      BY <1>1, <3>5 DEF Conversations
    <3>7. conv'[Top].response = conv[Top].response
      <4>1. ~b \/ Top # o
        BY <3>3
      <4> QED BY <1>1, <3>5, <4>1 DEF Conversations
    <3>8. Questioned(Top)' => conv'[Top].response = 0
      BY <1>3, <1>1, <3>7 DEF AnswerInv, ResponseInv
    <3>9. ASSUME NEW g \in Flows \ {Top}, Questioned(g)', conv'[g].response # 0,
                 NEW s \in Steps, Asked(s)'
          PROVE  conv'[g].response > since'[s]
      <4>1. Questioned(g) /\ Asked(s)
        BY <1>3, <3>1, <3>9 DEF Asked
      <4>2. CASE conv'[g].response = conv[g].response
        BY <1>1, <3>9, <4>1, <4>2 DEF AnswerInv, ResponseInv
      <4>3. CASE conv'[g].response = w
        <5>1. since'[s] \in Nat /\ w \in Nat /\ since'[s] < w
          BY <1>1, <3>1, <3>2, <3>3, FlowAssumption
        <5> QED BY <4>3, <5>1
      <4> QED BY <3>6, <4>2, <4>3
    <3>10. ASSUME last' = "user", NEW s \in Steps, Asked(s)'
           PROVE  lastUser' > since'[s]
      <4>1. Asked(s)
        BY <3>1, <3>10 DEF Asked
      <4>2. UNCHANGED <<last, lastUser>> \/ lastUser' = written'
        BY <2>1 DEF UserMessage, listVars
      <4>3. CASE UNCHANGED <<last, lastUser>>
        BY <1>1, <3>10, <4>1, <4>3 DEF AnswerInv, ResponseInv
      <4>4. CASE lastUser' = written'
        <5>1. since'[s] \in Nat /\ written' \in Nat /\ since'[s] < written'
          BY <1>1, <3>1, <3>2, FlowAssumption
        <5> QED BY <4>4, <5>1
      <4> QED BY <4>2, <4>3, <4>4
    <3>11. \A s \in Steps : since'[s] <= written'
      <4> SUFFICES ASSUME NEW s \in Steps PROVE since'[s] <= written'
        OBVIOUS
      <4>1. since'[s] \in Nat /\ written' \in Nat /\ since'[s] < written'
        BY <1>1, <3>1, <3>2, FlowAssumption
      <4> QED BY <4>1
    <3> QED BY <3>8, <3>9, <3>10, <3>11 DEF ResponseInv
  <2>2. CASE SubmitToolResult
    <3>1. PICK o : /\ conv' = [conv EXCEPT ![o].response = 1] /\ o # None
                   /\ conv[Top].status.type = "tool" /\ o = conv[Top].status.owner
      BY <2>2 DEF SubmitToolResult
    <3>2. o \in Flows /\ ~Questioned(o)
      <4>1. o \in Flows
        BY <1>1, <3>1 DEF Conversations, Statuses
      <4>2. conv[o].status.type = "tool"
        BY <1>1, <3>1, <4>1 DEF AnswerInv, OwnerInv, Shared
      <4> QED BY <4>1, <4>2 DEF Questioned
    <3>3. \A g \in Flows \ {o} : conv'[g] = conv[g]
      BY <1>1, <3>1
    <3>4. \A g \in Flows : Questioned(g)' =>
             Questioned(g) /\ conv'[g].response = conv[g].response
      BY <1>3, <3>2, <3>3
    <3>5. UNCHANGED <<since, written, note, last, lastUser>>
      BY <2>2 DEF SubmitToolResult, history, listVars
    <3> QED BY <3>4, <3>5, SameResponses DEF AnswerInv, Asked
  <2>3. CASE DecideConfirmation \/ Execute
    <3>1. UNCHANGED <<conv, since, written, last, lastUser>>
      BY <2>3 DEF DecideConfirmation, Execute, history, listVars
    <3>2. ASSUME NEW s \in Steps, Asked(s)' PROVE Asked(s)
      <4>1. \/ note' = note
            \/ \E t, d : d \in {"confirmed", "rejected"} /\ note' = [note EXCEPT ![t] = d]
        BY <2>3 DEF DecideConfirmation, Execute
      <4> QED BY <3>2, <4>1 DEF Asked, AnswerInv, IInv, NotesInv
    <3>3. \A g \in Flows : Questioned(g)' =>
             Questioned(g) /\ conv'[g].response = conv[g].response
      BY <1>3, <3>1
    <3> QED BY <3>1, <3>2, <3>3, SameResponses DEF AnswerInv
  <2> QED BY <2>1, <2>2, <2>3 DEF Outside
<1> QED BY <1>4, <1>5, <1>6

-----------------------------------------------------------------------------
\* A flow around the innermost one stands at the step that leads to it.
LEMMA WayInto ==
    ASSUME IInv, Tree, pc # "idle", NEW a \in Above[Deepest] \ {Deepest}
    PROVE  /\ a \in Flows /\ conv[a].step # None
           /\ Inner[conv[a].step] \in Above[Deepest]
<1>1. Above[Deepest] = {path[j] : j \in 1..Len(path)}
  BY AroundDeepest
<1>2. /\ Len(path) \in Nat \ {0} /\ Deepest = path[Len(path)]
      /\ \A i \in 1..Len(path) : path[i] \in Flows
  BY PathFacts DEF IInv
<1>3. PICK i \in 1..Len(path) : a = path[i]
  BY <1>1
<1>4. i \in 1..(Len(path) - 1) /\ i + 1 \in 1..Len(path)
  BY <1>2, <1>3
<1>5. conv[path[i]].step # None /\ Inner[conv[path[i]].step] = path[i + 1]
  BY <1>4 DEF IInv, PathInv
<1> QED BY <1>1, <1>2, <1>3, <1>4, <1>5

\* While a sub-flow waits, the flow at work is one around it, and runs the step
\* that leads there.
LEMMA WaitHere ==
    ASSUME AnswerInv, pc = "loop", NEW g \in Flows \ {Top}, Questioned(g)
    PROVE  /\ OnTheWay(g) /\ Deepest \in Above[g] /\ Deepest # g
           /\ Here # None /\ Here \in Steps
           /\ Inner[Here] \in Above[g] /\ Inner[Here] \in Flows
           /\ Kind[Here] \in CompositeKinds
           /\ Above[Inner[Here]] = {Inner[Here]} \cup Above[Deepest]
<1>1. OnTheWay(g)
  BY DEF AnswerInv, QuestionInv
<1>2. Deepest \in Above[Deepest]
  BY AroundDeepest DEF AnswerInv
<1>3. Deepest \in Above[g] /\ Deepest # g
  BY <1>1, <1>2 DEF OnTheWay
<1>4. Here # None /\ Inner[Here] \in Above[g]
  BY <1>1, <1>3 DEF OnTheWay, Here
<1>5. Here \in Steps /\ FlowOf[Here] = Deepest
  BY <1>4, HereFacts DEF AnswerInv
<1>6. Inner[Here] \in Flows
  BY <1>4, FlowAssumption
<1> QED BY <1>1, <1>3, <1>4, <1>5, <1>6, FlowAssumption

\* The execution of a conversation uses the response that is there.
LEMMA EnterAnswer ==
    AnswerInv /\ Enter => QuestionInv' /\ OwnerInv' /\ ResponseInv'
<1> SUFFICES ASSUME AnswerInv, Enter
             PROVE  QuestionInv' /\ OwnerInv' /\ ResponseInv'
  OBVIOUS
<1>1. /\ pc = "enter" /\ path' = path /\ pc' \in {"loop", "raise"}
      /\ Deepest' = Deepest /\ UNCHANGED <<since, written>>
      /\ conv \in [Flows -> Conversations] /\ Top \in Flows
  BY FlowAssumption DEF Enter, Raise, history, Deepest, AnswerInv, IInv, FlowsTyped
<1>2. Deepest \in Flows
  BY <1>1, PathFacts DEF AnswerInv, IInv
<1>3. PICK f, o, y : /\ f = Deepest /\ y = conv[f].response
                     /\ o = (conv[f].status.owner = f /\ ~conv[f].handled)
  OBVIOUS
<1> DEFINE type == IF o THEN conv[f].status.type ELSE "none"
<1>4. CASE type = "tool" /\ y = 0
  <2>1. UNCHANGED <<conv, note, last, lastUser>> /\ pc' = "raise"
    BY <1>3, <1>4 DEF Enter, Raise, listVars
  <2>2. ~Questioned(f)
    BY <1>3, <1>4 DEF Questioned
  <2>3. QuestionInv'
    <3> SUFFICES ASSUME NEW g \in Flows \ {Top}, Questioned(g)
                 PROVE  OnTheWay(g)'
      BY <2>1 DEF QuestionInv, Questioned
    <3>1. OnTheWay(g) /\ Deepest # g
      BY <1>3, <2>2 DEF AnswerInv, QuestionInv
    <3> QED BY <1>1, <2>1, <3>1 DEF OnTheWay
  <2>4. OwnerInv'
    BY <2>1, SameOwners DEF AnswerInv
  <2>5. \A g \in Flows : Questioned(g)' =>
           Questioned(g) /\ conv'[g].response = conv[g].response
    BY <2>1 DEF Questioned
  <2>6. ResponseInv'
    BY <1>1, <2>1, <2>5, SameResponses DEF AnswerInv, Asked
  <2> QED BY <2>3, <2>4, <2>6
<1>5. CASE ~(type = "tool" /\ y = 0)
  <2>1. /\ pc' = "loop"
        /\ conv' = [conv EXCEPT ![f].handled = @ \/ o,
                               ![f].response = IF type = "tool" THEN 0 ELSE @]
    BY <1>3, <1>5 DEF Enter
  <2>2. PICK h, r : /\ h = (conv[f].handled \/ o)
                    /\ r = IF type = "tool" THEN 0 ELSE conv[f].response
    OBVIOUS
  <2>3. PICK c1 \in Conversations : c1 = [conv[f] EXCEPT !.handled = h]
    BY <1>1, <1>2, <1>3, <2>2 DEF Conversations
  <2>4. PICK c2 : c2 = [c1 EXCEPT !.response = r]
    OBVIOUS
  <2>5. c2.status = conv[f].status /\ c2.step = conv[f].step /\ c2.handled = h
        /\ c2.response = r
    BY <1>1, <1>2, <1>3, <2>3, <2>4 DEF Conversations
  <2>6. conv' = [conv EXCEPT ![f] = c2]
    BY <1>1, <1>2, <1>3, <2>1, <2>2, <2>3, <2>4
  <2>7. /\ conv'[f] = c2 /\ \A g \in Flows \ {f} : conv'[g] = conv[g]
    BY <1>1, <1>2, <1>3, <2>6
  <2>8. ~Questioned(f)'
    <3>1. conv[f].status.owner # f => ~Questioned(f)'
      BY <2>5, <2>7 DEF Questioned
    <3>2. conv[f].status.owner = f => h
      BY <1>3, <2>2
    <3>3. h => ~Questioned(f)'
      BY <2>5, <2>7 DEF Questioned
    <3> QED BY <3>1, <3>2, <3>3
  <2>9. \A g \in Flows : Questioned(g)' =>
           g # f /\ Questioned(g) /\ conv'[g].response = conv[g].response
    BY <2>7, <2>8 DEF Questioned
  <2>10. \A g \in Flows : /\ conv'[g].status = conv[g].status
                          /\ conv'[g].step = conv[g].step
    BY <2>5, <2>7
  <2>11. QuestionInv'
    <3> SUFFICES ASSUME NEW g \in Flows \ {Top}, Questioned(g)'
                 PROVE  OnTheWay(g)'
      BY DEF QuestionInv
    <3>1. OnTheWay(g) /\ Deepest # g
      BY <1>3, <2>9 DEF AnswerInv, QuestionInv
    <3>2. Above[g] \subseteq Flows
      BY FlowAssumption
    <3> QED BY <1>1, <2>10, <3>1, <3>2 DEF OnTheWay
  <2>12. OwnerInv'
    BY <2>1, <2>10, SameOwners DEF AnswerInv
  <2>13. CASE type = "user" /\ y # 0
    <3>1. lastUser' = y /\ note' = note
      BY <1>3, <2>13 DEF Enter
    <3>2. Questioned(f) /\ f # Top
      <4>1. Questioned(f)
        BY <1>3, <2>13 DEF Questioned
      <4> QED BY <1>3, <2>13, <4>1 DEF AnswerInv, ResponseInv
    <3>3. ASSUME NEW s \in Steps, Asked(s)' PROVE lastUser' > since'[s]
      <4>1. Asked(s)
        BY <3>1, <3>3 DEF Asked
      <4> QED BY <1>1, <1>2, <1>3, <2>13, <3>1, <3>2, <4>1 DEF AnswerInv, ResponseInv
    <3>4. ASSUME NEW g \in Flows \ {Top}, Questioned(g)', conv'[g].response # 0,
                 NEW s \in Steps, Asked(s)'
          PROVE  conv'[g].response > since'[s]
      <4>1. Asked(s) /\ Questioned(g) /\ conv'[g].response = conv[g].response
        BY <2>9, <3>1, <3>4 DEF Asked
      <4> QED BY <1>1, <3>4, <4>1 DEF AnswerInv, ResponseInv
    <3>5. Questioned(Top)' => conv'[Top].response = 0
      BY <1>1, <2>9 DEF AnswerInv, ResponseInv
    <3>6. \A s \in Steps : since'[s] <= written'
      BY <1>1 DEF AnswerInv, ResponseInv
    <3> QED BY <2>11, <2>12, <3>3, <3>4, <3>5, <3>6 DEF ResponseInv
  <2>14. CASE ~(type = "user" /\ y # 0)
    <3>1. /\ last' = "user" => last = "user" /\ lastUser' = lastUser
          /\ \A s \in Steps : Asked(s)' => Asked(s)
      <4>1. CASE type = "tool"
        <5>1. last' = "result"
          BY <1>3, <1>5, <4>1 DEF Enter
        <5>2. note' = [s \in Steps |->
                 IF s = conv[f].status.req /\ note[s] = "open"
                 THEN "answered" ELSE note[s]]
          BY <1>3, <1>5, <4>1 DEF Enter
        <5> QED BY <5>1, <5>2 DEF Asked
      <4>2. CASE type # "tool"
        <5>1. UNCHANGED <<note, last, lastUser>>
          BY <1>3, <2>14, <4>2 DEF Enter, listVars
        <5> QED BY <5>1 DEF Asked
      <4> QED BY <4>1, <4>2
    <3>2. ResponseInv'
      BY <1>1, <2>9, <3>1, SameResponses DEF AnswerInv
    <3> QED BY <2>11, <2>12, <3>2
  <2> QED BY <2>13, <2>14
<1> QED BY <1>4, <1>5

-----------------------------------------------------------------------------
\* An interrupt, the end of a flow, and the start of a sub-flow.
LEMMA MoveAnswer ==
    AnswerInv /\ (Finish \/ Interrupt \/ EnterSub)
    => QuestionInv' /\ OwnerInv' /\ ResponseInv'
<1> SUFFICES ASSUME AnswerInv, Finish \/ Interrupt \/ EnterSub
             PROVE  QuestionInv' /\ OwnerInv' /\ ResponseInv'
  OBVIOUS
<1>1. /\ pc = "loop" /\ pc' \in {"return", "enter"}
      /\ UNCHANGED <<since, written, last, lastUser, note>>
      /\ conv \in [Flows -> Conversations]
      /\ pc' = "return" => ret'.type \in {"finished", "interrupted"}
  BY DEF Finish, Interrupt, EnterSub, At, ReturnWith, Status, history, listVars,
     AnswerInv, IInv, FlowsTyped
<1>2. \A g \in Flows : SameWait(g) /\ conv'[g].step = conv[g].step
  <2>1. CASE Finish \/ Interrupt
    BY <2>1 DEF Finish, Interrupt, SameWait
  <2>2. CASE EnterSub
    <3>1. PICK f : conv' = [conv EXCEPT ![f].alive = TRUE]
      BY <2>2 DEF EnterSub
    <3> QED BY <1>1, <3>1 DEF Conversations, SameWait
  <2> QED BY <2>1, <2>2
<1>3. \A g \in Flows : /\ Questioned(g)' => Questioned(g)
                       /\ conv'[g].response = conv[g].response
  BY <1>2 DEF Questioned, SameWait
<1>4. QuestionInv'
  <2> SUFFICES ASSUME NEW g \in Flows \ {Top}, Questioned(g)
               PROVE  OnTheWay(g)'
    BY <1>3 DEF QuestionInv
  <2>1. /\ OnTheWay(g) /\ Inner[Here] \in Above[g]
        /\ Above[Inner[Here]] = {Inner[Here]} \cup Above[Deepest] /\ Deepest # g
    BY <1>1, WaitHere
  <2>2. Above[g] \subseteq Flows
    BY FlowAssumption
  <2>3. \/ Deepest' = Deepest
        \/ pc' = "enter" /\ Deepest' = Inner[Here]
    <3>1. CASE Finish \/ Interrupt
      BY <3>1 DEF Finish, Interrupt, Deepest
    <3>2. CASE EnterSub
      <4>1. path \in Seq(Flows)
        BY DEF AnswerInv, IInv, PathInv
      <4>2. PICK f : f = Inner[Here]
        OBVIOUS
      <4>3. f \in Flows /\ path' = Append(path, f) /\ pc' = "enter"
        BY <2>1, <2>2, <3>2, <4>2 DEF EnterSub
      <4>4. path'[Len(path')] = f
        BY <4>1, <4>3
      <4> QED BY <4>2, <4>3, <4>4 DEF Deepest
    <3> QED BY <3>1, <3>2
  <2>4. Above[Deepest'] \subseteq Above[g] /\ (Deepest' = g => pc' = "enter")
    BY <1>1, <2>1, <2>3 DEF OnTheWay
  <2> QED BY <1>2, <2>1, <2>2, <2>4 DEF OnTheWay
<1>5. OwnerInv'
  BY <1>1, <1>2, SameOwners DEF AnswerInv, SameWait
<1>6. ResponseInv'
  BY <1>1, <1>3, SameResponses DEF AnswerInv, Asked
<1> QED BY <1>4, <1>5, <1>6

\* A step that runs no sub-flow asks or goes on: no sub-flow waits.
LEMMA StepAnswer ==
    /\ AnswerInv
    /\ \/ AskUser \/ TakeAnswer \/ RunClientTool \/ RunTool \/ AskConfirmation
       \/ ChooseBranch \/ Complete
    => QuestionInv' /\ OwnerInv' /\ ResponseInv'
<1> SUFFICES ASSUME AnswerInv,
                    \/ AskUser \/ TakeAnswer \/ RunClientTool \/ RunTool
                    \/ AskConfirmation \/ ChooseBranch \/ Complete
             PROVE  QuestionInv' /\ OwnerInv' /\ ResponseInv'
  OBVIOUS
<1>1. /\ pc = "loop" /\ Here # None /\ Kind[Here] \notin CompositeKinds
      /\ path' = path /\ written' = written /\ Deepest' = Deepest
      /\ conv \in [Flows -> Conversations] /\ note \in [Steps -> Notes]
  BY DEF AskUser, TakeAnswer, RunClientTool, RunTool, AskConfirmation,
     ChooseBranch, Complete, At, CompositeKinds, AnswerInv, IInv, FlowsTyped,
     Deepest, NotesInv
<1>2. /\ Here \in Steps /\ Deepest \in Flows /\ FlowOf[Here] = Deepest
      /\ conv[Deepest].step = Here
  BY <1>1, HereFacts DEF AnswerInv
<1>3. \A g \in Flows \ {Top} : ~Questioned(g)
  BY <1>1, WaitHere
<1>4. \/ Unasked
      \/ \E b : Pass(b)
      \/ AskUser
  BY DEF AskUser, TakeAnswer, RunClientTool, RunTool, AskConfirmation,
     ChooseBranch, Complete
<1>5. \A g \in Flows : SameWait(g)
  <2>1. conv' = conv \/ \E b : Leave(Here, b, conv, {})
    BY <1>4 DEF Unasked, Pass, AskUser
  <2>2. CASE conv' = conv
    BY <2>2 DEF SameWait
  <2>3. CASE \E b : Leave(Here, b, conv, {})
    <3>1. PICK s, c, D, b : /\ s \in Steps /\ c \in [Flows -> Conversations]
                            /\ c = conv /\ Leave(s, b, c, D)
      BY <1>1, <1>2, <2>3
    <3> QED BY <3>1, LeaveWait DEF SameWait
  <2> QED BY <2>1, <2>2, <2>3
<1>6. \A g \in Flows : /\ Questioned(g)' => Questioned(g)
                       /\ conv'[g].response = conv[g].response
  BY <1>5 DEF Questioned, SameWait
<1>7. QuestionInv'
  BY <1>3, <1>6 DEF QuestionInv
<1>8. OwnerInv'
  <2>1. \/ pc' # "return"
        \/ ret'.owner = Deepest
    <3>1. CASE \E b : Pass(b)
      BY <3>1 DEF Pass, Leave, Raise
    <3>2. CASE \E e : Raise(e)
      BY <3>2 DEF Raise
    <3>3. CASE ReturnWith(YieldStatus) \/ ReturnWith(Status("confirm", Deepest, Here))
      BY <3>3 DEF ReturnWith, YieldStatus, Status
    <3>4. \/ \E b : Pass(b)
          \/ \E e : Raise(e)
          \/ ReturnWith(YieldStatus) \/ ReturnWith(Status("confirm", Deepest, Here))
      BY DEF AskUser, TakeAnswer, RunClientTool, RunTool, AskConfirmation,
         ChooseBranch, Complete
    <3> QED BY <3>1, <3>2, <3>3, <3>4
  <2> QED BY <1>1, <1>5, <2>1, SameOwners DEF AnswerInv, SameWait
<1>9. Questioned(Top)' => conv'[Top].response = 0
  BY <1>6, FlowAssumption DEF AnswerInv, ResponseInv
<1>10. ResponseInv'
  <2>1. CASE AskUser
    <3>1. /\ since' = [since EXCEPT ![Here] = written]
          /\ note' = [note EXCEPT ![Here] = "asked"]
          /\ \/ last' = "agent"
             \/ Here \in Silent /\ UNCHANGED <<last, lastUser>>
      BY <2>1 DEF AskUser, listVars
    <3>2. \A s \in Steps : since'[s] \in {since[s], written}
      BY <3>1 DEF AnswerInv, IInv, CountsTyped
    <3>3. written \in Nat
      BY FlowAssumption DEF AnswerInv, IInv, RestTyped
    <3>4. \A s \in Steps : since'[s] <= written'
      BY <1>1, <3>2, <3>3 DEF AnswerInv, ResponseInv
    <3>5. last' = "user" => \A s \in Steps : Asked(s)' => lastUser' > since'[s]
      <4> SUFFICES ASSUME last' = "user", NEW s \in Steps, Asked(s)'
                   PROVE  lastUser' > since'[s]
        OBVIOUS
      <4>1. Here \in Silent /\ last = "user" /\ lastUser' = lastUser
        BY <3>1
      <4>2. s # Here
        BY <4>1 DEF Asked
      <4>3. note'[s] = note[s] /\ since'[s] = since[s]
        BY <3>1, <4>2 DEF AnswerInv, IInv, CountsTyped, RestTyped
      <4>4. Asked(s)
        BY <4>3 DEF Asked
      <4> QED BY <4>1, <4>3, <4>4 DEF AnswerInv, ResponseInv
    <3> QED BY <1>3, <1>6, <1>9, <3>4, <3>5 DEF ResponseInv
  <2>2. CASE Unasked /\ ~AskUser
    <3>1. since' = since
      BY <2>2 DEF Unasked
    <3>2. last' = "user" => last = "user" /\ lastUser' = lastUser
      BY <2>2 DEF AskUser, TakeAnswer, RunClientTool, RunTool, AskConfirmation,
         ChooseBranch, Complete, listVars, Unasked
    <3>3. ASSUME NEW s \in Steps, Asked(s)' PROVE Asked(s)
      <4>1. CASE note' = note
        BY <3>3, <4>1 DEF Asked
      <4>2. CASE note' # note
        <5>1. PICK v : /\ note' = [note EXCEPT ![Here] = v]
                       /\ v = "asked" => Kind[Here] # "input"
          <6>1. CASE AskConfirmation
            BY <4>2, <6>1 DEF AskConfirmation, At
          <6>2. CASE RunClientTool
            BY <4>2, <6>2 DEF RunClientTool, Pass
          <6>3. CASE TakeAnswer \/ RunTool \/ ChooseBranch \/ Complete
            BY <4>2, <6>3 DEF TakeAnswer, RunTool, ChooseBranch, Complete, Pass
          <6> QED BY <2>2, <6>1, <6>2, <6>3
        <5> QED BY <1>1, <1>2, <3>3, <5>1 DEF Asked
      <4> QED BY <4>1, <4>2
    <3> QED BY <1>1, <1>6, <3>1, <3>2, <3>3, SameResponses DEF AnswerInv
  <2>3. CASE (\E b : Pass(b)) /\ ~AskUser /\ ~Unasked
    <3>1. PICK b, c, D : /\ c = conv /\ D = {} /\ Leave(Here, b, c, D)
                         /\ note' = [note EXCEPT ![Here] = "none"]
      BY <2>3 DEF Pass
    <3>2. \A t \in Steps : Asked(t)' => Asked(t) /\ t # Here /\ FlowOf[t] \notin D
      BY <1>1, <1>2, <3>1 DEF Asked
    <3>3. PICK h : h = Here
      OBVIOUS
    <3>4. h \in Steps /\ conv[FlowOf[h]].step = h /\ Leave(h, b, c, D)
      BY <1>2, <3>1, <3>3
    <3>5. /\ \A t \in Steps : Asked(t)' => Asked(t) /\ since'[t] = since[t]
          /\ \A t \in Steps : since'[t] \in {since[t], written}
      BY <3>2, <3>3, <3>4, LeaveSince DEF AnswerInv
    <3>6. UNCHANGED <<last, lastUser>>
      BY <2>3 DEF AskUser, TakeAnswer, RunClientTool, RunTool, AskConfirmation,
         ChooseBranch, Complete, listVars, Unasked
    <3> QED BY <1>1, <1>3, <1>6, <1>9, <3>5, <3>6, LeftResponses DEF AnswerInv
  <2> QED BY <1>4, <2>1, <2>2, <2>3
<1> QED BY <1>7, <1>8, <1>10

-----------------------------------------------------------------------------
\* A conversation gets the status that its execution returned.
GetsStatus(f, r) ==
    /\ ResponseInv'
    /\ \A g \in Flows : Shared(conv[g].status.type, conv[g].status.owner)'
    /\ \A g \in Flows \ {f} : Questioned(g)' => Questioned(g)
    /\ \A g \in Flows : conv'[g].step = conv[g].step
    /\ r.type \in {"user", "tool"} /\ r.owner \in Flows
       => /\ conv'[r.owner].status.owner = r.owner
          /\ conv'[r.owner].status.type = r.type

LEMMA SettledAnswer ==
    ASSUME AnswerInv, pc = "return", NEW f \in Flows, f = Deepest,
           NEW r \in Statuses, r.type = ret.type,
           r.type # "confirm" => r.owner = ret.owner,
           conv' = Settled(f, r), UNCHANGED <<since, written, note, last, lastUser>>
    PROVE  GetsStatus(f, r)
<1>1. FlowsTyped
  BY DEF AnswerInv, IInv
<1>2. /\ \A g \in Flows : conv'[g].step = conv[g].step
      /\ conv'[f].status = r
      /\ \A g \in Flows \ {f} : conv'[g] = Detached(g, {f})
  <2>1. /\ \A g \in Flows : Settled(f, r)[g].step = conv[g].step
        /\ Settled(f, r)[f].status = r
        /\ \A g \in Flows \ {f} : Settled(f, r)[g] = Detached(g, {f})
    BY <1>1, SettledFlags
  <2> QED BY <2>1
<1>3. conv'[f].response = 0
  <2>1. conv'[f] = [conv[f] EXCEPT !.status = r, !.handled = FALSE, !.response = 0]
    BY DEF Settled
  <2>2. conv[f] \in Conversations /\ 0 \in 0..MaxMessages
    BY <1>1, FlowAssumption DEF FlowsTyped
  <2>3. PICK c1 \in Conversations : c1 = [conv[f] EXCEPT !.status = r]
    BY <2>2 DEF Conversations
  <2>4. PICK c2 \in Conversations : c2 = [c1 EXCEPT !.handled = FALSE]
    BY <2>3 DEF Conversations
  <2>5. PICK c3 \in Conversations : c3 = [c2 EXCEPT !.response = 0]
    BY <2>2, <2>4 DEF Conversations
  <2>6. c3 = conv'[f] /\ c3.response = 0
    BY <2>1, <2>2, <2>3, <2>4, <2>5 DEF Conversations
  <2> QED BY <2>6
<1>4. \A g \in Flows : g \notin {f} => DetachedFrom(g, {f})
  BY <1>2 DEF DetachedFrom
<1>5. ASSUME NEW g \in Flows \ {f}
      PROVE  /\ Questioned(g)' => Questioned(g)
             /\ conv'[g].response = conv[g].response
  <2>1. PICK F : F = {f}
    OBVIOUS
  <2>2. DetachedFrom(g, F) /\ g \notin F
    BY <1>4, <2>1
  <2> QED BY <1>1, <2>2, DetachedQuestion
<1>6. r.type \in {"user", "tool"} /\ r.owner \in Flows
      => /\ conv'[r.owner].status.owner = r.owner
         /\ conv'[r.owner].status.type = r.type
  <2> SUFFICES ASSUME r.type \in {"user", "tool"}, r.owner \in Flows
               PROVE  /\ conv'[r.owner].status.owner = r.owner
                      /\ conv'[r.owner].status.type = r.type
    OBVIOUS
  <2>1. CASE r.owner = f
    BY <1>2, <2>1
  <2>2. CASE r.owner # f
    <3>1. /\ conv[r.owner].status.owner = r.owner
          /\ conv[r.owner].status.type = r.type
      BY <2>2 DEF AnswerInv, OwnerInv, Shared
    <3>2. PICK o : o = r.owner
      OBVIOUS
    <3>3. /\ conv'[o].status.type = conv[o].status.type
          /\ conv'[o].status.owner = IF conv[o].status.owner \in {f} THEN None
                                     ELSE conv[o].status.owner
      BY <1>1, <1>4, <2>2, <3>2, DetachedWait DEF DetachedFrom
    <3> QED BY <2>2, <3>1, <3>2, <3>3
  <2> QED BY <2>1, <2>2
<1>7. \A g \in Flows : Shared(conv[g].status.type, conv[g].status.owner)'
  <2>1. PICK F : F = {f}
    OBVIOUS
  <2>2. \A g \in Flows : g \in F =>
           Shared(conv[g].status.type, conv[g].status.owner)'
    BY <1>2, <1>6, <2>1 DEF Shared
  <2>3. \A g \in Flows : g \notin F => DetachedFrom(g, F)
    BY <1>4, <2>1
  <2>4. OwnerInv
    BY DEF AnswerInv
  <2> QED BY <1>1, <2>2, <2>3, <2>4, DetachedOwners
<1>8. ResponseInv'
  BY <1>3, <1>5, SameResponses DEF AnswerInv, Asked
<1> QED BY <1>2, <1>5, <1>6, <1>7, <1>8 DEF GetsStatus

LEMMA ReturnAnswer ==
    AnswerInv /\ ReturnToCaller => QuestionInv' /\ OwnerInv' /\ ResponseInv'
<1> SUFFICES ASSUME AnswerInv, ReturnToCaller
             PROVE  QuestionInv' /\ OwnerInv' /\ ResponseInv'
  OBVIOUS
<1>1. /\ pc = "return" /\ Len(path) = 1 /\ pc' = "idle"
      /\ UNCHANGED <<since, written, note, last, lastUser>>
  BY DEF ReturnToCaller, history, listVars
<1>2. PICK f, r : f = Top /\ r = ret
  OBVIOUS
<1>3. f \in Flows /\ f = Deepest /\ r \in Statuses /\ conv' = Settled(f, r)
  BY <1>1, <1>2, FlowAssumption DEF ReturnToCaller, AnswerInv, Tree, Deepest, IInv,
     ControlTyped
<1>4. /\ ResponseInv'
      /\ \A g \in Flows : Shared(conv[g].status.type, conv[g].status.owner)'
      /\ \A g \in Flows \ {f} : Questioned(g)' => Questioned(g)
      /\ \A g \in Flows : conv'[g].step = conv[g].step
  <2>1. GetsStatus(f, r)
    BY <1>1, <1>2, <1>3, SettledAnswer
  <2> QED BY <2>1 DEF GetsStatus
<1>5. OwnerInv'
  BY <1>1, <1>4 DEF OwnerInv
<1>6. QuestionInv'
  <2> SUFFICES ASSUME NEW g \in Flows \ {Top}, Questioned(g)'
               PROVE  OnTheWay(g)'
    BY DEF QuestionInv
  <2>1. OnTheWay(g) /\ Above[g] \subseteq Flows
    BY <1>2, <1>4, FlowAssumption DEF AnswerInv, QuestionInv
  <2> QED BY <1>1, <1>4, <2>1 DEF OnTheWay
<1> QED BY <1>4, <1>5, <1>6

\* A sub-flow that yields is the one that the execution gets back to.
LEMMA YieldAnswer ==
    AnswerInv /\ StepYields => QuestionInv' /\ OwnerInv' /\ ResponseInv'
<1> SUFFICES ASSUME AnswerInv, StepYields
             PROVE  QuestionInv' /\ OwnerInv' /\ ResponseInv'
  OBVIOUS
<1>1. /\ pc = "return" /\ Len(path) > 1 /\ path' = Outer
      /\ UNCHANGED <<since, written, note, last, lastUser>>
  BY DEF StepYields, listVars
<1>2. PICK f, r : /\ f = Deepest
                  /\ r = [ret EXCEPT !.owner = IF ret.type = "confirm" THEN Caller
                                                                       ELSE @]
  OBVIOUS
<1>3. /\ Caller \in Flows /\ f \in Flows /\ Deepest' = Caller
      /\ Above[f] = {f} \cup Above[Caller] /\ f \notin Above[Caller]
  <2>1. /\ Caller \in Flows /\ Composite \in Steps /\ Inner[Composite] = f
        /\ f \in Flows /\ FlowOf[Composite] = Caller /\ f \notin Above[Caller]
        /\ Deepest' = Caller
    BY <1>1, <1>2, CallerFacts, SubFacts DEF AnswerInv
  <2>2. Above[f] = {f} \cup Above[Caller]
    BY <2>1, FlowAssumption
  <2> QED BY <2>1, <2>2
<1>4. r \in Statuses /\ r.type = ret.type /\ (r.type # "confirm" => r.owner = ret.owner)
  BY <1>2, <1>3 DEF AnswerInv, IInv, ControlTyped, Statuses
<1>5. conv' = Settled(f, r) /\ pc' \in {"return", "raise"} /\ (pc' = "return" => ret' = r)
  BY <1>2 DEF StepYields, ReturnWith, Raise
<1>6. /\ ResponseInv'
      /\ \A g \in Flows : Shared(conv[g].status.type, conv[g].status.owner)'
      /\ \A g \in Flows \ {f} : Questioned(g)' => Questioned(g)
      /\ \A g \in Flows : conv'[g].step = conv[g].step
      /\ r.type \in {"user", "tool"} /\ r.owner \in Flows
         => /\ conv'[r.owner].status.owner = r.owner
            /\ conv'[r.owner].status.type = r.type
  <2>1. GetsStatus(f, r)
    BY <1>1, <1>2, <1>3, <1>4, <1>5, SettledAnswer
  <2> QED BY <2>1 DEF GetsStatus
<1>7. OwnerInv'
  BY <1>5, <1>6 DEF OwnerInv, Shared
<1>8. Deepest \in Above[Deepest] /\ Top \in Above[Deepest]
  <2>1. Len(path) \in Nat \ {0} /\ path[1] = Top
    BY <1>1, PathFacts DEF AnswerInv, IInv, Tree
  <2> QED BY <1>1, <2>1, AroundDeepest DEF AnswerInv
<1>9. QuestionInv'
  <2> SUFFICES ASSUME NEW g \in Flows \ {Top}, Questioned(g)'
               PROVE  OnTheWay(g)'
    BY DEF QuestionInv
  <2>1. Above[g] \subseteq Flows
    BY FlowAssumption
  <2>2. CASE g = f
    <3>1. \A a \in Above[g] \ {g} : /\ conv[a].step # None
                                    /\ Inner[conv[a].step] \in Above[g]
      BY <1>1, <1>2, <2>2, WayInto DEF AnswerInv
    <3>2. Above[Deepest'] \subseteq Above[g] /\ Deepest' # g
      BY <1>3, <1>8, <1>2, <2>2
    <3> QED BY <1>2, <1>6, <1>8, <2>1, <2>2, <3>1, <3>2 DEF OnTheWay
  <2>3. CASE g # f
    <3>1. OnTheWay(g)
      BY <1>6, <2>3 DEF AnswerInv, QuestionInv
    <3>2. Above[f] \subseteq Above[g]
      BY <1>1, <1>2, <3>1 DEF OnTheWay
    <3>3. Above[Deepest'] \subseteq Above[g] /\ Deepest' # g
      BY <1>3, <3>2
    <3> QED BY <1>6, <2>1, <3>1, <3>3 DEF OnTheWay
  <2> QED BY <2>2, <2>3
<1> QED BY <1>6, <1>7, <1>9

-----------------------------------------------------------------------------
\* A step that ran a sub-flow drops its conversation and those below it.  Every
\* sub-flow that waited is among them.
LEMMA DroppedAnswer ==
    ASSUME AnswerInv, NEW p \in Steps, NEW f \in Flows, Inner[p] = f,
           Kind[p] \in CompositeKinds, conv[FlowOf[p]].step = p,
           \A g \in Flows \ {Top} : Questioned(g) => g \in Below(f),
           \/ \E b : Leave(p, b, Without(f), Below(f))
           \/ conv' = Without(f) /\ pc' = "loop"
              /\ since' = [s \in Steps |-> IF FlowOf[s] \in Below(f) THEN written
                                                                    ELSE since[s]],
           Forget(f), UNCHANGED <<written, last, lastUser>>
    PROVE  QuestionInv' /\ OwnerInv' /\ ResponseInv'
<1>1. FlowsTyped
  BY DEF AnswerInv, IInv
<1>2. PICK c, D : c = Without(f) /\ D = Below(f)
  OBVIOUS
<1>3. c \in [Flows -> Conversations]
  BY <1>1, <1>2, WithoutTyped
<1>4. \A g \in Flows : /\ conv'[g].status = c[g].status
                       /\ conv'[g].handled = c[g].handled
                       /\ conv'[g].response = c[g].response
  <2>1. CASE conv' = c
    BY <2>1
  <2>2. CASE \E b : Leave(p, b, c, D)
    BY <1>3, <2>2, LeaveWait
  <2> QED BY <1>2, <2>1, <2>2
<1>5. \A g \in Flows : g \notin D => DetachedFrom(g, D)
  BY <1>1, <1>2, <1>4, WithoutWait DEF DetachedFrom
<1>6. \A g \in Flows : g \in D => conv'[g].status = NoStatus
  BY <1>1, <1>2, <1>4, WithoutWait
<1>7. \A g \in Flows : g \in D => ~Questioned(g)'
  BY <1>6 DEF Questioned, NoStatus
<1>8. \A g \in Flows : Questioned(g)' => /\ g \notin D /\ Questioned(g)
                                         /\ conv'[g].response = conv[g].response
  BY <1>1, <1>5, <1>7, DetachedQuestion
<1>9. \A g \in Flows \ {Top} : ~Questioned(g)'
  BY <1>2, <1>8
<1>10. pc' \in {"loop", "raise"}
  BY DEF Leave, Raise
<1>11. OwnerInv'
  <2>1. \A g \in Flows : g \in D =>
           Shared(conv[g].status.type, conv[g].status.owner)'
    BY <1>6 DEF Shared, NoStatus
  <2>2. OwnerInv
    BY DEF AnswerInv
  <2>3. \A g \in Flows : Shared(conv[g].status.type, conv[g].status.owner)'
    BY <1>1, <1>5, <2>1, <2>2, DetachedOwners
  <2> QED BY <1>10, <2>3 DEF OwnerInv
<1>12. QuestionInv'
  BY <1>9 DEF QuestionInv
<1>13. ResponseInv'
  <2>1. \A t \in Steps : Asked(t)' => Asked(t) /\ t # p /\ FlowOf[t] \notin D
    <3>1. \A t \in Steps : note'[t] = IF FlowOf[t] \in D THEN "none" ELSE note[t]
      BY <1>2 DEF Forget
    <3> QED BY <3>1 DEF Asked, CompositeKinds
  <2>2. /\ \A t \in Steps : Asked(t)' => Asked(t) /\ since'[t] = since[t]
        /\ \A t \in Steps : since'[t] \in {since[t], written}
    <3>1. CASE \E b : Leave(p, b, c, D)
      <4>1. PICK b : Leave(p, b, c, D)
        BY <3>1
      <4> QED BY <2>1, <4>1, LeaveSince DEF AnswerInv
    <3>2. CASE since' = [s \in Steps |-> IF FlowOf[s] \in D THEN written
                                                          ELSE since[s]]
      BY <2>1, <3>2
    <3> QED BY <1>2, <3>1, <3>2
  <2>3. Questioned(Top)' => conv'[Top].response = 0
    BY <1>8, FlowAssumption DEF AnswerInv, ResponseInv
  <2> QED BY <1>9, <2>2, <2>3, LeftResponses DEF AnswerInv
<1> QED BY <1>11, <1>12, <1>13

LEMMA LeftAnswer ==
    /\ AnswerInv
    /\ \/ SubFlowEnds \/ TrialSucceeds \/ TrialFails \/ Propagate
       \/ CatchInterrupt \/ RaiseToCaller
    => QuestionInv' /\ OwnerInv' /\ ResponseInv'
<1> SUFFICES ASSUME AnswerInv,
                    \/ SubFlowEnds \/ TrialSucceeds \/ TrialFails \/ Propagate
                    \/ CatchInterrupt \/ RaiseToCaller
             PROVE  QuestionInv' /\ OwnerInv' /\ ResponseInv'
  OBVIOUS
<1>1. UNCHANGED <<written, last, lastUser>>
  BY DEF SubFlowEnds, TrialSucceeds, TrialFails, Propagate, CatchInterrupt,
     RaiseToCaller, listVars
<1>2. CASE \/ SubFlowEnds \/ TrialSucceeds \/ TrialFails
           \/ Propagate /\ Forget(Deepest)
                /\ Leave(Composite, "error", Without(Deepest), Below(Deepest))
  <2>1. pc \in {"return", "raise"} /\ Len(path) > 1
    BY <1>2 DEF SubFlowEnds, TrialSucceeds, TrialFails, Propagate, Ended
  <2>2. PICK p, f : p = Composite /\ f = Deepest
    OBVIOUS
  <2>3. /\ p \in Steps /\ f \in Flows /\ Inner[p] = f /\ conv[FlowOf[p]].step = p
    BY <2>1, <2>2, CallerFacts DEF AnswerInv
  <2>4. Kind[p] \in CompositeKinds
    BY <2>3, FlowAssumption
  <2>5. \A g \in Flows \ {Top} : Questioned(g) => g \in Below(f)
    <3>1. Deepest \in Above[Deepest]
      BY <2>1, AroundDeepest DEF AnswerInv
    <3> QED BY <2>1, <2>2, <3>1 DEF AnswerInv, QuestionInv, OnTheWay, Below
  <2>6. /\ Forget(f)
        /\ \/ \E b : Leave(p, b, Without(f), Below(f))
           \/ conv' = Without(f) /\ pc' = "loop"
              /\ since' = [s \in Steps |-> IF FlowOf[s] \in Below(f) THEN written
                                                                    ELSE since[s]]
    <3>1. CASE SubFlowEnds
      BY <2>2, <3>1 DEF SubFlowEnds
    <3>2. CASE TrialSucceeds
      BY <2>2, <3>2 DEF TrialSucceeds
    <3>3. CASE TrialFails
      BY <2>2, <3>3 DEF TrialFails, TryAgain, GiveUp
    <3>4. CASE Propagate
      BY <1>2, <2>1, <2>2, <3>4 DEF Propagate, SubFlowEnds, TrialSucceeds, TrialFails, Ended
    <3> QED BY <1>2, <3>1, <3>2, <3>3, <3>4
  <2> QED BY <1>1, <2>3, <2>4, <2>5, <2>6, DroppedAnswer
<1>3. CASE CatchInterrupt
  <2>1. /\ pc = "loop" /\ Here # None /\ Kind[Here] \in CompositeKinds
    BY <1>3 DEF CatchInterrupt, At, CompositeKinds
  <2>2. PICK p, f : p = Here /\ f = Inner[Here]
    OBVIOUS
  <2>3. /\ p \in Steps /\ f \in Flows /\ Inner[p] = f /\ conv[FlowOf[p]].step = p
    BY <2>1, <2>2, HereFacts, FlowAssumption DEF AnswerInv
  <2>4. \A g \in Flows \ {Top} : Questioned(g) => g \in Below(f)
    BY <2>1, <2>2, WaitHere DEF Below
  <2>5. Forget(f) /\ \E b : Leave(p, b, Without(f), Below(f))
    BY <1>3, <2>2 DEF CatchInterrupt
  <2> QED BY <1>1, <2>1, <2>2, <2>3, <2>4, <2>5, DroppedAnswer
<1>4. CASE /\ UNCHANGED <<conv, note, since>>
           /\ RaiseToCaller \/ (Propagate /\ pc' = pc)
  <2>1. /\ pc = "raise" /\ pc' \in {"idle", "raise"}
        /\ pc' # "idle" => Len(path) > 1 /\ path' = Outer
    BY <1>4 DEF Propagate, RaiseToCaller
  <2>2. QuestionInv'
    <3> SUFFICES ASSUME NEW g \in Flows \ {Top}, Questioned(g)
                 PROVE  OnTheWay(g)'
      BY <1>4 DEF QuestionInv, Questioned
    <3>1. OnTheWay(g)
      BY DEF AnswerInv, QuestionInv
    <3>2. ASSUME pc' # "idle"
          PROVE  Above[Deepest'] \subseteq Above[g] /\ Deepest' # g
      <4>1. /\ Caller \in Flows /\ Composite \in Steps /\ Inner[Composite] = Deepest
            /\ FlowOf[Composite] = Caller /\ Deepest \notin Above[Caller]
            /\ Deepest' = Caller /\ Deepest \in Flows
        BY <2>1, <3>2, CallerFacts, SubFacts DEF AnswerInv
      <4>2. Above[Deepest] = {Deepest} \cup Above[Caller]
        BY <4>1, FlowAssumption
      <4>3. Above[Deepest] \subseteq Above[g]
        BY <2>1, <3>1 DEF OnTheWay
      <4> QED BY <4>1, <4>2, <4>3
    <3> QED BY <1>4, <3>1, <3>2 DEF OnTheWay
  <2>3. OwnerInv'
    BY <1>4, <2>1, SameOwners DEF AnswerInv
  <2>4. \A g \in Flows : Questioned(g)' =>
           Questioned(g) /\ conv'[g].response = conv[g].response
    BY <1>4 DEF Questioned
  <2>5. ResponseInv'
    BY <1>1, <1>4, <2>4, SameResponses DEF AnswerInv, Asked
  <2> QED BY <2>2, <2>3, <2>5
<1>5. Propagate => \/ Forget(Deepest)
                        /\ Leave(Composite, "error", Without(Deepest), Below(Deepest))
                   \/ UNCHANGED <<pc, conv, note, since>>
  BY DEF Propagate, history
<1>6. RaiseToCaller => UNCHANGED <<conv, note, since>>
  BY DEF RaiseToCaller, history
<1> QED BY <1>2, <1>3, <1>4, <1>5, <1>6

LEMMA NextAnswer == AnswerInv /\ [Next]_vars => AnswerInv'
<1> SUFFICES ASSUME AnswerInv, [Next]_vars PROVE AnswerInv'
  OBVIOUS
<1>1. IInv' /\ Tree'
  BY NextInv, TreeNext DEF AnswerInv
<1>2. CASE UNCHANGED vars
  <2>1. QuestionInv' /\ OwnerInv'
    BY <1>2 DEF vars, AnswerInv, QuestionInv, Questioned, OnTheWay, OwnerInv, Shared,
       Deepest
  <2>2. ResponseInv'
    BY <1>2 DEF vars, listVars, history, AnswerInv, ResponseInv, Questioned, Asked
  <2> QED BY <1>1, <2>1, <2>2 DEF AnswerInv
<1>3. CASE Next
  <2>1. QuestionInv' /\ OwnerInv' /\ ResponseInv'
    BY <1>3, CallerAnswer, EnterAnswer, MoveAnswer, StepAnswer, ReturnAnswer,
       YieldAnswer, LeftAnswer DEF Next, Run
  <2> QED BY <1>1, <2>1 DEF AnswerInv
<1> QED BY <1>2, <1>3

\* An input step without a message template takes whatever the last message is
\* for its answer; the others output a message the user wrote after they asked,
\* through any nesting of flows, interrupts and exceptions between the two.
OthersAnswersAreNew ==
    [][\A s \in Steps \ Silent :
          /\ Kind[s] = "input" /\ At({"input"}) /\ Here = s
          /\ conv'[FlowOf[s]].step # s
          => lastUser > since[s]]_vars

THEOREM AnswersFollowQuestions == Spec => OthersAnswersAreNew
<1>1. Init => AnswerInv
  BY InitAnswer
<1>2. AnswerInv /\ [Next]_vars => AnswerInv'
  BY NextAnswer
<1>3. AnswerInv /\ [Next]_vars
      => [\A s \in Steps \ Silent :
             /\ Kind[s] = "input" /\ At({"input"}) /\ Here = s
             /\ conv'[FlowOf[s]].step # s
             => lastUser > since[s]]_vars
  <2> SUFFICES ASSUME AnswerInv, Next, NEW s \in Steps \ Silent, Kind[s] = "input",
                      At({"input"}), Here = s, conv'[FlowOf[s]].step # s
               PROVE  lastUser > since[s]
    OBVIOUS
  <2>1. pc = "loop" /\ Here # None /\ conv[FlowOf[s]].step = s
    BY HereFacts DEF At, AnswerInv
  <2>2. conv' # conv
    BY <2>1
  <2>3. \/ AskUser \/ TakeAnswer \/ Interrupt
    <3>1. ~Outside
      BY <2>1 DEF Outside, UserMessage, SubmitToolResult, DecideConfirmation, Execute
    <3>2. ~(RunClientTool \/ RunTool \/ AskConfirmation \/ ChooseBranch \/ Complete
            \/ EnterSub \/ CatchInterrupt \/ Finish)
      BY <2>1 DEF RunClientTool, RunTool, AskConfirmation, ChooseBranch, Complete,
         EnterSub, CatchInterrupt, Finish, At, CompositeKinds
    <3>3. ~(Enter \/ ReturnToCaller \/ StepYields \/ SubFlowEnds \/ TrialSucceeds
            \/ TrialFails \/ Propagate \/ RaiseToCaller)
      BY <2>1 DEF Enter, ReturnToCaller, StepYields, SubFlowEnds, TrialSucceeds,
         TrialFails, Propagate, RaiseToCaller, Ended
    <3> QED BY <3>1, <3>2, <3>3 DEF Next, Run
  <2>4. TakeAnswer
    BY <2>2, <2>3 DEF AskUser, Interrupt
  <2>5. note[s] = "asked" /\ last = "user"
    BY <2>2, <2>4 DEF TakeAnswer, Unasked
  <2> QED BY <2>5 DEF AnswerInv, ResponseInv, Asked
<1> QED BY <1>1, <1>2, <1>3, PTL DEF Spec, OthersAnswersAreNew

\* So every answer is new where every input step has a message template.
THEOREM AnswersComeLater ==
    ASSUME Silent = {}
    PROVE  Spec => AnswersAreNew
<1>1. [\A s \in Steps \ Silent :
          /\ Kind[s] = "input" /\ At({"input"}) /\ Here = s
          /\ conv'[FlowOf[s]].step # s
          => lastUser > since[s]]_vars
      => [\A s \in Steps :
             /\ Kind[s] = "input" /\ At({"input"}) /\ Here = s
             /\ conv'[FlowOf[s]].step # s
             => lastUser > since[s]]_vars
  OBVIOUS
<1> QED BY <1>1, AnswersFollowQuestions, PTL DEF OthersAnswersAreNew, AnswersAreNew

=============================================================================
